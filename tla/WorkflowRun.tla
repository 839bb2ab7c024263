---------------------------- MODULE WorkflowRun ----------------------------
(***************************************************************************)
(* What the engine promises of one execution, as an operator who watches   *)
(* its row sees it: it starts at the entry step, moves along the edges of  *)
(* the definition only, stops at the steps that park, leaves them only     *)
(* after it was woken, is skipped before it began or never, and ends once. *)
(***************************************************************************)
EXTENDS WorkflowDefinition

VARIABLES
    phase,   \* what the execution is doing
    at       \* the step it is at: the one to continue with when it parks

runVars == <<phase, at>>

Phases == {"new", "active", "parked", "woken", "complete", "failed", "skipped"}

RunInit == phase = "new" /\ at = NoStep

Begin ==
    /\ phase = "new"
    /\ Entry # NoStep
    /\ phase' = "active"
    /\ at' = Entry

Skip ==
    /\ phase = "new"
    /\ phase' = "skipped"
    /\ UNCHANGED at

Advance ==
    /\ phase = "active"
    /\ at # NoStep
    /\ StepType[at] \in {"action", "branch", "switch"}
    /\ at' \in Successors(at) \ {NoStep}
    /\ UNCHANGED phase

\* A delay parks on the step after it, a wait and an approval on themselves.
Park ==
    /\ phase = "active"
    /\ at # NoStep
    /\ StepType[at] \in ParkingTypes
    /\ phase' = "parked"
    /\ at' = IF StepType[at] = "delay" THEN Edge[at]["next"] ELSE at

\* A waker claims the execution, and takes the claim back if it cannot publish.
Wake == phase = "parked" /\ phase' = "woken" /\ UNCHANGED at
Unwake == phase = "woken" /\ phase' = "parked" /\ UNCHANGED at

\* The outcome of a wait or an approval picks an edge; after a delay, and when
\* a crash has lost the outcome, the execution goes on with the step it is at.
Resume ==
    /\ phase = "woken"
    /\ phase' = "active"
    /\ \/ UNCHANGED at
       \/ /\ at # NoStep
          /\ StepType[at] \in {"wait", "approval"}
          /\ at' \in Successors(at)

AtTheEnd ==
    \/ phase = "new" /\ Entry = NoStep
    \/ /\ phase = "active"
       /\ at = NoStep \/ (StepType[at] \in {"action", "branch", "switch"} /\ NoStep \in Successors(at))
                      \/ StepType[at] = "stop"

Finish ==
    /\ AtTheEnd
    /\ phase' = "complete"
    /\ at' = NoStep

Fail ==
    /\ phase \in {"new", "active"}
    /\ phase' = "failed"
    /\ UNCHANGED at

RunNext ==
    \/ Begin \/ Skip \/ Advance \/ Park \/ Wake \/ Unwake \/ Resume \/ Finish \/ Fail

RunSpec == RunInit /\ [][RunNext]_runVars
=============================================================================
