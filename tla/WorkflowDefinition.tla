------------------------- MODULE WorkflowDefinition -------------------------
(***************************************************************************)
(* The pinned definition snapshot of one workflow execution: a graph of    *)
(* typed steps whose edges are named by the step's type                    *)
(* (Model/Definition/Definition.php).  A null edge ends the walk.          *)
(***************************************************************************)

CONSTANTS
    Steps,      \* the step keys of the definition
    NoStep,     \* the null step: no current step, a null edge, an empty definition
    Entry,      \* the entry step, or NoStep for a definition without steps
    StepType,   \* the type of each step
    Edge,       \* Edge[s][name]: the target of each declared edge of s
    Events,     \* event names
    NoEvent,    \* the null waiting_event
    EventOf     \* the event a wait step waits for

StepTypes == {"action", "delay", "wait", "branch", "switch", "approval", "stop"}

ParkingTypes == {"delay", "wait", "approval"}

(***************************************************************************)
(* The edges a type declares.  A switch declares its default and one edge  *)
(* per case, whatever the cases are called.                                *)
(***************************************************************************)
HasDeclaredEdges(type, names) ==
    CASE type \in {"action", "delay"} -> names = {"next"}
      [] type = "branch"   -> names = {"on_true", "on_false"}
      [] type = "wait"     -> names = {"on_event", "on_timeout"}
      [] type = "approval" -> names = {"on_approved", "on_rejected", "on_timeout"}
      [] type = "switch"   -> "default" \in names
      [] type = "stop"     -> names = {}

\* What the parser guarantees of a snapshot it accepts.
ASSUME DefinitionAssumption ==
    /\ NoStep \notin Steps
    /\ Entry \in Steps \cup {NoStep}
    /\ (Entry = NoStep) => (Steps = {})
    /\ StepType \in [Steps -> StepTypes]
    /\ \A s \in Steps :
          /\ Edge[s] \in [DOMAIN Edge[s] -> Steps \cup {NoStep}]
          /\ HasDeclaredEdges(StepType[s], DOMAIN Edge[s])
    /\ NoEvent \notin Events
    /\ \A s \in Steps : StepType[s] = "wait" => EventOf[s] \in Events

Targets == Steps \cup {NoStep}

Successors(s) == {Edge[s][name] : name \in DOMAIN Edge[s]}
=============================================================================
