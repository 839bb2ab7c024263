------------------------------ MODULE MCEngine ------------------------------
(***************************************************************************)
(* Instances of the engine for TLC: two definitions and the symmetry of    *)
(* the processes.  The configurations choose the processes and the faults. *)
(***************************************************************************)
EXTENDS Engine, TLC

CONSTANTS c1, c2, d1, d2, a1, a2, None

EventNames == {"invoice_paid"}

(***************************************************************************)
(* The journey: every kind of park, one after another or on its own, and   *)
(* an edge of its own for every way a park can end.                        *)
(***************************************************************************)
JourneyTypes ==
    "b" :> "branch" @@ "w" :> "wait" @@ "g" :> "approval" @@ "d" :> "delay"
    @@ "a" :> "action" @@ "z" :> "stop"

JourneyEdges ==
    "b" :> ("on_true" :> "w" @@ "on_false" :> "g")
    @@ "w" :> ("on_event" :> "g" @@ "on_timeout" :> "z")
    @@ "g" :> ("on_approved" :> "a" @@ "on_rejected" :> "z" @@ "on_timeout" :> "d")
    @@ "d" :> ("next" :> "a")
    @@ "a" :> ("next" :> "z")
    @@ "z" :> <<>>

JourneySteps == DOMAIN JourneyTypes

JourneyEvents == "w" :> "invoice_paid"

(***************************************************************************)
(* A definition that save-time validation would have refused: it loops,    *)
(* and it has a gate although no approvals module is installed.            *)
(***************************************************************************)
BypassTypes ==
    "k" :> "switch" @@ "x" :> "branch" @@ "t" :> "delay" @@ "g" :> "approval"
    @@ "a" :> "action"

BypassEdges ==
    "k" :> ("default" :> "x" @@ "large" :> "t" @@ "manual" :> "g" @@ "small" :> None)
    @@ "x" :> ("on_true" :> "k" @@ "on_false" :> "t")
    @@ "t" :> ("next" :> "a")
    @@ "a" :> ("next" :> None)
    @@ "g" :> ("on_approved" :> "x" @@ "on_rejected" :> None @@ "on_timeout" :> "x")

BypassSteps == DOMAIN BypassTypes

BypassEvents == <<>>

(***************************************************************************)
(* Processes of one kind are interchangeable; used for safety only.        *)
(***************************************************************************)
ProcessSymmetry ==
    Permutations({c1, c2}) \cup Permutations({d1, d2}) \cup Permutations({a1, a2})
=============================================================================
