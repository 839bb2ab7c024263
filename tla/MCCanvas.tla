------------------------------ MODULE MCCanvas ------------------------------
(***************************************************************************)
(* Instances of the canvas editor for TLC.                                 *)
(***************************************************************************)
EXTENDS CanvasEditor, TLC

(***************************************************************************)
(* A switch whose first case leads to a branch, stored with its layout; a  *)
(* single gate that was never laid out; a workflow that is still empty.    *)
(***************************************************************************)
SwitchStep ==
    [BlankStep("switch") EXCEPT
        !.fields = [default |-> Null],
        !.cases = <<[key |-> 1, conditions |-> "always", next |-> 2],
                    [key |-> 2, conditions |-> "tree", next |-> Null]>>]

Routing ==
    [steps |-> 1 :> SwitchStep @@ 2 :> BlankStep("branch"), entry |-> 1,
     ui |-> 1 :> "stored" @@ 2 :> "stored"]

Unplaced == [steps |-> 3 :> BlankStep("approval"), entry |-> 3, ui |-> <<>>]

Blank == [steps |-> <<>>, entry |-> Null, ui |-> <<>>]

Settled == [named |-> TRUE, trigger |-> "registered"]

CanvasSettings == {Settled, [Settled EXCEPT !.trigger = "unregistered"]}

CanvasMounts ==
    {[def |-> d, conditions |-> "always", settings |-> Settled] : d \in {Routing, Unplaced}}
    \cup {[def |-> Blank, conditions |-> "always", settings |-> [Settled EXCEPT !.named = FALSE]]}
=============================================================================
