----------------------------- MODULE MCBatches ------------------------------
(***************************************************************************)
(* Instances of window-mode aggregation for TLC.                           *)
(***************************************************************************)
EXTENDS Batches, TLC

CONSTANTS p1, p2, f1, f2, e1, e2

(***************************************************************************)
(* Processes of one kind, and entities, are interchangeable; used where    *)
(* only safety is checked.                                                 *)
(***************************************************************************)
ProcessSymmetry ==
    Permutations({p1, p2}) \cup Permutations({f1, f2}) \cup Permutations({e1, e2})
=============================================================================
