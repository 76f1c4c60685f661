------------------------------ MODULE MCAlerts ------------------------------
(***************************************************************************)
(* Instances of AlertLifecycle for TLC.                                    *)
(***************************************************************************)
EXTENDS AlertProperties, TLC

CONSTANTS r1, r2, w1, w2, u1, u2

(* Rules, tasks and handlers are interchangeable; only safety runs use it. *)
Symmetry == Permutations(Rules) \union Permutations(Workers) \union Permutations(Users)
=============================================================================
