---------------------------- MODULE MCWorkspace ----------------------------
(***************************************************************************)
(* Instances of Workspace for TLC.                                         *)
(***************************************************************************)
EXTENDS Workspace, TLC

CONSTANTS o1, u1, inv1, inv2, q1, q2

Symmetry == Permutations(Requests) \union Permutations(Invites)

(* Members, key and dashboard share nothing but the role that Begin reads. *)
(* To keep the run small, requests are about one of the three at a time,   *)
(* and invitations exclude the other two for good.                         *)
OneConcern ==
  LET Asked(ops) == \E q \in Requests : req[q].op \in ops
  IN  Cardinality({c \in {"members", "key", "dashboard"} :
        CASE c = "members"   -> \/ Asked(MemberOps \union {"invite", "accept"})
                                \/ \E i \in Invites : invite[i].state # "absent"
          [] c = "key"       -> Asked(KeyOps) \/ key # NoKey
          [] c = "dashboard" -> Asked(DashboardOps) \/ dashboard # NoDashboard}) <= 1
=============================================================================
