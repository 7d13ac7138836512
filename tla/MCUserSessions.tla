--------------------------- MODULE MCUserSessions ---------------------------
(* The first accounts: a Hub Super Admin, a Hub Admin, the administrator     *)
(* of one DFSP and an operator of another; new accounts share one address.  *)
EXTENDS UserSessions, TLC
CONSTANTS h1, h2, d1, d2, e0, e1, e2, e3, e4
Row(e, o, d, i) ==
  [email |-> e, role |-> o, dfsp |-> d, creator |-> Nobody, status |-> "Active",
   password |-> i, must |-> FALSE]
MCSeeded == <<Row(e0, "HubSuperAdmin", NoDfsp, 1), Row(e1, "HubAdmin", NoDfsp, 2),
              Row(e2, "DfspAdmin", d1, 3), Row(e3, "DfspOperator", d2, 4)>>
Symmetry == Permutations(Handlers)
=============================================================================
