------------------------ MODULE MCMerchantApproval ------------------------
(* Instances of MerchantApproval for TLC: one merchant with two counters,   *)
(* and another one with one.                                                *)
EXTENDS MerchantApproval, TLC

CONSTANTS m1, m2, ann, bob, h1, h2

TwoMerchants == (1 :> m1) @@ (2 :> m1) @@ (3 :> m2)

Interchangeable == Permutations(Users) \cup Permutations(Handlers)
=============================================================================
