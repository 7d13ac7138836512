-------------------------- MODULE MCRegistryClient --------------------------
(* Two calls of the backend, with bodies that ask for different aliases;     *)
(* DFSPs contest the alias of Other, Rival contests an alias and the LEI of  *)
(* Both.                                                                    *)
EXTENDS RegistryClient, TLC

CONSTANTS p, q, k1, k2, c1, c2, c3, m1, m2, acme, acme2, zeta, lei1, fspA

MCCounters == {c1, c2, c3}
MCMerchantOf == (c1 :> m1) @@ (c2 :> m1) @@ (c3 :> m2)
MCKeyOf == (p :> k1) @@ (q :> k2)
MCAttempts == Calls \X (1..MaxTries)

Item(c, req, gen, l) ==
  [counter |-> c, requested |-> req, generated |-> gen, lei |-> l, fsp |-> fspA]

Both == <<Item(c1, NoAlias, acme, lei1), Item(c2, NoAlias, acme2, lei1)>>
Other == <<Item(c3, zeta, zeta, NoLei)>>
Rival == <<Item(c3, acme2, zeta, lei1)>>

MCBatches == {Both, Other, Rival}
=============================================================================
