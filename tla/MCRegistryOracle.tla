-------------------------- MODULE MCRegistryOracle --------------------------
(* Instances of RegistryOracle for TLC: two merchants, the first with two   *)
(* counters, and bodies that collide on an alias, on a LEI or on a counter. *)
EXTENDS RegistryOracle, TLC

CONSTANTS a1, a2, a3, k1, k2, c1, c2, c3, m1, m2, acme, acme2, zeta, lei1, fspA, fspB

MCCounters == {c1, c2, c3}
MCMerchantOf == (c1 :> m1) @@ (c2 :> m1) @@ (c3 :> m2)

Item(c, req, gen, l, f) ==
  [counter |-> c, requested |-> req, generated |-> gen, lei |-> l, fsp |-> f]

(* Both counters of m1, aliases generated; c1 renamed to zeta; m2 at another *)
(* DFSP with the LEI of m1 and alias zeta; one body that gives the LEI to    *)
(* both merchants; one with more merchants than its answer may have.        *)
Both == <<Item(c1, NoAlias, acme, lei1, fspA), Item(c2, NoAlias, acme2, lei1, fspA)>>
Rename == <<Item(c1, zeta, acme, NoLei, fspA)>>
Rival == <<Item(c3, zeta, zeta, lei1, fspB)>>
Mixed == <<Item(c1, NoAlias, acme, lei1, fspA), Item(c3, NoAlias, zeta, lei1, fspA)>>
Long == Both \o <<Item(c3, NoAlias, zeta, NoLei, fspA)>>

MCBatches == {Both, Rename, Rival, Mixed, Long}

Interchangeable == Permutations(Attempts) \cup Permutations(Keys)
=============================================================================
