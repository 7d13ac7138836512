---------------------------- MODULE MCDfspAccess ----------------------------
(* One DFSP, two rotations at once, and two requests of up to two            *)
(* participants at the oracle.                                              *)
EXTENDS DfspAccess, TLC
CONSTANTS h1, h2, s1, s2, d1
(* The backend and the participants share nothing but the secrets shown: one  *)
(* side rests while the other is at work.                                   *)
OneSide == (\E s \in Servers : pc[s] # "idle") => \A h \in Handlers : bpc[h] = "idle"
(* One number is given up, and the oracle goes on with one secret then.       *)
OneRenaming == Cardinality(freed) <= 1 /\ (freed # {} => secrets <= 1)
Symmetry == Permutations(Handlers) \cup Permutations(Servers)
=============================================================================
