------------------------- MODULE MCCheckoutCounters -------------------------
(* A merchant with one location and at most three counters.                 *)
EXTENDS CheckoutCounters, TLC
CONSTANTS g1, g2, g3, g4, h1, h2, l1, k1, k2
MCGenerated == <<g1, g2, g3, g4>>
Symmetry == Permutations(Handlers) \cup Permutations(Keys)
=============================================================================
