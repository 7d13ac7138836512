--------------------------- MODULE MCRegistryForm ---------------------------
EXTENDS RegistryForm
CONSTANT t1
(* One kind of mishap in a behaviour, none after those of which no property    *)
(* says anything more.                                                       *)
OneMishap == Cardinality(upset) <= 1 /\ upset \cap {"rushed", "shared"} = {}
(* Two requests are under way only while the form is open for the first time. *)
OneCallLater == opened > 1 => Cardinality(calls) <= 1
=============================================================================
