---------------------------- MODULE MCBulkImport ----------------------------
(* Two attempts, under one key or two, each with a good workbook or one that  *)
(* differs from it in a row left out, repeated or altered.                  *)
EXTENDS BulkImport, TLC
CONSTANTS u1, u2, k1, k2, L1

LowerCase(a) == IF a = "A" THEN "a" ELSE a

Good == [
  merchants |-> <<[ref |-> "m", lei |-> L1, alias |-> "a"],
                  [ref |-> "n", lei |-> Blank, alias |-> Blank]>>,
  locations |-> <<[merchant |-> "m", ref |-> "x"], [merchant |-> "m", ref |-> "y"],
                  [merchant |-> "n", ref |-> "z"]>>,
  counters |-> <<[merchant |-> "m", location |-> "x", alias |-> Blank],
                 [merchant |-> "m", location |-> "y", alias |-> "b"],
                 [merchant |-> "m", location |-> "y", alias |-> Blank],
                 [merchant |-> "n", location |-> "z", alias |-> Blank]>>,
  owners |-> <<"m", "n">>,
  contacts |-> <<"m", "n">>]
Plain == [Good EXCEPT !.merchants[1].lei = Blank, !.merchants[1].alias = Blank,
                      !.counters[2].alias = Blank]

Without(s, i) == SubSeq(s, 1, i - 1) \o SubSeq(s, i + 1, Len(s))
LeftOut == {[Good EXCEPT ![f] = Without(Good[f], i)] : <<f, i>> \in
              {<<f, i>> \in (DOMAIN Good) \X (1..4) : i \in DOMAIN Good[f]}}
Repeated == {[Good EXCEPT ![f] = Append(Good[f], Good[f][i])] : <<f, i>> \in
              {<<f, i>> \in (DOMAIN Good) \X (1..4) : i \in DOMAIN Good[f]}}
Altered ==
  {[Good EXCEPT !.merchants[2].lei = L1], [Good EXCEPT !.merchants[2].ref = "m"],
   [Good EXCEPT !.merchants[2].alias = "A"], [Good EXCEPT !.merchants[2].alias = "b"],
   [Good EXCEPT !.merchants = <<>>]}
  \cup {[Good EXCEPT !.locations[i].merchant = r] : i \in 1..3, r \in {"m", "n", "o"}}
  \cup {[Good EXCEPT !.counters[i].location = p] : i \in 1..4, p \in {"x", "z"}}
  \cup {[Good EXCEPT !.counters[i].alias = a] : i \in 1..4, a \in {"A", "a", "b"}}
  \cup {[Good EXCEPT !.owners[1] = "o"], [Good EXCEPT !.contacts[2] = "o"]}
Overlong == [Good EXCEPT !.counters = @ \o <<@[1], @[4]>>]
Workbooks == {Good, Plain, Overlong} \cup LeftOut \cup Repeated \cup Altered
Symmetry == Permutations(Attempts) \cup Permutations(Keys)
=============================================================================
