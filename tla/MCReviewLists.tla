---------------------------- MODULE MCReviewLists ----------------------------
EXTENDS ReviewLists
MCKeys == {Home, Key("pending", FALSE, 2), Key("pending", TRUE, 1), Key("approved", FALSE, 1)}
(* One other list is looked at; the answers of two fetches do not wait for      *)
(* each other, and two lists are fetched at once only after a verdict; a list *)
(* that could not be fetched is fetched again before another is looked at; no  *)
(* property says more about what follows once the checker is unsure; and what *)
(* follows the first verdict is looked at up to the end of the last.         *)
OneOther == Cardinality({k \in Keys : entries[k].got \/ entries[k].error \/ fetches[k] # NoFetch}) <= 2
OneAnswer == Cardinality({k \in Keys : fetches[k].state \in {"counted", "read"}}) <= 1
OneFetch == sent > 0 \/ Cardinality({k \in Keys : fetches[k] # NoFetch}) <= 1
ErrorsAreShown == \A k \in Keys : entries[k].error => k = shown
StillSure == ~unsure
StillDeciding == sent < MaxCalls \/ calls # {}
=============================================================================
