------------------------- MODULE MerchantLifecycle -------------------------
(***************************************************************************)
(* The life of a merchant record as the onboarding guide tells it          *)
(* (docs/onboarding-guide.md, section 5): a maker edits and submits it, a   *)
(* checker who is another user decides, approval waits for the Registry    *)
(* Oracle and falls back to review when the oracle cannot be synchronised.  *)
(***************************************************************************)
CONSTANTS Merchants, Users, NoUser

VARIABLES
  status,    \* registration_status
  creator,   \* created_by, the maker
  checker    \* checked_by

lifevars == <<status, creator, checker>>

LInit ==
  /\ status \in [Merchants -> {"draft", "review"}]
  /\ creator \in [Merchants -> Users]
  /\ checker = [m \in Merchants |-> NoUser]

(* The function f with the value v on the whole of S.                       *)
Set(f, S, v) == [m \in Merchants |-> IF m \in S THEN v ELSE f[m]]

(* Whoever edits a record becomes its maker.                                *)
Edit(m, u) ==
  /\ status[m] \in {"draft", "reverted"}
  /\ status' = Set(status, {m}, "draft")
  /\ creator' = Set(creator, {m}, u)
  /\ UNCHANGED checker

(* So does whoever edits its contact person, whatever its status.           *)
TakeOver(m, u) ==
  /\ creator' = Set(creator, {m}, u)
  /\ UNCHANGED <<status, checker>>

SubmitForReview(m) ==
  /\ status[m] = "draft"
  /\ status' = Set(status, {m}, "review")
  /\ UNCHANGED <<creator, checker>>

(* A checker decides on records under review that other users made.         *)
Check(ms, u, verdict) ==
  /\ \A m \in ms : status[m] = "review" /\ creator[m] # u
  /\ status' = Set(status, ms, verdict)
  /\ checker' = Set(checker, ms, u)
  /\ UNCHANGED creator

AliasesIssued(m) ==
  /\ status[m] \in {"waiting", "approved"}
  /\ status' = Set(status, {m}, "approved")
  /\ UNCHANGED <<creator, checker>>

FallBack(ms) ==
  /\ \A m \in ms : status[m] \in {"waiting", "approved"}
  /\ status' = Set(status, ms, "review")
  /\ UNCHANGED <<creator, checker>>

LNext ==
  \/ \E m \in Merchants, u \in Users : Edit(m, u) \/ TakeOver(m, u)
  \/ \E m \in Merchants : SubmitForReview(m) \/ AliasesIssued(m)
  \/ \E ms \in SUBSET Merchants, u \in Users :
       \E v \in {"waiting", "rejected", "reverted"} : Check(ms, u, v)
  \/ \E ms \in SUBSET Merchants : FallBack(ms)

LSpec == LInit /\ [][LNext]_lifevars
=============================================================================
