---------------------------- MODULE RegistryForm ----------------------------
(***************************************************************************)
(* The registry form of the frontend (pages/RegistryForm): four forms in a   *)
(* row and a review, which create and complete a draft by requests to the   *)
(* backend.  The id of the draft is kept in the browser's local storage,     *)
(* which its tabs share; whether a form creates its part or updates it is    *)
(* decided by the copy of the draft that the tab has fetched.               *)
(*                                                                         *)
(* A request is one step at the backend: MerchantApproval and               *)
(* CheckoutCounters have its steps.  Forms 2, 3 and 4 are those of location, *)
(* owner and contact person.                                                *)
(***************************************************************************)
EXTENDS Naturals, FiniteSets

CONSTANTS
  Tabs,           \* tabs of one browser, one user
  MaxMerchants,   \* bound: merchants
  MaxOpened,      \* bound: times the form is opened
  MaxCalls,       \* bound: requests under way
  MaxParts        \* bound: locations, owners or contact persons of a merchant

ASSUME FormAssumption ==
  /\ MaxMerchants \in Nat /\ MaxOpened \in Nat /\ MaxCalls \in Nat
  /\ MaxParts \in Nat \ {0}

VARIABLES
  merchants,   \* backend: status and parts of each merchant
  stored,      \* localStorage.merchantId
  opened,      \* how often the form was opened
  step,        \* of each tab: its form, 0 when it shows another page
  review,      \* of each tab: the review is shown
  opening,     \* of each tab: which opening of the form it shows
  id,          \* of each tab: the merchant id its form read when it was mounted
  cache,       \* of each tab: the copies it has fetched
  fetching,    \* the tabs whose form waits for a copy of its merchant
  calls,       \* requests under way
  edited,      \* history: the merchants that each opening has changed
  upset        \* history: what else happened, see Upset

page == <<step, review, opening, id, fetching>>
history == <<edited, upset>>
vars == <<merchants, stored, opened, page, cache, calls, history>>

None == 0
Ids == 1..MaxMerchants
Parts == 2..4
Known == DOMAIN merchants
Pending(t) == {c \in calls : c.tab = t}
Openings == 1..MaxOpened
NoCopy == [editable |-> FALSE, parts |-> {}]
Copy == [editable : BOOLEAN, parts : SUBSET Parts]
Editable == {"Draft", "Reverted"}
CopyOf(m) == [editable |-> merchants[m].status \in Editable,
              parts |-> {p \in Parts : merchants[m].parts[p] > 0}]

(* What a property may have to leave aside: a form was sent before its copy   *)
(* had come (hasty), or left before its request was answered (rushed); the    *)
(* answer to a request that took effect was lost (lost); a second tab had the *)
(* form open (shared).                                                       *)
Upset == {"hasty", "rushed", "lost", "shared"}

(* at: the form that sent the request is still mounted, another one is, or    *)
(* the page was loaded anew.                                                 *)
Call == [tab : Tabs, opening : Openings, form : 1..5, new : BOOLEAN,
         merchant : {None} \cup Ids, at : {"here", "left", "gone"}, done : BOOLEAN]

TypeOK ==
  /\ \E n \in 0..MaxMerchants :
       merchants \in [1..n -> [status : {"Draft", "Review", "Reverted"},
                               parts : [Parts -> 0..MaxParts]]]
  /\ stored \in {None} \cup Known /\ opened \in 0..MaxOpened
  /\ step \in [Tabs -> 0..(4 + MaxCalls)] /\ review \in [Tabs -> BOOLEAN]
  /\ \A t \in Tabs : review[t] => step[t] = 4 /\ id[t] # None
  /\ opening \in [Tabs -> 0..MaxOpened]
  /\ \A t \in Tabs : step[t] = 0 <=> opening[t] = 0
  /\ id \in [Tabs -> {None} \cup Known]
  /\ cache \in [Tabs -> [Ids -> Copy]]
  /\ fetching \subseteq {t \in Tabs : id[t] # None}
  /\ calls \subseteq Call
  /\ \A t \in Tabs : Cardinality({c \in Pending(t) : c.at = "here"}) <= 1
  /\ edited \in [Openings -> SUBSET Known]
  /\ upset \subseteq Upset

Init ==
  /\ merchants = [m \in {} |-> NoCopy]
  /\ stored = None /\ opened = 0 /\ calls = {} /\ upset = {}
  /\ step = [t \in Tabs |-> 0]
  /\ review = [t \in Tabs |-> FALSE]
  /\ opening = [t \in Tabs |-> 0]
  /\ id = [t \in Tabs |-> None]
  /\ cache = [t \in Tabs |-> [m \in Ids |-> NoCopy]]
  /\ fetching = {}
  /\ edited = [o \in Openings |-> {}]

-----------------------------------------------------------------------------
(* Mounting form n for merchant m: useMerchantId reads the local storage once, *)
(* useDraft shows the copy the tab has and fetches another.                 *)
Mount(t, n, m, o, remaining) ==
  /\ step' = [step EXCEPT ![t] = n]
  /\ review' = [review EXCEPT ![t] = FALSE]
  /\ opening' = [opening EXCEPT ![t] = IF n = 0 THEN 0 ELSE o]
  /\ id' = [id EXCEPT ![t] = IF n \in 1..4 THEN m ELSE None]
  /\ fetching' = IF n \in 1..4 /\ m # None THEN fetching \cup {t} ELSE fetching \ {t}
  /\ calls' = {[c EXCEPT !.at = IF c.tab = t /\ @ = "here" THEN "left" ELSE @] :
                c \in remaining}

Rushing(t) == IF Pending(t) = {} THEN {} ELSE {"rushed"}
Sharing(t) == IF \E s \in Tabs \ {t} : step[s] > 0 THEN {"shared"} ELSE {}

(* The form is opened from the page Registry ("Add new record"), or from the  *)
(* lists of drafts and reverted merchants ("Proceed"), whose rows may be old. *)
Open(t, m) ==
  /\ step[t] = 0
  /\ opened < MaxOpened
  /\ opened' = opened + 1
  /\ stored' = m
  /\ upset' = upset \cup Rushing(t) \cup Sharing(t)
  /\ Mount(t, 1, m, opened + 1, calls)
  /\ UNCHANGED <<merchants, cache, edited>>

AddNew(t) == Open(t, None)
Proceed(t) == \E m \in Known : Open(t, m)

(* The page is loaded anew: the local storage is all that is left.  What the  *)
(* backend was asked it still does.                                         *)
Reload(t) ==
  /\ step[t] > 0
  /\ upset' = upset \cup (IF Pending(t) = {} THEN {} ELSE {"lost"}) \cup Sharing(t)
  /\ cache' = [cache EXCEPT ![t] = [m \in Ids |-> NoCopy]]
  /\ Mount(t, 1, stored, opening[t],
           {[c EXCEPT !.at = IF c.tab = t THEN "gone" ELSE @] : c \in calls})
  /\ UNCHANGED <<merchants, stored, opened, edited>>

Back(t) ==
  /\ step[t] > 0 /\ ~review[t]
  /\ Mount(t, step[t] - 1, stored, opening[t], calls)
  /\ upset' = upset \cup Rushing(t)
  /\ UNCHANGED <<merchants, stored, opened, cache, edited>>

Leave(t) ==
  /\ step[t] > 1
  /\ Mount(t, 0, None, 0, calls)
  /\ upset' = upset \cup Rushing(t)
  /\ UNCHANGED <<merchants, stored, opened, cache, edited>>

-----------------------------------------------------------------------------
(* The copy comes.  One whose fetch fails, or takes longer than the user, is  *)
(* one that does not come.                                                  *)
Fetched(t) ==
  /\ t \in fetching
  /\ fetching' = fetching \ {t}
  /\ cache' = [cache EXCEPT ![t][id[t]] = CopyOf(id[t])]
  /\ UNCHANGED <<merchants, stored, opened, step, review, opening, id, calls, history>>

Draft(t) == IF id[t] = None THEN NoCopy ELSE cache[t][id[t]]

(* isExistingMerchant, existingLocationId, existingOwnerId, ...              *)
(* Faulty: a form always creates its part.                                  *)
FaultyIsThere(t) == step[t] = 1 /\ Draft(t).editable
IsThere(t) ==
  IF step[t] = 1 THEN Draft(t).editable
                 ELSE step[t] \in Draft(t).parts

Request(t, form, new, m) ==
  [tab |-> t, opening |-> opening[t], form |-> form, new |-> new, merchant |-> m,
   at |-> "here", done |-> FALSE]
Room == Cardinality(calls) < MaxCalls

(* The buttons of a form are out of order while its request is under way.     *)
(* Faulty: they are not.                                                     *)
FaultySend(t, form, new, m) == Room /\ calls' = calls \cup {Request(t, form, new, m)}
Send(t, form, new, m) ==
  /\ \A c \in Pending(t) : c.at # "here"
  /\ Room
  /\ calls' = calls \cup {Request(t, form, new, m)}

(* "Save and Proceed", which a form whose merchant has no id refuses.         *)
Save(t) ==
  /\ step[t] \in 1..4 /\ ~review[t]
  /\ step[t] > 1 => id[t] # None
  /\ Send(t, step[t], ~IsThere(t), IF step[t] = 1 /\ ~IsThere(t) THEN None ELSE id[t])
  /\ upset' = IF t \in fetching THEN upset \cup {"hasty"} ELSE upset
  /\ UNCHANGED <<merchants, stored, opened, page, cache, edited>>

Submit(t) ==
  /\ review[t]
  /\ Send(t, 5, FALSE, id[t])
  /\ UNCHANGED <<merchants, stored, opened, page, cache, history>>

Close(t) ==
  /\ review[t]
  /\ review' = [review EXCEPT ![t] = FALSE]
  /\ UNCHANGED <<merchants, stored, opened, step, opening, id, fetching, cache, calls,
                 history>>

-----------------------------------------------------------------------------
(* Backend.                                                                 *)
Does(c, m) ==
  /\ calls' = (calls \ {c}) \cup {[c EXCEPT !.done = TRUE, !.merchant = m]}
  /\ edited' = [edited EXCEPT ![c.opening] = @ \cup {m}]
  /\ UNCHANGED <<stored, opened, page, cache, upset>>
Fresh == [status |-> "Draft", parts |-> [p \in Parts |-> 0]]

(* postMerchantDraft                                                        *)
Create(c) ==
  LET m == Cardinality(Known) + 1 IN
  /\ ~c.done /\ c.form = 1 /\ c.new
  /\ m \in Ids
  /\ merchants' = [k \in Known \cup {m} |-> IF k = m THEN Fresh ELSE merchants[k]]
  /\ Does(c, m)

(* putMerchantDraft                                                         *)
Update(c) ==
  /\ ~c.done /\ c.form = 1 /\ ~c.new
  /\ merchants[c.merchant].status \in Editable
  /\ merchants' = [merchants EXCEPT ![c.merchant].status = "Draft"]
  /\ Does(c, c.merchant)

(* POST and PUT of locations, business-owners and contact-persons, for which  *)
(* any status will do.                                                      *)
AddPart(c) ==
  /\ ~c.done /\ c.form \in Parts /\ c.new
  /\ merchants[c.merchant].parts[c.form] < MaxParts
  /\ merchants' = [merchants EXCEPT ![c.merchant].parts[c.form] = @ + 1]
  /\ Does(c, c.merchant)

ChangePart(c) ==
  /\ ~c.done /\ c.form \in Parts /\ ~c.new
  /\ Does(c, c.merchant)
  /\ UNCHANGED merchants

(* putMerchantStatusReadyToReview                                           *)
ReadyToReview(c) ==
  /\ ~c.done /\ c.form = 5
  /\ merchants[c.merchant].status = "Draft"
  /\ merchants' = [merchants EXCEPT ![c.merchant].status = "Review"]
  /\ Does(c, c.merchant)

(* putBulkRevert                                                            *)
Revert(m) ==
  /\ merchants[m].status = "Review"
  /\ merchants' = [merchants EXCEPT ![m].status = "Reverted"]
  /\ UNCHANGED <<stored, opened, page, cache, calls, history>>

-----------------------------------------------------------------------------
(* The answer reaches the tab.  The callbacks of a request run whether or not *)
(* the form that sent it is still there, setActiveStep only while the         *)
(* registry form is.                                                        *)
Showing(c) == c.at # "gone" /\ opening[c.tab] = c.opening

(* Faulty: the id of a new draft is not stored.                              *)
FaultyStores(c) == stored
Stores(c) == IF c.form = 1 /\ c.new THEN c.merchant ELSE stored

Proceeds(c) ==
  /\ c.done /\ c.at # "gone" /\ c.form \in 1..3
  /\ stored' = Stores(c)
  /\ IF Showing(c) THEN Mount(c.tab, step[c.tab] + 1, stored', c.opening, calls \ {c})
     ELSE calls' = calls \ {c} /\ UNCHANGED page
  /\ upset' = IF c.form = 1 /\ c.new THEN upset \cup Sharing(c.tab) ELSE upset
  /\ UNCHANGED <<merchants, opened, cache, edited>>

(* The contact person is saved: copies are fetched anew, the review opens.    *)
Reviews(c) ==
  /\ c.done /\ c.at # "gone" /\ c.form = 4
  /\ review' = [review EXCEPT ![c.tab] = @ \/ c.at = "here"]
  /\ fetching' = IF id[c.tab] = None THEN fetching ELSE fetching \cup {c.tab}
  /\ calls' = calls \ {c}
  /\ UNCHANGED <<merchants, stored, opened, step, opening, id, cache, history>>

Submitted(c) ==
  /\ c.done /\ c.at # "gone" /\ c.form = 5
  /\ stored' = None
  /\ Mount(c.tab, 0, None, 0, calls \ {c})
  /\ upset' = upset \cup Sharing(c.tab)
  /\ UNCHANGED <<merchants, opened, cache, edited>>

(* The request is refused or lost; or it took effect, and its answer is lost  *)
(* or is an error all the same: postMerchantDraft saves the draft before it  *)
(* uploads the licence, and answers 500 when that fails.                     *)
(* Faulty: the next form follows all the same.                               *)
FaultyFails(c) ==
  /\ c.at # "gone" /\ step[c.tab] \in 1..3
  /\ stored' = stored
  /\ Mount(c.tab, step[c.tab] + 1, stored, c.opening, calls \ {c})
  /\ upset' = upset \cup (IF c.done THEN {"lost"} ELSE {})
  /\ UNCHANGED <<merchants, opened, cache, edited>>
Fails(c) ==
  /\ calls' = calls \ {c}
  /\ upset' = upset \cup (IF c.done THEN {"lost"} ELSE {})
  /\ UNCHANGED <<merchants, stored, opened, page, cache, edited>>

User(t) ==
  \/ AddNew(t) \/ Proceed(t) \/ Reload(t) \/ Back(t) \/ Leave(t)
  \/ Save(t) \/ Submit(t) \/ Close(t) \/ Fetched(t)

Serve(c) == Create(c) \/ Update(c) \/ AddPart(c) \/ ChangePart(c) \/ ReadyToReview(c)
Receive(c) == Proceeds(c) \/ Reviews(c) \/ Submitted(c) \/ Fails(c)

Next ==
  \/ \E t \in Tabs : User(t)
  \/ \E c \in calls : Serve(c) \/ Receive(c)
  \/ \E m \in Known : Revert(m)

Spec == Init /\ [][Next]_vars

-----------------------------------------------------------------------------
(* A merchant in review has a location, an owner and a contact person.  The   *)
(* backend does not ask for them (putMerchantReadyToReview.ts): it is the     *)
(* order of the forms that must bring them about, through lost answers,       *)
(* failed requests, stale copies, reloads and reopened drafts.  It does,      *)
(* unless a form is left while its request is under way, whose answer then    *)
(* skips another form, or two tabs swap the merchant under a form.           *)
SubmittedIsComplete ==
  upset \cap {"rushed", "shared"} = {} =>
    \A m \in Known : merchants[m].status = "Review" =>
      \A p \in Parts : merchants[m].parts[p] > 0

(* From the first form to the review an opening of the form changes one       *)
(* merchant, through going back and forth, failed requests, reloads, and      *)
(* other drafts opened before with their ids stored and their copies kept.    *)
StaysWithItsMerchant ==
  upset = {} => \A o \in Openings : Cardinality(edited[o]) <= 1

(* Forms sent again, reopened or gone back to update what they created.  Both *)
(* this and the former need every condition: a form sent before its copy has  *)
(* come, or after a lost answer, creates once more.                          *)
NothingIsDoubled ==
  upset = {} => \A m \in Known, p \in Parts : merchants[m].parts[p] <= 1
=============================================================================
