----------------------------- MODULE ReviewLists -----------------------------
(***************************************************************************)
(* A checker's browser: the page of pending merchants, on which rows are    *)
(* ticked and decided on, and the reports of decided ones                   *)
(* (PendingMerchantRecords, MerchantRecordsPageTemplate and their likes).    *)
(* The pages show lists that were fetched from the backend a while ago and   *)
(* are cached under list, filter and page number; the ticks are those of     *)
(* row numbers, whatever list is shown.                                     *)
(*                                                                         *)
(* Other users submit and decide at the same time.  A verdict is one step    *)
(* at the backend: MerchantApproval has its steps.                          *)
(***************************************************************************)
EXTENDS Naturals, SequencesExt

CONSTANTS
  Merchants,    \* their ids; later ids were created later
  Own,          \* those this checker submitted
  Waiting,      \* those in review at first
  Filtered,     \* those that match the filter the checker may enter
  PageSize,     \* rows of a page
  Keys,         \* bound: the lists that are looked at
  Verdicts,     \* "approved", "rejected", "reverted"
  MaxCalls,     \* bound: verdicts of this checker
  MaxElsewhere  \* bound: submissions and verdicts of others

ASSUME ListsAssumption ==
  /\ Merchants \subseteq Nat /\ IsFiniteSet(Merchants) /\ Own \subseteq Merchants
  /\ Waiting \subseteq Merchants /\ Filtered \subseteq Merchants
  /\ PageSize \in Nat \ {0}
  /\ Verdicts \subseteq {"approved", "rejected", "reverted"}
  /\ Keys \subseteq [list : {"pending"} \cup Verdicts, filter : BOOLEAN, page : Nat \ {0}]
  /\ \A l \in {"pending"} \cup {k.list : k \in Keys} :
       [list |-> l, filter |-> FALSE, page |-> 1] \in Keys   \* lists open at page 1
  /\ MaxCalls \in Nat /\ MaxElsewhere \in Nat

VARIABLES
  status,      \* backend: registration status
  elsewhere,   \* submissions and verdicts of others
  filter,      \* the filter is entered in the form
  shown,       \* the key of the list that is shown
  entries,     \* what was fetched
  fetches,     \* fetches under way
  ticks,       \* the row numbers that are ticked
  dialog,      \* the question about a verdict, or none
  sent,        \* verdicts of this checker so far
  calls,       \* those under way
  meant,       \* history: the merchants that were ticked
  unsure,      \* history: a list was fetched or shown since they were ticked,
               \* or a verdict was under way then
  answered,    \* history: the merchants whose verdict was confirmed, and the
               \* list of pending merchants fetched again then
  late         \* history: lists whose rows had been read, but not delivered,
               \* when that happened, and which were not read again

form == <<filter, ticks, dialog, meant, unsure>>
lists == <<shown, entries, fetches>>
listsVars == <<status, elsewhere, form, lists, sent, calls, answered, late>>

NoDialog == [verdict |-> "none", step |-> "none"]
Dialog == [verdict : Verdicts, step : {"alert", "reason"}] \cup {NoDialog}

(* rows of a page; old: invalidated; error: the last fetch failed            *)
NoEntry == [rows |-> <<>>, pages |-> 0, got |-> FALSE, old |-> TRUE, error |-> FALSE]
NoFetch == [state |-> "none", rows |-> <<>>, pages |-> 0]
Asked == [state |-> "asked", rows |-> <<>>, pages |-> 0]

(* The page that sent a verdict is still open, or was left with this list.    *)
Here == [list |-> "none", filter |-> FALSE, page |-> 0]
Call == [number : 1..MaxCalls, verdict : Verdicts, ids : SUBSET Merchants, meant : SUBSET Merchants,
         sure : BOOLEAN, done : BOOLEAN, page : Keys \cup {Here}]

Rows(k) == entries[k].rows
TypeOK ==
  /\ status \in [Merchants -> {"draft", "review"} \cup Verdicts]
  /\ elsewhere \in 0..MaxElsewhere
  /\ filter \in BOOLEAN /\ shown \in Keys
  /\ \A k \in Keys :
       /\ DOMAIN Rows(k) \subseteq 1..PageSize /\ IsInjective(Rows(k))
       /\ ToSet(Rows(k)) \subseteq IF k.filter THEN Filtered ELSE Merchants
       /\ entries[k].got \/ entries[k].old
  /\ DOMAIN fetches = Keys
  /\ ticks \subseteq 1..PageSize
  /\ dialog \in Dialog
  /\ sent \in 0..MaxCalls /\ calls \subseteq Call
  /\ meant \subseteq Merchants \ Own /\ unsure \in BOOLEAN
  /\ answered \subseteq [merchant : Merchants, verdict : Verdicts, key : Keys]
  /\ late \subseteq Keys

StatusOf(list) == IF list = "pending" THEN "review" ELSE list
Matching(list, f) == {m \in Merchants : status[m] = StatusOf(list) /\ (f => m \in Filtered)}

(* getMerchants: created last, first; skip and take.                         *)
Newest(S) ==
  CHOOSE s \in [1..Cardinality(S) -> S] : \A i, j \in DOMAIN s : i < j => s[i] > s[j]

(* Faulty: no limit.                                                         *)
FaultyPageOf(k) ==
  LET all == Newest(Matching(k.list, k.filter)) IN
  SubSeq(all, (k.page - 1) * PageSize + 1, Len(all))
PageOf(k) ==
  LET all == Newest(Matching(k.list, k.filter))
      first == (k.page - 1) * PageSize + 1
      last == IF k.page * PageSize < Len(all) THEN k.page * PageSize ELSE Len(all)
  IN SubSeq(all, first, last)
PagesOf(k) == (Cardinality(Matching(k.list, k.filter)) + PageSize - 1) \div PageSize

Key(list, f, n) == [list |-> list, filter |-> f, page |-> n]
Home == Key("pending", FALSE, 1)

ListsInit ==
  /\ status = [m \in Merchants |-> IF m \in Waiting THEN "review" ELSE "draft"]
  /\ elsewhere = 0
  /\ filter = FALSE
  /\ shown = Home
  /\ entries = [k \in Keys |-> NoEntry]
  /\ fetches = [k \in Keys |-> IF k = Home THEN Asked ELSE NoFetch]
  /\ ticks = {} /\ dialog = NoDialog /\ sent = 0 /\ calls = {}
  /\ meant = {} /\ unsure = FALSE
  /\ answered = {} /\ late = {}

-----------------------------------------------------------------------------
(* The rows are on the screen: fetched without error, and not being fetched.   *)
Visible == entries[shown].got /\ ~entries[shown].error /\ fetches[shown] = NoFetch

(* The ticked rows of the list that is shown, the checker's own left out.     *)
Selected == {Rows(shown)[i] : i \in ticks \cap DOMAIN Rows(shown)} \ Own

(* useQuery shows key k, given what is cached and being fetched: it fetches    *)
(* when there is nothing, or what there is is old, be it by age.             *)
Show(k, cached, under) ==
  /\ shown' = k
  /\ entries' = cached
  /\ \/ k # shown /\ fetches' = [under EXCEPT ![k] = IF @ = NoFetch THEN Asked ELSE @]
     \/ (k = shown \/ ~cached[k].old) /\ fetches' = under

(* The form is not rendered while its filter is entered; whatever renders it   *)
(* next shows the list of that filter, at the page number of the old one.    *)
Render(n, cached, under) ==
  /\ Key(shown.list, filter, n) \in Keys
  /\ Show(Key(shown.list, filter, n), cached, under)
  /\ unsure' = (ticks # {} /\ (unsure \/ shown' # shown))

EnterFilter ==
  /\ dialog = NoDialog
  /\ Key(shown.list, ~filter, shown.page) \in Keys
  /\ filter' = ~filter
  /\ UNCHANGED <<status, elsewhere, ticks, dialog, meant, unsure, lists, sent, calls, answered, late>>

(* A list is fetched again: what is under way for it is given up, unless it is  *)
(* the first, which is waited for.                                           *)
FirstFetch(k) == fetches[k] # NoFetch /\ ~entries[k].got
Refetching(keys) == [k \in Keys |-> IF k \in keys /\ ~FirstFetch(k) THEN Asked ELSE fetches[k]]

(* "Search" and "Clear Filter".                                              *)
Search ==
  /\ dialog = NoDialog
  /\ Key(shown.list, filter, shown.page) \in Keys
  /\ Show(Key(shown.list, filter, shown.page), entries, Refetching({shown}))
  /\ unsure' = (ticks # {})
  /\ UNCHANGED <<status, elsewhere, filter, ticks, dialog, meant, sent, calls, answered, late>>

TurnPage ==
  /\ Visible /\ Rows(shown) # <<>> /\ dialog = NoDialog
  /\ \E n \in 1..entries[shown].pages : n # shown.page /\ Render(n, entries, fetches)
  /\ UNCHANGED <<status, elsewhere, filter, ticks, dialog, meant, sent, calls, answered, late>>

(* Another page of the menu; the state of this one is gone.                  *)
Open(list) ==
  /\ list # shown.list
  /\ Show(Key(list, FALSE, 1), entries, fetches)
  /\ filter' = FALSE /\ ticks' = {} /\ dialog' = NoDialog /\ meant' = {} /\ unsure' = FALSE
  /\ calls' = {[c EXCEPT !.page = IF @ = Here THEN shown ELSE @] : c \in calls}
  /\ UNCHANGED <<status, elsewhere, sent, answered, late>>

-----------------------------------------------------------------------------
Deciding == Visible /\ shown.list = "pending" /\ dialog = NoDialog

(* Ticking is a render, too.                                                 *)
TickTo(rows, merchants) ==
  /\ ticks' = rows
  /\ meant' = IF rows = {} THEN {} ELSE merchants \ Own
  /\ Show(Key(shown.list, filter, shown.page), entries, fetches)
  /\ unsure' = (rows # {} /\ (unsure \/ calls # {} \/ shown' # shown))
  /\ UNCHANGED <<status, elsewhere, filter, dialog, sent, calls, answered, late>>

Tick(i) ==
  /\ Deciding
  /\ i \in DOMAIN Rows(shown) /\ Rows(shown)[i] \notin Own
  /\ IF i \in ticks THEN TickTo(ticks \ {i}, meant \ {Rows(shown)[i]})
                    ELSE TickTo(ticks \cup {i}, meant \cup {Rows(shown)[i]})

AllTicked == DOMAIN Rows(shown) \subseteq ticks
TickAll ==
  /\ Deciding /\ Rows(shown) # <<>>
  /\ IF AllTicked THEN TickTo(ticks \ DOMAIN Rows(shown), meant \ ToSet(Rows(shown)))
                  ELSE TickTo(ticks \cup DOMAIN Rows(shown), meant \cup ToSet(Rows(shown)))

(* isActionDisabled: ticks of rows that are not there are counted, too.        *)
Ask(v) ==
  /\ Deciding
  /\ Selected # {}
  /\ AllTicked \/ Cardinality(ticks) < Len(Rows(shown))
  /\ dialog' = [verdict |-> v, step |-> "alert"]
  /\ Render(shown.page, entries, fetches)
  /\ UNCHANGED <<status, elsewhere, filter, ticks, meant, sent, calls, answered, late>>

Dismiss ==
  /\ dialog # NoDialog
  /\ dialog' = NoDialog
  /\ UNCHANGED <<status, elsewhere, filter, ticks, meant, unsure, lists, sent, calls, answered, late>>

GiveReason ==
  /\ dialog.step = "alert" /\ dialog.verdict # "approved"
  /\ dialog' = [dialog EXCEPT !.step = "reason"]
  /\ UNCHANGED <<status, elsewhere, filter, ticks, meant, unsure, lists, sent, calls, answered, late>>

(* setRowSelection({}).  Faulty: it is forgotten.                            *)
FaultyTicksAfter == ticks
TicksAfter == {}

Confirm ==
  /\ sent < MaxCalls
  /\ sent' = sent + 1
  /\ \/ dialog.step = "alert" /\ dialog.verdict = "approved"
     \/ dialog.step = "reason"
  /\ calls' = calls \cup {[number |-> sent', verdict |-> dialog.verdict, ids |-> Selected,
                           meant |-> meant, sure |-> ~unsure, done |-> FALSE, page |-> Here]}
  /\ dialog' = NoDialog
  /\ ticks' = TicksAfter /\ meant' = {} /\ unsure' = FALSE
  /\ UNCHANGED <<status, elsewhere, filter, lists, answered, late>>

-----------------------------------------------------------------------------
(* Backend.                                                                 *)
Accepts(ids) ==
  ids # {} /\ \A m \in ids : status[m] = "review" /\ m \notin Own

Perform(c) ==
  /\ ~c.done /\ Accepts(c.ids)
  /\ status' = [m \in Merchants |-> IF m \in c.ids THEN c.verdict ELSE status[m]]
  /\ calls' = (calls \ {c}) \cup {[c EXCEPT !.done = TRUE]}
  /\ UNCHANGED <<elsewhere, form, lists, sent, answered, late>>

(* Other users submit, or submit again, and decide.                          *)
Elsewhere(m) ==
  /\ elsewhere < MaxElsewhere
  /\ elsewhere' = elsewhere + 1
  /\ \/ status[m] \in {"draft", "reverted"} /\ status' = [status EXCEPT ![m] = "review"]
     \/ status[m] = "review" /\ \E v \in Verdicts : status' = [status EXCEPT ![m] = v]
  /\ answered' = {a \in answered : a.merchant # m}
  /\ UNCHANGED <<form, lists, sent, calls, late>>

(* The backend counts, then reads a page, and the answer comes, or an error.  *)
Count(k) ==
  /\ fetches[k] = Asked
  /\ fetches' = [fetches EXCEPT ![k] = [state |-> "counted", rows |-> <<>>, pages |-> PagesOf(k)]]
  /\ UNCHANGED <<status, elsewhere, form, shown, entries, sent, calls, answered, late>>

Read(k) ==
  /\ fetches[k].state = "counted"
  /\ fetches' = [fetches EXCEPT ![k] = [state |-> "read", rows |-> PageOf(k), pages |-> @.pages]]
  /\ late' = late \ {k}
  /\ UNCHANGED <<status, elsewhere, form, shown, entries, sent, calls, answered>>

Settle(k, entry) ==
  LET cached == [entries EXCEPT ![k] = entry]
      under == [fetches EXCEPT ![k] = NoFetch]
  IN
  /\ IF k = shown THEN Render(shown.page, cached, under)
     ELSE entries' = cached /\ fetches' = under /\ UNCHANGED <<shown, unsure>>
  /\ UNCHANGED <<status, elsewhere, filter, ticks, dialog, meant, sent, calls, answered, late>>

Deliver(k) ==
  /\ fetches[k].state = "read"
  /\ Settle(k, [rows |-> fetches[k].rows, pages |-> fetches[k].pages,
                got |-> TRUE, old |-> FALSE, error |-> FALSE])

FetchFails(k) ==
  /\ fetches[k] # NoFetch
  /\ Settle(k, [entries[k] EXCEPT !.error = TRUE])

-----------------------------------------------------------------------------
(* The lists that the hook of a verdict invalidates.  Faulty: those that the   *)
(* page itself names, ['approved-merchants'] being the key of none.          *)
FaultyOutdated(v) == {k \in Keys : k.list = v /\ v # "approved"}
Outdated(v) == {k \in Keys : k.list = v}

RenderAfter(c, cached, under) ==
  IF c.page = Here \/ under[shown] # fetches[shown]
  THEN Render(shown.page, cached, under)
  ELSE entries' = cached /\ fetches' = under /\ UNCHANGED <<shown, unsure>>

(* The verdict is answered: its report is outdated, and fetched again if it   *)
(* is shown; and so is the list the page of pending merchants shows, or      *)
(* showed when it was left.  Either may have a first fetch under way whose     *)
(* rows were read already.                                                  *)
Answer(c) ==
  LET key == IF c.page = Here THEN shown ELSE c.page
      old == Outdated(c.verdict)
      again == {key} \cup ({shown} \cap old)
  IN
  /\ c.done
  /\ calls' = calls \ {c}
  /\ RenderAfter(c, [k \in Keys |-> [entries[k] EXCEPT !.old = @ \/ k \in old]], Refetching(again))
  /\ answered' = answered \cup {[merchant |-> m, verdict |-> c.verdict, key |-> key] :
                             m \in {n \in c.ids : status[n] = c.verdict}}
  /\ late' = late \cup {k \in again \cup old : Refetching(again)[k].state = "read"}
  /\ UNCHANGED <<status, elsewhere, filter, ticks, dialog, meant, sent>>

(* It is refused, or fails, or takes effect and the answer is lost.           *)
Fails(c) ==
  /\ calls' = calls \ {c}
  /\ RenderAfter(c, entries, fetches)
  /\ UNCHANGED <<status, elsewhere, filter, ticks, dialog, meant, sent, answered, late>>

ListsNext ==
  \/ EnterFilter \/ Search \/ TurnPage \/ \E l \in {k.list : k \in Keys} : Open(l)
  \/ \E i \in 1..PageSize : Tick(i)
  \/ TickAll \/ \E v \in Verdicts : Ask(v)
  \/ Dismiss \/ GiveReason \/ Confirm
  \/ \E c \in calls : Perform(c) \/ Answer(c) \/ Fails(c)
  \/ \E k \in Keys : Count(k) \/ Read(k) \/ Deliver(k) \/ FetchFails(k)
  \/ \E m \in Merchants : Elsewhere(m)

ListsSpec == ListsInit /\ [][ListsNext]_listsVars

-----------------------------------------------------------------------------
(* A verdict is on the merchants the checker ticked, though what is ticked is   *)
(* row numbers, and the ids are those of the rows when it is confirmed, after *)
(* the two questions.  It may not be when a list was fetched or shown since    *)
(* the ticks were made, or when they were made while an earlier verdict was   *)
(* under way: its end fetches the list again beneath the ticks.              *)
DecidesWhatWasTicked == \A c \in calls : c.sure => c.ids = c.meant

(* What the checker decided, and nobody changed since, is no longer in the     *)
(* list that was shown when the verdict was answered, and is in the report    *)
(* of its kind, if there is room, whichever fetches are under way or fail:    *)
(* unless the rows that are shown had been read before the verdict was        *)
(* answered, by a fetch that nobody gave up.                                 *)
ListsFollowVerdicts ==
  Visible /\ shown \notin late =>
    \A a \in answered :
      /\ shown = a.key => a.merchant \notin ToSet(Rows(shown))
      /\ shown = Key(a.verdict, FALSE, 1) /\ Len(Rows(shown)) < PageSize
           => a.merchant \in ToSet(Rows(shown))
=============================================================================
