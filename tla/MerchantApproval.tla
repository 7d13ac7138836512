-------------------------- MODULE MerchantApproval --------------------------
(***************************************************************************)
(* The maker/checker workflow of the Acquirer Backend on existing merchant *)
(* records: PUT draft, ready-to-review, the endpoints of its contact       *)
(* persons, owners and locations, and bulk approve, reject and revert.      *)
(* Every handler loads its merchants, checks what it loaded, and after     *)
(* that writes without looking again: its awaits are the steps.             *)
(*                                                                         *)
(* A handler that refuses what it loaded leaves nothing behind and is not   *)
(* a step.  The users are those of the merchants' DFSP.  The Registry      *)
(* Oracle is the set of the counters it has registered.                    *)
(***************************************************************************)
EXTENDS Naturals, FiniteSets

CONSTANTS
  Merchants,
  Counters,      \* checkout counters, numbered in the order of the requests
  MerchantOf,
  Users, NoUser,
  Handlers,      \* requests the backend works on at once
  Faults         \* the faults considered, a subset of {"query", "crash"}

ASSUME ConstantsAssumption ==
  /\ Counters \subseteq Nat
  /\ IsFiniteSet(Counters)
  /\ MerchantOf \in [Counters -> Merchants]
  /\ \A m \in Merchants : \E c \in Counters : MerchantOf[c] = m
  /\ NoUser \notin Users

VARIABLES
  status, creator, checker,   \* columns of table merchants
  allowed,                    \* merchants whose allow_block_status is Allowed
  issued,                     \* counters that have their alias, guid and QR code
  registered,                 \* counters the oracle has rows for
  pc,                         \* where each handler is
  req,                        \* its request, with the rows it loaded
  todo                        \* counters whose answer it still has to apply

rows == <<status, creator, checker, allowed, issued, registered>>
vars == <<rows, pc, req, todo>>

Statuses == {"draft", "review", "waiting", "approved", "rejected", "reverted"}
Operations ==
  {"draft", "ready", "contact", "detail", "approve", "reject", "revert"}
Labels ==
  {"idle", "submit", "save", "alias", "resave", "stalesave", "decide", "mark", "audit",
   "register", "apply", "approve", "reset"}

(* A request on ids, with the rows of ids as they were when it loaded them.  *)
Requests == UNION {
  [op: Operations, user: Users, ids: {ms}, status: [ms -> Statuses],
   creator: [ms -> Users], allowed: SUBSET ms, issued: SUBSET Counters]
  : ms \in (SUBSET Merchants) \ {{}}}

(* What an idle handler has for a request.                                  *)
NoRequest == [op |-> "none", ids |-> {}]

RowsTypeOK ==
  /\ status \in [Merchants -> Statuses]
  /\ creator \in [Merchants -> Users]
  /\ checker \in [Merchants -> Users \cup {NoUser}]
  /\ allowed \subseteq Merchants
  /\ issued \subseteq Counters
  /\ registered \subseteq Counters

HandlersTypeOK ==
  /\ pc \in [Handlers -> Labels]
  /\ req \in [Handlers -> Requests \cup {NoRequest}]
  /\ todo \in [Handlers -> SUBSET Counters]
  /\ \A h \in Handlers : pc[h] # "idle" => req[h] \in Requests
  /\ \A h \in Handlers : pc[h] \in {"apply", "approve"} => todo[h] # {}

TypeOK == RowsTypeOK /\ HandlersTypeOK

CountersOf(ms) == {c \in Counters : MerchantOf[c] \in ms}
First(cs) == CHOOSE c \in cs : \A d \in cs : c <= d

(* The function f with the value v on all of S; f with the values of g.     *)
Set(f, S, v) == [m \in Merchants |-> IF m \in S THEN v ELSE f[m]]
Overlay(f, g) == [m \in Merchants |-> IF m \in DOMAIN g THEN g[m] ELSE f[m]]

(* postMerchantDraft left drafts, importBulkMerchants records under review.  *)
Init ==
  /\ status \in [Merchants -> {"draft", "review"}]
  /\ creator \in [Merchants -> Users]
  /\ checker = [m \in Merchants |-> NoUser]
  /\ allowed = {}
  /\ issued = {}
  /\ registered = {}
  /\ pc = [h \in Handlers |-> "idle"]
  /\ req = [h \in Handlers |-> NoRequest]
  /\ todo = [h \in Handlers |-> {}]

Goto(h, label) == pc' = [pc EXCEPT ![h] = label]

(* The handler is done, whatever it answers, and its request is forgotten.  *)
Finish(h) ==
  /\ Goto(h, "idle")
  /\ req' = [req EXCEPT ![h] = NoRequest]
  /\ todo' = [todo EXCEPT ![h] = {}]

-----------------------------------------------------------------------------
(* The first await of every handler: it loads the merchants and checks them. *)

FaultyReviewable(u, m) == status[m] = "review"
Reviewable(u, m) == status[m] = "review" /\ creator[m] # u

(* Only the first two look at the status of the single record they edit.    *)
FaultyEditable(o, u, m) ==
  CASE o = "draft"   -> status[m] \in {"draft", "reverted", "rejected"}
    [] o = "ready"   -> status[m] = "draft" /\ creator[m] = u
    [] o = "contact" -> creator[m] # u
    [] OTHER         -> TRUE
Editable(o, u, m) ==
  CASE o = "draft"   -> status[m] \in {"draft", "reverted"}
    [] o = "ready"   -> status[m] = "draft" /\ creator[m] = u
    [] o = "contact" -> creator[m] # u
    [] OTHER         -> TRUE

Accepts(o, u, ms) ==
  IF o \in {"approve", "reject", "revert"}
  THEN \A m \in ms : Reviewable(u, m)
  ELSE \E m \in ms : ms = {m} /\ Editable(o, u, m)

FirstWrite(o) ==
  CASE o = "draft" -> "save" [] o = "ready" -> "submit" [] o = "approve" -> "mark"
    [] o \in {"reject", "revert"} -> "decide" [] OTHER -> "stalesave"

Load(h, o, u, ms) ==
  /\ pc[h] = "idle"
  /\ ms # {}
  /\ Accepts(o, u, ms)
  /\ Goto(h, FirstWrite(o))
  /\ req' = [req EXCEPT ![h] =
       [op |-> o, user |-> u, ids |-> ms,
        status |-> [m \in ms |-> status[m]], creator |-> [m \in ms |-> creator[m]],
        allowed |-> ms \cap allowed, issued |-> CountersOf(ms) \cap issued]]
  /\ UNCHANGED <<rows, todo>>

-----------------------------------------------------------------------------
(* Saving an entity writes all the columns it was loaded with.              *)

(* putMerchantStatusReadyToReview, which loads created_by as well.           *)
Submit(h) ==
  LET r == req[h] IN
  /\ pc[h] = "submit"
  /\ status' = Set(status, r.ids, "review")
  /\ creator' = Overlay(creator, r.creator)
  /\ allowed' = (allowed \ r.ids) \cup r.allowed
  /\ Finish(h)
  /\ UNCHANGED <<checker, issued, registered>>

(* merchantRepository.save of putMerchantDraft.                             *)
SaveDraft(h) ==
  LET r == req[h] IN
  /\ status' = Set(status, r.ids, "draft")
  /\ creator' = Set(creator, r.ids, r.user)
  /\ allowed' = allowed \ r.ids
  /\ UNCHANGED <<checker, issued, registered>>

Save(h) ==
  /\ pc[h] = "save"
  /\ SaveDraft(h)
  /\ Goto(h, "alias")
  /\ UNCHANGED <<req, todo>>

(* saveRequestedMerchantAlias saves the primary counter as it was loaded,    *)
(* if the body has a payinto_alias; the upload of a document may follow.    *)
SaveAlias(h) ==
  LET primary == First(CountersOf(req[h].ids)) IN
  /\ pc[h] = "alias"
  /\ \/ issued' = (issued \ {primary}) \cup ({primary} \cap req[h].issued)
     \/ UNCHANGED issued
  /\ \/ Goto(h, "resave") /\ UNCHANGED <<req, todo>>
     \/ Finish(h)
  /\ UNCHANGED <<status, creator, checker, allowed, registered>>

(* After the upload the entity is saved a second time.                      *)
Resave(h) ==
  /\ pc[h] = "resave"
  /\ SaveDraft(h)
  /\ Finish(h)

(* postMerchantContactPerson and putMerchantContactPerson make the user the *)
(* maker; postMerchantOwner and postMerchantLocation save the record too,    *)
(* without its created_by.                                                  *)
StaleSave(h) ==
  LET r == req[h] IN
  /\ pc[h] = "stalesave"
  /\ status' = Overlay(status, r.status)
  /\ allowed' = (allowed \ r.ids) \cup r.allowed
  /\ creator' = IF r.op = "contact" THEN Set(creator, r.ids, r.user) ELSE creator
  /\ Finish(h)
  /\ UNCHANGED <<checker, issued, registered>>

(* putBulkReject and putBulkRevert update two columns only.                 *)
Decide(h) ==
  LET r == req[h] IN
  /\ pc[h] = "decide"
  /\ status' = Set(status, r.ids, IF r.op = "reject" THEN "rejected" ELSE "reverted")
  /\ checker' = Set(checker, r.ids, r.user)
  /\ Finish(h)
  /\ UNCHANGED <<creator, allowed, issued, registered>>

-----------------------------------------------------------------------------
(* putBulkWaitingAliasGeneration.                                           *)

FaultyMark(h) ==
  /\ pc[h] = "mark"
  /\ status' = Set(status, req[h].ids, "waiting")
  /\ Goto(h, "audit")
  /\ UNCHANGED <<creator, checker, allowed, issued, registered, req, todo>>
Mark(h) ==
  /\ pc[h] = "mark"
  /\ status' = Set(status, req[h].ids, "waiting")
  /\ checker' = Set(checker, req[h].ids, req[h].user)
  /\ Goto(h, "audit")
  /\ UNCHANGED <<creator, allowed, issued, registered, req, todo>>

Audit(h) ==
  /\ pc[h] = "audit"
  /\ Goto(h, "register")
  /\ UNCHANGED <<rows, req, todo>>

(* registerMerchantsWithRegistry: all counters are registered, or the call   *)
(* fails, possibly after the oracle has registered them.                    *)
FaultyRegister(h) ==
  LET cs == CountersOf(req[h].ids) IN
  /\ pc[h] = "register"
  /\ registered' \in {registered, registered \cup cs}
  /\ todo' = [todo EXCEPT ![h] = cs]
  /\ Goto(h, "apply")
  /\ UNCHANGED <<status, creator, checker, allowed, issued, req>>
Register(h) ==
  LET cs == CountersOf(req[h].ids) IN
  /\ pc[h] = "register"
  /\ \/ /\ registered' = registered \cup cs
        /\ todo' = [todo EXCEPT ![h] = cs]
        /\ Goto(h, "apply")
     \/ /\ registered' \in {registered, registered \cup cs}
        /\ UNCHANGED todo
        /\ Goto(h, "reset")
  /\ UNCHANGED <<status, creator, checker, allowed, issued, req>>

(* The QR code of the next counter is generated, uploaded and recorded, or   *)
(* one of these steps throws.                                               *)
FaultyApply(h) ==
  /\ pc[h] = "apply"
  /\ \/ issued' = issued \cup {First(todo[h])} /\ Goto(h, "approve") /\ UNCHANGED <<req, todo>>
     \/ UNCHANGED issued /\ Finish(h)
  /\ UNCHANGED <<status, creator, checker, allowed, registered>>
Apply(h) ==
  /\ pc[h] = "apply"
  /\ \/ issued' = issued \cup {First(todo[h])} /\ Goto(h, "approve")
     \/ UNCHANGED issued /\ Goto(h, "reset")
  /\ UNCHANGED <<status, creator, checker, allowed, registered, req, todo>>

(* updateMerchantStatus, after each counter of the merchant.                *)
FaultyApprove(h) ==
  /\ pc[h] = "approve"
  /\ status' = Set(status, {MerchantOf[First(todo[h])]}, "approved")
  /\ allowed' = allowed \cup {MerchantOf[First(todo[h])]}
  /\ Finish(h)
  /\ UNCHANGED <<creator, checker, issued, registered>>
Approve(h) ==
  LET c == First(todo[h]) IN
  /\ pc[h] = "approve"
  /\ status' = Set(status, {MerchantOf[c]}, "approved")
  /\ allowed' = allowed \cup {MerchantOf[c]}
  /\ IF todo[h] = {c}
     THEN Finish(h)
     ELSE /\ todo' = [todo EXCEPT ![h] = @ \ {c}]
          /\ Goto(h, "apply")
          /\ UNCHANGED req
  /\ UNCHANGED <<creator, checker, issued, registered>>

(* The catch around the registration.                                       *)
Reset(h) ==
  /\ pc[h] = "reset"
  /\ status' = Set(status, req[h].ids, "review")
  /\ Finish(h)
  /\ UNCHANGED <<creator, checker, allowed, issued, registered>>

(* A database call throws: the handler answers 500 and leaves what it wrote. *)
(* Only an approval that has the oracle's answer has a catch of its own.    *)
QueryFails(h) ==
  /\ "query" \in Faults
  /\ \/ pc[h] = "approve" /\ Goto(h, "reset") /\ UNCHANGED <<req, todo>>
     \/ pc[h] \notin {"idle", "approve", "register", "apply"} /\ Finish(h)
  /\ UNCHANGED rows

(* The backend stops: its handlers are gone, the database stays.            *)
Crash ==
  /\ "crash" \in Faults
  /\ \E h \in Handlers : pc[h] # "idle"
  /\ pc' = [h \in Handlers |-> "idle"]
  /\ req' = [h \in Handlers |-> NoRequest]
  /\ todo' = [h \in Handlers |-> {}]
  /\ UNCHANGED rows

Step(h) ==
  \/ Submit(h) \/ Save(h) \/ SaveAlias(h) \/ Resave(h) \/ StaleSave(h) \/ Decide(h)
  \/ Mark(h) \/ Audit(h) \/ Register(h) \/ Apply(h) \/ Approve(h) \/ Reset(h)

Arrive(h) == \E o \in Operations, u \in Users, ms \in SUBSET Merchants : Load(h, o, u, ms)
Proceed == Crash \/ \E h \in Handlers : Step(h) \/ QueryFails(h)

Next == Proceed \/ \E h \in Handlers : Arrive(h)
Spec == Init /\ [][Next]_vars

(* No two requests are at work on the same merchant.                        *)
ArriveAlone(h) ==
  \E o \in Operations, u \in Users, ms \in SUBSET Merchants :
    /\ \A g \in Handlers : req[g].ids \cap ms = {}
    /\ Load(h, o, u, ms)

AloneNext == Proceed \/ \E h \in Handlers : ArriveAlone(h)
AloneSpec == Init /\ [][AloneNext]_vars

(* A request runs on to its end: each of its awaits is answered.            *)
RequestsEnd == \A h \in Handlers : WF_vars(Step(h))
FairAloneSpec == AloneSpec /\ RequestsEnd

-----------------------------------------------------------------------------
(* Whatever requests race, fail or are cut off: the backend never treats a  *)
(* counter as issued, or a merchant as approved or allowed, before the      *)
(* oracle has registered it (a payment would not resolve its alias).        *)
RegistryFirst ==
  /\ issued \subseteq registered
  /\ \A m \in Merchants :
       status[m] = "approved" \/ m \in allowed => CountersOf({m}) \subseteq registered

(* putMerchantApproveBulk.ts:124, putMerchantRejectBulk.ts:146 and          *)
(* putMerchantRevertBulk.ts:148 compare the checker with created_by when    *)
(* they load.  If no other request is at work on the merchant, the verdict  *)
(* is given on a record under review that the checker is not the maker of.  *)
DecidedByAnother ==
  [][\A m \in Merchants :
       status'[m] # status[m] /\ status'[m] \in {"waiting", "rejected", "reverted"}
         => status[m] = "review" /\ checker'[m] # creator[m]]_vars

(* No request revives a rejected merchant (onboarding-guide.md:226: "when   *)
(* the application should not continue").                                   *)
RejectedIsFinal ==
  [][\A m \in Merchants : status[m] = "rejected" => status'[m] = "rejected"]_vars

(* With no other request at work on them, merchants live as the guide says. *)
Life == INSTANCE MerchantLifecycle
KeepsLifecycle == Life!LSpec

(* If no query fails and the backend stays up, an approved merchant that no *)
(* approval is at work on has the QR codes of all its counters: a failure   *)
(* at any of them undoes the approval its predecessors wrote.               *)
ApprovedIsComplete ==
  \A m \in Merchants :
    status[m] = "approved" /\ (\A h \in Handlers : m \notin req[h].ids)
      => CountersOf({m}) \subseteq issued

(* No merchant is left waiting for its aliases, where the approval that put  *)
(* it there is alone to take it out again.                                  *)
WaitingEnds == \A m \in Merchants : status[m] = "waiting" ~> status[m] # "waiting"
=============================================================================
