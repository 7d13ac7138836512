--------------------------- MODULE RegistryOracle ---------------------------
(***************************************************************************)
(* The Registry Oracle service (packages/registry-oracle): the handler of  *)
(* POST /internal/v1/merchants/registrations, run by several requests at   *)
(* once.  Each await of the handler is a step: the look-up of the          *)
(* idempotency record, the start and the commit of the registration        *)
(* transaction, the insertion of the record, and the second look-up after  *)
(* a failed insertion.                                                     *)
(*                                                                         *)
(* An alias is a model value: two spellings that LOWER() identifies are one *)
(* alias.  The database is MySQL at its default isolation level: the reads *)
(* of a transaction see the snapshot of its first read, its writes and the *)
(* unique indexes apply to the committed rows.                             *)
(***************************************************************************)
EXTENDS Naturals, FiniteSets, Sequences

CONSTANTS
  Attempts,        \* runs of the handler; the bound on how many requests arrive
  Keys,            \* values of the Idempotency-Key header
  Counters,        \* checkout counters that can be registered
  MerchantOf,      \* the merchant each counter belongs to
  Aliases, NoAlias,
  Leis, NoLei,
  Fsps,
  NoCounter,       \* checkout_counter_id of a row added by POST /participants
  ParticipantAliases,  \* aliases DFSPs choose in POST /participants
  Batches,         \* bodies of a request, as sequences of merchant records
  BodyCapacity     \* merchants whose answer fits response_body, a TEXT column

VARIABLES
  registry,   \* rows of table registry (RegistryEntity)
  nextId,     \* its AUTO_INCREMENT counter
  records,    \* rows of table idempotency records (IdempotencyRecordEntity)
  pc,         \* where each run of the handler is
  key,        \* the Idempotency-Key of each run
  batch,      \* the merchants of its body
  snapshot,   \* the rows its transaction reads
  data,       \* what its operation returned
  reply       \* the HTTP response

vars == <<registry, nextId, records, pc, key, batch, snapshot, data, reply>>

(* MerchantData: generated is what buildCheckoutCounterAlias makes of the   *)
(* stem and the number of the counter.                                     *)
MerchantData ==
  [counter: Counters, requested: Aliases \cup {NoAlias}, generated: Aliases,
   lei: Leis \cup {NoLei}, fsp: Fsps]

Row ==
  [id: Nat \ {0}, counter: Counters \cup {NoCounter}, alias: Aliases,
   lei: Leis \cup {NoLei}, fsp: Fsps]

ASSUME ConstantsAssumption ==
  /\ NoCounter \notin Counters
  /\ NoAlias \notin Aliases
  /\ NoLei \notin Leis
  /\ ParticipantAliases \subseteq Aliases
  /\ BodyCapacity \in Nat
  /\ Batches \subseteq Seq(MerchantData) \ {<<>>}
  /\ \A b \in Batches : \A i, j \in DOMAIN b : b[i].counter = b[j].counter => i = j

(* One stored request and its answer.                                      *)
Record == [key: Keys, batch: Batches, data: Seq(Row)]

NoReply == [status |-> "none", data |-> <<>>]
Ok(d) == [status |-> "ok", data |-> d]
Conflict == [status |-> "conflict", data |-> <<>>]      \* 409, alias or LEI taken
KeyReused == [status |-> "reused", data |-> <<>>]       \* 409, IdempotencyConflictError
ServerError == [status |-> "error", data |-> <<>>]      \* 500
Reply == [status: {"none", "ok", "conflict", "reused", "error"}, data: Seq(Row)]

Running == {"lookup", "begin", "commit", "insert", "reread"}

TypeOK ==
  /\ registry \subseteq Row
  /\ nextId \in Nat \ {0}
  /\ records \subseteq Record
  /\ pc \in [Attempts -> Running \cup {"idle", "done", "dead"}]
  /\ key \in [Attempts -> Keys]
  /\ batch \in [Attempts -> Batches]
  /\ snapshot \in [Attempts -> SUBSET Row]
  /\ data \in [Attempts -> Seq(Row)]
  /\ reply \in [Attempts -> Reply]

-----------------------------------------------------------------------------
(* The registration transaction: registerMerchants.                        *)

RowsOf(rows, c) == {r \in rows : r.counter = c}
TheRow(rows, c) == CHOOSE r \in rows : r.counter = c

PreferredAlias(m) == IF m.requested # NoAlias THEN m.requested ELSE m.generated

(* Faulty: a registration without a requested alias generates it again.     *)
FaultyResolvedAlias(rows, m) == PreferredAlias(m)

(* The alias a registered counter has is kept unless one is requested.     *)
ResolvedAlias(rows, m) ==
  IF m.requested = NoAlias /\ RowsOf(rows, m.counter) # {}
  THEN TheRow(rows, m.counter).alias
  ELSE PreferredAlias(m)

(* Faulty: the row the counter has is not looked for.                       *)
FaultyEntity(rows, m, fresh) ==
  [id |-> fresh, counter |-> m.counter, alias |-> ResolvedAlias(rows, m),
   lei |-> m.lei, fsp |-> m.fsp]

(* The entity saved for m; fresh is the id an insertion would give it.      *)
Entity(rows, m, fresh) ==
  [id      |-> IF RowsOf(rows, m.counter) = {} THEN fresh
               ELSE TheRow(rows, m.counter).id,
   counter |-> m.counter,
   alias   |-> ResolvedAlias(rows, m),
   lei     |-> m.lei,
   fsp     |-> m.fsp]

Entities(rows, b, first) ==
  [i \in DOMAIN b |-> Entity(rows, b[i], first + i - 1)]

(* Faulty: all merchants are checked before the first is saved.             *)
FaultyView(rows, b, es, i) == rows

(* What the reads for the i-th merchant see: the snapshot under the rows   *)
(* saved for the merchants before it.                                      *)
View(rows, b, es, i) ==
  {r \in rows : \A j \in 1..(i - 1) : r.counter # b[j].counter}
    \cup {es[j] : j \in 1..(i - 1)}

(* getOne returns the row with the lowest id.                               *)
LeiConflict(view, m) ==
  LET owners == {r \in view : r.lei = m.lei}
      first  == CHOOSE r \in owners : \A s \in owners : r.id <= s.id
  IN  /\ m.lei # NoLei
      /\ owners # {}
      /\ \/ MerchantOf[first.counter] # MerchantOf[m.counter]
         \/ first.fsp # m.fsp

(* Faulty: a counter may not have the alias it has.                         *)
FaultyAliasConflict(view, e) == \E r \in view : r.alias = e.alias

AliasConflict(view, e) == \E r \in view : r.alias = e.alias /\ r.id # e.id

BatchConflict(rows, b, es) ==
  \E i \in DOMAIN b : \/ LeiConflict(View(rows, b, es, i), b[i])
                      \/ AliasConflict(View(rows, b, es, i), es[i])

(* save() updates the columns that differ from what the transaction read.  *)
Merge(cur, old, new) ==
  [cur EXCEPT !.alias = IF new.alias # old.alias THEN new.alias ELSE @,
              !.lei   = IF new.lei # old.lei THEN new.lei ELSE @,
              !.fsp   = IF new.fsp # old.fsp THEN new.fsp ELSE @]

(* The rows the transaction leaves: a merchant the snapshot has a row for   *)
(* updates it, any other is inserted.                                      *)
Saved(rows, e) ==
  IF RowsOf(rows, e.counter) = {} THEN e
  ELSE Merge(TheRow(registry, e.counter), TheRow(rows, e.counter), e)

(* Faulty: only the last merchant of a batch is saved.                      *)
FaultyWritten(rows, es) ==
  {r \in registry : r.counter = es[Len(es)].counter => RowsOf(rows, r.counter) = {}}
    \cup {Saved(rows, es[Len(es)])}

Written(rows, es) ==
  {r \in registry : \A i \in DOMAIN es :
     r.counter = es[i].counter => RowsOf(rows, r.counter) = {}}
    \cup {Saved(rows, es[i]) : i \in DOMAIN es}

(* The unique indexes on alias_value and (merchant_id, checkout_counter_id) *)
UniqueIndexes(rows) ==
  \A r, s \in rows :
    r.id # s.id => /\ r.alias # s.alias
                   /\ r.counter = s.counter => r.counter = NoCounter
-----------------------------------------------------------------------------
Init ==
  /\ registry = {}
  /\ nextId = 1
  /\ records = {}
  /\ pc = [a \in Attempts |-> "idle"]
  /\ key \in [Attempts -> Keys]
  /\ batch \in [Attempts -> Batches]
  /\ snapshot = [a \in Attempts |-> {}]
  /\ data = [a \in Attempts |-> <<>>]
  /\ reply = [a \in Attempts |-> NoReply]

Respond(a, r) ==
  /\ reply' = [reply EXCEPT ![a] = r]
  /\ pc' = [pc EXCEPT ![a] = "done"]

Goto(a, label) == pc' = [pc EXCEPT ![a] = label]

RecordsOf(k) == {r \in records : r.key = k}

(* findOneBy and what follows when it finds the key: replay or refuse.      *)
AnswerFrom(a, r) ==
  Respond(a, IF r.batch = batch[a] THEN Ok(r.data) ELSE KeyReused)

(* The request reaches the handler and passes its validation.              *)
Arrive(a) ==
  /\ pc[a] = "idle"
  /\ Goto(a, "lookup")
  /\ UNCHANGED <<registry, nextId, records, key, batch, snapshot, data, reply>>

LookUp(a) ==
  /\ pc[a] = "lookup"
  /\ \/ /\ RecordsOf(key[a]) = {}
        /\ Goto(a, "begin")
        /\ UNCHANGED reply
     \/ \E r \in RecordsOf(key[a]) : AnswerFrom(a, r)
  /\ UNCHANGED <<registry, nextId, records, key, batch, snapshot, data>>

Begin(a) ==
  /\ pc[a] = "begin"
  /\ snapshot' = [snapshot EXCEPT ![a] = registry]
  /\ Goto(a, "commit")
  /\ UNCHANGED <<registry, nextId, records, key, batch, data, reply>>

(* The merchants are checked and saved one after the other; the first       *)
(* conflict rolls back those before it.                                    *)
Commit(a) ==
  LET es == Entities(snapshot[a], batch[a], nextId)
      ws == Written(snapshot[a], es)
  IN  /\ pc[a] = "commit"
      /\ \/ /\ BatchConflict(snapshot[a], batch[a], es)
            /\ Respond(a, Conflict)
            /\ UNCHANGED <<registry, nextId, data>>
         \/ /\ ~BatchConflict(snapshot[a], batch[a], es)
            /\ ~UniqueIndexes(ws)
            /\ Respond(a, ServerError)
            /\ UNCHANGED <<registry, nextId, data>>
         \/ /\ ~BatchConflict(snapshot[a], batch[a], es)
            /\ UniqueIndexes(ws)
            /\ registry' = ws
            /\ nextId' = nextId + Len(es)
            /\ data' = [data EXCEPT ![a] = es]
            /\ Goto(a, "insert")
            /\ UNCHANGED reply
      /\ snapshot' = [snapshot EXCEPT ![a] = {}]
      /\ UNCHANGED <<records, key, batch>>

(* idempotency_key is the primary key; the answer must fit its column.     *)
CanInsert(a) == RecordsOf(key[a]) = {} /\ Len(data[a]) <= BodyCapacity

Insert(a) ==
  /\ pc[a] = "insert"
  /\ \/ /\ CanInsert(a)
        /\ records' = records \cup
             {[key |-> key[a], batch |-> batch[a], data |-> data[a]]}
        /\ Respond(a, Ok(data[a]))
     \/ /\ ~CanInsert(a)
        /\ Goto(a, "reread")
        /\ UNCHANGED <<records, reply>>
  /\ UNCHANGED <<registry, nextId, key, batch, snapshot, data>>

(* Faulty: a failed insertion is ignored.                                   *)
FaultyReread(a) ==
  /\ pc[a] = "reread"
  /\ Respond(a, Ok(data[a]))
  /\ UNCHANGED <<registry, nextId, records, key, batch, snapshot, data>>

Reread(a) ==
  /\ pc[a] = "reread"
  /\ \/ RecordsOf(key[a]) = {} /\ Respond(a, ServerError)
     \/ \E r \in RecordsOf(key[a]) : AnswerFrom(a, r)
  /\ UNCHANGED <<registry, nextId, records, key, batch, snapshot, data>>

(* A database call of the handler throws: 500, an open transaction rolls    *)
(* back, a committed one stays.                                            *)
Fail(a) ==
  /\ pc[a] \in Running
  /\ Respond(a, ServerError)
  /\ snapshot' = [snapshot EXCEPT ![a] = {}]
  /\ UNCHANGED <<registry, nextId, records, key, batch, data>>

(* The process stops: every handler under way is lost, the tables remain.   *)
Crash ==
  /\ \E a \in Attempts : pc[a] \in Running
  /\ pc' = [a \in Attempts |-> IF pc[a] \in Running THEN "dead" ELSE pc[a]]
  /\ snapshot' = [a \in Attempts |-> {}]
  /\ UNCHANGED <<registry, nextId, records, key, batch, data, reply>>

(* POST /participants with an alias the DFSP chose: its row has no merchant *)
(* and its insertion is the only write; an alias that is taken is refused.  *)
AddParticipant(f, al) ==
  /\ \A r \in registry : r.alias # al
  /\ registry' = registry \cup
       {[id |-> nextId, counter |-> NoCounter, alias |-> al, lei |-> NoLei, fsp |-> f]}
  /\ nextId' = nextId + 1
  /\ UNCHANGED <<records, pc, key, batch, snapshot, data, reply>>

Handle(a) ==
  LookUp(a) \/ Begin(a) \/ Commit(a) \/ Insert(a) \/ Reread(a)

Next ==
  \/ \E a \in Attempts : Arrive(a) \/ Handle(a) \/ Fail(a)
  \/ \E f \in Fsps, al \in ParticipantAliases : AddParticipant(f, al)
  \/ Crash

Spec == Init /\ [][Next]_vars

-----------------------------------------------------------------------------
(* The unique index and the checks before it: no two rows of the registry   *)
(* have the same alias, no two have the same counter.                      *)
AliasesUnique ==
  \A r, s \in registry :
    r.id # s.id => /\ r.alias # s.alias
                   /\ r.counter = s.counter => r.counter = NoCounter

(* An Idempotency-Key has one answer for ever: whoever got 200 for a key    *)
(* got the rows recorded for it, in reply to the body recorded for it, also *)
(* when several runs of the same request registered it concurrently.       *)
OneAnswerPerKey ==
  \A a \in Attempts : reply[a].status = "ok" =>
    \E r \in records : /\ r.key = key[a]
                       /\ r.batch = batch[a]
                       /\ reply[a] = Ok(r.data)
                       /\ RecordsOf(key[a]) = {r}

(* What a stored answer says was registered is registered: the replay of a  *)
(* request hands the caller the ids of existing rows of its own counters.   *)
AnsweredRowsExist ==
  \A r \in records : \A i \in DOMAIN r.batch :
    \E s \in registry : /\ s.id = r.data[i].id
                        /\ s.counter = r.batch[i].counter

(* A step of run a that keeps or changes an alias on request of its body.   *)
Requested(a, c, al) ==
  \E i \in DOMAIN batch[a] : batch[a][i].counter = c /\ batch[a][i].requested = al

(* A registered row is never removed nor given to another counter, and its  *)
(* alias changes only when a request under way asks for the new one by name: *)
(* no re-registration with a generated alias renames a counter in use.      *)
AliasesStable ==
  [][\A r \in registry : \E s \in registry' :
       /\ s.id = r.id
       /\ s.counter = r.counter
       /\ s.alias # r.alias =>
            \E a \in Attempts : pc[a] = "commit" /\ Requested(a, r.counter, s.alias)]_vars

(* A stored answer is never overwritten.                                    *)
AnswersImmutable == [][records \subseteq records']_records

(* A LEI has one owner: the rows that carry it belong to one merchant of    *)
(* one DFSP.                                                                *)
LeiHasOneOwner ==
  \A r, s \in registry :
    r.lei # NoLei /\ r.lei = s.lei =>
      MerchantOf[r.counter] = MerchantOf[s.counter] /\ r.fsp = s.fsp

(* The LEI checks are enough when nothing was committed since the snapshot:  *)
(* such a commit gives no LEI a second owner, not even within its batch.    *)
LeiKeptBySerialCommits ==
  [][\A a \in Attempts :
       pc[a] = "commit" /\ pc'[a] # "commit" /\ snapshot[a] = registry /\ LeiHasOneOwner
         => LeiHasOneOwner']_vars

(* The promise of executeIdempotently: the detailed handler implements       *)
(* KeyedAnswers, with the stored records as the answers.                    *)
Promise == INSTANCE KeyedAnswers WITH Callers <- Attempts, answers <- records

KeepsPromise == Promise!KSpec
=============================================================================
