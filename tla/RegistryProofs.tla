--------------------------- MODULE RegistryProofs ---------------------------
(***************************************************************************)
(* Theorems about RegistryOracle, and about RegistryClient, which composes  *)
(* it with the calls of its clients, for every value of their constants.    *)
(*                                                                         *)
(* The inductive invariant of the oracle is IInv.  TypeOK alone is not       *)
(* inductive: the transaction of a run updates the row it finds for a        *)
(* counter, and that this row is still there needs SnapshotCurrent, whose    *)
(* preservation needs the ids to be unique and fresh.                       *)
(*                                                                         *)
(* With its clients the oracle does nothing it does not do alone             *)
(* (OracleStep, ClientsImplementOracle), so IInv holds of the composition.   *)
(* CInv adds what the calls contribute: the requests of a call agree on its  *)
(* key and its body, and the rows it returned are those of a record.        *)
(***************************************************************************)
EXTENDS RegistryClient, FiniteSetTheorems, WellFoundedInduction, TLAPS

(* The ids of the registry are unique, and smaller than the next one.      *)
IdsFresh ==
  /\ \A r \in registry : r.id < nextId
  /\ \A r, s \in registry : r.id = s.id => r = s

(* rows are still present, under their ids, whatever their columns became. *)
StillThere(rows, now) ==
  \A r \in rows : \E s \in now : s.id = r.id /\ s.counter = r.counter

SnapshotCurrent == \A a \in Attempts : StillThere(snapshot[a], registry)

(* es are the answer to b, and its rows are registered.                    *)
Answers(es, b, now) ==
  /\ DOMAIN es = DOMAIN b
  /\ \A i \in DOMAIN b : \E s \in now : s.id = es[i].id /\ s.counter = b[i].counter

DataRegistered ==
  \A a \in Attempts : pc[a] = "insert" => Answers(data[a], batch[a], registry)

RecordsAnswer == \A r \in records : Answers(r.data, r.batch, registry)

KeysUnique == \A r, s \in records : r.key = s.key => r = s

RowsInv == TypeOK /\ AliasesUnique /\ IdsFresh /\ SnapshotCurrent

(* A handler under way has not answered.                                    *)
Pending ==
  \A a \in Attempts : pc[a] \in Running \cup {"idle"} => reply[a] = NoReply

IInv == /\ RowsInv
        /\ DataRegistered
        /\ Pending
        /\ RecordsAnswer
        /\ KeysUnique
        /\ OneAnswerPerKey

-----------------------------------------------------------------------------
(* The row of a counter is a row and is that counter's.                     *)
LEMMA TheRowFact ==
  ASSUME NEW rows, NEW c, RowsOf(rows, c) # {}
  PROVE  TheRow(rows, c) \in rows /\ TheRow(rows, c).counter = c
BY DEF RowsOf, TheRow

(* A body names merchants one by one, no counter twice.                     *)
LEMMA BatchFact ==
  ASSUME NEW b \in Batches
  PROVE  /\ b \in Seq(MerchantData)
         /\ Len(b) \in Nat
         /\ DOMAIN b = 1..Len(b)
         /\ \A i \in DOMAIN b : b[i] \in MerchantData
         /\ \A i, j \in DOMAIN b : b[i].counter = b[j].counter => i = j
BY ConstantsAssumption

(* The entity built for a merchant is a row of its counter.                 *)
LEMMA EntityFact ==
  ASSUME NEW rows \in SUBSET Row, NEW m \in MerchantData, NEW fresh \in Nat \ {0}
  PROVE  /\ Entity(rows, m, fresh) \in Row
         /\ Entity(rows, m, fresh).counter = m.counter
         /\ m.counter \in Counters
         /\ IF RowsOf(rows, m.counter) = {}
            THEN Entity(rows, m, fresh).id = fresh
            ELSE Entity(rows, m, fresh).id = TheRow(rows, m.counter).id
<1>1. m.counter \in Counters /\ m.lei \in Leis \cup {NoLei} /\ m.fsp \in Fsps
  BY DEF MerchantData
<1>2. PreferredAlias(m) \in Aliases
  BY DEF MerchantData, PreferredAlias
<1>3. RowsOf(rows, m.counter) # {} => TheRow(rows, m.counter) \in Row
  BY TheRowFact
<1>4. ResolvedAlias(rows, m) \in Aliases
  BY <1>2, <1>3 DEF ResolvedAlias, Row
<1>5. (IF RowsOf(rows, m.counter) = {} THEN fresh ELSE TheRow(rows, m.counter).id)
        \in Nat \ {0}
  BY <1>3 DEF Row
<1> QED
  BY <1>1, <1>4, <1>5 DEF Entity, Row

LEMMA EntitiesFact ==
  ASSUME NEW rows \in SUBSET Row, NEW b \in Batches, NEW first \in Nat \ {0}
  PROVE  /\ Entities(rows, b, first) \in Seq(Row)
         /\ DOMAIN Entities(rows, b, first) = DOMAIN b
         /\ Len(Entities(rows, b, first)) = Len(b)
         /\ \A i \in DOMAIN b :
              /\ Entities(rows, b, first)[i] = Entity(rows, b[i], first + i - 1)
              /\ Entities(rows, b, first)[i] \in Row
              /\ Entities(rows, b, first)[i].counter = b[i].counter
              /\ b[i].counter \in Counters
              /\ IF RowsOf(rows, b[i].counter) = {}
                 THEN Entities(rows, b, first)[i].id = first + i - 1
                 ELSE Entities(rows, b, first)[i].id = TheRow(rows, b[i].counter).id
<1> DEFINE es == Entities(rows, b, first)
<1>1. /\ DOMAIN b = 1..Len(b)
      /\ Len(b) \in Nat
      /\ \A i \in DOMAIN b : b[i] \in MerchantData
  BY BatchFact
<1>2. DOMAIN es = DOMAIN b /\ \A i \in DOMAIN b : es[i] = Entity(rows, b[i], first + i - 1)
  BY DEF Entities
<1>3. ASSUME NEW i \in DOMAIN b PROVE first + i - 1 \in Nat \ {0}
  BY <1>1
<1>4. ASSUME NEW i \in DOMAIN b
      PROVE  /\ es[i] \in Row
             /\ es[i].counter = b[i].counter
             /\ b[i].counter \in Counters
             /\ IF RowsOf(rows, b[i].counter) = {}
                THEN es[i].id = first + i - 1
                ELSE es[i].id = TheRow(rows, b[i].counter).id
  <2>1. b[i] \in MerchantData /\ first + i - 1 \in Nat \ {0}
    BY <1>1, <1>3
  <2>2. /\ Entity(rows, b[i], first + i - 1) \in Row
        /\ Entity(rows, b[i], first + i - 1).counter = b[i].counter
        /\ b[i].counter \in Counters
        /\ IF RowsOf(rows, b[i].counter) = {}
           THEN Entity(rows, b[i], first + i - 1).id = first + i - 1
           ELSE Entity(rows, b[i], first + i - 1).id = TheRow(rows, b[i].counter).id
    BY <2>1, EntityFact
  <2>3. es[i] = Entity(rows, b[i], first + i - 1)
    BY <1>2
  <2> HIDE DEF es
  <2> QED BY <2>2, <2>3
<1>5. es \in [1..Len(b) -> Row]
  BY <1>1, <1>2, <1>4 DEF Entities
<1>6. es \in Seq(Row) /\ Len(es) = Len(b)
  BY <1>1, <1>5
<1> QED BY <1>2, <1>4, <1>6

(* An update keeps the id and the counter of the row.                       *)
LEMMA MergeFact ==
  ASSUME NEW cur \in Row, NEW old \in Row, NEW new \in Row
  PROVE  /\ Merge(cur, old, new) \in Row
         /\ Merge(cur, old, new).id = cur.id
         /\ Merge(cur, old, new).counter = cur.counter
BY DEF Merge, Row

(* A counter has at most one row.                                           *)
LEMMA OneRowPerCounter ==
  ASSUME RowsInv, NEW r \in registry, NEW s \in registry,
         r.counter = s.counter, r.counter # NoCounter
  PROVE  r = s
BY DEF RowsInv, AliasesUnique, UniqueIndexes, IdsFresh

(* What the transaction of run a leaves in the registry, if it commits.     *)
LEMMA WrittenFact ==
  ASSUME RowsInv, NEW a \in Attempts, NEW es,
         es = Entities(snapshot[a], batch[a], nextId)
  PROVE  /\ Written(snapshot[a], es) \subseteq Row
         /\ StillThere(registry, Written(snapshot[a], es))
         /\ Answers(es, batch[a], Written(snapshot[a], es))
         /\ \A r \in Written(snapshot[a], es) : r.id < nextId + Len(es)
         /\ \A r, s \in Written(snapshot[a], es) : r.id = s.id => r = s
         /\ es \in Seq(Row)
         /\ nextId + Len(es) \in Nat \ {0}
<1> DEFINE rows == snapshot[a]
           b    == batch[a]
           ws   == Written(rows, es)
           known(c) == RowsOf(rows, c) # {}
<1>1. /\ rows \in SUBSET Row
      /\ b \in Batches
      /\ nextId \in Nat \ {0}
      /\ registry \in SUBSET Row
  BY DEF RowsInv, TypeOK
<1>2. /\ es \in Seq(Row)
      /\ DOMAIN es = DOMAIN b
      /\ Len(es) = Len(b)
      /\ \A i \in DOMAIN b :
           /\ es[i] \in Row
           /\ es[i].counter = b[i].counter
           /\ b[i].counter \in Counters
           /\ IF RowsOf(rows, b[i].counter) = {}
              THEN es[i].id = nextId + i - 1
              ELSE es[i].id = TheRow(rows, b[i].counter).id
  <2> DEFINE full == Entities(rows, b, nextId)
  <2>1. /\ full \in Seq(Row)
        /\ DOMAIN full = DOMAIN b
        /\ Len(full) = Len(b)
        /\ \A i \in DOMAIN b :
             /\ full[i] = Entity(rows, b[i], nextId + i - 1)
             /\ full[i] \in Row
             /\ full[i].counter = b[i].counter
             /\ b[i].counter \in Counters
             /\ IF RowsOf(rows, b[i].counter) = {}
                THEN full[i].id = nextId + i - 1
                ELSE full[i].id = TheRow(rows, b[i].counter).id
    BY <1>1, EntitiesFact
  <2>2. es = full
    OBVIOUS
  <2> HIDE DEF full
  <2> QED BY <2>1, <2>2
<1>3. /\ DOMAIN b = 1..Len(b)
      /\ Len(b) \in Nat
      /\ \A i, j \in DOMAIN b : b[i].counter = b[j].counter => i = j
  BY <1>1, BatchFact
<1> HIDE DEF b
<1>4. ASSUME NEW c \in Counters, known(c)
      PROVE  /\ TheRow(rows, c) \in Row
             /\ TheRow(registry, c) \in registry
             /\ TheRow(registry, c).counter = c
             /\ TheRow(registry, c).id = TheRow(rows, c).id
  <2>1. TheRow(rows, c) \in rows /\ TheRow(rows, c).counter = c
    BY <1>4, TheRowFact
  <2>2. PICK s \in registry : s.id = TheRow(rows, c).id /\ s.counter = c
    BY <2>1 DEF RowsInv, SnapshotCurrent, StillThere
  <2>3. RowsOf(registry, c) # {}
    BY <2>2 DEF RowsOf
  <2>4. TheRow(registry, c) \in registry /\ TheRow(registry, c).counter = c
    BY <2>3, TheRowFact
  <2>5. TheRow(registry, c) = s
    BY <2>2, <2>4, OneRowPerCounter, ConstantsAssumption
  <2> QED BY <1>1, <2>1, <2>2, <2>4, <2>5
<1>5. ASSUME NEW i \in DOMAIN b
      PROVE  /\ Saved(rows, es[i]) \in Row
             /\ Saved(rows, es[i]).id = es[i].id
             /\ Saved(rows, es[i]).counter = b[i].counter
             /\ known(b[i].counter) => \E r \in registry :
                  r.id = es[i].id /\ r.counter = b[i].counter
             /\ ~known(b[i].counter) => es[i].id = nextId + i - 1
  <2>1. es[i] \in Row /\ es[i].counter = b[i].counter /\ b[i].counter \in Counters
    BY <1>2
  <2>2. CASE ~known(b[i].counter)
    BY <2>1, <2>2, <1>2 DEF Saved
  <2>3. CASE known(b[i].counter)
    <3>1. /\ TheRow(rows, b[i].counter) \in Row
          /\ TheRow(registry, b[i].counter) \in registry
          /\ TheRow(registry, b[i].counter).counter = b[i].counter
          /\ TheRow(registry, b[i].counter).id = TheRow(rows, b[i].counter).id
      BY <2>1, <2>3, <1>4
    <3>2. Saved(rows, es[i]) =
            Merge(TheRow(registry, b[i].counter), TheRow(rows, b[i].counter), es[i])
      BY <2>1, <2>3 DEF Saved
    <3>3. es[i].id = TheRow(rows, b[i].counter).id
      BY <2>3, <1>2
    <3>4. TheRow(registry, b[i].counter) \in Row
      BY <3>1, <1>1
    <3>5. /\ Saved(rows, es[i]) \in Row
          /\ Saved(rows, es[i]).id = TheRow(registry, b[i].counter).id
          /\ Saved(rows, es[i]).counter = TheRow(registry, b[i].counter).counter
      BY <3>1, <3>2, <3>4, <2>1, MergeFact
    <3> QED BY <2>3, <3>1, <3>3, <3>5
  <2> QED BY <2>2, <2>3
<1> DEFINE kept == {r \in registry : \A i \in DOMAIN es :
                      r.counter = es[i].counter => RowsOf(rows, r.counter) = {}}
           saved == {Saved(rows, es[i]) : i \in DOMAIN es}
<1>6. ws = kept \cup saved
  BY DEF Written
<1>7. ws \subseteq Row
  BY <1>1, <1>2, <1>5, <1>6
<1>8. ASSUME NEW r \in registry
      PROVE  \E s \in ws : s.id = r.id /\ s.counter = r.counter
  <2>1. CASE r \in kept
    BY <2>1, <1>6
  <2>2. CASE r \notin kept
    <3>1. PICK i \in DOMAIN b : r.counter = b[i].counter /\ known(b[i].counter)
      BY <2>2, <1>2
    <3>2. PICK s \in registry : s.id = es[i].id /\ s.counter = b[i].counter
      BY <3>1, <1>5
    <3>3. b[i].counter # NoCounter
      BY <1>2, ConstantsAssumption
    <3>4. s = r
      BY <3>1, <3>2, <3>3, OneRowPerCounter
    <3>5. Saved(rows, es[i]) \in ws
      BY <1>2, <1>6
    <3> QED BY <3>1, <3>2, <3>4, <3>5, <1>5
  <2> QED BY <2>1, <2>2
<1>9. \A i \in DOMAIN b : \E s \in ws : s.id = es[i].id /\ s.counter = b[i].counter
  BY <1>2, <1>5, <1>6
<1>10. ASSUME NEW r \in ws PROVE r.id < nextId + Len(es)
  <2>1. CASE r \in kept
    BY <2>1, <1>1, <1>2, <1>3 DEF RowsInv, IdsFresh, Row
  <2>2. CASE r \in saved
    <3>1. PICK i \in DOMAIN b : r = Saved(rows, es[i])
      BY <2>2, <1>2
    <3>2. CASE known(b[i].counter)
      <4>1. PICK s \in registry : s.id = es[i].id
        BY <3>2, <1>5
      <4>2. s.id < nextId /\ s.id \in Nat
        BY <1>1 DEF RowsInv, IdsFresh, Row
      <4> QED BY <3>1, <4>1, <4>2, <1>1, <1>2, <1>3, <1>5
    <3>3. CASE ~known(b[i].counter)
      <4>1. r.id = nextId + i - 1 /\ i \in 1..Len(b)
        BY <3>1, <3>3, <1>3, <1>5
      <4> QED BY <4>1, <1>1, <1>2, <1>3
    <3> QED BY <3>2, <3>3
  <2> QED BY <2>1, <2>2, <1>6
<1>11. ASSUME NEW r \in ws, NEW s \in ws, r.id = s.id PROVE r = s
  <2>1. ASSUME NEW x \in kept, NEW y \in saved, x.id = y.id PROVE FALSE
    <3>1. PICK i \in DOMAIN b : y = Saved(rows, es[i])
      BY <2>1, <1>2
    <3>2. x \in registry /\ x.id \in Nat /\ x.id < nextId
      BY <2>1, <1>1 DEF RowsInv, IdsFresh, Row
    <3>3. CASE known(b[i].counter)
      <4>1. PICK z \in registry : z.id = es[i].id /\ z.counter = b[i].counter
        BY <3>3, <1>5
      <4>2. z = x
        BY <4>1, <3>1, <3>2, <2>1, <1>5 DEF RowsInv, IdsFresh
      <4> QED BY <4>1, <4>2, <3>3, <2>1, <1>2
    <3>4. CASE ~known(b[i].counter)
      <4>1. x.id = nextId + i - 1 /\ i \in 1..Len(b)
        BY <3>1, <3>4, <2>1, <1>3, <1>5
      <4> QED BY <4>1, <3>2, <1>1, <1>3
    <3> QED BY <3>3, <3>4
  <2>2. CASE r \in kept /\ s \in kept
    BY <2>2, <1>11 DEF RowsInv, IdsFresh
  <2>3. CASE r \in saved /\ s \in saved
    <3>1. PICK i \in DOMAIN b, j \in DOMAIN b :
            r = Saved(rows, es[i]) /\ s = Saved(rows, es[j])
      BY <2>3, <1>2
    <3>2. es[i].id = es[j].id /\ i \in 1..Len(b) /\ j \in 1..Len(b)
      BY <3>1, <1>3, <1>5, <1>11
    <3>3. CASE known(b[i].counter) /\ known(b[j].counter)
      <4>1. PICK x \in registry : x.id = es[i].id /\ x.counter = b[i].counter
        BY <3>3, <1>5
      <4>2. PICK y \in registry : y.id = es[j].id /\ y.counter = b[j].counter
        BY <3>3, <1>5
      <4>3. x = y
        BY <4>1, <4>2, <3>2 DEF RowsInv, IdsFresh
      <4> QED BY <4>1, <4>2, <4>3, <3>1, <1>3
    <3>4. CASE ~known(b[i].counter) /\ ~known(b[j].counter)
      <4>1. nextId + i - 1 = nextId + j - 1
        BY <3>2, <3>4, <1>5
      <4>2. i = j
        BY <4>1, <3>2, <1>1, <1>3
      <4> QED BY <4>2, <3>1
    <3>5. ASSUME NEW m \in DOMAIN b, NEW n \in DOMAIN b,
                 known(b[m].counter), ~known(b[n].counter), es[m].id = es[n].id
          PROVE  FALSE
      <4>1. PICK x \in registry : x.id = es[m].id
        BY <3>5, <1>5
      <4>2. x.id < nextId /\ x.id \in Nat
        BY <1>1 DEF RowsInv, IdsFresh, Row
      <4>3. es[n].id = nextId + n - 1 /\ n \in 1..Len(b)
        BY <3>5, <1>3, <1>5
      <4> QED BY <4>1, <4>2, <4>3, <3>5, <1>1, <1>3
    <3> QED BY <3>2, <3>3, <3>4, <3>5
  <2> QED BY <2>1, <2>2, <2>3, <1>6, <1>11
<1>12. nextId + Len(es) \in Nat \ {0}
  BY <1>1, <1>2, <1>3
<1> QED
  BY <1>2, <1>7, <1>8, <1>9, <1>10, <1>11, <1>12 DEF StillThere, Answers, b

-----------------------------------------------------------------------------
(* Every step keeps the types of the variables.                             *)
LEMMA TypeStep ==
  ASSUME RowsInv, Next
  PROVE  TypeOK'
<1> USE DEF TypeOK, Reply, NoReply, Ok, Conflict, KeyReused, ServerError, Running
<1>0. TypeOK
  BY DEF RowsInv
<1>1. ASSUME NEW a \in Attempts, Arrive(a) PROVE TypeOK'
  BY <1>0, <1>1 DEF Arrive, Goto
<1>2. ASSUME NEW a \in Attempts, NEW r \in RecordsOf(key[a]), AnswerFrom(a, r),
             UNCHANGED <<registry, nextId, records, key, batch, snapshot, data>>
      PROVE  TypeOK'
  <2>1. r.data \in Seq(Row)
    BY <1>0 DEF RecordsOf, Record
  <2>2. reply'[a] \in Reply
    BY <1>0, <1>2, <2>1 DEF AnswerFrom, Respond
  <2> QED BY <1>0, <1>2, <2>2 DEF AnswerFrom, Respond
<1>3. ASSUME NEW a \in Attempts, LookUp(a) PROVE TypeOK'
  BY <1>0, <1>2, <1>3 DEF LookUp, Goto
<1>4. ASSUME NEW a \in Attempts, Begin(a) PROVE TypeOK'
  BY <1>0, <1>4 DEF Begin, Goto
<1>5. ASSUME NEW a \in Attempts, Commit(a) PROVE TypeOK'
  <2> DEFINE es == Entities(snapshot[a], batch[a], nextId)
             ws == Written(snapshot[a], es)
  <2>1. /\ ws \subseteq Row
        /\ es \in Seq(Row)
        /\ nextId + Len(es) \in Nat \ {0}
    BY WrittenFact
  <2>2. /\ \/ registry' = registry /\ nextId' = nextId /\ data' = data
           \/ /\ registry' = ws
              /\ nextId' = nextId + Len(es)
              /\ data' = [data EXCEPT ![a] = es]
        /\ \/ pc' = [pc EXCEPT ![a] = "insert"] /\ reply' = reply
           \/ /\ pc' = [pc EXCEPT ![a] = "done"]
              /\ \/ reply' = [reply EXCEPT ![a] = Conflict]
                 \/ reply' = [reply EXCEPT ![a] = ServerError]
        /\ snapshot' = [snapshot EXCEPT ![a] = {}]
        /\ UNCHANGED <<records, key, batch>>
    BY <1>5 DEF Commit, Respond, Goto
  <2>3. Conflict \in Reply /\ ServerError \in Reply
    OBVIOUS
  <2> HIDE DEF es, ws, Conflict, ServerError, Reply
  <2>4. /\ registry' \subseteq Row
        /\ nextId' \in Nat \ {0}
        /\ data' \in [Attempts -> Seq(Row)]
    BY <1>0, <2>1, <2>2
  <2>5. reply' \in [Attempts -> Reply]
    BY <1>0, <2>2, <2>3
  <2>6. pc' \in [Attempts -> Running \cup {"idle", "done", "dead"}]
    BY <1>0, <2>2
  <2>7. snapshot' \in [Attempts -> SUBSET Row]
    BY <1>0, <2>2
  <2> QED BY <1>0, <2>2, <2>4, <2>5, <2>6, <2>7
<1>6. ASSUME NEW a \in Attempts, Insert(a) PROVE TypeOK'
  <2>1. [key |-> key[a], batch |-> batch[a], data |-> data[a]] \in Record
    BY <1>0 DEF Record
  <2>2. records' \subseteq Record
    BY <1>0, <1>6, <2>1 DEF Insert
  <2>3. Ok(data[a]) \in Reply
    BY <1>0
  <2> HIDE DEF Ok, Reply
  <2>4. reply' \in [Attempts -> Reply]
    BY <1>0, <1>6, <2>3 DEF Insert, Respond
  <2>5. pc' \in [Attempts -> Running \cup {"idle", "done", "dead"}]
    BY <1>0, <1>6 DEF Insert, Respond, Goto
  <2> QED BY <1>0, <1>6, <2>2, <2>4, <2>5 DEF Insert
<1>7. ASSUME NEW a \in Attempts, Reread(a) PROVE TypeOK'
  <2>1. CASE \E r \in RecordsOf(key[a]) : AnswerFrom(a, r)
    BY <1>2, <1>7, <2>1 DEF Reread
  <2>2. CASE Respond(a, ServerError)
    BY <1>0, <1>7, <2>2 DEF Reread, Respond
  <2> QED BY <1>7, <2>1, <2>2 DEF Reread
<1>8. ASSUME NEW a \in Attempts, Fail(a) PROVE TypeOK'
  BY <1>0, <1>8 DEF Fail, Respond
<1>9. ASSUME Crash PROVE TypeOK'
  BY <1>0, <1>9 DEF Crash
<1>10. ASSUME NEW f \in Fsps, NEW al \in ParticipantAliases, AddParticipant(f, al)
       PROVE  TypeOK'
  <2>1. [id |-> nextId, counter |-> NoCounter, alias |-> al, lei |-> NoLei, fsp |-> f]
          \in Row
    BY <1>0, <1>10, ConstantsAssumption DEF Row
  <2>2. registry' \subseteq Row /\ nextId' \in Nat \ {0}
    BY <1>0, <1>10, <2>1 DEF AddParticipant
  <2> QED BY <1>0, <1>10, <2>2 DEF AddParticipant
<1> QED
  BY <1>1, <1>3, <1>4, <1>5, <1>6, <1>7, <1>8, <1>9, <1>10 DEF Next, Handle

(* How a step can change the registry: not at all, by the commit of a       *)
(* transaction, or by the row of a participant.                             *)
LEMMA RegistrySteps ==
  ASSUME RowsInv, Next
  PROVE  \/ UNCHANGED <<registry, nextId>>
         \/ \E a \in Attempts :
              LET es == Entities(snapshot[a], batch[a], nextId) IN
              /\ Commit(a)
              /\ registry' = Written(snapshot[a], es)
              /\ nextId' = nextId + Len(es)
              /\ data' = [data EXCEPT ![a] = es]
              /\ pc' = [pc EXCEPT ![a] = "insert"]
              /\ UniqueIndexes(registry')
         \/ \E f \in Fsps, al \in ParticipantAliases : AddParticipant(f, al)
<1>1. ASSUME NEW a \in Attempts,
             Arrive(a) \/ LookUp(a) \/ Begin(a) \/ Insert(a) \/ Reread(a) \/ Fail(a)
      PROVE  UNCHANGED <<registry, nextId>>
  BY <1>1 DEF Arrive, LookUp, Begin, Insert, Reread, Fail
<1>2. Crash => UNCHANGED <<registry, nextId>>
  BY DEF Crash
<1>3. ASSUME NEW a \in Attempts, Commit(a)
      PROVE  \/ UNCHANGED <<registry, nextId>>
             \/ LET es == Entities(snapshot[a], batch[a], nextId) IN
                /\ registry' = Written(snapshot[a], es)
                /\ nextId' = nextId + Len(es)
                /\ data' = [data EXCEPT ![a] = es]
                /\ pc' = [pc EXCEPT ![a] = "insert"]
                /\ UniqueIndexes(registry')
  BY <1>3 DEF Commit, Goto
<1> QED BY <1>1, <1>2, <1>3 DEF Next, Handle

(* The registry only grows, in the sense of StillThere, and stays free of   *)
(* duplicates.                                                              *)
LEMMA RegistryFact ==
  ASSUME RowsInv, Next
  PROVE  /\ AliasesUnique'
         /\ IdsFresh'
         /\ StillThere(registry, registry')
<1>1. CASE UNCHANGED <<registry, nextId>>
  BY <1>1 DEF RowsInv, AliasesUnique, UniqueIndexes, IdsFresh, StillThere
<1>2. ASSUME NEW a \in Attempts,
             LET es == Entities(snapshot[a], batch[a], nextId) IN
             /\ registry' = Written(snapshot[a], es)
             /\ nextId' = nextId + Len(es)
             /\ UniqueIndexes(registry')
      PROVE  /\ AliasesUnique'
             /\ IdsFresh'
             /\ StillThere(registry, registry')
  <2> DEFINE es == Entities(snapshot[a], batch[a], nextId)
             ws == Written(snapshot[a], es)
  <2>1. /\ StillThere(registry, ws)
        /\ \A r \in ws : r.id < nextId + Len(es)
        /\ \A r, s \in ws : r.id = s.id => r = s
    BY WrittenFact
  <2> HIDE DEF es, ws
  <2>2. registry' = ws /\ nextId' = nextId + Len(es) /\ UniqueIndexes(registry')
    BY <1>2 DEF es, ws
  <2> QED BY <2>1, <2>2 DEF AliasesUnique, UniqueIndexes, IdsFresh
<1>3. ASSUME NEW f \in Fsps, NEW al \in ParticipantAliases, AddParticipant(f, al)
      PROVE  /\ AliasesUnique'
             /\ IdsFresh'
             /\ StillThere(registry, registry')
  <2>1. \A r \in registry : r.id \in Nat /\ r.counter \in Counters \cup {NoCounter}
    BY DEF RowsInv, TypeOK, Row
  <2>2. nextId \in Nat
    BY DEF RowsInv, TypeOK
  <2> DEFINE new == [id |-> nextId, counter |-> NoCounter, alias |-> al,
                     lei |-> NoLei, fsp |-> f]
  <2>3. /\ registry' = registry \cup {new}
        /\ nextId' = nextId + 1
        /\ \A r \in registry : r.alias # al
    BY <1>3 DEF AddParticipant
  <2>4. new.id = nextId /\ new.alias = al /\ new.counter = NoCounter
    OBVIOUS
  <2> HIDE DEF new
  <2>5. AliasesUnique'
    BY <2>3, <2>4 DEF RowsInv, AliasesUnique, UniqueIndexes
  <2>6. IdsFresh'
    BY <2>1, <2>2, <2>3, <2>4 DEF RowsInv, IdsFresh
  <2> QED BY <2>3, <2>5, <2>6 DEF StillThere
<1> QED BY <1>1, <1>2, <1>3, RegistrySteps

(* Presence is transitive.                                                  *)
LEMMA StillThereTransitive ==
  ASSUME NEW R, NEW S, NEW T, StillThere(R, S), StillThere(S, T)
  PROVE  StillThere(R, T)
BY DEF StillThere

LEMMA AnswersPersist ==
  ASSUME NEW es, NEW b, NEW S, NEW T, Answers(es, b, S), StillThere(S, T)
  PROVE  Answers(es, b, T)
BY DEF StillThere, Answers

(* The snapshot of a run is taken from the registry or dropped.             *)
LEMMA SnapshotStep ==
  ASSUME RowsInv, Next
  PROVE  SnapshotCurrent'
<1> SUFFICES ASSUME NEW a \in Attempts PROVE StillThere(snapshot'[a], registry')
  BY DEF SnapshotCurrent
<1>1. snapshot'[a] \in {{}, registry, snapshot[a]}
  BY DEF RowsInv, TypeOK, Next, Handle, Arrive, LookUp, Begin, Commit, Insert, Reread,
         Fail, Crash, AddParticipant
<1>2. StillThere(registry, registry')
  BY RegistryFact
<1>3. StillThere(snapshot[a], registry)
  BY DEF RowsInv, SnapshotCurrent
<1>4. StillThere(snapshot[a], registry')
  BY <1>2, <1>3, StillThereTransitive
<1> QED BY <1>1, <1>2, <1>4 DEF StillThere

LEMMA RowsStep == RowsInv /\ [Next]_vars => RowsInv'
<1> SUFFICES ASSUME RowsInv, [Next]_vars PROVE RowsInv'
  OBVIOUS
<1>1. CASE Next
  BY <1>1, TypeStep, RegistryFact, SnapshotStep DEF RowsInv
<1>2. CASE UNCHANGED vars
  BY <1>2 DEF vars, RowsInv, TypeOK, AliasesUnique, UniqueIndexes, IdsFresh,
              SnapshotCurrent, StillThere
<1> QED BY <1>1, <1>2

LEMMA RowsInit == Init => RowsInv
BY DEF Init, RowsInv, TypeOK, Reply, NoReply, Running, AliasesUnique, UniqueIndexes,
       IdsFresh, SnapshotCurrent, StillThere

(* The variables hold values of their types in every state.                 *)
THEOREM TypeCorrect == Spec => []TypeOK
<1>1. RowsInv => TypeOK
  BY DEF RowsInv
<1> QED BY <1>1, RowsInit, RowsStep, PTL DEF Spec

(* No two rows of the registry ever share an alias or a checkout counter.    *)
THEOREM AliasesAlwaysUnique == Spec => []AliasesUnique
<1>1. RowsInv => AliasesUnique
  BY DEF RowsInv
<1> QED BY <1>1, RowsInit, RowsStep, PTL DEF Spec

(* A commit keeps every row, and its alias unless the body requests another. *)
LEMMA AliasKept ==
  ASSUME RowsInv, NEW a \in Attempts, NEW r \in registry, NEW es,
         es = Entities(snapshot[a], batch[a], nextId)
  PROVE  \E s \in Written(snapshot[a], es) :
           /\ s.id = r.id
           /\ s.counter = r.counter
           /\ s.alias # r.alias => Requested(a, r.counter, s.alias)
<1> DEFINE rows == snapshot[a]
           b    == batch[a]
           ws   == Written(rows, es)
<1>1. /\ rows \in SUBSET Row
      /\ b \in Batches
      /\ nextId \in Nat \ {0}
      /\ r \in Row
  BY DEF RowsInv, TypeOK
<1>2. CASE \A i \in DOMAIN es : r.counter = es[i].counter => RowsOf(rows, r.counter) = {}
  <2>1. r \in ws
    BY <1>2 DEF Written
  <2> QED BY <2>1
<1>3. ASSUME NEW i \in DOMAIN es, r.counter = es[i].counter, RowsOf(rows, r.counter) # {}
      PROVE  \E s \in ws : /\ s.id = r.id
                           /\ s.counter = r.counter
                           /\ s.alias # r.alias => Requested(a, r.counter, s.alias)
  <2> DEFINE c   == r.counter
             old == TheRow(rows, c)
             s   == Saved(rows, es[i])
  <2>1. /\ i \in DOMAIN b
        /\ es[i] = Entity(rows, b[i], nextId + i - 1)
        /\ es[i] \in Row
        /\ b[i].counter = c
        /\ c \in Counters
    <3> DEFINE full == Entities(rows, b, nextId)
    <3>1. es = full
      OBVIOUS
    <3> HIDE DEF rows, b
    <3>2. /\ DOMAIN full = DOMAIN b
          /\ \A j \in DOMAIN b : /\ full[j] = Entity(rows, b[j], nextId + j - 1)
                                /\ full[j] \in Row
                                /\ full[j].counter = b[j].counter
                                /\ b[j].counter \in Counters
      BY <1>1, EntitiesFact, Zenon
    <3> HIDE DEF full
    <3> QED BY <3>1, <3>2, <1>3
  <2>2. old \in Row
    BY <1>1, <1>3, TheRowFact
  <2>3. TheRow(registry, c) = r
    <3>1. RowsOf(registry, c) # {}
      BY DEF RowsOf
    <3>2. TheRow(registry, c) \in registry /\ TheRow(registry, c).counter = c
      BY <3>1, TheRowFact
    <3> QED BY <3>2, <2>1, OneRowPerCounter, ConstantsAssumption
  <2>4. s \in ws
    BY <1>3 DEF Written
  <2>5. s = Merge(r, old, es[i])
    BY <1>3, <2>3 DEF Saved
  <2>6. s.id = r.id /\ s.counter = c
    BY <1>1, <2>1, <2>2, <2>5, MergeFact
  <2>7. ASSUME s.alias # r.alias PROVE Requested(a, c, s.alias)
    <3>1. s.alias = es[i].alias /\ es[i].alias # old.alias
      BY <1>1, <2>5, <2>7 DEF Merge, Row
    <3>2. es[i].alias = ResolvedAlias(rows, b[i])
      BY <2>1 DEF Entity
    <3>3. b[i].requested # NoAlias
      BY <1>3, <2>1, <3>1, <3>2 DEF ResolvedAlias
    <3>4. es[i].alias = b[i].requested
      BY <3>2, <3>3 DEF ResolvedAlias, PreferredAlias
    <3> QED BY <2>1, <3>1, <3>4 DEF Requested
  <2> HIDE DEF s, c
  <2> QED BY <2>4, <2>6, <2>7 DEF c
<1> QED BY <1>2, <1>3

(* Only a request that asks for another alias by name changes the alias of a *)
(* registered counter, and nothing removes its row or gives it away.        *)
THEOREM RegisteredAliasesStable == Spec => AliasesStable
<1> DEFINE Stable == \A r \in registry : \E s \in registry' :
             /\ s.id = r.id
             /\ s.counter = r.counter
             /\ s.alias # r.alias =>
                  \E a \in Attempts : pc[a] = "commit" /\ Requested(a, r.counter, s.alias)
<1>1. ASSUME RowsInv, Next PROVE Stable
  <2>1. CASE UNCHANGED <<registry, nextId>>
    BY <2>1
  <2>2. ASSUME NEW a \in Attempts, Commit(a),
               registry' = Written(snapshot[a], Entities(snapshot[a], batch[a], nextId))
        PROVE  Stable
    <3>1. pc[a] = "commit"
      BY <2>2 DEF Commit
    <3> QED BY <1>1, <2>2, <3>1, AliasKept
  <2>3. ASSUME NEW f \in Fsps, NEW al \in ParticipantAliases, AddParticipant(f, al)
        PROVE  Stable
    BY <2>3 DEF AddParticipant
  <2> QED BY <1>1, <2>1, <2>2, <2>3, RegistrySteps
<1>2. RowsInv /\ [Next]_vars => [Stable]_vars
  BY <1>1
<1> QED BY <1>2, RowsInit, RowsStep, PTL DEF Spec, AliasesStable

-----------------------------------------------------------------------------
(* What run a does with the stored answer r: replay it or refuse.            *)
AnswersWith(a, r) ==
  /\ r \in records
  /\ r.key = key[a]
  /\ \/ r.batch = batch[a] /\ reply' = [reply EXCEPT ![a] = Ok(r.data)]
     \/ r.batch # batch[a] /\ reply' = [reply EXCEPT ![a] = KeyReused]

NewRecord(a) == [key |-> key[a], batch |-> batch[a], data |-> data[a]]

(* Run a stores its answer and gives it.                                     *)
StoresAnswer(a) ==
  /\ pc[a] = "insert"
  /\ RecordsOf(key[a]) = {}
  /\ records' = records \cup {NewRecord(a)}
  /\ reply' = [reply EXCEPT ![a] = Ok(data[a])]

(* How a step can answer: with a stored answer, with one it stores, with an  *)
(* error, or not at all; the key and the body of a request never change.    *)
LEMMA AnswerSteps ==
  ASSUME TypeOK, Next
  PROVE  /\ UNCHANGED <<key, batch>>
         /\ \/ UNCHANGED <<records, reply>>
            \/ \E a \in Attempts :
                 /\ pc[a] \in Running
                 /\ pc' = [pc EXCEPT ![a] = "done"]
                 /\ \/ /\ UNCHANGED records
                       /\ \/ reply' = [reply EXCEPT ![a] = Conflict]
                          \/ reply' = [reply EXCEPT ![a] = ServerError]
                          \/ \E r \in records : AnswersWith(a, r)
                    \/ StoresAnswer(a) /\ UNCHANGED registry
<1>1. ASSUME NEW a \in Attempts, NEW r \in RecordsOf(key[a]), AnswerFrom(a, r)
      PROVE  /\ r \in records
             /\ AnswersWith(a, r)
             /\ pc' = [pc EXCEPT ![a] = "done"]
  BY <1>1 DEF RecordsOf, AnswerFrom, AnswersWith, Respond
<1>2. ASSUME NEW a \in Attempts, Arrive(a) \/ Begin(a)
      PROVE  UNCHANGED <<key, batch, records, reply>>
  BY <1>2 DEF Arrive, Begin
<1>3. ASSUME NEW a \in Attempts, LookUp(a) \/ Reread(a)
      PROVE  /\ UNCHANGED <<key, batch, records>>
             /\ pc[a] \in Running
             /\ \/ UNCHANGED reply
                \/ /\ pc' = [pc EXCEPT ![a] = "done"]
                   /\ \/ reply' = [reply EXCEPT ![a] = ServerError]
                      \/ \E r \in records : AnswersWith(a, r)
  BY <1>1, <1>3 DEF LookUp, Reread, Respond, Running
<1>4. ASSUME NEW a \in Attempts, Commit(a)
      PROVE  /\ UNCHANGED <<key, batch, records>>
             /\ pc[a] \in Running
             /\ \/ UNCHANGED reply
                \/ /\ pc' = [pc EXCEPT ![a] = "done"]
                   /\ \/ reply' = [reply EXCEPT ![a] = Conflict]
                      \/ reply' = [reply EXCEPT ![a] = ServerError]
  BY <1>4 DEF Commit, Respond, Running
<1>5. ASSUME NEW a \in Attempts, Insert(a)
      PROVE  /\ UNCHANGED <<key, batch>>
             /\ pc[a] \in Running
             /\ \/ UNCHANGED <<records, reply>>
                \/ /\ pc' = [pc EXCEPT ![a] = "done"]
                   /\ StoresAnswer(a) /\ UNCHANGED registry
  BY <1>5 DEF Insert, CanInsert, StoresAnswer, NewRecord, Respond, Running
<1>6. ASSUME NEW a \in Attempts, Fail(a)
      PROVE  /\ UNCHANGED <<key, batch, records>>
             /\ pc[a] \in Running
             /\ pc' = [pc EXCEPT ![a] = "done"]
             /\ reply' = [reply EXCEPT ![a] = ServerError]
  BY <1>6 DEF Fail, Respond
<1>7. Crash => UNCHANGED <<key, batch, records, reply>>
  BY DEF Crash
<1>8. \A f \in Fsps, al \in ParticipantAliases :
        AddParticipant(f, al) => UNCHANGED <<key, batch, records, reply>>
  BY DEF AddParticipant
<1> QED BY <1>2, <1>3, <1>4, <1>5, <1>6, <1>7, <1>8 DEF Next, Handle

(* The answer stored for a key is never overwritten nor withdrawn.           *)
THEOREM StoredAnswersStay == Spec => AnswersImmutable
<1>1. TypeOK /\ [Next]_vars => [records \subseteq records']_records
  <2>1. ASSUME TypeOK, Next PROVE records \subseteq records'
    BY <2>1, AnswerSteps DEF StoresAnswer
  <2> QED BY <2>1 DEF vars
<1> QED BY <1>1, TypeCorrect, PTL DEF Spec, AnswersImmutable

(* A run about to store its data has the rows it registered.                 *)
LEMMA DataStep ==
  ASSUME IInv, Next
  PROVE  DataRegistered'
<1> SUFFICES ASSUME NEW a \in Attempts, pc'[a] = "insert"
             PROVE  Answers(data'[a], batch'[a], registry')
  BY DEF DataRegistered
<1>0. RowsInv /\ TypeOK
  BY DEF IInv, RowsInv
<1>1. batch'[a] = batch[a]
  BY <1>0, AnswerSteps
<1>2. CASE pc[a] = "insert" /\ data'[a] = data[a]
  <2>1. Answers(data[a], batch[a], registry)
    BY <1>2 DEF IInv, DataRegistered
  <2>2. StillThere(registry, registry')
    BY <1>0, RegistryFact
  <2> QED BY <1>1, <1>2, <2>1, <2>2, AnswersPersist
<1>3. ASSUME Commit(a) PROVE Answers(data'[a], batch[a], registry')
  <2> DEFINE es == Entities(snapshot[a], batch[a], nextId)
  <2>1. registry' = Written(snapshot[a], es) /\ data' = [data EXCEPT ![a] = es]
    BY <1>0, <1>3 DEF Commit, Respond, TypeOK
  <2>2. Answers(es, batch[a], Written(snapshot[a], es))
    BY <1>0, WrittenFact
  <2>3. data'[a] = es
    BY <1>0, <2>1 DEF TypeOK
  <2> QED BY <2>1, <2>2, <2>3
<1>4. Commit(a) \/ (pc[a] = "insert" /\ data'[a] = data[a])
  <2>1. ASSUME NEW b \in Attempts, Arrive(b) \/ LookUp(b) \/ Begin(b) \/ Insert(b)
                                    \/ Reread(b) \/ Fail(b)
        PROVE  pc[a] = "insert" /\ data'[a] = data[a]
    BY <1>0, <2>1 DEF Arrive, LookUp, Begin, Insert, Reread, Fail, AnswerFrom,
                      Respond, Goto, TypeOK
  <2>2. ASSUME NEW b \in Attempts, b # a, Commit(b)
        PROVE  pc[a] = "insert" /\ data'[a] = data[a]
    BY <1>0, <2>2 DEF Commit, Respond, Goto, TypeOK
  <2>3. ASSUME Crash PROVE pc[a] = "insert" /\ data'[a] = data[a]
    BY <1>0, <2>3 DEF Crash, TypeOK
  <2>4. ASSUME NEW f \in Fsps, NEW al \in ParticipantAliases, AddParticipant(f, al)
        PROVE  pc[a] = "insert" /\ data'[a] = data[a]
    BY <2>4 DEF AddParticipant
  <2> QED BY <2>1, <2>2, <2>3, <2>4 DEF Next, Handle
<1> QED BY <1>1, <1>2, <1>3, <1>4

LEMMA RecordsStep ==
  ASSUME IInv, Next
  PROVE  RecordsAnswer' /\ KeysUnique'
<1>0. RowsInv /\ TypeOK /\ RecordsAnswer /\ KeysUnique
  BY DEF IInv, RowsInv
<1>1. StillThere(registry, registry')
  BY <1>0, RegistryFact
<1>2. \A r \in records : Answers(r.data, r.batch, registry')
  BY <1>0, <1>1, AnswersPersist DEF RecordsAnswer
<1>3. CASE UNCHANGED records
  BY <1>0, <1>2, <1>3 DEF RecordsAnswer, KeysUnique
<1>4. ASSUME NEW a \in Attempts, StoresAnswer(a), UNCHANGED registry
      PROVE  RecordsAnswer' /\ KeysUnique'
  <2>1. Answers(data[a], batch[a], registry')
    BY <1>4 DEF IInv, DataRegistered, StoresAnswer
  <2>2. /\ NewRecord(a).key = key[a]
        /\ NewRecord(a).batch = batch[a]
        /\ NewRecord(a).data = data[a]
    BY DEF NewRecord
  <2>3. /\ records' = records \cup {NewRecord(a)}
        /\ \A r \in records : r.key # key[a]
    BY <1>4 DEF StoresAnswer, RecordsOf
  <2>4. RecordsAnswer'
    BY <1>2, <2>1, <2>2, <2>3 DEF RecordsAnswer
  <2>5. KeysUnique'
    BY <1>0, <2>2, <2>3 DEF KeysUnique
  <2> QED BY <2>4, <2>5
<1> QED BY <1>0, <1>3, <1>4, AnswerSteps

(* A handler answers once.                                                  *)
LEMMA PendingStep ==
  ASSUME IInv, Next
  PROVE  Pending'
<1> SUFFICES ASSUME NEW a \in Attempts, pc'[a] \in Running \cup {"idle"}
             PROVE  reply'[a] = NoReply
  BY DEF Pending
<1>0. TypeOK
  BY DEF IInv, RowsInv
<1>1. pc[a] \in Running \cup {"idle"}
  <2>1. ASSUME NEW b \in Attempts, Arrive(b) \/ Handle(b) \/ Fail(b)
        PROVE  pc[a] \in Running \cup {"idle"}
    BY <1>0, <2>1 DEF Handle, Arrive, LookUp, Begin, Commit, Insert, Reread, Fail,
                      AnswerFrom, Respond, Goto, TypeOK, Running
  <2>2. ASSUME Crash PROVE pc[a] \in Running \cup {"idle"}
    BY <1>0, <2>2 DEF Crash, TypeOK, Running
  <2>3. ASSUME NEW f \in Fsps, NEW al \in ParticipantAliases, AddParticipant(f, al)
        PROVE  pc[a] \in Running \cup {"idle"}
    BY <2>3 DEF AddParticipant
  <2> QED BY <2>1, <2>2, <2>3 DEF Next
<1>2. reply[a] = NoReply
  BY <1>1 DEF IInv, Pending
<1>3. ASSUME NEW b \in Attempts, pc' = [pc EXCEPT ![b] = "done"] PROVE b # a
  BY <1>0, <1>3 DEF TypeOK, Running
<1> QED
  BY <1>0, <1>2, <1>3, AnswerSteps DEF TypeOK, AnswersWith, StoresAnswer

(* The record of a key answers its key alone.                               *)
LEMMA TheRecord ==
  ASSUME KeysUnique, NEW r \in records
  PROVE  RecordsOf(r.key) = {r}
BY DEF KeysUnique, RecordsOf

LEMMA OneAnswerStep ==
  ASSUME IInv, Next
  PROVE  OneAnswerPerKey'
<1> SUFFICES ASSUME NEW a \in Attempts, reply'[a].status = "ok"
             PROVE  \E r \in records' : /\ r.key = key[a]
                                        /\ r.batch = batch[a]
                                        /\ reply'[a] = Ok(r.data)
                                        /\ RecordsOf(key[a])' = {r}
  <2>1. key' = key /\ batch' = batch
    BY AnswerSteps DEF IInv, RowsInv
  <2> QED BY <2>1 DEF OneAnswerPerKey, RecordsOf
<1>0. TypeOK /\ KeysUnique /\ KeysUnique' /\ OneAnswerPerKey /\ key' = key
  BY RecordsStep, AnswerSteps DEF IInv, RowsInv
<1>1. records \subseteq records'
  BY <1>0, AnswerSteps DEF StoresAnswer
<1>2. SUFFICES \E r \in records' : /\ r.key = key[a]
                                   /\ r.batch = batch[a]
                                   /\ reply'[a] = Ok(r.data)
  BY <1>0 DEF KeysUnique, RecordsOf
<1>3. CASE reply'[a] = reply[a]
  BY <1>0, <1>1, <1>3 DEF OneAnswerPerKey
<1>4. ASSUME NEW b \in Attempts, b # a, NEW x, reply' = [reply EXCEPT ![b] = x]
      PROVE  reply'[a] = reply[a]
  BY <1>0, <1>4 DEF TypeOK
<1>5. ASSUME NEW x, reply' = [reply EXCEPT ![a] = x] PROVE reply'[a] = x
  BY <1>0, <1>5 DEF TypeOK
<1>6. ASSUME NEW r \in records, AnswersWith(a, r)
      PROVE  r.key = key[a] /\ r.batch = batch[a] /\ reply'[a] = Ok(r.data)
  <2>1. reply'[a] # KeyReused
    BY DEF KeyReused
  <2> QED BY <1>5, <1>6, <2>1 DEF AnswersWith
<1>7. ASSUME StoresAnswer(a)
      PROVE  \E r \in records' : /\ r.key = key[a]
                                 /\ r.batch = batch[a]
                                 /\ reply'[a] = Ok(r.data)
  <2>1. reply'[a] = Ok(data[a]) /\ NewRecord(a) \in records'
    BY <1>5, <1>7 DEF StoresAnswer
  <2> QED BY <2>1 DEF NewRecord
<1>8. \A b \in Attempts : b # a /\ (\/ StoresAnswer(b)
                                     \/ \E r \in records : AnswersWith(b, r))
        => reply'[a] = reply[a]
  BY <1>4 DEF StoresAnswer, AnswersWith
<1>9. reply' # [reply EXCEPT ![a] = Conflict] /\ reply' # [reply EXCEPT ![a] = ServerError]
  <2>1. reply'[a] # Conflict /\ reply'[a] # ServerError
    BY DEF Conflict, ServerError
  <2> QED BY <1>5, <2>1
<1> QED
  BY <1>0, <1>1, <1>3, <1>4, <1>6, <1>7, <1>8, <1>9, AnswerSteps

LEMMA IInvStep == IInv /\ [Next]_vars => IInv'
<1> SUFFICES ASSUME IInv, [Next]_vars PROVE IInv'
  OBVIOUS
<1>1. CASE Next
  <2>1. RowsInv'
    BY RowsStep DEF IInv
  <2> QED
    BY <1>1, <2>1, DataStep, PendingStep, RecordsStep, OneAnswerStep DEF IInv
<1>2. CASE UNCHANGED vars
  <2>1. RowsInv'
    BY RowsStep DEF IInv
  <2>2. UNCHANGED <<registry, records, pc, key, batch, data, reply>>
    BY <1>2 DEF vars
  <2> QED
    BY <2>1, <2>2 DEF IInv, DataRegistered, Pending, RecordsAnswer, KeysUnique,
                      OneAnswerPerKey, RecordsOf, Answers
<1> QED BY <1>1, <1>2

LEMMA IInvInit == Init => IInv
<1> SUFFICES ASSUME Init PROVE IInv
  OBVIOUS
<1>1. RowsInv
  BY RowsInit
<1>2. \A a \in Attempts : pc[a] = "idle" /\ reply[a] = NoReply
  BY DEF Init
<1>3. records = {}
  BY DEF Init
<1>4. NoReply.status # "ok"
  BY DEF NoReply
<1> QED
  BY <1>1, <1>2, <1>3, <1>4 DEF IInv, DataRegistered, Pending, RecordsAnswer,
                                KeysUnique, OneAnswerPerKey

LEMMA Invariant == Spec => []IInv
BY IInvInit, IInvStep, PTL DEF Spec

(* Whoever got 200 for a key got the one answer stored for it, to the body   *)
(* stored with it, however many runs of the handler raced for the key.      *)
THEOREM AnswersAgree == Spec => []OneAnswerPerKey
<1>1. IInv => OneAnswerPerKey
  BY DEF IInv
<1> QED BY <1>1, Invariant, PTL

(* What a stored answer says was registered is in the registry, for ever.    *)
THEOREM AnswersRegistered == Spec => []AnsweredRowsExist
<1>1. IInv => AnsweredRowsExist
  BY DEF IInv, RecordsAnswer, Answers, AnsweredRowsExist
<1> QED BY <1>1, Invariant, PTL

-----------------------------------------------------------------------------
(* Refinement of KeyedAnswers.                                              *)

LEMMA PromiseInit == Init => Promise!KInit
BY DEF Init, NoReply, Promise!KInit

LEMMA PromiseStep ==
  ASSUME IInv, Next
  PROVE  [Promise!KNext]_(Promise!absvars)
<1>0. TypeOK /\ KeysUnique /\ Pending
  BY DEF IInv, RowsInv
<1>1. UNCHANGED <<key, batch>>
  BY <1>0, AnswerSteps
<1>2. CASE UNCHANGED <<records, reply>>
  BY <1>1, <1>2 DEF Promise!absvars
<1>3. ASSUME NEW a \in Attempts, pc[a] \in Running PROVE reply[a].status = "none"
  BY <1>0, <1>3 DEF Pending, NoReply
<1>4. ASSUME NEW a \in Attempts, pc[a] \in Running, UNCHANGED records,
             \/ reply' = [reply EXCEPT ![a] = Conflict]
             \/ reply' = [reply EXCEPT ![a] = ServerError]
      PROVE  Promise!GiveUp(a)
  BY <1>1, <1>3, <1>4 DEF Promise!GiveUp, Promise!Tell, Conflict, ServerError
<1>5. ASSUME NEW a \in Attempts, pc[a] \in Running, UNCHANGED records,
             NEW r \in records, AnswersWith(a, r)
      PROVE  Promise!Replay(a) \/ Promise!Refuse(a)
  <2>1. r \in Promise!AnswersOf(key[a])
    BY <1>5 DEF AnswersWith, Promise!AnswersOf
  <2> QED BY <1>1, <1>3, <1>5, <2>1 DEF AnswersWith, Promise!Replay, Promise!Refuse,
                                       Promise!Tell, Ok, KeyReused
<1>6. ASSUME NEW a \in Attempts, pc[a] \in Running, StoresAnswer(a)
      PROVE  Promise!Decide(a)
  <2>1. Promise!AnswersOf(key[a]) = {}
    BY <1>6 DEF StoresAnswer, RecordsOf, Promise!AnswersOf
  <2>2. Promise!Tell(a, "ok", NewRecord(a).data)
    BY <1>1, <1>3, <1>6 DEF StoresAnswer, NewRecord, Promise!Tell, Ok
  <2>3. /\ NewRecord(a) \in records'
        /\ records' = records \cup {NewRecord(a)}
        /\ NewRecord(a).key = key[a]
        /\ NewRecord(a).batch = batch[a]
    BY <1>6 DEF StoresAnswer, NewRecord
  <2> QED BY <2>1, <2>2, <2>3 DEF Promise!Decide
<1> QED
  BY <1>0, <1>2, <1>4, <1>5, <1>6, AnswerSteps DEF Promise!KNext

(* The concurrent handler, with its transaction, its second look-up, its     *)
(* failures and its crashes, does nothing KeyedAnswers does not allow.      *)
THEOREM KeepsItsPromise == Spec => KeepsPromise
<1>1. IInv /\ [Next]_vars => [Promise!KNext]_(Promise!absvars)
  <2>1. CASE UNCHANGED vars
    BY <2>1 DEF vars, Promise!absvars
  <2> QED BY <2>1, PromiseStep
<1> QED BY <1>1, Invariant, PromiseInit, PTL DEF Spec, KeepsPromise, Promise!KSpec

-----------------------------------------------------------------------------
(* The least element of a set of naturals: the finite sets of its elements    *)
(* up to one of them are well-founded by inclusion.                          *)
LEMMA LeastElement ==
  ASSUME NEW T \in SUBSET Nat, T # {}
  PROVE  \E m \in T : \A k \in T : m <= k
<1> DEFINE Upto(k) == {x \in T : x <= k}
           F == {Upto(k) : k \in T}
<1>1. F \subseteq FiniteSubsetsOf(T)
  <2>1. ASSUME NEW k \in T PROVE IsFiniteSet(Upto(k)) /\ Upto(k) \subseteq T
    <3>1. Upto(k) \in SUBSET Nat /\ k \in Nat /\ \A x \in Upto(k) : x <= k
      OBVIOUS
    <3>2. IsFiniteSet(Upto(k))
      BY <3>1, FS_BoundedSetOfNaturals
    <3> QED BY <3>2
  <2> HIDE DEF Upto
  <2> QED BY <2>1 DEF FiniteSubsetsOf
<1>2. F # {}
  OBVIOUS
<1>3. IsWellFoundedOn(StrictSubsetOrdering(T), FiniteSubsetsOf(T))
  BY FS_StrictSubsetOrderingWellFounded
<1>4. PICK X \in F : \A Y \in F : ~(<<Y, X>> \in StrictSubsetOrdering(T))
  <2> HIDE DEF F
  <2>1. \E X \in F : \A Y \in F : ~(<<Y, X>> \in StrictSubsetOrdering(T))
    BY <1>1, <1>2, <1>3, WFMin
  <2> QED BY <2>1
<1>5. PICK m \in T : X = Upto(m)
  BY <1>4
<1>6. ASSUME NEW k \in T, ~(m <= k) PROVE FALSE
  <2>1. k < m
    BY <1>6
  <2>2. Upto(k) \in F
    OBVIOUS
  <2>3. (\A x \in Upto(k) : x \in Upto(m)) /\ m \in Upto(m) /\ m \notin Upto(k)
    BY <2>1
  <2>4. Upto(k) \subseteq T /\ Upto(m) \subseteq T
    OBVIOUS
  <2>5. <<Upto(k), X>> \in StrictSubsetOrdering(T)
    <3> HIDE DEF Upto, F
    <3> QED BY <1>5, <2>3, <2>4 DEF StrictSubsetOrdering
  <2> QED BY <1>4, <2>2, <2>5
<1> QED BY <1>6

-----------------------------------------------------------------------------
(* What a transaction saves and what it looks at, column by column.          *)
LEMMA CommitEntities ==
  ASSUME RowsInv, NEW a \in Attempts
  PROVE  LET es == Entities(snapshot[a], batch[a], nextId)
             b  == batch[a]
         IN  /\ DOMAIN es = DOMAIN b /\ DOMAIN b = 1..Len(b) /\ Len(b) \in Nat
             /\ \A i, j \in DOMAIN b : b[i].counter = b[j].counter => i = j
             /\ \A i \in DOMAIN b :
                  /\ b[i] \in MerchantData /\ es[i] \in Row
                  /\ es[i].counter = b[i].counter /\ es[i].lei = b[i].lei /\ es[i].fsp = b[i].fsp
                  /\ es[i].alias = ResolvedAlias(snapshot[a], b[i])
                  /\ RowsOf(snapshot[a], b[i].counter) # {} =>
                       es[i].id = TheRow(snapshot[a], b[i].counter).id
<1> DEFINE rows == snapshot[a]
           b    == batch[a]
           es   == Entities(rows, b, nextId)
<1>1. rows \in SUBSET Row /\ b \in Batches /\ nextId \in Nat \ {0}
  BY DEF RowsInv, TypeOK
<1> HIDE DEF rows, b
<1>2. /\ DOMAIN b = 1..Len(b) /\ Len(b) \in Nat /\ \A i \in DOMAIN b : b[i] \in MerchantData
      /\ \A i, j \in DOMAIN b : b[i].counter = b[j].counter => i = j
  BY <1>1, BatchFact
<1>3. /\ DOMAIN es = DOMAIN b
      /\ \A i \in DOMAIN b :
           /\ es[i] = Entity(rows, b[i], nextId + i - 1)
           /\ es[i] \in Row /\ es[i].counter = b[i].counter
           /\ RowsOf(rows, b[i].counter) # {} => es[i].id = TheRow(rows, b[i].counter).id
  BY <1>1, EntitiesFact
<1> HIDE DEF es
<1>4. \A i \in DOMAIN b : /\ es[i].lei = b[i].lei /\ es[i].fsp = b[i].fsp
                          /\ es[i].alias = ResolvedAlias(rows, b[i])
  BY <1>3 DEF Entity
<1> QED BY <1>2, <1>3, <1>4 DEF rows, b, es

(* A row there is after a commit was there, or is saved for a merchant.      *)
LEMMA CommitRow ==
  ASSUME RowsInv, NEW a \in Attempts, NEW es, es = Entities(snapshot[a], batch[a], nextId),
         NEW r \in Written(snapshot[a], es)
  PROVE  \/ /\ r \in registry
            /\ \A i \in DOMAIN batch[a] :
                 r.counter = batch[a][i].counter => RowsOf(snapshot[a], r.counter) = {}
         \/ \E i \in DOMAIN batch[a] : RowsOf(snapshot[a], batch[a][i].counter) = {} /\ r = es[i]
         \/ \E i \in DOMAIN batch[a], cur \in registry, old \in snapshot[a] :
              /\ cur.counter = batch[a][i].counter /\ old.counter = batch[a][i].counter
              /\ r = Merge(cur, old, es[i])
              /\ old = TheRow(snapshot[a], batch[a][i].counter)
              /\ RowsOf(snapshot[a], batch[a][i].counter) # {}
<1>1. /\ DOMAIN es = DOMAIN batch[a]
      /\ \A i \in DOMAIN batch[a] : es[i].counter = batch[a][i].counter /\ batch[a][i] \in MerchantData
  BY CommitEntities
<1>2. CASE r \in registry /\ \A i \in DOMAIN es :
             r.counter = es[i].counter => RowsOf(snapshot[a], r.counter) = {}
  BY <1>1, <1>2
<1>3. ASSUME NEW i \in DOMAIN es, r = Saved(snapshot[a], es[i]),
             RowsOf(snapshot[a], es[i].counter) # {}
      PROVE  \E cur \in registry, old \in snapshot[a] :
              /\ cur.counter = es[i].counter /\ old.counter = es[i].counter
              /\ r = Merge(cur, old, es[i]) /\ old = TheRow(snapshot[a], es[i].counter)
  <2> DEFINE c == es[i].counter
  <2>1. TheRow(snapshot[a], c) \in snapshot[a] /\ TheRow(snapshot[a], c).counter = c
    BY <1>3, TheRowFact
  <2>2. RowsOf(registry, c) # {}
    BY <2>1 DEF RowsInv, SnapshotCurrent, StillThere, RowsOf
  <2>3. TheRow(registry, c) \in registry /\ TheRow(registry, c).counter = c
    BY <2>2, TheRowFact
  <2> QED BY <1>3, <2>1, <2>3 DEF Saved
<1>4. ASSUME NEW i \in DOMAIN es, r = Saved(snapshot[a], es[i]),
             RowsOf(snapshot[a], es[i].counter) = {}
      PROVE  r = es[i]
  BY <1>4 DEF Saved
<1>5. ASSUME NEW i \in DOMAIN es, r = Saved(snapshot[a], es[i])
      PROVE  \/ RowsOf(snapshot[a], batch[a][i].counter) = {} /\ r = es[i]
             \/ \E cur \in registry, old \in snapshot[a] :
                  /\ cur.counter = batch[a][i].counter /\ old.counter = batch[a][i].counter
                  /\ r = Merge(cur, old, es[i])
                  /\ old = TheRow(snapshot[a], batch[a][i].counter)
                  /\ RowsOf(snapshot[a], batch[a][i].counter) # {}
  BY <1>1, <1>3, <1>4, <1>5
<1> QED BY <1>1, <1>2, <1>5 DEF Written

-----------------------------------------------------------------------------
(* LEIs.                                                                    *)
SameOwner(r, s) == MerchantOf[r.counter] = MerchantOf[s.counter] /\ r.fsp = s.fsp
SameLei(r, s) == r.lei = s.lei /\ s.lei # NoLei

(* The owner the look-up of a LEI finds is one of its rows.                  *)
LEMMA FirstOwner ==
  ASSUME NEW view \in SUBSET Row, NEW m, NEW x \in view, SameLei(x, m), ~LeiConflict(view, m)
  PROVE  \E first \in view : SameLei(first, m) /\ SameOwner(first, m)
<1> DEFINE owners == {r \in view : r.lei = m.lei}
           ids == {r.id : r \in owners}
<1>1. ids \in SUBSET Nat /\ x \in owners /\ ids # {}
  BY DEF SameLei, Row
<1>2. PICK n \in ids : \A k \in ids : n <= k
  <2> HIDE DEF ids
  <2> QED BY <1>1, LeastElement
<1>3. \E r \in owners : \A s \in owners : r.id <= s.id
  BY <1>2
<1> DEFINE first == CHOOSE r \in owners : \A s \in owners : r.id <= s.id
<1>4. first \in owners
  BY <1>3
<1>5. /\ m.lei # NoLei /\ owners # {}
      /\ LeiConflict(view, m) =
           (/\ m.lei # NoLei
            /\ owners # {}
            /\ \/ MerchantOf[first.counter] # MerchantOf[m.counter]
               \/ first.fsp # m.fsp)
  BY <1>1 DEF LeiConflict, SameLei
<1> HIDE DEF first
<1>6. MerchantOf[first.counter] = MerchantOf[m.counter] /\ first.fsp = m.fsp
  BY <1>5
<1> QED BY <1>4, <1>5, <1>6 DEF SameLei, SameOwner

(* When its look-ups find no conflict in rows whose LEIs have one owner, a    *)
(* batch gives the LEI of each merchant the owner of all rows the look-up saw. *)
LEMMA BatchKeepsOwner ==
  ASSUME NEW rows \in SUBSET Row, NEW n \in Nat, NEW b, NEW es,
         \A i \in 1..n : /\ es[i] \in Row
                         /\ es[i].counter = b[i].counter /\ es[i].lei = b[i].lei
                         /\ es[i].fsp = b[i].fsp
                         /\ ~LeiConflict(View(rows, b, es, i), b[i]),
         \A r, s \in rows : SameLei(r, s) => SameOwner(r, s)
  PROVE  \A i \in 1..n : \A r \in View(rows, b, es, i) : SameLei(r, b[i]) => SameOwner(r, b[i])
<1> DEFINE Wrong == {i \in 1..n : \E r \in View(rows, b, es, i) :
                                     SameLei(r, b[i]) /\ ~SameOwner(r, b[i])}
<1> SUFFICES ASSUME Wrong # {} PROVE FALSE
  OBVIOUS
<1>1. Wrong \in SUBSET Nat
  OBVIOUS
<1>2. PICK i \in Wrong : \A k \in Wrong : i <= k
  <2> HIDE DEF Wrong
  <2> QED BY <1>1, LeastElement
<1>3. i \in 1..n /\ \A j \in 1..(i - 1) : j \in 1..n /\ j \notin Wrong
  BY <1>2
<1>4. PICK r \in View(rows, b, es, i) : SameLei(r, b[i]) /\ ~SameOwner(r, b[i])
  BY <1>2
<1>5. View(rows, b, es, i) \subseteq Row
  BY <1>3 DEF View
<1>6. PICK s \in View(rows, b, es, i) : SameLei(s, b[i]) /\ SameOwner(s, b[i])
  BY <1>3, <1>4, <1>5, FirstOwner
<1>7. \A j \in 1..(i - 1) : \A x \in View(rows, b, es, j) : SameLei(x, b[j]) => SameOwner(x, b[j])
  BY <1>3
<1> HIDE DEF Wrong
<1>8. ASSUME NEW x \in View(rows, b, es, i), NEW y \in View(rows, b, es, i), SameLei(x, y)
      PROVE  SameOwner(x, y)
  <2>1. ASSUME NEW z \in View(rows, b, es, i)
        PROVE  \/ z \in rows /\ \A j \in 1..(i - 1) : z \in View(rows, b, es, j)
               \/ \E j \in 1..(i - 1) : z = es[j] /\ \A k \in 1..(i - 1) :
                                           j < k => z \in View(rows, b, es, k)
    <3>1. CASE z \in rows /\ \A j \in 1..(i - 1) : z.counter # b[j].counter
      BY <1>3, <3>1 DEF View
    <3>2. CASE \E j \in 1..(i - 1) : z = es[j]
      BY <1>3, <3>2 DEF View
    <3> QED BY <3>1, <3>2 DEF View
  <2>2. CASE x \in rows /\ y \in rows
    BY <1>8, <2>2
  <2>3. ASSUME NEW u \in View(rows, b, es, i), NEW j \in 1..(i - 1), u \in View(rows, b, es, j),
               SameLei(u, es[j]) \/ SameLei(es[j], u)
        PROVE  SameOwner(u, es[j]) /\ SameOwner(es[j], u)
    BY <1>3, <1>7, <2>3 DEF SameLei, SameOwner
  <2>4. CASE x \in rows /\ \A j \in 1..(i - 1) : x \in View(rows, b, es, j)
    BY <1>8, <2>1, <2>2, <2>3, <2>4
  <2>5. CASE y \in rows /\ \A j \in 1..(i - 1) : y \in View(rows, b, es, j)
    BY <1>8, <2>1, <2>2, <2>3, <2>5
  <2>6. ASSUME NEW j \in 1..(i - 1), NEW k \in 1..(i - 1), x = es[j], y = es[k],
               \A l \in 1..(i - 1) : j < l => x \in View(rows, b, es, l),
               \A l \in 1..(i - 1) : k < l => y \in View(rows, b, es, l)
        PROVE  SameOwner(x, y)
    <3>1. CASE j = k
      BY <2>6, <3>1 DEF SameOwner
    <3>2. CASE j < k
      BY <1>8, <2>3, <2>6, <3>2
    <3>3. CASE k < j
      BY <1>8, <2>3, <2>6, <3>3
    <3> QED BY <1>3, <3>1, <3>2, <3>3
  <2> QED BY <2>1, <2>4, <2>5, <2>6
<1>9. SameLei(r, s)
  BY <1>4, <1>6 DEF SameLei
<1>10. SameOwner(r, s)
  BY <1>8, <1>9
<1> QED BY <1>4, <1>6, <1>10 DEF SameOwner

LEMMA SerialCommit ==
  ASSUME RowsInv, NEW a \in Attempts, Commit(a), snapshot[a] = registry, LeiHasOneOwner
  PROVE  LeiHasOneOwner'
<1> DEFINE es == Entities(snapshot[a], batch[a], nextId)
           b  == batch[a]
<1>1. CASE UNCHANGED registry
  BY <1>1 DEF LeiHasOneOwner
<1>2. CASE ~BatchConflict(snapshot[a], b, es) /\ registry' = Written(snapshot[a], es)
  <2>1. /\ DOMAIN es = DOMAIN b /\ DOMAIN b = 1..Len(b) /\ Len(b) \in Nat
        /\ \A i, j \in DOMAIN b : b[i].counter = b[j].counter => i = j
        /\ \A i \in DOMAIN b :
             /\ b[i] \in MerchantData /\ es[i] \in Row
             /\ es[i].counter = b[i].counter /\ es[i].lei = b[i].lei /\ es[i].fsp = b[i].fsp
    BY CommitEntities
  <2>2. \A i \in 1..Len(b) : ~LeiConflict(View(registry, b, es, i), b[i])
    BY <1>2, <2>1 DEF BatchConflict
  <2>3. registry \in SUBSET Row /\ \A r, s \in registry : SameLei(r, s) => SameOwner(r, s)
    BY DEF RowsInv, TypeOK, LeiHasOneOwner, SameLei, SameOwner
  <2>4. \A i \in 1..Len(b) : \A r \in View(registry, b, es, i) :
           SameLei(r, b[i]) => SameOwner(r, b[i])
    <3> HIDE DEF b, es
    <3> QED BY <2>1, <2>2, <2>3, BatchKeepsOwner
  <2>5. ASSUME NEW r \in registry'
        PROVE  \/ r \in registry /\ \A i \in DOMAIN b : r.counter # b[i].counter
               \/ \E i \in DOMAIN b : r.counter = b[i].counter /\ r.lei = b[i].lei
                                      /\ r.fsp = b[i].fsp
    <3>1. CASE /\ r \in registry
               /\ \A i \in DOMAIN b : r.counter = b[i].counter => RowsOf(registry, r.counter) = {}
      BY <3>1 DEF RowsOf
    <3>2. CASE \E i \in DOMAIN b : r = es[i]
      BY <2>1, <3>2
    <3>3. ASSUME NEW i \in DOMAIN b, NEW cur \in registry, NEW old \in registry,
                 cur.counter = b[i].counter, old.counter = b[i].counter, r = Merge(cur, old, es[i])
          PROVE  r.counter = b[i].counter /\ r.lei = b[i].lei /\ r.fsp = b[i].fsp
      <4>1. cur = old
        BY <2>1, <3>3, OneRowPerCounter, ConstantsAssumption DEF MerchantData
      <4>2. cur \in Row
        BY <2>3
      <4> HIDE DEF b, es
      <4> QED BY <2>1, <3>3, <4>1, <4>2 DEF Merge, Row
    <3> QED BY <1>2, <3>1, <3>2, <3>3, CommitRow
  <2>6. \A i \in DOMAIN b : \A r \in registry :
          (\A j \in DOMAIN b : r.counter # b[j].counter) => r \in View(registry, b, es, i)
    BY <2>1 DEF View
  <2>7. \A i, j \in DOMAIN b : j < i => es[j] \in View(registry, b, es, i)
    BY <2>1 DEF View
  <2> HIDE DEF b, es
  <2>8. ASSUME NEW i \in DOMAIN b, NEW r \in registry, SameLei(r, b[i]),
               \A j \in DOMAIN b : r.counter # b[j].counter
        PROVE  SameOwner(r, b[i])
    BY <2>1, <2>4, <2>6, <2>8
  <2>9. ASSUME NEW i \in DOMAIN b, NEW j \in DOMAIN b, SameLei(b[i], b[j])
        PROVE  SameOwner(b[i], b[j])
    <3>1. ASSUME NEW x \in DOMAIN b, NEW y \in DOMAIN b, x < y, SameLei(b[x], b[y])
          PROVE  SameOwner(b[x], b[y])
      <4>1. SameLei(es[x], b[y]) /\ es[x] \in View(registry, b, es, y)
        BY <2>1, <2>7, <3>1 DEF SameLei
      <4>2. SameOwner(es[x], b[y])
        BY <2>1, <2>4, <4>1
      <4> QED BY <2>1, <4>2 DEF SameOwner
    <3>2. i < j \/ j < i \/ i = j
      BY <2>1
    <3> QED BY <2>9, <3>1, <3>2 DEF SameLei, SameOwner
  <2>10. ASSUME NEW r \in registry', NEW s \in registry', SameLei(r, s) PROVE SameOwner(r, s)
    <3>1. CASE r \in registry /\ s \in registry
      BY <2>3, <2>10, <3>1
    <3>2. ASSUME NEW x \in registry', NEW y \in registry', SameLei(x, y),
                 x \in registry, \A i \in DOMAIN b : x.counter # b[i].counter,
                 NEW i \in DOMAIN b, y.counter = b[i].counter, y.lei = b[i].lei, y.fsp = b[i].fsp
          PROVE  SameOwner(x, y)
      BY <2>8, <3>2 DEF SameLei, SameOwner
    <3>3. ASSUME NEW i \in DOMAIN b, r.counter = b[i].counter, r.lei = b[i].lei, r.fsp = b[i].fsp,
                 NEW j \in DOMAIN b, s.counter = b[j].counter, s.lei = b[j].lei, s.fsp = b[j].fsp
          PROVE  SameOwner(r, s)
      BY <2>9, <2>10, <3>3 DEF SameLei, SameOwner
    <3>4. SameLei(s, r)
      BY <2>10 DEF SameLei
    <3>5. SameOwner(s, r) => SameOwner(r, s)
      BY DEF SameOwner
    <3> QED BY <2>5, <2>10, <3>1, <3>2, <3>3, <3>4, <3>5
  <2> QED BY <2>10 DEF LeiHasOneOwner, SameLei, SameOwner
<1> QED BY <1>1, <1>2 DEF Commit

(* The look-ups of a commit are enough when nothing was committed since its   *)
(* snapshot: it gives no LEI a second owner, not even within its own batch,  *)
(* whose merchants are looked up under those saved before them.             *)
THEOREM LeiAlwaysKeptBySerialCommits == Spec => LeiKeptBySerialCommits
<1> DEFINE Kept == \A a \in Attempts :
       pc[a] = "commit" /\ pc'[a] # "commit" /\ snapshot[a] = registry /\ LeiHasOneOwner
         => LeiHasOneOwner'
<1>1. RowsInv /\ [Next]_vars => [Kept]_vars
  <2> SUFFICES ASSUME RowsInv, Next, NEW a \in Attempts, pc[a] = "commit", pc'[a] # "commit",
                      snapshot[a] = registry, LeiHasOneOwner
               PROVE  LeiHasOneOwner'
    OBVIOUS
  <2>1. CASE UNCHANGED <<registry, nextId>>
    BY <2>1 DEF LeiHasOneOwner
  <2>2. ASSUME NEW c \in Attempts, Commit(c), pc' = [pc EXCEPT ![c] = "insert"]
        PROVE  LeiHasOneOwner'
    <3>1. a = c
      BY <2>2 DEF RowsInv, TypeOK
    <3> QED BY <2>2, <3>1, SerialCommit
  <2>3. ASSUME NEW f \in Fsps, NEW al \in ParticipantAliases, AddParticipant(f, al)
        PROVE  LeiHasOneOwner'
    BY <2>3 DEF AddParticipant
  <2> QED BY <2>1, <2>2, <2>3, RegistrySteps
<1> QED BY <1>1, RowsInit, RowsStep, PTL DEF Spec, LeiKeptBySerialCommits

-----------------------------------------------------------------------------
(* The oracle with its clients.                                             *)

(* Every request of a call carries its key and its body.                    *)
SameRequest ==
  \A c \in Calls : \A n \in 1..MaxTries :
    key[<<c, n>>] = KeyOf[c] /\ batch[<<c, n>>] = batch[<<c, 1>>]

(* A call that waits has sent a request, one that will send has one left.   *)
TriesLeft ==
  \A c \in Calls : /\ outcome[c] = "waiting" => try[c] \in 1..MaxTries
                   /\ outcome[c] \in {"idle", "retrying"} => try[c] < MaxTries

Recorded(c, rows) ==
  \E r \in records : r.key = KeyOf[c] /\ r.batch = batch[<<c, 1>>] /\ r.data = rows

ResultRecorded == \A c \in Calls : outcome[c] = "ok" => Recorded(c, result[c])

CInv == IInv /\ ClientTypeOK /\ SameRequest /\ TriesLeft /\ ResultRecorded

-----------------------------------------------------------------------------
LEMMA CInvInit == ClientInit => CInv
<1> SUFFICES ASSUME ClientInit PROVE CInv
  OBVIOUS
<1>1. IInv
  BY IInvInit DEF ClientInit
<1>2. ClientTypeOK
  BY ClientAssumption DEF ClientInit, ClientTypeOK
<1>3. SameRequest /\ ResultRecorded
  BY DEF ClientInit, SameRequest, ResultRecorded
<1>4. TriesLeft
  BY ClientAssumption DEF ClientInit, TriesLeft
<1> QED BY <1>1, <1>2, <1>3, <1>4 DEF CInv

(* The request a call waits for, and the next it sends, are requests.       *)
LEMMA RunFact ==
  ASSUME CInv, NEW c \in Calls
  PROVE  /\ outcome[c] = "waiting" => Run(c) \in Attempts
         /\ outcome[c] \in {"idle", "retrying"} =>
              <<c, try[c] + 1>> \in Attempts /\ try[c] + 1 \in 1..MaxTries
<1>1. MaxTries \in Nat /\ Attempts = Calls \X (1..MaxTries)
  BY ClientAssumption
<1>2. try[c] \in 0..MaxTries
  BY DEF CInv, ClientTypeOK
<1>3. outcome[c] \in {"idle", "retrying"} => try[c] + 1 \in 1..MaxTries
  BY <1>1, <1>2 DEF CInv, TriesLeft
<1> QED BY <1>1, <1>3 DEF CInv, TriesLeft, Run

(* Seen from the oracle, a step of the composition is one of its own.       *)
LEMMA OracleStep ==
  ASSUME CInv, [ClientNext]_allvars
  PROVE  [Next]_vars
<1>1. ASSUME NEW c \in Calls, Send(c) PROVE Next
  <2>1. <<c, try[c] + 1>> \in Attempts
    BY <1>1, RunFact DEF Send
  <2> QED BY <1>1, <2>1 DEF Send, Next
<1>2. ASSUME NEW c \in Calls, Receive(c) \/ ConnectionLost(c) \/ TimeOut(c)
      PROVE  UNCHANGED vars
  BY <1>2 DEF Receive, ConnectionLost, TimeOut
<1>3. CASE ServerStep
  BY <1>3 DEF ServerStep, Next
<1>4. CASE ServerFault
  BY <1>4 DEF ServerFault, Next
<1>5. CASE Participants
  BY <1>5 DEF Participants, Next
<1> QED
  BY <1>1, <1>2, <1>3, <1>4, <1>5 DEF ClientNext, ClientStep, allvars

(* No step of the oracle changes a request, and none forgets a record.      *)
LEMMA OracleKeeps ==
  ASSUME CInv, [Next]_vars
  PROVE  key' = key /\ batch' = batch /\ records \subseteq records'
<1>1. CASE Next
  BY <1>1, AnswerSteps DEF CInv, IInv, RowsInv, StoresAnswer
<1>2. CASE UNCHANGED vars
  BY <1>2 DEF vars
<1> QED BY <1>1, <1>2

(* How a step of a call changes what the calls hold, and what it may return. *)
CallMoves(c) ==
  /\ \E o \in {"waiting", "retrying", "ok", "conflict", "failed"} :
       outcome' = [outcome EXCEPT ![c] = o]
  /\ try' \in [Calls -> 0..MaxTries]
  /\ \A d \in Calls \ {c} : try'[d] = try[d] /\ result'[d] = result[d]
  /\ result' \in [Calls -> Seq(Row)]
  /\ losses' \in 0..MaxLosses
  /\ outcome'[c] = "waiting" => try'[c] \in 1..MaxTries
  /\ outcome'[c] = "retrying" => try'[c] < MaxTries
  /\ outcome'[c] = "ok" => Recorded(c, result'[c])

LEMMA SendMoves ==
  ASSUME CInv, NEW c \in Calls, Send(c)
  PROVE  CallMoves(c)
<1>1. ClientTypeOK /\ try[c] + 1 \in 1..MaxTries /\ MaxTries \in Nat
  BY RunFact, ClientAssumption DEF CInv, Send
<1>2. /\ try' = [try EXCEPT ![c] = @ + 1]
      /\ outcome' = [outcome EXCEPT ![c] = "waiting"]
      /\ UNCHANGED <<result, losses>>
  BY DEF Send
<1>3. outcome'[c] = "waiting" /\ try'[c] = try[c] + 1
  BY <1>1, <1>2 DEF ClientTypeOK
<1> QED BY <1>1, <1>2, <1>3 DEF CallMoves, ClientTypeOK

(* A retryable error: another attempt is left, or the call fails.           *)
LEMMA RetryMoves ==
  ASSUME CInv, NEW c \in Calls, RetryOrThrow(c), try' = try, losses' \in 0..MaxLosses
  PROVE  CallMoves(c)
<1>1. ClientTypeOK
  BY DEF CInv
<1>2. CASE try[c] < MaxTries
  <2>1. outcome' = [outcome EXCEPT ![c] = "retrying"] /\ result' = result
    BY <1>2 DEF RetryOrThrow
  <2>2. outcome'[c] = "retrying"
    BY <1>1, <2>1 DEF ClientTypeOK
  <2> QED BY <1>1, <1>2, <2>1, <2>2 DEF CallMoves, ClientTypeOK
<1>3. CASE ~(try[c] < MaxTries)
  <2>1. outcome' = [outcome EXCEPT ![c] = "failed"] /\ result' = result
    BY <1>3 DEF RetryOrThrow
  <2>2. outcome'[c] = "failed"
    BY <1>1, <2>1 DEF ClientTypeOK
  <2> QED BY <1>1, <2>1, <2>2 DEF CallMoves, ClientTypeOK
<1> QED BY <1>2, <1>3

(* A request of a call that got 200 got the rows of a record of the call.    *)
LEMMA OkRecorded ==
  ASSUME CInv, NEW c \in Calls, outcome[c] = "waiting", reply[Run(c)].status = "ok"
  PROVE  reply[Run(c)].data \in Seq(Row) /\ Recorded(c, reply[Run(c)].data)
<1>1. Run(c) \in Attempts
  BY RunFact
<1>2. key[Run(c)] = KeyOf[c] /\ batch[Run(c)] = batch[<<c, 1>>]
  BY DEF CInv, SameRequest, TriesLeft, Run
<1>3. reply[Run(c)] \in Reply
  BY <1>1 DEF CInv, IInv, RowsInv, TypeOK
<1>4. PICK r \in records : /\ r.key = key[Run(c)]
                           /\ r.batch = batch[Run(c)]
                           /\ reply[Run(c)] = Ok(r.data)
  BY <1>1 DEF CInv, IInv, OneAnswerPerKey
<1>5. reply[Run(c)].data = r.data
  BY <1>4 DEF Ok
<1> QED BY <1>2, <1>3, <1>4, <1>5 DEF Reply, Recorded

LEMMA ReceiveMoves ==
  ASSUME CInv, NEW c \in Calls, Receive(c)
  PROVE  CallMoves(c) /\ UNCHANGED vars
<1>1. ClientTypeOK /\ UNCHANGED <<vars, try, losses>> /\ outcome[c] = "waiting"
  BY DEF CInv, Receive
<1>2. losses' \in 0..MaxLosses
  BY <1>1 DEF ClientTypeOK
<1>3. CASE reply[Run(c)].status = "error" /\ RetryOrThrow(c)
  BY <1>1, <1>2, <1>3, RetryMoves
<1>4. CASE reply[Run(c)].status = "ok" /\ Finish(c, "ok", reply[Run(c)].data)
  <2>1. reply[Run(c)].data \in Seq(Row) /\ Recorded(c, reply[Run(c)].data)
    BY <1>1, <1>4, OkRecorded
  <2>2. /\ outcome' = [outcome EXCEPT ![c] = "ok"]
        /\ result' = [result EXCEPT ![c] = reply[Run(c)].data]
    BY <1>4 DEF Finish
  <2>3. Recorded(c, result'[c])
    BY <1>1, <2>1, <2>2 DEF ClientTypeOK
  <2>4. outcome'[c] = "ok"
    BY <1>1, <2>2 DEF ClientTypeOK
  <2> QED BY <1>1, <1>2, <2>1, <2>2, <2>3, <2>4 DEF CallMoves, ClientTypeOK
<1>5. CASE reply[Run(c)].status \in {"conflict", "reused"} /\ Finish(c, "conflict", <<>>)
  <2>1. /\ outcome' = [outcome EXCEPT ![c] = "conflict"]
        /\ result' = [result EXCEPT ![c] = <<>>]
    BY <1>5 DEF Finish
  <2>2. outcome'[c] = "conflict" /\ <<>> \in Seq(Row)
    BY <1>1, <2>1 DEF ClientTypeOK
  <2> QED BY <1>1, <1>2, <2>1, <2>2 DEF CallMoves, ClientTypeOK
<1> QED BY <1>1, <1>3, <1>4, <1>5 DEF Receive

(* What a step of a call leaves.                                            *)
LEMMA MovesKeep ==
  ASSUME CInv, NEW c \in Calls, CallMoves(c), [Next]_vars
  PROVE  ClientTypeOK' /\ TriesLeft' /\ ResultRecorded'
<1>1. /\ ClientTypeOK /\ TriesLeft /\ ResultRecorded
      /\ batch' = batch /\ records \subseteq records'
  BY OracleKeeps DEF CInv
<1>2. PICK o \in {"waiting", "retrying", "ok", "conflict", "failed"} :
        outcome' = [outcome EXCEPT ![c] = o]
  BY DEF CallMoves
<1>3. outcome'[c] = o /\ \A d \in Calls \ {c} : outcome'[d] = outcome[d]
  BY <1>1, <1>2 DEF ClientTypeOK
<1>4. ClientTypeOK'
  BY <1>1, <1>2 DEF CallMoves, ClientTypeOK
<1>5. TriesLeft'
  <2> SUFFICES ASSUME NEW d \in Calls
               PROVE  /\ outcome'[d] = "waiting" => try'[d] \in 1..MaxTries
                      /\ outcome'[d] \in {"idle", "retrying"} => try'[d] < MaxTries
    BY DEF TriesLeft
  <2>1. CASE d = c
    BY <1>3, <2>1 DEF CallMoves
  <2>2. CASE d # c
    BY <1>1, <1>3, <2>2 DEF CallMoves, TriesLeft
  <2> QED BY <2>1, <2>2
<1>6. ResultRecorded'
  <2> SUFFICES ASSUME NEW d \in Calls, outcome'[d] = "ok"
               PROVE  \E r \in records' : /\ r.key = KeyOf[d]
                                          /\ r.batch = batch[<<d, 1>>]
                                          /\ r.data = result'[d]
    BY <1>1 DEF ResultRecorded, Recorded
  <2>1. Recorded(d, result'[d])
    BY <1>1, <1>3 DEF CallMoves, ResultRecorded
  <2> QED BY <1>1, <2>1 DEF Recorded
<1> QED BY <1>4, <1>5, <1>6

LEMMA CInvStep == CInv /\ [ClientNext]_allvars => CInv'
<1> SUFFICES ASSUME CInv, [ClientNext]_allvars PROVE CInv'
  OBVIOUS
<1>1. [Next]_vars
  BY OracleStep
<1>2. IInv' /\ key' = key /\ batch' = batch /\ records \subseteq records'
  BY <1>1, IInvStep, OracleKeeps DEF CInv
<1>3. SameRequest'
  BY <1>2 DEF CInv, SameRequest
<1>4. ASSUME UNCHANGED <<try, outcome, result>>, losses' \in 0..MaxLosses
      PROVE  ClientTypeOK' /\ TriesLeft' /\ ResultRecorded'
  BY <1>2, <1>4 DEF CInv, ClientTypeOK, TriesLeft, ResultRecorded, Recorded
<1>5. losses \in 0..MaxLosses /\ MaxLosses \in Nat
  BY ClientAssumption DEF CInv, ClientTypeOK
<1>6. ASSUME NEW c \in Calls, ClientStep(c) \/ TimeOut(c) PROVE CallMoves(c)
  <2>1. CASE TimeOut(c)
    <3>1. losses' \in 0..MaxLosses /\ try' = try /\ RetryOrThrow(c)
      BY <1>5, <2>1 DEF TimeOut
    <3> QED BY <3>1, RetryMoves
  <2>2. CASE ConnectionLost(c)
    BY <1>5, <2>2, RetryMoves DEF ConnectionLost
  <2> QED BY <1>6, <2>1, <2>2, SendMoves, ReceiveMoves DEF ClientStep
<1>7. ASSUME ServerStep \/ Participants \/ UNCHANGED allvars
      PROVE  ClientTypeOK' /\ TriesLeft' /\ ResultRecorded'
  BY <1>4, <1>5, <1>7 DEF ServerStep, Participants, clientvars, allvars
<1>8. ASSUME ServerFault
      PROVE  ClientTypeOK' /\ TriesLeft' /\ ResultRecorded'
  BY <1>4, <1>5, <1>8 DEF ServerFault
<1>9. ClientTypeOK' /\ TriesLeft' /\ ResultRecorded'
  BY <1>1, <1>6, <1>7, <1>8, MovesKeep DEF ClientNext
<1> QED BY <1>2, <1>3, <1>9 DEF CInv

LEMMA CInvariant == ClientSpec => []CInv
BY CInvInit, CInvStep, PTL DEF ClientSpec

(* A call sends at most MaxTries requests, one at a time, and returns rows.  *)
THEOREM ClientTypeCorrect == ClientSpec => []ClientTypeOK
<1>1. CInv => ClientTypeOK
  BY DEF CInv
<1> QED BY <1>1, CInvariant, PTL

(* However its requests are lost, delayed, retried and overtaken, a call     *)
(* that succeeds hands back rows that are registered for its own counters.  *)
THEOREM SuccessAlwaysRegistered == ClientSpec => []SuccessIsRegistered
<1>1. CInv => SuccessIsRegistered
  <2> SUFFICES ASSUME CInv, NEW c \in Calls, outcome[c] = "ok"
               PROVE  /\ Recorded(c, result[c])
                      /\ \A i \in DOMAIN batch[<<c, 1>>] : \E s \in registry :
                           /\ s.id = result[c][i].id
                           /\ s.counter = batch[<<c, 1>>][i].counter
    BY DEF SuccessIsRegistered, Recorded
  <2>1. PICK r \in records : /\ r.key = KeyOf[c]
                             /\ r.batch = batch[<<c, 1>>]
                             /\ r.data = result[c]
    BY DEF CInv, ResultRecorded, Recorded
  <2>2. Answers(r.data, r.batch, registry)
    BY DEF CInv, IInv, RecordsAnswer
  <2> QED BY <2>1, <2>2 DEF Recorded, Answers
<1> QED BY <1>1, CInvariant, PTL

(* Its clients, with their timeouts and retries, make the oracle do nothing  *)
(* its own specification forbids: what is proved of Spec holds beside them. *)
THEOREM ClientsImplementOracle == ClientSpec => Spec
<1>1. ClientInit => Init
  BY DEF ClientInit
<1>2. CInv /\ [ClientNext]_allvars => [Next]_vars
  BY OracleStep
<1> QED BY <1>1, <1>2, CInvariant, PTL DEF ClientSpec, Spec

-----------------------------------------------------------------------------
(* What a run returned is registered, also when its answer was lost.        *)
DInv == \A a \in Attempts : data[a] = <<>> \/ Answers(data[a], batch[a], registry)

RInv == CInv /\ DInv

(* Only a commit gives a run data, and then the run goes on to store it.     *)
LEMMA DataChanges ==
  ASSUME TypeOK, Next, NEW a \in Attempts
  PROVE  data'[a] = data[a] \/ pc'[a] = "insert"
<1>1. ASSUME NEW b \in Attempts, Commit(b)
      PROVE  data'[a] = data[a] \/ pc'[a] = "insert"
  BY <1>1 DEF Commit, Goto, TypeOK
<1>2. ASSUME NEW b \in Attempts, Arrive(b) \/ LookUp(b) \/ Begin(b) \/ Insert(b)
                                  \/ Reread(b) \/ Fail(b)
      PROVE  data' = data
  BY <1>2 DEF Arrive, LookUp, Begin, Insert, Reread, Fail
<1>3. Crash \/ (\E f \in Fsps, al \in ParticipantAliases : AddParticipant(f, al))
        => data' = data
  BY DEF Crash, AddParticipant
<1> QED BY <1>1, <1>2, <1>3 DEF Next, Handle

LEMMA DInvStep ==
  ASSUME CInv, DInv, [Next]_vars
  PROVE  DInv'
<1>1. TypeOK /\ RowsInv /\ IInv
  BY DEF CInv, IInv, RowsInv
<1>2. CASE UNCHANGED vars
  BY <1>2 DEF vars, DInv, Answers
<1>3. CASE Next
  <2> SUFFICES ASSUME NEW a \in Attempts, data'[a] # <<>>
               PROVE  Answers(data'[a], batch'[a], registry')
    BY DEF DInv
  <2>1. CASE pc'[a] = "insert"
    BY <1>1, <1>3, <2>1, DataStep DEF DataRegistered
  <2>2. CASE data'[a] = data[a]
    <3>1. Answers(data[a], batch[a], registry)
      BY <2>2 DEF DInv
    <3>2. StillThere(registry, registry')
      BY <1>1, <1>3, RegistryFact
    <3>3. batch' = batch
      BY OracleKeeps
    <3> QED BY <2>2, <3>1, <3>2, <3>3, AnswersPersist
  <2> QED BY <1>1, <1>3, <2>1, <2>2, DataChanges
<1> QED BY <1>2, <1>3

LEMMA RInvariant == ClientSpec => []RInv
<1>1. ClientInit => RInv
  <2>1. ClientInit => DInv
    BY DEF ClientInit, Init, DInv
  <2> QED BY <2>1, CInvInit DEF RInv
<1>2. RInv /\ [ClientNext]_allvars => RInv'
  BY CInvStep, OracleStep, DInvStep DEF RInv
<1> QED BY <1>1, <1>2, PTL DEF ClientSpec

(* Whichever attempts of a call ran to their end, side by side or not, they  *)
(* registered one row for each of its counters.                             *)
THEOREM RetriesAlwaysAgree == ClientSpec => []RetriesAgree
<1>1. RInv => RetriesAgree
  <2> SUFFICES ASSUME RInv, NEW c \in Calls, NEW m \in 1..MaxTries, NEW n \in 1..MaxTries,
                      data[<<c, m>>] # <<>>, data[<<c, n>>] # <<>>,
                      NEW i \in DOMAIN data[<<c, m>>]
               PROVE  data[<<c, m>>][i].id = data[<<c, n>>][i].id
    BY DEF RetriesAgree
  <2> DEFINE b == batch[<<c, 1>>]
  <2>1. <<c, 1>> \in Attempts /\ <<c, m>> \in Attempts /\ <<c, n>> \in Attempts
    BY ClientAssumption
  <2>2. batch[<<c, m>>] = b /\ batch[<<c, n>>] = b /\ b \in Batches
    BY <2>1 DEF RInv, CInv, SameRequest, IInv, RowsInv, TypeOK
  <2>3. Answers(data[<<c, m>>], b, registry) /\ Answers(data[<<c, n>>], b, registry)
    BY <2>1, <2>2 DEF RInv, DInv
  <2>4. i \in DOMAIN b /\ b[i].counter # NoCounter
    BY <2>2, <2>3, BatchFact, ConstantsAssumption DEF Answers, MerchantData
  <2>5. PICK r \in registry : r.id = data[<<c, m>>][i].id /\ r.counter = b[i].counter
    BY <2>3, <2>4 DEF Answers
  <2>6. PICK s \in registry : s.id = data[<<c, n>>][i].id /\ s.counter = b[i].counter
    BY <2>3, <2>4 DEF Answers
  <2>7. r.id = s.id
    BY <2>4, <2>5, <2>6 DEF RInv, CInv, IInv, RowsInv, AliasesUnique
  <2> QED BY <2>5, <2>6, <2>7
<1> QED BY <1>1, RInvariant, PTL

-----------------------------------------------------------------------------
(* The rows of a call nobody contests: its counters have the aliases and LEIs *)
(* of its body, and no other row has.  A conflict of a commit of c would be   *)
(* with such a row.                                                         *)
OwnRows(c, rows) ==
  LET b == batch[<<c, 1>>] IN
  \A r \in rows : \A i \in DOMAIN b :
    /\ r.counter = b[i].counter =>
         r.alias = PreferredAlias(b[i]) /\ r.lei = b[i].lei /\ r.fsp = b[i].fsp
    /\ r.alias = PreferredAlias(b[i]) => r.counter = b[i].counter
    /\ SameLei(r, b[i]) => \E j \in DOMAIN b : r.counter = b[j].counter

OwnInv ==
  \A c \in Calls : Uncontested(c) =>
    /\ OwnRows(c, registry)
    /\ \A a \in Attempts : OwnRows(c, snapshot[a])

RecordsOfCalls ==
  \A r \in records : \E c \in Calls : r.key = KeyOf[c] /\ r.batch = batch[<<c, 1>>]

NoConflict ==
  \A c \in Calls : Uncontested(c) =>
    /\ outcome[c] # "conflict"
    /\ \A n \in 1..MaxTries : reply[<<c, n>>].status \notin {"conflict", "reused"}

UInv == OwnInv /\ RecordsOfCalls /\ NoConflict

(* The run of a request, and the call it belongs to.                         *)
LEMMA CallOf ==
  ASSUME CInv, NEW a \in Attempts
  PROVE  \E d \in Calls, n \in 1..MaxTries :
           a = <<d, n>> /\ key[a] = KeyOf[d] /\ batch[a] = batch[<<d, 1>>]
<1>1. PICK d \in Calls, n \in 1..MaxTries : a = <<d, n>>
  BY ClientAssumption
<1> QED BY <1>1 DEF CInv, SameRequest

(* The merchants of a request of the call itself, or of another.             *)
LEMMA BodyFact ==
  ASSUME CInv, NEW c \in Calls, Uncontested(c), NEW d \in Calls, NEW j \in DOMAIN batch[<<d, 1>>],
         NEW i \in DOMAIN batch[<<c, 1>>]
  PROVE  LET m == batch[<<c, 1>>][i]
             n == batch[<<d, 1>>][j]
         IN  \/ /\ d = c
                /\ (n.counter = m.counter \/ PreferredAlias(n) = PreferredAlias(m)) => i = j
             \/ /\ d # c
                /\ n.counter # m.counter /\ PreferredAlias(n) # PreferredAlias(m)
                /\ ~SameLei(n, m)
<1>1. <<c, 1>> \in Attempts /\ 1 \in 1..MaxTries
  BY ClientAssumption
<1>2. batch[<<c, 1>>] \in Batches
  BY <1>1 DEF CInv, IInv, RowsInv, TypeOK
<1>3. CASE d = c
  BY <1>2, <1>3, BatchFact DEF Uncontested
<1>4. CASE d # c
  BY <1>4 DEF Uncontested, SameLei
<1> QED BY <1>3, <1>4

(* A commit leaves the rows of an uncontested call its own.                  *)
LEMMA CommitOwn ==
  ASSUME CInv, NEW a \in Attempts, NEW c \in Calls, Uncontested(c),
         OwnRows(c, registry), OwnRows(c, snapshot[a])
  PROVE  OwnRows(c, Written(snapshot[a], Entities(snapshot[a], batch[a], nextId)))
<1> DEFINE rows == snapshot[a]
           b == batch[<<c, 1>>]
           es == Entities(snapshot[a], batch[a], nextId)
<1>1. RowsInv /\ registry \subseteq Row /\ rows \subseteq Row
  BY DEF CInv, IInv, RowsInv, TypeOK
<1>2. PICK d \in Calls : batch[a] = batch[<<d, 1>>]
  BY CallOf
<1>3. /\ DOMAIN es = DOMAIN batch[a]
      /\ \A k \in DOMAIN batch[a] :
           LET n == batch[a][k] IN
           /\ n \in MerchantData /\ es[k] \in Row
           /\ es[k].counter = n.counter /\ es[k].lei = n.lei /\ es[k].fsp = n.fsp
           /\ es[k].alias = ResolvedAlias(rows, n)
  BY <1>1, CommitEntities
<1> HIDE DEF es
<1> SUFFICES ASSUME NEW r \in Written(rows, es), NEW i \in DOMAIN b
             PROVE  /\ r.counter = b[i].counter =>
                         r.alias = PreferredAlias(b[i]) /\ r.lei = b[i].lei /\ r.fsp = b[i].fsp
                    /\ r.alias = PreferredAlias(b[i]) => r.counter = b[i].counter
                    /\ SameLei(r, b[i]) => \E j \in DOMAIN b : r.counter = b[j].counter
  BY DEF OwnRows, es
<1>4. CASE r \in registry
  BY <1>4 DEF OwnRows
<1>5. ASSUME NEW k \in DOMAIN batch[a], RowsOf(rows, batch[a][k].counter) = {}, r = es[k]
      PROVE  /\ r.counter = b[i].counter =>
                  r.alias = PreferredAlias(b[i]) /\ r.lei = b[i].lei /\ r.fsp = b[i].fsp
             /\ r.alias = PreferredAlias(b[i]) => r.counter = b[i].counter
             /\ SameLei(r, b[i]) => \E j \in DOMAIN b : r.counter = b[j].counter
  <2>1. /\ r.counter = batch[a][k].counter /\ r.lei = batch[a][k].lei /\ r.fsp = batch[a][k].fsp
        /\ r.alias = PreferredAlias(batch[a][k])
    BY <1>3, <1>5 DEF ResolvedAlias
  <2> QED BY <1>2, <2>1, BodyFact DEF SameLei
<1>6. ASSUME NEW k \in DOMAIN batch[a], NEW cur \in registry, NEW old \in rows,
             cur.counter = batch[a][k].counter, old.counter = batch[a][k].counter,
             r = Merge(cur, old, es[k]), old = TheRow(rows, batch[a][k].counter),
             RowsOf(rows, batch[a][k].counter) # {}
      PROVE  /\ r.counter = b[i].counter =>
                  r.alias = PreferredAlias(b[i]) /\ r.lei = b[i].lei /\ r.fsp = b[i].fsp
             /\ r.alias = PreferredAlias(b[i]) => r.counter = b[i].counter
             /\ SameLei(r, b[i]) => \E j \in DOMAIN b : r.counter = b[j].counter
  <2> DEFINE n == batch[a][k]
  <2>1. cur \in Row /\ old \in Row /\ es[k] \in Row
    BY <1>1, <1>3, <1>6
  <2>2. /\ r.counter = n.counter
        /\ r.alias = IF es[k].alias # old.alias THEN es[k].alias ELSE cur.alias
        /\ r.lei = IF n.lei # old.lei THEN n.lei ELSE cur.lei
        /\ r.fsp = IF n.fsp # old.fsp THEN n.fsp ELSE cur.fsp
    BY <1>3, <1>6, <2>1 DEF Merge, Row
  <2>3. es[k].alias # old.alias => es[k].alias = PreferredAlias(n)
    BY <1>3, <1>6 DEF ResolvedAlias
  <2>4. CASE d = c
    <3>1. /\ old.alias = PreferredAlias(n) /\ old.lei = n.lei /\ old.fsp = n.fsp
          /\ cur.alias = PreferredAlias(n) /\ cur.lei = n.lei /\ cur.fsp = n.fsp
      BY <1>2, <1>6, <2>4 DEF OwnRows
    <3>2. r.alias = PreferredAlias(n) /\ r.lei = n.lei /\ r.fsp = n.fsp /\ k \in DOMAIN b /\ n = b[k]
      BY <1>2, <2>2, <2>3, <2>4, <3>1
    <3> HIDE DEF n
    <3> QED BY <1>2, <2>2, <2>4, <3>2, BodyFact
  <2>5. CASE d # c
    <3>1. \A x \in DOMAIN b : n.counter # b[x].counter
      BY <1>2, <2>5, BodyFact
    <3>2. PreferredAlias(n) # PreferredAlias(b[i]) /\ ~SameLei(n, b[i])
      BY <1>2, <2>5, BodyFact
    <3>3. cur.alias # PreferredAlias(b[i]) /\ ~SameLei(cur, b[i])
      BY <1>6, <3>1 DEF OwnRows
    <3> QED BY <2>2, <2>3, <3>1, <3>2, <3>3 DEF SameLei
  <2> QED BY <2>4, <2>5
<1>7. \/ r \in registry
      \/ \E k \in DOMAIN batch[a] : RowsOf(rows, batch[a][k].counter) = {} /\ r = es[k]
      \/ \E k \in DOMAIN batch[a], cur \in registry, old \in rows :
           /\ cur.counter = batch[a][k].counter /\ old.counter = batch[a][k].counter
           /\ r = Merge(cur, old, es[k])
           /\ old = TheRow(rows, batch[a][k].counter)
           /\ RowsOf(rows, batch[a][k].counter) # {}
  <2>1. es = Entities(rows, batch[a], nextId)
    BY DEF es
  <2> QED BY <1>1, <2>1, CommitRow
<1> QED BY <1>4, <1>5, <1>6, <1>7

(* An LEI all whose rows have the owner of m is no conflict for m.           *)
LEMMA OneOwnerNoConflict ==
  ASSUME NEW view \in SUBSET Row, NEW m,
         \A r \in view : SameLei(r, m) => SameOwner(r, m)
  PROVE  ~LeiConflict(view, m)
<1> SUFFICES ASSUME LeiConflict(view, m) PROVE FALSE
  OBVIOUS
<1> DEFINE owners == {r \in view : r.lei = m.lei}
           ids == {r.id : r \in owners}
           first == CHOOSE r \in owners : \A s \in owners : r.id <= s.id
<1>1. /\ m.lei # NoLei /\ owners # {}
      /\ MerchantOf[first.counter] # MerchantOf[m.counter] \/ first.fsp # m.fsp
  BY DEF LeiConflict
<1>2. ids \in SUBSET Nat /\ ids # {}
  BY <1>1 DEF Row
<1>3. PICK n \in ids : \A k \in ids : n <= k
  <2> HIDE DEF ids
  <2> QED BY <1>2, LeastElement
<1>4. \E r \in owners : \A s \in owners : r.id <= s.id
  BY <1>3
<1>5. first \in owners
  BY <1>4
<1> HIDE DEF first
<1>6. SameLei(first, m) /\ first \in view
  BY <1>1, <1>5 DEF SameLei
<1> QED BY <1>1, <1>6 DEF SameOwner

(* The commit of a call nobody contests finds no conflict: what stands in the *)
(* way of a merchant is the row its own first request left.                 *)
LEMMA NoCommitConflict ==
  ASSUME CInv, NEW a \in Attempts, NEW c \in Calls, Uncontested(c),
         batch[a] = batch[<<c, 1>>], OwnRows(c, snapshot[a])
  PROVE  ~BatchConflict(snapshot[a], batch[a], Entities(snapshot[a], batch[a], nextId))
<1> DEFINE rows == snapshot[a]
           b == batch[a]
           es == Entities(rows, b, nextId)
<1>1. RowsInv /\ rows \subseteq Row
  BY DEF CInv, IInv, RowsInv, TypeOK
<1>2. /\ DOMAIN es = DOMAIN b /\ DOMAIN b = 1..Len(b) /\ Len(b) \in Nat
      /\ \A i, j \in DOMAIN b : b[i].counter = b[j].counter => i = j
      /\ \A i \in DOMAIN b :
           /\ b[i] \in MerchantData /\ es[i] \in Row
           /\ es[i].counter = b[i].counter /\ es[i].lei = b[i].lei /\ es[i].fsp = b[i].fsp
           /\ es[i].alias = ResolvedAlias(rows, b[i])
           /\ RowsOf(rows, b[i].counter) # {} => es[i].id = TheRow(rows, b[i].counter).id
  BY <1>1, CommitEntities
<1>3. /\ \A r \in rows : \A i \in DOMAIN b :
           /\ r.counter = b[i].counter =>
                r.alias = PreferredAlias(b[i]) /\ r.lei = b[i].lei /\ r.fsp = b[i].fsp
           /\ r.alias = PreferredAlias(b[i]) => r.counter = b[i].counter
           /\ SameLei(r, b[i]) => \E j \in DOMAIN b : r.counter = b[j].counter
      /\ \A i, j \in DOMAIN b :
           /\ PreferredAlias(b[j]) = PreferredAlias(b[i]) => j = i
           /\ SameLei(b[j], b[i]) => SameOwner(b[j], b[i])
  BY DEF OwnRows, Uncontested, SameLei, SameOwner
<1> HIDE DEF es
<1>4. ASSUME NEW i \in DOMAIN b
      PROVE  es[i].alias = PreferredAlias(b[i])
  <2>1. CASE RowsOf(rows, b[i].counter) = {}
    BY <1>2, <2>1 DEF ResolvedAlias
  <2>2. CASE RowsOf(rows, b[i].counter) # {}
    BY <1>2, <1>3, <2>2, TheRowFact DEF ResolvedAlias
  <2> QED BY <2>1, <2>2
<1>5. ASSUME NEW i \in DOMAIN b PROVE ~AliasConflict(View(rows, b, es, i), es[i])
  <2> SUFFICES ASSUME NEW r \in View(rows, b, es, i), r.alias = es[i].alias PROVE r.id = es[i].id
    BY DEF AliasConflict
  <2>1. CASE r \in rows
    <3>1. r.counter = b[i].counter
      BY <1>3, <1>4, <2>1
    <3>2. RowsOf(rows, b[i].counter) # {}
      BY <2>1, <3>1 DEF RowsOf
    <3> DEFINE old == TheRow(rows, b[i].counter)
    <3>3. old \in rows /\ old.counter = b[i].counter /\ es[i].id = old.id
      BY <1>2, <3>2, TheRowFact
    <3> HIDE DEF old
    <3>4. PICK s \in registry : s.id = r.id /\ s.counter = r.counter
      BY <1>1, <2>1 DEF RowsInv, SnapshotCurrent, StillThere
    <3>5. PICK t \in registry : t.id = old.id /\ t.counter = old.counter
      BY <1>1, <3>3 DEF RowsInv, SnapshotCurrent, StillThere
    <3>6. b[i].counter # NoCounter
      BY <1>2, ConstantsAssumption DEF MerchantData
    <3> QED BY <1>1, <3>1, <3>3, <3>4, <3>5, <3>6 DEF RowsInv, AliasesUnique
  <2>2. ASSUME NEW j \in 1..(i - 1), r = es[j] PROVE r.id = es[i].id
    <3>1. j \in DOMAIN b /\ j # i
      BY <1>2
    <3>2. PreferredAlias(b[j]) = PreferredAlias(b[i])
      BY <1>4, <2>2, <3>1
    <3> QED BY <1>3, <3>1, <3>2
  <2> QED BY <2>1, <2>2 DEF View
<1>6. ASSUME NEW i \in DOMAIN b PROVE ~LeiConflict(View(rows, b, es, i), b[i])
  <2>1. View(rows, b, es, i) \in SUBSET Row
    BY <1>1, <1>2 DEF View
  <2>2. ASSUME NEW r \in View(rows, b, es, i), SameLei(r, b[i]) PROVE SameOwner(r, b[i])
    <3>1. CASE r \in rows
      <4>1. PICK j \in DOMAIN b : r.counter = b[j].counter
        BY <1>3, <2>2, <3>1
      <4>2. r.lei = b[j].lei /\ r.fsp = b[j].fsp
        BY <1>3, <3>1, <4>1
      <4>3. SameLei(b[j], b[i])
        BY <2>2, <4>2 DEF SameLei
      <4>4. SameOwner(b[j], b[i])
        BY <1>3, <4>3
      <4> QED BY <4>1, <4>2, <4>4 DEF SameOwner
    <3>2. ASSUME NEW j \in 1..(i - 1), r = es[j] PROVE SameOwner(r, b[i])
      <4>1. j \in DOMAIN b /\ r.counter = b[j].counter /\ r.lei = b[j].lei /\ r.fsp = b[j].fsp
        BY <1>2, <3>2
      <4>2. SameLei(b[j], b[i])
        BY <2>2, <4>1 DEF SameLei
      <4>3. SameOwner(b[j], b[i])
        BY <1>3, <4>1, <4>2
      <4> QED BY <4>1, <4>3 DEF SameOwner
    <3> QED BY <3>1, <3>2 DEF View
  <2> QED BY <2>1, <2>2, OneOwnerNoConflict
<1> QED BY <1>5, <1>6 DEF BatchConflict, es

(* A step of the oracle leaves the rows of an uncontested call its own.      *)
LEMMA OwnStep ==
  ASSUME CInv, OwnInv, [Next]_vars
  PROVE  OwnInv'
<1>1. TypeOK /\ RowsInv /\ batch' = batch
  BY OracleKeeps DEF CInv, IInv, RowsInv
<1>2. \A c \in Calls : Uncontested(c)' = Uncontested(c)
  BY <1>1 DEF Uncontested
<1> SUFFICES ASSUME NEW c \in Calls, Uncontested(c)
             PROVE  /\ OwnRows(c, registry')
                    /\ \A a \in Attempts : OwnRows(c, snapshot'[a])
  BY <1>1, <1>2 DEF OwnInv, OwnRows
<1>3. OwnRows(c, registry) /\ \A a \in Attempts : OwnRows(c, snapshot[a])
  BY DEF OwnInv
<1>4. CASE UNCHANGED vars
  BY <1>3, <1>4 DEF vars
<1>5. CASE Next
  <2>1. ASSUME NEW a \in Attempts PROVE OwnRows(c, snapshot'[a])
    <3>1. snapshot'[a] \in {{}, registry, snapshot[a]}
      BY <1>1, <1>5 DEF TypeOK, Next, Handle, Arrive, LookUp, Begin, Commit, Insert, Reread,
             Fail, Crash, AddParticipant
    <3>2. OwnRows(c, {})
      BY DEF OwnRows
    <3> QED BY <1>3, <3>1, <3>2
  <2>2. OwnRows(c, registry')
    <3>1. CASE UNCHANGED registry
      BY <1>3, <3>1
    <3>2. ASSUME NEW a \in Attempts,
                 registry' = Written(snapshot[a], Entities(snapshot[a], batch[a], nextId))
          PROVE  OwnRows(c, registry')
      BY <1>3, <3>2, CommitOwn
    <3>3. ASSUME NEW f \in Fsps, NEW al \in ParticipantAliases, AddParticipant(f, al)
          PROVE  OwnRows(c, registry')
      <4>1. batch[<<c, 1>>] \in Batches
        BY <1>1, ClientAssumption DEF TypeOK
      <4>2. \A i \in DOMAIN batch[<<c, 1>>] :
              batch[<<c, 1>>][i].counter # NoCounter /\ PreferredAlias(batch[<<c, 1>>][i]) # al
        <5>1. \A i \in DOMAIN batch[<<c, 1>>] : batch[<<c, 1>>][i].counter \in Counters
          BY <4>1, BatchFact DEF MerchantData
        <5> QED BY <5>1, ConstantsAssumption DEF Uncontested
      <4>3. \A r \in registry' : \/ r \in registry
                                 \/ r.counter = NoCounter /\ r.alias = al /\ r.lei = NoLei
        BY <3>3 DEF AddParticipant
      <4> QED BY <1>3, <4>2, <4>3 DEF OwnRows, SameLei
    <3> QED BY <1>1, <1>5, <3>1, <3>2, <3>3, RegistrySteps
  <2> QED BY <2>1, <2>2
<1> QED BY <1>4, <1>5

(* A request is refused for a conflict its commit found, or for the body of  *)
(* the record that its look-up found.                                       *)
LEMMA RefusalFact ==
  ASSUME TypeOK, Next, NEW a \in Attempts,
         reply'[a].status \in {"conflict", "reused"}, reply'[a] # reply[a]
  PROVE  \/ BatchConflict(snapshot[a], batch[a], Entities(snapshot[a], batch[a], nextId))
         \/ \E r \in records : r.key = key[a] /\ r.batch # batch[a]
<1>1. ASSUME NEW b \in Attempts, NEW x, reply' = [reply EXCEPT ![b] = x]
      PROVE  a = b /\ reply'[a] = x
  BY <1>1 DEF TypeOK
<1>2. ASSUME NEW b \in Attempts, LookUp(b) \/ Reread(b)
      PROVE  \E r \in records : r.key = key[a] /\ r.batch # batch[a]
  <2>1. \/ reply' = [reply EXCEPT ![b] = ServerError]
        \/ \E r \in RecordsOf(key[b]) :
             reply' = [reply EXCEPT ![b] = IF r.batch = batch[b] THEN Ok(r.data) ELSE KeyReused]
    BY <1>2 DEF LookUp, Reread, AnswerFrom, Respond
  <2>2. reply' # [reply EXCEPT ![b] = ServerError]
    <3>1. ServerError.status \notin {"conflict", "reused"}
      BY DEF ServerError
    <3> QED BY <1>1, <3>1
  <2>3. PICK r \in RecordsOf(key[b]) :
          reply' = [reply EXCEPT ![b] = IF r.batch = batch[b] THEN Ok(r.data) ELSE KeyReused]
    BY <2>1, <2>2
  <2>4. a = b /\ r.batch # batch[b]
    BY <1>1, <2>3 DEF Ok
  <2> QED BY <2>3, <2>4 DEF RecordsOf
<1>3. ASSUME NEW b \in Attempts, Commit(b)
      PROVE  BatchConflict(snapshot[a], batch[a], Entities(snapshot[a], batch[a], nextId))
  <2>1. reply' # [reply EXCEPT ![b] = ServerError]
    <3>1. ServerError.status \notin {"conflict", "reused"}
      BY DEF ServerError
    <3> QED BY <1>1, <3>1
  <2>2. /\ BatchConflict(snapshot[b], batch[b], Entities(snapshot[b], batch[b], nextId))
        /\ reply' = [reply EXCEPT ![b] = Conflict]
    BY <1>3, <2>1 DEF Commit, Respond
  <2> QED BY <1>1, <2>2
<1>4. ASSUME NEW b \in Attempts, Insert(b) PROVE FALSE
  <2>1. reply' = [reply EXCEPT ![b] = Ok(data[b])]
    BY <1>4 DEF Insert, Respond
  <2> QED BY <1>1, <2>1 DEF Ok
<1>5. ASSUME NEW b \in Attempts, Fail(b) PROVE FALSE
  <2>1. reply' = [reply EXCEPT ![b] = ServerError]
    BY <1>5 DEF Fail, Respond
  <2> QED BY <1>1, <2>1 DEF ServerError
<1>6. ASSUME NEW b \in Attempts, Arrive(b) \/ Begin(b) PROVE FALSE
  BY <1>6 DEF Arrive, Begin
<1>7. ~Crash /\ \A f \in Fsps, al \in ParticipantAliases : ~AddParticipant(f, al)
  BY DEF Crash, AddParticipant
<1> QED BY <1>2, <1>3, <1>4, <1>5, <1>6, <1>7 DEF Next, Handle

(* What is stored is the answer to a call.                                  *)
LEMMA RecordsOfCallsStep ==
  ASSUME CInv, RecordsOfCalls, [Next]_vars
  PROVE  RecordsOfCalls'
<1>1. TypeOK /\ batch' = batch
  BY OracleKeeps DEF CInv, IInv, RowsInv
<1> SUFFICES ASSUME NEW r \in records'
             PROVE  \E c \in Calls : r.key = KeyOf[c] /\ r.batch = batch[<<c, 1>>]
  BY <1>1 DEF RecordsOfCalls
<1>2. CASE r \in records
  BY <1>2 DEF RecordsOfCalls
<1>3. ASSUME NEW a \in Attempts, r = NewRecord(a)
      PROVE  \E c \in Calls : r.key = KeyOf[c] /\ r.batch = batch[<<c, 1>>]
  BY <1>3, CallOf DEF NewRecord
<1> QED BY <1>1, <1>2, <1>3, AnswerSteps DEF StoresAnswer, AnswersWith, vars

(* No run of an uncontested call is refused, so the call is not.             *)
LEMMA NoConflictStep ==
  ASSUME CInv, UInv, [ClientNext]_allvars
  PROVE  NoConflict'
<1>1. [Next]_vars
  BY OracleStep
<1>2. TypeOK /\ batch' = batch /\ ClientTypeOK
  BY <1>1, OracleKeeps DEF CInv, IInv, RowsInv
<1> SUFFICES ASSUME NEW c \in Calls, Uncontested(c)
             PROVE  /\ outcome'[c] # "conflict"
                    /\ \A n \in 1..MaxTries :
                         reply'[<<c, n>>].status \notin {"conflict", "reused"}
  <2>1. \A c \in Calls : Uncontested(c)' = Uncontested(c)
    BY <1>2 DEF Uncontested
  <2> QED BY <2>1 DEF NoConflict
<1>3. ASSUME NEW n \in 1..MaxTries PROVE reply'[<<c, n>>].status \notin {"conflict", "reused"}
  <2> DEFINE a == <<c, n>>
  <2>1. a \in Attempts /\ batch[a] = batch[<<c, 1>>] /\ key[a] = KeyOf[c]
    BY ClientAssumption DEF CInv, SameRequest
  <2>2. reply[a].status \notin {"conflict", "reused"}
    BY DEF UInv, NoConflict
  <2>3. OwnRows(c, snapshot[a])
    BY <2>1 DEF UInv, OwnInv
  <2> HIDE DEF a
  <2>4. ~BatchConflict(snapshot[a], batch[a], Entities(snapshot[a], batch[a], nextId))
    BY <2>1, <2>3, NoCommitConflict
  <2>5. \A r \in records : r.key = key[a] => r.batch = batch[a]
    BY <2>1, ClientAssumption DEF UInv, RecordsOfCalls
  <2>6. CASE UNCHANGED vars
    <3>1. reply' = reply
      BY <2>6 DEF vars
    <3> QED BY <2>2, <3>1 DEF a
  <2>7. CASE Next
    <3>1. reply'[a].status \notin {"conflict", "reused"}
      BY <1>2, <2>1, <2>2, <2>4, <2>5, <2>7, RefusalFact
    <3> QED BY <3>1 DEF a
  <2> QED BY <1>1, <2>6, <2>7
<1>4. outcome[c] # "conflict"
  BY DEF UInv, NoConflict
<1>5. outcome'[c] # "conflict"
  <2>1. ASSUME NEW d \in Calls, NEW o, outcome' = [outcome EXCEPT ![d] = o],
               o # "conflict" \/ d # c
        PROVE  outcome'[c] # "conflict"
    BY <1>2, <1>4, <2>1 DEF ClientTypeOK
  <2>2. ASSUME NEW d \in Calls, Receive(d) PROVE outcome'[c] # "conflict"
    <3>1. CASE d # c
      <4>1. \E o : outcome' = [outcome EXCEPT ![d] = o]
        BY <2>2 DEF Receive, Finish, RetryOrThrow
      <4> QED BY <2>1, <3>1, <4>1
    <3>2. CASE d = c
      <4>1. try[c] \in 1..MaxTries
        BY <2>2, <3>2 DEF Receive, CInv, TriesLeft
      <4>2. reply[Run(c)].status \notin {"conflict", "reused"}
        BY <4>1 DEF UInv, NoConflict, Run
      <4>3. \/ outcome' = [outcome EXCEPT ![c] = "ok"]
            \/ outcome' = [outcome EXCEPT ![c] = IF try[c] < MaxTries THEN "retrying" ELSE "failed"]
        BY <2>2, <3>2, <4>2 DEF Receive, Finish, RetryOrThrow
      <4> QED BY <2>1, <4>3
    <3> QED BY <3>1, <3>2
  <2>3. ASSUME NEW d \in Calls, Send(d) \/ ConnectionLost(d) \/ TimeOut(d)
        PROVE  outcome'[c] # "conflict"
    <3>1. \/ outcome' = [outcome EXCEPT ![d] = "waiting"]
          \/ outcome' = [outcome EXCEPT ![d] = IF try[d] < MaxTries THEN "retrying" ELSE "failed"]
      BY <2>3 DEF Send, ConnectionLost, TimeOut, RetryOrThrow
    <3> QED BY <2>1, <3>1
  <2>4. ServerStep \/ ServerFault \/ Participants \/ UNCHANGED allvars => outcome' = outcome
    BY DEF ServerStep, ServerFault, Participants, clientvars, allvars
  <2> QED BY <1>4, <2>2, <2>3, <2>4 DEF ClientNext, ClientStep
<1> QED BY <1>3, <1>5

(* A call that nobody contests is never refused for a conflict, however its  *)
(* requests are lost, overtaken or repeated: the rows they find in their way *)
(* are those the call itself has registered.                                *)
THEOREM NeverConflictsAlways == ClientSpec => []NeverConflictsWithItself
<1>1. ClientInit => CInv /\ UInv
  <2>1. ClientInit => UInv
    BY ClientAssumption
    DEF ClientInit, Init, UInv, OwnInv, OwnRows, RecordsOfCalls, NoConflict, NoReply
  <2> QED BY <2>1, CInvInit
<1>2. CInv /\ UInv /\ [ClientNext]_allvars => (CInv /\ UInv)'
  <2> SUFFICES ASSUME CInv, UInv, [ClientNext]_allvars PROVE CInv' /\ UInv'
    OBVIOUS
  <2>1. [Next]_vars
    BY OracleStep
  <2> QED BY <2>1, CInvStep, OwnStep, RecordsOfCallsStep, NoConflictStep DEF UInv
<1>3. UInv => NeverConflictsWithItself
  BY DEF UInv, NoConflict, NeverConflictsWithItself
<1> QED BY <1>1, <1>2, <1>3, PTL DEF ClientSpec
=============================================================================
