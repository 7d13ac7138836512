----------------------- MODULE CheckoutCountersProofs -----------------------
(***************************************************************************)
(* Theorems about CheckoutCounters, for every number of requests at work,   *)
(* every set of locations, aliases and keys, and every bound.               *)
(***************************************************************************)
EXTENDS CheckoutCounters, FiniteSetTheorems, SequenceTheorems, TLAPS

(* A counter as some request may have it: with the number its row has or had, *)
(* which is above 1 for one that was added under a key.                     *)
Good(c) ==
  /\ c \in Counter
  /\ c.id <= Len(numbers)
  /\ c.number = numbers[c.id]
  /\ c.key # NoKey => c.number >= 2

DifferentIds(S) == \A c, d \in S : c.id = d.id => c = d
Snapshot(S) == DifferentIds(S) /\ \A c \in S : Good(c)

TablesOK ==
  /\ Snapshot(counters)
  /\ next \in Nat
  /\ status \in {"preparing", "approved"}
  /\ locations \subseteq Locations
  /\ registry \subseteq [alias : Aliases, id : Ids \cup {Others}]
  /\ records \subseteq RegistrationRecord
  /\ numbers \in Seq(Numbers) /\ Len(numbers) <= MaxRows
  /\ stale \in BOOLEAN
  /\ altered \subseteq Keys

(* The steps at which a request holds a counter.                             *)
CounterLabels == {"local", "oracle", "withdraw", "find", "register", "record", "apply"}

(* What a request holds at each of its steps.                               *)
Held(h) ==
  /\ pc[h] \in {"validate", "verify", "sync"} =>
       req[h] \in LocationRequest /\ Snapshot(req[h].rows)
  /\ pc[h] \in CounterLabels \cup {"insert"} => req[h] \in CounterRequest
  /\ pc[h] = "insert" => req[h].op = "add" /\ req[h].key \in Keys
  /\ pc[h] \in {"local", "oracle", "withdraw"} => req[h].op = "add"
  /\ pc[h] \in CounterLabels =>
       \E c : /\ req[h].counter = {c} /\ Good(c)
              /\ req[h].op = "add" => req[h].key \in Keys /\ c.key = req[h].key
  /\ pc[h] \in {"record", "apply"} => req[h].answer \in Aliases

Labels == {"idle", "validate", "verify", "sync", "insert", "local", "oracle", "withdraw",
           "find", "register", "record", "apply"}

HandlersOK ==
  /\ pc \in [Handlers -> Labels]
  /\ req \in [Handlers -> LocationRequest \cup CounterRequest \cup {NoRequest}]
  /\ \A h \in Handlers : Held(h)

Inv == TablesOK /\ HandlersOK /\ requests \in 0..MaxRequests

LEMMA TypeParts == Inv => TypeOK
BY DEF Inv, TablesOK, HandlersOK, TypeOK, Snapshot, DifferentIds, Good, Labels

LEMMA ConstantFacts ==
  /\ MaxCounters \in Nat /\ MaxNumber \in Nat /\ MaxRows \in Nat
  /\ 1 \in Numbers /\ 1 \in Ids
  /\ MaxFresh \in Nat /\ MaxRequests \in Nat
  /\ NoKey \notin Keys /\ Wanted \subseteq Aliases
  /\ \A n \in Numbers : Generated[n] \in Aliases
BY ConstantsAssumption DEF Numbers, Ids

-----------------------------------------------------------------------------
(* Counters.                                                                *)

LEMMA CounterFields ==
  ASSUME NEW c \in Counter
  PROVE  /\ c.id \in Ids /\ c.number \in Numbers /\ c.location \in Locations \cup {NoLocation}
         /\ c.alias \in Aliases \cup {NoAlias} /\ c.key \in Keys \cup {NoKey}
         /\ c.issued \in BOOLEAN /\ c.attached \in BOOLEAN
BY DEF Counter

LEMMA NumbersFact ==
  ASSUME numbers \in Seq(Numbers)
  PROVE  /\ Len(numbers) \in Nat /\ DOMAIN numbers = 1..Len(numbers)
         /\ \A i \in 1..Len(numbers) : numbers[i] \in Numbers
BY LenProperties, ElementOfSeq

(* Updates that leave id, number and key alone.                             *)
SameRow(c, d) == d.id = c.id /\ d.number = c.number /\ d.key = c.key

LEMMA CounterUpdates ==
  ASSUME NEW c \in Counter
  PROVE  /\ \A a \in Aliases \cup {NoAlias} :
              [c EXCEPT !.alias = a] \in Counter /\ SameRow(c, [c EXCEPT !.alias = a])
         /\ \A l \in Locations \cup {NoLocation} :
              [c EXCEPT !.location = l] \in Counter /\ SameRow(c, [c EXCEPT !.location = l])
         /\ \A b \in BOOLEAN :
              [c EXCEPT !.attached = b] \in Counter /\ SameRow(c, [c EXCEPT !.attached = b])
         /\ \A l \in Locations \cup {NoLocation} :
              /\ [c EXCEPT !.location = l, !.attached = TRUE] \in Counter
              /\ SameRow(c, [c EXCEPT !.location = l, !.attached = TRUE])
         /\ \A a \in Aliases \cup {NoAlias} :
              /\ [c EXCEPT !.alias = a, !.issued = TRUE] \in Counter
              /\ SameRow(c, [c EXCEPT !.alias = a, !.issued = TRUE])
              /\ [c EXCEPT !.issued = TRUE, !.alias = a] \in Counter
              /\ SameRow(c, [c EXCEPT !.issued = TRUE, !.alias = a])
BY DEF Counter, SameRow

LEMMA RenamedFields ==
  ASSUME NEW c \in Counter, NEW a
  PROVE  [c EXCEPT !.alias = a].alias = a /\ [c EXCEPT !.alias = a].number = c.number
BY DEF Counter

LEMMA SameRowGood ==
  ASSUME NEW c, NEW d \in Counter, Good(c), SameRow(c, d)
  PROVE  Good(d)
BY DEF Good, SameRow

(* Rows are only ever inserted after those there were.                       *)
Grown == /\ numbers' \in Seq(Numbers) /\ Len(numbers) <= Len(numbers')
         /\ \A i \in 1..Len(numbers) : numbers'[i] = numbers[i]

LEMMA GoodKept ==
  ASSUME numbers \in Seq(Numbers), Grown, NEW c, Good(c)
  PROVE  Good(c)'
<1>1. Len(numbers) \in Nat /\ Len(numbers') \in Nat
  BY NumbersFact, LenProperties DEF Grown
<1>2. c.id \in Ids /\ c.id \in 1..Len(numbers)
  BY <1>1, CounterFields, ConstantFacts DEF Good, Ids
<1> QED BY <1>1, <1>2 DEF Good, Grown, Ids

LEMMA GrownStill ==
  ASSUME numbers \in Seq(Numbers), UNCHANGED numbers
  PROVE  Grown
BY LenProperties DEF Grown

LEMMA SnapshotKept ==
  ASSUME numbers \in Seq(Numbers), Grown, NEW S, Snapshot(S)
  PROVE  DifferentIds(S) /\ \A c \in S : Good(c)'
BY GoodKept DEF Snapshot

LEMMA SnapshotFinite ==
  ASSUME NEW S, Snapshot(S)
  PROVE  IsFiniteSet(S)
<1> DEFINE f == [c \in S |-> c.id]
<1>1. f \in [S -> Ids]
  BY CounterFields DEF Snapshot, Good
<1>2. f \in Injection(S, Ids)
  BY <1>1 DEF Injection, IsInjective, Snapshot, DifferentIds
<1>3. IsFiniteSet(Ids)
  BY ConstantFacts, FS_Interval DEF Ids
<1> QED BY <1>2, <1>3, FS_Injection

LEMMA FinalAliasFact ==
  ASSUME TablesOK, NEW c \in Counter
  PROVE  FinalAlias(c) \in Aliases
<1>1. CASE c.alias # NoAlias
  BY <1>1, CounterFields DEF FinalAlias
<1>2. CASE c.alias = NoAlias /\ \E e \in registry : e.id = c.id
  BY <1>2 DEF FinalAlias, TablesOK
<1>3. CASE c.alias = NoAlias /\ ~\E e \in registry : e.id = c.id
  BY <1>3, CounterFields, ConstantFacts DEF FinalAlias
<1> QED BY <1>1, <1>2, <1>3

-----------------------------------------------------------------------------
(* Steps of one request.                                                    *)

LEMMA StillHeld ==
  ASSUME TablesOK, Grown, NEW g \in Handlers, Held(g), pc'[g] = pc[g], req'[g] = req[g]
  PROVE  Held(g)'
<1>1. numbers \in Seq(Numbers)
  BY DEF TablesOK
<1>2. Snapshot(req[g].rows) => Snapshot(req[g].rows)'
  BY <1>1, SnapshotKept DEF Snapshot, DifferentIds
<1>3. \A c : Good(c) => Good(c)'
  BY <1>1, GoodKept
<1> QED BY <1>2, <1>3 DEF Held

LEMMA HandlerStep ==
  ASSUME TablesOK, HandlersOK, Grown, NEW h \in Handlers,
         pc' \in [Handlers -> Labels],
         req' \in [Handlers -> LocationRequest \cup CounterRequest \cup {NoRequest}],
         \A g \in Handlers \ {h} : pc'[g] = pc[g] /\ req'[g] = req[g],
         Held(h)'
  PROVE  HandlersOK'
BY StillHeld DEF HandlersOK

LEMMA GotoFact ==
  ASSUME HandlersOK, NEW h \in Handlers, NEW label \in Labels, Goto(h, label)
  PROVE  /\ pc' \in [Handlers -> Labels] /\ pc'[h] = label
         /\ \A g \in Handlers \ {h} : pc'[g] = pc[g]
BY DEF HandlersOK, Goto

LEMMA RequestFact ==
  ASSUME HandlersOK, NEW h \in Handlers,
         NEW r \in LocationRequest \cup CounterRequest \cup {NoRequest},
         req' = [req EXCEPT ![h] = r]
  PROVE  /\ req' \in [Handlers -> LocationRequest \cup CounterRequest \cup {NoRequest}]
         /\ req'[h] = r
         /\ \A g \in Handlers \ {h} : req'[g] = req[g]
BY DEF HandlersOK

LEMMA FinishStep ==
  ASSUME TablesOK, HandlersOK, Grown, NEW h \in Handlers, Finish(h)
  PROVE  HandlersOK'
<1>1. Goto(h, "idle") /\ "idle" \in Labels /\ req' = [req EXCEPT ![h] = NoRequest]
  BY DEF Finish, Labels
<1>2. pc'[h] = "idle"
  BY <1>1, GotoFact
<1>3. Held(h)'
  BY <1>2 DEF Held, CounterLabels
<1>4. /\ pc' \in [Handlers -> Labels] /\ \A g \in Handlers \ {h} : pc'[g] = pc[g]
  BY <1>1, GotoFact
<1>5. /\ req' \in [Handlers -> LocationRequest \cup CounterRequest \cup {NoRequest}]
      /\ \A g \in Handlers \ {h} : req'[g] = req[g]
  BY <1>1, RequestFact
<1> QED BY <1>3, <1>4, <1>5, HandlerStep

LEMMA GotoStep ==
  ASSUME TablesOK, HandlersOK, Grown, NEW h \in Handlers, NEW label \in Labels, Goto(h, label),
         UNCHANGED req, pc'[h] = label => Held(h)'
  PROVE  HandlersOK'
<1>1. /\ pc' \in [Handlers -> Labels] /\ pc'[h] = label
      /\ \A g \in Handlers \ {h} : pc'[g] = pc[g]
  BY GotoFact
<1> QED BY <1>1, HandlerStep DEF HandlersOK

LEMMA SetStep ==
  ASSUME TablesOK, HandlersOK, Grown, NEW h \in Handlers, NEW label \in Labels, Goto(h, label),
         NEW r \in LocationRequest \cup CounterRequest, req' = [req EXCEPT ![h] = r],
         pc'[h] = label /\ req'[h] = r => Held(h)'
  PROVE  HandlersOK'
<1>1. /\ pc' \in [Handlers -> Labels] /\ pc'[h] = label
      /\ \A g \in Handlers \ {h} : pc'[g] = pc[g]
  BY GotoFact
<1>2. /\ req' \in [Handlers -> LocationRequest \cup CounterRequest \cup {NoRequest}]
      /\ req'[h] = r /\ \A g \in Handlers \ {h} : req'[g] = req[g]
  BY RequestFact
<1> QED BY <1>1, <1>2, HandlerStep

LEMMA RowsStill ==
  ASSUME TablesOK, UNCHANGED rows
  PROVE  TablesOK' /\ Grown
<1>1. Grown
  BY GrownStill DEF TablesOK, rows
<1> QED BY <1>1 DEF TablesOK, rows, Snapshot, DifferentIds, Good

-----------------------------------------------------------------------------
(* Location requests.                                                       *)

LEMMA LoadStep ==
  ASSUME TablesOK, HandlersOK, NEW h \in Handlers, NEW o \in {"post", "put"},
         NEW l \in Locations, Load(h, o, l)
  PROVE  TablesOK' /\ HandlersOK'
<1>1. TablesOK' /\ Grown
  BY RowsStill DEF Load
<1>2. Goto(h, "validate") /\ "validate" \in Labels
  BY DEF Load, Labels
<1>3. PICK n \in 0..MaxFresh, ks \in SUBSET {c.id : c \in Attached},
           a \in Wanted \cup {NoAlias, Unchanged} :
        \E i \in ks \cup {0} :
          req' = [req EXCEPT ![h] = [op |-> o, location |-> l, rows |-> Attached, next |-> next,
                                     status |-> status, keep |-> ks, fresh |-> n, alias |-> a,
                                     named |-> i]]
  BY Zenon DEF Load
<1>4. PICK i \in ks \cup {0} :
          req' = [req EXCEPT ![h] = [op |-> o, location |-> l, rows |-> Attached, next |-> next,
                                     status |-> status, keep |-> ks, fresh |-> n, alias |-> a,
                                     named |-> i]]
  BY <1>3
<1>5. Attached \subseteq Counter /\ ks \subseteq Ids /\ Snapshot(Attached)
  BY CounterFields DEF Attached, TablesOK, Snapshot, DifferentIds, Good
<1>6. PICK r \in LocationRequest : r.rows = Attached /\ req' = [req EXCEPT ![h] = r]
  <2> DEFINE q == [op |-> o, location |-> l, rows |-> Attached, next |-> next,
                   status |-> status, keep |-> ks, fresh |-> n, alias |-> a, named |-> i]
  <2>1. q \in LocationRequest
    BY <1>5, ConstantFacts DEF LocationRequest, TablesOK
  <2> QED BY <1>4, <2>1
<1>7. pc'[h] = "validate" /\ req'[h] = r => Held(h)'
  <2>1. DifferentIds(r.rows) /\ \A c \in r.rows : Good(c)'
    BY <1>1, <1>5, <1>6, SnapshotKept DEF TablesOK
  <2> QED BY <1>6, <2>1 DEF Held, Snapshot, DifferentIds, CounterLabels
<1> QED BY <1>1, <1>2, <1>6, <1>7, SetStep

LEMMA HeldLocation ==
  ASSUME HandlersOK, NEW h \in Handlers, pc[h] \in {"validate", "verify", "sync"}
  PROVE  /\ req[h] \in LocationRequest /\ Snapshot(req[h].rows) /\ req[h].rows \subseteq Counter
         /\ req[h].location \in Locations /\ req[h].next \in Nat /\ req[h].fresh \in 0..MaxFresh
         /\ req[h].status \in {"preparing", "approved"}
         /\ req[h].alias \in Aliases \cup {NoAlias, Unchanged}
BY DEF HandlersOK, Held, LocationRequest

LEMMA ValidateStep ==
  ASSUME TablesOK, HandlersOK, NEW h \in Handlers, Validate(h)
  PROVE  TablesOK' /\ HandlersOK'
<1>1. TablesOK' /\ Grown
  BY RowsStill DEF Validate
<1>2. req[h] \in LocationRequest /\ Snapshot(req[h].rows)
  BY HeldLocation DEF Validate
<1>3. ASSUME NEW label \in {"sync", "verify"}, Goto(h, label), UNCHANGED req PROVE HandlersOK'
  <2>1. label \in Labels
    BY DEF Labels
  <2>2. DifferentIds(req[h].rows) /\ \A c \in req[h].rows : Good(c)'
    BY <1>1, <1>2, SnapshotKept DEF TablesOK
  <2>3. pc'[h] = label => Held(h)'
    BY <1>2, <1>3, <2>2 DEF Held, Snapshot, DifferentIds, CounterLabels
  <2> QED BY <1>1, <1>3, <2>1, <2>3, GotoStep
<1>4. CASE Finish(h)
  BY <1>1, <1>4, FinishStep
<1> QED BY <1>1, <1>3, <1>4 DEF Validate

LEMMA VerifyStep ==
  ASSUME TablesOK, HandlersOK, NEW h \in Handlers, Verify(h)
  PROVE  TablesOK' /\ HandlersOK'
<1> DEFINE known == {c.id : c \in req[h].rows}
           Off(c) == [c EXCEPT !.attached = c.id \in known]
<1>1. /\ counters' = {Off(c) : c \in counters} /\ next' = req[h].next /\ status' = req[h].status
      /\ UNCHANGED <<locations, registry, records, numbers, altered, req>>
      /\ stale' = (stale \/ req[h].rows # Attached \/ req[h].next # next
                         \/ req[h].status # status)
      /\ Goto(h, "sync") /\ pc[h] = "verify"
  BY DEF Verify
<1>2. Grown
  BY <1>1, GrownStill DEF TablesOK
<1>3. ASSUME NEW c \in counters PROVE Off(c) \in Counter /\ SameRow(c, Off(c))
  <2>1. c \in Counter
    BY DEF TablesOK, Snapshot, Good
  <2>2. CASE c.id \in known
    <3>1. Off(c) = [c EXCEPT !.attached = TRUE]
      BY <2>2, Zenon
    <3> QED BY <2>1, <3>1, CounterUpdates
  <2>3. CASE c.id \notin known
    <3>1. (c.id \in known) = FALSE
      BY <2>3
    <3>2. Off(c) = [c EXCEPT !.attached = FALSE]
      BY <3>1
    <3> QED BY <2>1, <3>2, CounterUpdates
  <2> QED BY <2>2, <2>3
<1> HIDE DEF Off
<1>4. DifferentIds(counters')
  BY <1>1, <1>3 DEF TablesOK, Snapshot, DifferentIds, SameRow
<1>5. \A d \in counters' : Good(d)
  BY <1>1, <1>3, SameRowGood DEF TablesOK, Snapshot
<1>6. Snapshot(counters)'
  BY <1>1, <1>4, <1>5 DEF Snapshot, DifferentIds, Good
<1>7. stale' \in BOOLEAN
  BY <1>1, Zenon
<1>8. req[h].next \in Nat /\ req[h].status \in {"preparing", "approved"}
      /\ req[h] \in LocationRequest /\ Snapshot(req[h].rows)
  BY <1>1, HeldLocation
<1>9. TablesOK'
  BY <1>1, <1>6, <1>7, <1>8 DEF TablesOK
<1>10. HandlersOK'
  <2>1. "sync" \in Labels
    BY DEF Labels
  <2>2. DifferentIds(req[h].rows) /\ \A c \in req[h].rows : Good(c)'
    BY <1>2, <1>8, SnapshotKept DEF TablesOK
  <2>3. pc'[h] = "sync" => Held(h)'
    BY <1>1, <1>8, <2>2 DEF Held, Snapshot, DifferentIds, CounterLabels
  <2> QED BY <1>1, <1>2, <2>1, <2>3, GotoStep
<1> QED BY <1>9, <1>10

(* What a synchronization writes that is not refused: k new counters, numbered *)
(* from b on, those used, and the ones of other locations.                   *)
Kept(r, c) == [c EXCEPT !.location = IF @ = r.location THEN NoLocation ELSE @]
AvailableIds(r) == {c.id : c \in Available(r)}

Written(r, k, b, used, target) ==
  /\ b >= 2 /\ b >= r.next /\ \A c \in r.rows : b > c.number
  /\ Len(numbers) + k <= MaxRows
  /\ b + k <= MaxNumber + 1
  /\ ~Refused(r, used, target)
  /\ counters' = {Kept(r, c) : c \in {d \in counters : d.id \notin AvailableIds(r)}}
                 \cup {Placed(r, c, target) : c \in used}
                 \cup {NewCounter(r, b, i, target) : i \in 1..k}
  /\ numbers' = numbers \o [i \in 1..k |-> NewNumber(r, b, i)]
  /\ next' = IF NextAfter(r, b, k) # r.next THEN NextAfter(r, b, k) ELSE next
  /\ locations' = locations \cup {r.location}
  /\ stale' = (stale \/ r.rows # Attached \/ r.next # next)
  /\ altered' = altered \cup
       {key \in Keys : \E c \in RowsWith(key) :
          ~\E d \in counters' : d.id = c.id /\ d.key = key /\ d.alias = c.alias}
  /\ UNCHANGED <<status, registry, records>>

LEMMA SyncShape ==
  ASSUME TablesOK, HandlersOK, NEW h \in Handlers, Sync(h)
  PROVE  /\ Finish(h)
         /\ \/ UNCHANGED rows
            \/ \E k \in Nat, b \in Nat, used \in SUBSET Available(req[h]) : \E target :
                 Written(req[h], k, b, used, target)
<1>1. /\ pc[h] = "sync" /\ Finish(h)
      /\ \E reused \in SUBSET Unassigned(req[h]), b \in Numbers \cup {MaxNumber + 1} :
           /\ Cardinality(reused) =
                IF req[h].fresh < Cardinality(Unassigned(req[h])) THEN req[h].fresh
                ELSE Cardinality(Unassigned(req[h]))
           /\ IsNextNumber(b, req[h].rows, req[h].next)
           /\ Write(h, req[h], reused, b)
  BY DEF Sync
<1>2. PICK reused \in SUBSET Unassigned(req[h]), b \in Numbers \cup {MaxNumber + 1} :
           /\ Cardinality(reused) =
                IF req[h].fresh < Cardinality(Unassigned(req[h])) THEN req[h].fresh
                ELSE Cardinality(Unassigned(req[h]))
           /\ IsNextNumber(b, req[h].rows, req[h].next)
           /\ Write(h, req[h], reused, b)
  BY <1>1
<1> DEFINE r == req[h]
           k == r.fresh - Cardinality(reused)
           keep == {c \in Available(r) : c.id \in r.keep}
           used == keep \cup reused
           target == IF r.named # 0 THEN r.named
                     ELSE IF reused = {} THEN Len(numbers) + 1
                     ELSE CHOOSE i \in NamedIds(r) : TRUE
<1>3. r.fresh \in Nat /\ Snapshot(r.rows)
  BY <1>1, HeldLocation, ConstantFacts
<1>4. k \in Nat
  <2>1. Snapshot(Unassigned(r))
    BY <1>3 DEF Snapshot, DifferentIds, Unassigned
  <2>2. Cardinality(Unassigned(r)) \in Nat
    BY <2>1, SnapshotFinite, FS_CardinalityType
  <2> HIDE DEF r
  <2> QED BY <1>2, <1>3, <2>2 DEF r
<1>5. b \in Nat
  BY ConstantFacts DEF Numbers
<1>6. used \in SUBSET Available(r)
  BY DEF Unassigned, Available
<1>7. b >= 2 /\ b >= r.next /\ \A c \in r.rows : b > c.number
  BY <1>2 DEF IsNextNumber
<1>8. CASE Refused(r, used, target)
  BY <1>1, <1>2, <1>8 DEF Write
<1>9. CASE ~Refused(r, used, target)
  <2>1. Written(r, k, b, used, target)
    BY <1>2, <1>7, <1>9 DEF Write, Written, Kept, AvailableIds
  <2> QED BY <1>1, <1>4, <1>5, <1>6, <2>1
<1> QED BY <1>8, <1>9

LEMMA NewNumbersFact ==
  ASSUME NEW r, NEW k \in Nat, NEW b \in Nat, b >= 2, b + k <= MaxNumber + 1, NEW i \in 1..k
  PROVE  /\ NewNumber(r, b, i) \in Numbers
         /\ NewNumber(r, b, i) = IF HasPrimary(r) THEN b + i - 1 ELSE IF i = 1 THEN 1 ELSE b + i - 2
<1>1. i \in Nat /\ 1 <= i /\ i <= k /\ MaxNumber \in Nat
  BY ConstantFacts
<1>2. NewNumber(r, b, i) = IF HasPrimary(r) THEN b + i - 1 ELSE IF i = 1 THEN 1 ELSE b + i - 2
  BY <1>1 DEF NewNumber
<1>3. /\ b + i - 1 \in 1..MaxNumber /\ 1 \in 1..MaxNumber
      /\ i # 1 => b + i - 2 \in 1..MaxNumber
  BY <1>1
<1> QED BY <1>2, <1>3 DEF Numbers

LEMMA RenamedFact ==
  ASSUME NEW r, r.alias \in Aliases \cup {NoAlias, Unchanged}, NEW c \in Counter, NEW target
  PROVE  Renamed(r, c, target) \in Counter /\ SameRow(c, Renamed(r, c, target))
<1>1. CASE r.alias # Unchanged /\ c.id = target
  <2>1. /\ [c EXCEPT !.alias = r.alias] \in Counter
        /\ SameRow(c, [c EXCEPT !.alias = r.alias])
    BY <1>1, CounterUpdates
  <2> QED BY <1>1, <2>1 DEF Renamed
<1>2. CASE ~(r.alias # Unchanged /\ c.id = target)
  BY <1>2 DEF Renamed, SameRow
<1> QED BY <1>1, <1>2

LEMMA PlacedFact ==
  ASSUME NEW r \in LocationRequest, NEW c \in Counter, NEW target
  PROVE  /\ Placed(r, c, target) \in Counter /\ SameRow(c, Placed(r, c, target))
         /\ Placed(r, c, target).attached
         /\ Placed(r, c, target).issued = Renamed(r, c, target).issued
         /\ Placed(r, c, target).alias = Renamed(r, c, target).alias
<1>1. r.alias \in Aliases \cup {NoAlias, Unchanged} /\ r.location \in Locations
  BY DEF LocationRequest
<1> DEFINE d == Renamed(r, c, target)
<1>2. d \in Counter /\ SameRow(c, d)
  BY <1>1, RenamedFact
<1> HIDE DEF d
<1>3. [d EXCEPT !.location = r.location, !.attached = TRUE] \in Counter
      /\ SameRow(d, [d EXCEPT !.location = r.location, !.attached = TRUE])
  BY <1>1, <1>2, CounterUpdates
<1>4. [d EXCEPT !.location = r.location, !.attached = TRUE].attached
      /\ [d EXCEPT !.location = r.location, !.attached = TRUE].issued = d.issued
      /\ [d EXCEPT !.location = r.location, !.attached = TRUE].alias = d.alias
  BY <1>2 DEF Counter
<1> QED BY <1>2, <1>3, <1>4 DEF Placed, SameRow, d

LEMMA KeptFact ==
  ASSUME NEW r, NEW c \in Counter
  PROVE  /\ Kept(r, c) \in Counter /\ SameRow(c, Kept(r, c))
         /\ Kept(r, c).attached = c.attached /\ Kept(r, c).issued = c.issued
         /\ Kept(r, c).alias = c.alias
BY DEF Kept, Counter, SameRow

LEMMA NewCounterFact ==
  ASSUME TablesOK, NEW r \in LocationRequest, NEW k \in Nat, NEW b \in Nat, b >= 2,
         b + k <= MaxNumber + 1, Len(numbers) + k <= MaxRows, NEW i \in 1..k, NEW target
  PROVE  /\ NewCounter(r, b, i, target) \in Counter
         /\ NewCounter(r, b, i, target).id = Len(numbers) + i
         /\ NewCounter(r, b, i, target).number = NewNumber(r, b, i)
         /\ NewCounter(r, b, i, target).key = NoKey
         /\ NewCounter(r, b, i, target).attached
<1> DEFINE n == NewNumber(r, b, i)
           e == [id |-> Len(numbers) + i, number |-> n,
                 location |-> r.location, alias |-> NoAlias, key |-> NoKey, asked |-> NoAlias,
                 issued |-> FALSE, attached |-> TRUE]
<1>1. r.alias \in Aliases \cup {NoAlias, Unchanged} /\ r.location \in Locations
  BY DEF LocationRequest
<1>2. n \in Numbers
  BY NewNumbersFact
<1> HIDE DEF n
<1>3. Len(numbers) \in Nat
  BY NumbersFact DEF TablesOK
<1>4. Len(numbers) + i \in Ids
  BY <1>3, ConstantFacts DEF Ids
<1>5. e \in Counter
  BY <1>1, <1>2, <1>4 DEF Counter
<1>6. NewCounter(r, b, i, target) = Renamed(r, e, target)
  BY DEF NewCounter, n
<1>7. e.id = Len(numbers) + i /\ e.number = n /\ e.key = NoKey /\ e.attached
  OBVIOUS
<1> HIDE DEF e
<1>8. Renamed(r, e, target).attached
  BY <1>5, <1>7 DEF Renamed, Counter
<1> QED BY <1>1, <1>5, <1>6, <1>7, <1>8, RenamedFact DEF SameRow, n

LEMMA WrittenNumbers ==
  ASSUME TablesOK, NEW r, NEW k \in Nat, NEW b \in Nat, NEW used, NEW target,
         Written(r, k, b, used, target)
  PROVE  /\ numbers' \in Seq(Numbers) /\ Len(numbers') = Len(numbers) + k /\ Grown
         /\ \A i \in 1..k : numbers'[Len(numbers) + i] = NewNumber(r, b, i)
<1> DEFINE s == [i \in 1..k |-> NewNumber(r, b, i)]
<1>1. \A i \in 1..k : NewNumber(r, b, i) \in Numbers
  BY NewNumbersFact DEF Written
<1>2. s \in Seq(Numbers) /\ Len(s) = k /\ \A i \in 1..k : s[i] = NewNumber(r, b, i)
  BY <1>1
<1>3. numbers' = numbers \o s /\ numbers \in Seq(Numbers) /\ Len(numbers) \in Nat
  BY NumbersFact DEF Written, TablesOK
<1> HIDE DEF s
<1>4. /\ numbers' \in Seq(Numbers) /\ Len(numbers') = Len(numbers) + k
      /\ \A i \in 1..(Len(numbers) + k) : numbers'[i] =
            IF i <= Len(numbers) THEN numbers[i] ELSE s[i - Len(numbers)]
  BY <1>2, <1>3, ConcatProperties
<1> QED BY <1>2, <1>3, <1>4 DEF Grown

(* Where a row that was written comes from.                                 *)
Origin(r, k, b, used, target, d) ==
  \/ \E c \in counters : c.id \notin AvailableIds(r) /\ d = Kept(r, c) /\ SameRow(c, d)
  \/ \E c \in used : d = Placed(r, c, target) /\ SameRow(c, d)
  \/ \E i \in 1..k : /\ d = NewCounter(r, b, i, target) /\ d.id = Len(numbers) + i
                     /\ d.number = NewNumber(r, b, i)

LEMMA WrittenRow ==
  ASSUME TablesOK, NEW r \in LocationRequest, Snapshot(r.rows), NEW k \in Nat, NEW b \in Nat,
         NEW used \in SUBSET Available(r), NEW target, Written(r, k, b, used, target),
         NEW d \in counters'
  PROVE  d \in Counter /\ Good(d)' /\ Origin(r, k, b, used, target, d)
<1>1. numbers \in Seq(Numbers) /\ Len(numbers) \in Nat
  BY NumbersFact DEF TablesOK
<1>2. CASE \E c \in counters : c.id \notin AvailableIds(r) /\ d = Kept(r, c)
  <2>1. PICK c \in counters : c.id \notin AvailableIds(r) /\ d = Kept(r, c)
    BY <1>2
  <2>2. c \in Counter /\ Good(c)
    BY DEF TablesOK, Snapshot, Good
  <2>3. d \in Counter /\ SameRow(c, d) /\ Good(d)
    BY <2>1, <2>2, KeptFact, SameRowGood
  <2>4. Good(d)'
    BY <1>1, <2>3, GoodKept, WrittenNumbers
  <2> QED BY <2>1, <2>3, <2>4 DEF Origin
<1>3. CASE \E c \in used : d = Placed(r, c, target)
  <2>1. PICK c \in used : d = Placed(r, c, target)
    BY <1>3
  <2>2. c \in Counter /\ Good(c)
    BY DEF Available, Snapshot, Good
  <2>3. d \in Counter /\ SameRow(c, d) /\ Good(d)
    BY <2>1, <2>2, PlacedFact, SameRowGood
  <2>4. Good(d)'
    BY <1>1, <2>3, GoodKept, WrittenNumbers
  <2> QED BY <2>1, <2>3, <2>4 DEF Origin
<1>4. CASE \E i \in 1..k : d = NewCounter(r, b, i, target)
  <2>1. PICK i \in 1..k : d = NewCounter(r, b, i, target)
    BY <1>4
  <2>2. /\ d \in Counter /\ d.id = Len(numbers) + i /\ d.number = NewNumber(r, b, i)
        /\ d.key = NoKey
    BY <2>1, NewCounterFact DEF Written
  <2>3. Len(numbers') = Len(numbers) + k /\ numbers'[Len(numbers) + i] = NewNumber(r, b, i)
    BY WrittenNumbers
  <2>4. Good(d)'
    BY <1>1, <2>2, <2>3 DEF Good
  <2> QED BY <2>1, <2>2, <2>4 DEF Origin
<1> QED BY <1>2, <1>3, <1>4 DEF Written

LEMMA WrittenIds ==
  ASSUME TablesOK, NEW r \in LocationRequest, Snapshot(r.rows), NEW k \in Nat, NEW b \in Nat,
         NEW used \in SUBSET Available(r), NEW target, Written(r, k, b, used, target)
  PROVE  DifferentIds(counters')
<1>1. Len(numbers) \in Nat
  BY NumbersFact DEF TablesOK
<1>2. \A c \in used : c \in Available(r) /\ c.id \in AvailableIds(r) /\ c.id <= Len(numbers)
                      /\ c.id \in Nat
  BY DEF AvailableIds, Available, Snapshot, Good, Counter, Ids
<1>3. \A c \in counters : c.id <= Len(numbers) /\ c.id \in Nat
  BY DEF TablesOK, Snapshot, Good, Counter, Ids
<1>4. \A c, d \in used : c.id = d.id => c = d
  BY DEF Available, Snapshot, DifferentIds
<1>5. \A c, d \in counters : c.id = d.id => c = d
  BY DEF TablesOK, Snapshot, DifferentIds
<1> DEFINE FromKept(d, c) == c \in counters /\ c.id \notin AvailableIds(r) /\ d = Kept(r, c) /\ d.id = c.id
           FromUsed(d, c) == c \in used /\ d = Placed(r, c, target) /\ d.id = c.id
           FromNew(d, i) == i \in 1..k /\ d = NewCounter(r, b, i, target) /\ d.id = Len(numbers) + i
<1>6. ASSUME NEW d \in counters'
      PROVE  (\E c : FromKept(d, c)) \/ (\E c : FromUsed(d, c)) \/ (\E i : FromNew(d, i))
  <2>1. Origin(r, k, b, used, target, d)
    BY WrittenRow
  <2> QED BY <2>1 DEF Origin, SameRow
<1>7. ASSUME NEW d, NEW e, d.id = e.id, NEW c, FromKept(d, c)
      PROVE  /\ \A x : FromKept(e, x) => d = e
             /\ \A x : ~FromUsed(e, x)
             /\ \A x : ~FromNew(e, x)
  BY <1>1, <1>2, <1>3, <1>5, <1>7
<1>8. ASSUME NEW d, NEW e, d.id = e.id, NEW c, FromUsed(d, c)
      PROVE  /\ \A x : FromUsed(e, x) => d = e
             /\ \A x : ~FromNew(e, x)
  BY <1>1, <1>2, <1>4, <1>8
<1>9. ASSUME NEW d, NEW e, d.id = e.id, NEW i, FromNew(d, i)
      PROVE  \A x : FromNew(e, x) => d = e
  BY <1>1, <1>9
<1> HIDE DEF FromKept, FromUsed, FromNew
<1> QED BY <1>6, <1>7, <1>8, <1>9 DEF DifferentIds

LEMMA SyncTables ==
  ASSUME TablesOK, HandlersOK, NEW h \in Handlers, Sync(h)
  PROVE  TablesOK' /\ HandlersOK'
<1>1. CASE UNCHANGED rows
  BY <1>1, RowsStill, FinishStep, SyncShape
<1>2. CASE ~UNCHANGED rows
  <2>1. /\ req[h] \in LocationRequest /\ Snapshot(req[h].rows) /\ req[h].location \in Locations
        /\ req[h].next \in Nat
    BY HeldLocation DEF Sync
  <2>0. PICK k \in Nat, b \in Nat, used \in SUBSET Available(req[h]) : \E target :
               Written(req[h], k, b, used, target)
    BY <1>2, SyncShape
  <2>2. PICK target : Written(req[h], k, b, used, target)
    BY <2>0
  <2>3. numbers' \in Seq(Numbers) /\ Len(numbers') = Len(numbers) + k /\ Grown
    BY <2>2, WrittenNumbers
  <2>4. Snapshot(counters)'
    BY <2>1, <2>2, WrittenRow, WrittenIds DEF Snapshot, DifferentIds
  <2>5. next' \in Nat
    BY <2>2 DEF Written, NextAfter, TablesOK
  <2>6. stale' \in BOOLEAN
    BY <2>2, Zenon DEF Written
  <2>7. TablesOK'
    BY <2>1, <2>2, <2>3, <2>4, <2>5, <2>6 DEF Written, TablesOK
  <2> QED BY <2>3, <2>7, FinishStep, SyncShape
<1> QED BY <1>1, <1>2

-----------------------------------------------------------------------------
(* Counters that are added, registered and withdrawn.                        *)

(* A request that goes on with one counter.                                 *)
LEMMA OneCounterStep ==
  ASSUME TablesOK, HandlersOK, Grown, NEW h \in Handlers,
         NEW label \in CounterLabels \ {"record", "apply"}, Goto(h, label),
         NEW r \in CounterRequest, req' = [req EXCEPT ![h] = r],
         NEW c, r.counter = {c}, Good(c)', r.op = "add" => r.key \in Keys /\ c.key = r.key,
         label \in {"local", "oracle", "withdraw"} => r.op = "add"
  PROVE  HandlersOK'
<1>1. label \in Labels
  BY DEF Labels, CounterLabels
<1>2. pc'[h] = label /\ req'[h] = r => Held(h)'
  <2>1. (\E d : /\ req'[h].counter = {d} /\ Good(d)'
                /\ req'[h].op = "add" => req'[h].key \in Keys /\ d.key = req'[h].key) \/ req'[h] # r
    OBVIOUS
  <2>2. label \notin {"validate", "verify", "sync", "insert", "record", "apply"}
    BY DEF CounterLabels
  <2>3. req'[h] = r => req'[h] \in CounterRequest
    OBVIOUS
  <2> QED BY <2>1, <2>2, <2>3 DEF Held
<1> QED BY <1>1, <1>2, SetStep

LEMMA MineFact ==
  ASSUME HandlersOK, NEW h \in Handlers,
         pc[h] \in CounterLabels
  PROVE  /\ req[h] \in CounterRequest /\ req[h].counter = {Mine(h)}
         /\ Good(Mine(h)) /\ Mine(h) \in Counter
         /\ req[h].op = "add" => req[h].key \in Keys /\ Mine(h).key = req[h].key
         /\ pc[h] \in {"record", "apply"} => req[h].answer \in Aliases
         /\ pc[h] \in {"local", "oracle", "withdraw"} => req[h].op = "add"
<1>1. PICK c : /\ req[h].counter = {c} /\ Good(c)
               /\ req[h].op = "add" => req[h].key \in Keys /\ c.key = req[h].key
  BY DEF HandlersOK, Held
<1>2. Mine(h) = c
  BY <1>1 DEF Mine
<1>3. c \in Counter
  BY <1>1 DEF Good
<1> QED BY <1>1, <1>2, <1>3 DEF HandlersOK, Held

LEMMA ReplayStep ==
  ASSUME TablesOK, HandlersOK, NEW h \in Handlers, NEW k \in Keys,
         NEW r \in CounterRequest, r.key = k, NEW c \in RowsWith(k), Replay(h, r, c)
  PROVE  TablesOK' /\ HandlersOK'
<1>1. TablesOK' /\ Grown
  BY RowsStill DEF Replay
<1>2. CASE Finish(h)
  BY <1>1, <1>2, FinishStep
<1>3. CASE req' = [req EXCEPT ![h] = [r EXCEPT !.counter = {c}]] /\ Goto(h, "find")
  <2>1. c \in counters /\ c.key = k /\ Good(c) /\ c \in Counter
    BY DEF RowsWith, TablesOK, Snapshot, Good
  <2>2. Good(c)'
    BY <1>1, <2>1, GoodKept DEF TablesOK
  <2>3. PICK q \in CounterRequest :
          q.counter = {c} /\ q.key = k /\ req' = [req EXCEPT ![h] = q]
    BY <1>3, <2>1 DEF CounterRequest
  <2>4. "find" \in CounterLabels \ {"record", "apply"}
    BY DEF CounterLabels
  <2>5. /\ q.op = "add" => q.key \in Keys /\ c.key = q.key
        /\ q.counter = {c} /\ q \in CounterRequest /\ req' = [req EXCEPT ![h] = q]
        /\ "find" \notin {"local", "oracle", "withdraw"} /\ Goto(h, "find")
    BY <1>3, <2>1, <2>3
  <2>6. HandlersOK'
    BY <1>1, <2>2, <2>4, <2>5, OneCounterStep, Zenon
  <2> QED BY <1>1, <2>6
<1> QED BY <1>2, <1>3 DEF Replay

LEMMA LoadAddStep ==
  ASSUME TablesOK, HandlersOK, NEW h \in Handlers, NEW k \in Keys, NEW a \in Wanted \cup {NoAlias},
         NEW l \in Locations, LoadAdd(h, k, a, l)
  PROVE  TablesOK' /\ HandlersOK'
<1> DEFINE r == [op |-> "add", key |-> k, alias |-> a, location |-> l, counter |-> {},
               answer |-> NoAlias]
<1>1. r \in CounterRequest /\ r.op = "add" /\ r.key = k
  BY ConstantFacts DEF CounterRequest
<1>2. \/ UNCHANGED rows /\ req' = [req EXCEPT ![h] = r] /\ Goto(h, "insert")
      \/ \E c \in RowsWith(k) : Replay(h, r, c)
  BY DEF LoadAdd
<1> HIDE DEF r
<1>3. CASE UNCHANGED rows /\ req' = [req EXCEPT ![h] = r] /\ Goto(h, "insert")
  <2>1. TablesOK' /\ Grown /\ "insert" \in Labels
    BY <1>3, RowsStill DEF Labels
  <2>2. pc'[h] = "insert" /\ req'[h] = r => Held(h)'
    BY <1>1 DEF Held, CounterLabels
  <2> QED BY <1>1, <1>3, <2>1, <2>2, SetStep
<1>4. CASE \E c \in RowsWith(k) : Replay(h, r, c)
  BY <1>1, <1>4, ReplayStep
<1> QED BY <1>2, <1>3, <1>4

LEMMA AppendedNumber ==
  ASSUME TablesOK, Len(numbers) < MaxRows, NEW b \in Numbers, numbers' = Append(numbers, b)
  PROVE  /\ numbers' \in Seq(Numbers) /\ Len(numbers') = Len(numbers) + 1
         /\ Len(numbers') <= MaxRows /\ Grown /\ numbers'[Len(numbers) + 1] = b
         /\ Len(numbers) + 1 \in Ids
<1>1. Len(numbers) \in Nat /\ numbers \in Seq(Numbers)
  BY NumbersFact DEF TablesOK
<1>2. /\ numbers' \in Seq(Numbers) /\ Len(numbers') = Len(numbers) + 1
      /\ \A i \in 1..Len(numbers) : numbers'[i] = numbers[i]
      /\ numbers'[Len(numbers) + 1] = b
  BY <1>1, AppendProperties
<1> QED BY <1>1, <1>2, ConstantFacts DEF Grown, Ids

(* The counter that an addition inserts.                                    *)
Inserts(h, b, c) ==
  /\ status = "approved" /\ BelowLimit(Attached) /\ Insertable(req[h].key)
  /\ Len(numbers) < MaxRows
  /\ AddNumber(b) /\ b >= 2 /\ b >= next
  /\ c \in Counter /\ c.id = Len(numbers) + 1 /\ c.number = b /\ c.key = req[h].key
  /\ c.attached /\ c.asked = req[h].alias
  /\ c.alias = IF req[h].alias = NoAlias THEN Generated[b] ELSE req[h].alias
  /\ counters' = counters \cup {c}
  /\ req' = [req EXCEPT ![h] = [req[h] EXCEPT !.counter = {c}]]
  /\ numbers' = Append(numbers, b)
  /\ next' = b + 1
  /\ Goto(h, "local")
  /\ UNCHANGED <<status, locations, registry, records, stale, altered>>

LEMMA InsertShape ==
  ASSUME TablesOK, HandlersOK, NEW h \in Handlers, Insert(h)
  PROVE  /\ req[h] \in CounterRequest /\ req[h].op = "add" /\ req[h].key \in Keys
         /\ \/ UNCHANGED rows /\ Finish(h)
            \/ \E c \in RowsWith(req[h].key) : Replay(h, req[h], c)
            \/ \E b \in Numbers, c \in Counter : Inserts(h, b, c)
<1>1. req[h] \in CounterRequest /\ req[h].op = "add" /\ req[h].key \in Keys
  BY DEF Insert, HandlersOK, Held
<1>2. CASE /\ status = "approved" /\ BelowLimit(Attached) /\ Insertable(req[h].key)
           /\ Len(numbers) < MaxRows
           /\ \E b \in Numbers :
             /\ AddNumber(b)
             /\ LET c == [id |-> Len(numbers) + 1, number |-> b, location |-> req[h].location,
                          alias |-> IF req[h].alias = NoAlias THEN Generated[b] ELSE req[h].alias,
                          key |-> req[h].key, asked |-> req[h].alias,
                          issued |-> FALSE, attached |-> TRUE]
                IN  /\ counters' = counters \cup {c}
                    /\ req' = [req EXCEPT ![h] = [req[h] EXCEPT !.counter = {c}]]
             /\ numbers' = Append(numbers, b)
             /\ next' = b + 1
           /\ Goto(h, "local")
           /\ UNCHANGED <<status, locations, registry, records, stale, altered>>
  <2>1. PICK b \in Numbers :
             /\ AddNumber(b)
             /\ LET c == [id |-> Len(numbers) + 1, number |-> b, location |-> req[h].location,
                          alias |-> IF req[h].alias = NoAlias THEN Generated[b] ELSE req[h].alias,
                          key |-> req[h].key, asked |-> req[h].alias,
                          issued |-> FALSE, attached |-> TRUE]
                IN  /\ counters' = counters \cup {c}
                    /\ req' = [req EXCEPT ![h] = [req[h] EXCEPT !.counter = {c}]]
             /\ numbers' = Append(numbers, b)
             /\ next' = b + 1
    BY <1>2
  <2> DEFINE c == [id |-> Len(numbers) + 1, number |-> b, location |-> req[h].location,
                   alias |-> IF req[h].alias = NoAlias THEN Generated[b] ELSE req[h].alias,
                   key |-> req[h].key, asked |-> req[h].alias,
                   issued |-> FALSE, attached |-> TRUE]
  <2>2. /\ req[h].location \in Locations \cup {NoLocation}
        /\ req[h].alias \in Aliases \cup {NoAlias}
    BY <1>1 DEF CounterRequest
  <2>3. c.alias \in Aliases \cup {NoAlias} /\ Len(numbers) + 1 \in Ids
    BY <1>2, <2>1, <2>2, ConstantFacts, AppendedNumber
  <2>4. c \in Counter
    BY <1>1, <2>2, <2>3 DEF Counter
  <2>5. /\ c.id = Len(numbers) + 1 /\ c.number = b /\ c.key = req[h].key
        /\ c.attached /\ c.asked = req[h].alias
        /\ c.alias = IF req[h].alias = NoAlias THEN Generated[b] ELSE req[h].alias
        /\ counters' = counters \cup {c}
        /\ req' = [req EXCEPT ![h] = [req[h] EXCEPT !.counter = {c}]]
    BY <2>1
  <2> HIDE DEF c
  <2>6. b >= 2 /\ b >= next
    BY <2>1 DEF AddNumber, IsNextNumber
  <2>7. Inserts(h, b, c)
    BY <1>2, <2>1, <2>4, <2>5, <2>6 DEF Inserts
  <2> QED BY <1>1, <2>4, <2>7
<1> QED BY <1>1, <1>2 DEF Insert

LEMMA InsertStep ==
  ASSUME TablesOK, HandlersOK, NEW h \in Handlers, Insert(h)
  PROVE  TablesOK' /\ HandlersOK'
<1>1. req[h] \in CounterRequest /\ req[h].op = "add" /\ req[h].key \in Keys
  BY InsertShape
<1>2. CASE UNCHANGED rows /\ Finish(h)
  BY <1>2, RowsStill, FinishStep
<1>3. CASE \E c \in RowsWith(req[h].key) : Replay(h, req[h], c)
  BY <1>1, <1>3, ReplayStep
<1>4. ASSUME NEW b \in Numbers, NEW c \in Counter, Inserts(h, b, c) PROVE TablesOK' /\ HandlersOK'
  <2>1. /\ numbers' \in Seq(Numbers) /\ Len(numbers') = Len(numbers) + 1
        /\ Len(numbers') <= MaxRows /\ Grown /\ numbers'[Len(numbers) + 1] = b
    BY <1>4, AppendedNumber DEF Inserts
  <2>2. Len(numbers) \in Nat /\ numbers \in Seq(Numbers) /\ b \in Nat
    BY NumbersFact, ConstantFacts DEF TablesOK, Numbers
  <2>3. Good(c)'
    BY <1>4, <2>1, <2>2 DEF Good, Inserts
  <2>4. \A d \in counters : Good(d)' /\ d.id # c.id
    <3>1. \A d \in counters : d.id \in Nat /\ d.id <= Len(numbers) /\ Good(d)
      BY DEF TablesOK, Snapshot, Good, Counter, Ids
    <3> QED BY <1>4, <2>1, <2>2, <3>1, GoodKept DEF Inserts
  <2>5. Snapshot(counters)'
    BY <1>4, <2>3, <2>4 DEF Inserts, Snapshot, DifferentIds, TablesOK
  <2>6. TablesOK'
    BY <1>4, <2>1, <2>2, <2>5 DEF Inserts, TablesOK
  <2>7. PICK q \in CounterRequest :
          q.counter = {c} /\ q.op = "add" /\ q.key = req[h].key /\ req' = [req EXCEPT ![h] = q]
    BY <1>1, <1>4 DEF Inserts, CounterRequest
  <2>8. /\ c.key = req[h].key /\ Goto(h, "local")
        /\ "local" \in CounterLabels \ {"record", "apply"}
    BY <1>4 DEF Inserts, CounterLabels
  <2> QED BY <1>1, <2>1, <2>3, <2>6, <2>7, <2>8, OneCounterStep
<1> QED BY <1>2, <1>3, <1>4, InsertShape

(* A counter is looked at, and its request goes on with it.                  *)
LEMMA LookStep ==
  ASSUME TablesOK, HandlersOK, NEW h \in Handlers, LookLocally(h) \/ LookInRegistry(h)
  PROVE  TablesOK' /\ HandlersOK'
<1>1. TablesOK' /\ Grown /\ UNCHANGED req /\ pc[h] \in {"local", "oracle"}
  BY RowsStill DEF LookLocally, LookInRegistry
<1>2. PICK label \in {"oracle", "withdraw", "find"} : Goto(h, label)
  BY DEF LookLocally, LookInRegistry
<1>3. /\ req[h] \in CounterRequest /\ req[h].counter = {Mine(h)} /\ Good(Mine(h))
      /\ req[h].op = "add" /\ req[h].key \in Keys /\ Mine(h).key = req[h].key
  BY <1>1, MineFact DEF CounterLabels
<1>4. Good(Mine(h))'
  <2>1. PICK c : c = Mine(h)
    OBVIOUS
  <2>2. Good(c)'
    BY <1>1, <1>3, <2>1, GoodKept DEF TablesOK
  <2> QED BY <1>1, <2>1, <2>2 DEF Mine
<1>5. label \in Labels
  BY DEF Labels
<1>6. pc'[h] = label => Held(h)'
  BY <1>1, <1>3, <1>4 DEF Held, Mine
<1> QED BY <1>1, <1>2, <1>5, <1>6, GotoStep

LEMMA WithdrawStep ==
  ASSUME TablesOK, HandlersOK, NEW h \in Handlers, Withdraw(h)
  PROVE  TablesOK' /\ HandlersOK'
<1>1. /\ counters' = {c \in counters : c.id # Mine(h).id} /\ Finish(h)
      /\ UNCHANGED <<next, status, locations, registry, records, numbers, stale>>
      /\ altered' = altered \cup {req[h].key} /\ pc[h] = "withdraw"
  BY DEF Withdraw
<1>0. req[h].key \in Keys
  BY <1>1, MineFact DEF CounterLabels
<1>2. Grown
  BY <1>1, GrownStill DEF TablesOK
<1>3. Snapshot(counters)'
  BY <1>1 DEF TablesOK, Snapshot, DifferentIds, Good
<1> QED BY <1>0, <1>1, <1>2, <1>3, FinishStep DEF TablesOK

LEMMA LoadRetryStep ==
  ASSUME TablesOK, HandlersOK, NEW h \in Handlers, NEW c \in counters, LoadRetry(h, c)
  PROVE  TablesOK' /\ HandlersOK'
<1>1. TablesOK' /\ Grown
  BY RowsStill DEF LoadRetry
<1>2. Good(c) /\ c \in Counter /\ Good(c)'
  BY <1>1, GoodKept DEF TablesOK, Snapshot, Good
<1> DEFINE q == [op |-> "retry", key |-> NoKey, alias |-> NoAlias, location |-> NoLocation,
                 counter |-> {c}, answer |-> NoAlias]
<1>3. q \in CounterRequest /\ q.counter = {c} /\ q.op = "retry"
  BY <1>2 DEF CounterRequest
<1>4. req' = [req EXCEPT ![h] = q] /\ Goto(h, "find")
  BY DEF LoadRetry
<1>5. "find" \in CounterLabels \ {"record", "apply"}
  BY DEF CounterLabels
<1> HIDE DEF q
<1> QED BY <1>1, <1>2, <1>3, <1>4, <1>5, OneCounterStep

(* The call of the oracle: a request refused, and one answered.              *)
LEMMA RefuseStep ==
  ASSUME TablesOK, HandlersOK, Grown, NEW h \in Handlers, pc[h] \in CounterLabels, Refuse(h)
  PROVE  HandlersOK'
<1>1. CASE Finish(h)
  BY <1>1, FinishStep
<1>2. CASE req[h].op = "add" /\ Goto(h, "withdraw") /\ UNCHANGED req
  <2>1. "withdraw" \in Labels
    BY DEF Labels
  <2>2. /\ req[h] \in CounterRequest /\ req[h].counter = {Mine(h)} /\ Good(Mine(h))
        /\ req[h].key \in Keys /\ Mine(h).key = req[h].key
    BY <1>2, MineFact
  <2>3. PICK c : c = Mine(h) /\ Good(c)'
    BY <2>2, GoodKept DEF TablesOK
  <2>4. pc'[h] = "withdraw" => Held(h)'
    BY <1>2, <2>2, <2>3 DEF Held, CounterLabels
  <2> QED BY <1>2, <2>1, <2>4, GotoStep
<1> QED BY <1>1, <1>2 DEF Refuse

LEMMA AnswerStep ==
  ASSUME TablesOK, HandlersOK, Grown, NEW h \in Handlers, pc[h] \in CounterLabels,
         NEW a \in Aliases, NEW label \in {"record", "apply"}, Answer(h, a, label)
  PROVE  HandlersOK'
<1>1. /\ req[h] \in CounterRequest /\ req[h].counter = {Mine(h)} /\ Good(Mine(h))
      /\ req[h].op = "add" => req[h].key \in Keys /\ Mine(h).key = req[h].key
  BY MineFact
<1>2. PICK c : c = Mine(h) /\ Good(c)'
  BY <1>1, GoodKept DEF TablesOK
<1>3. PICK q \in CounterRequest :
        /\ q.counter = {c} /\ q.op = req[h].op /\ q.key = req[h].key /\ q.answer = a
        /\ req' = [req EXCEPT ![h] = q]
  BY <1>1, <1>2 DEF Answer, CounterRequest
<1>4. label \in Labels /\ Goto(h, label)
  BY DEF Labels, Answer
<1>5. pc'[h] = label /\ req'[h] = q => Held(h)'
  BY <1>1, <1>2, <1>3 DEF Held
<1> QED BY <1>3, <1>4, <1>5, SetStep

LEMMA AnsweredStep ==
  ASSUME TablesOK, HandlersOK, Grown, NEW h \in Handlers, pc[h] \in CounterLabels, Answered(h)
  PROVE  HandlersOK'
<1>1. PICK e \in Recorded(h) : IF SameBody(e, h) THEN Answer(h, e.answer, "apply") ELSE Refuse(h)
  BY DEF Answered
<1>2. e.answer \in Aliases
  BY DEF Recorded, TablesOK, RegistrationRecord
<1> QED BY <1>1, <1>2, AnswerStep, RefuseStep

(* A request that goes on to its next step with what it holds.               *)
LEMMA GoesOnStep ==
  ASSUME TablesOK, HandlersOK, Grown, NEW h \in Handlers, pc[h] \in CounterLabels,
         NEW label \in {"register", "apply"}, Goto(h, label), UNCHANGED req,
         label = "apply" => pc[h] = "record"
  PROVE  HandlersOK'
<1>1. /\ req[h] \in CounterRequest /\ req[h].counter = {Mine(h)} /\ Good(Mine(h))
      /\ req[h].op = "add" => req[h].key \in Keys /\ Mine(h).key = req[h].key
      /\ label = "apply" => req[h].answer \in Aliases
  BY MineFact
<1>2. PICK c : c = Mine(h) /\ Good(c)'
  BY <1>1, GoodKept DEF TablesOK
<1>3. label \in Labels
  BY DEF Labels
<1>4. pc'[h] = label => Held(h)'
  BY <1>1, <1>2 DEF Held
<1> QED BY <1>3, <1>4, GotoStep

LEMMA FindStep ==
  ASSUME TablesOK, HandlersOK, NEW h \in Handlers, Find(h)
  PROVE  TablesOK' /\ HandlersOK'
<1>1. TablesOK' /\ Grown /\ pc[h] \in CounterLabels
  BY RowsStill DEF Find, CounterLabels
<1> QED BY <1>1, AnsweredStep, GoesOnStep DEF Find

LEMMA RegisterStep ==
  ASSUME TablesOK, HandlersOK, NEW h \in Handlers, Register(h)
  PROVE  TablesOK' /\ HandlersOK'
<1>0. /\ pc[h] \in CounterLabels
      /\ UNCHANGED <<counters, next, status, locations, records, numbers, stale, altered>>
      /\ Good(Mine(h)) /\ Mine(h) \in Counter
  BY MineFact DEF Register, CounterLabels
<1>1. Grown /\ Snapshot(counters)'
  BY <1>0, GrownStill DEF TablesOK, Snapshot, DifferentIds, Good
<1>2. FinalAlias(Mine(h)) \in Aliases
  BY <1>0, FinalAliasFact
<1>3. CASE /\ registry' = {e \in registry : e.id # Mine(h).id}
                          \cup {[alias |-> FinalAlias(Mine(h)), id |-> Mine(h).id]}
           /\ Answer(h, FinalAlias(Mine(h)), "record")
  <2>1. registry' \subseteq [alias : Aliases, id : Ids \cup {Others}]
    BY <1>0, <1>2, <1>3, CounterFields DEF TablesOK
  <2>2. TablesOK'
    BY <1>0, <1>1, <2>1 DEF TablesOK
  <2> QED BY <1>0, <1>1, <1>2, <1>3, <2>2, AnswerStep
<1>4. CASE UNCHANGED registry /\ Refuse(h)
  <2>1. TablesOK'
    BY <1>0, <1>1, <1>4 DEF TablesOK
  <2> QED BY <1>0, <1>1, <1>4, <2>1, RefuseStep
<1> QED BY <1>3, <1>4 DEF Register

LEMMA RecordStep ==
  ASSUME TablesOK, HandlersOK, NEW h \in Handlers, Record(h)
  PROVE  TablesOK' /\ HandlersOK'
<1>0. /\ pc[h] = "record" /\ pc[h] \in CounterLabels
      /\ UNCHANGED <<counters, next, status, locations, registry, numbers, stale, altered>>
      /\ req[h] \in CounterRequest /\ Mine(h) \in Counter /\ req[h].answer \in Aliases
  BY MineFact DEF Record, CounterLabels
<1>1. Grown /\ Snapshot(counters)'
  BY <1>0, GrownStill DEF TablesOK, Snapshot, DifferentIds, Good
<1>2. CASE Answered(h) /\ UNCHANGED records
  <2>1. TablesOK'
    BY <1>0, <1>1, <1>2 DEF TablesOK
  <2> QED BY <1>0, <1>1, <1>2, <2>1, AnsweredStep
<1>3. CASE /\ records' = records \cup {[key |-> req[h].key, id |-> Mine(h).id,
                                        alias |-> Mine(h).alias, answer |-> req[h].answer]}
           /\ Goto(h, "apply") /\ UNCHANGED req
  <2>1. req[h].key \in Keys \cup {NoKey} /\ Mine(h).id \in Ids
        /\ Mine(h).alias \in Aliases \cup {NoAlias}
    BY <1>0, CounterFields DEF CounterRequest
  <2>2. records' \subseteq RegistrationRecord
    BY <1>0, <1>3, <2>1 DEF TablesOK, RegistrationRecord
  <2>3. TablesOK'
    BY <1>0, <1>1, <2>2 DEF TablesOK
  <2> QED BY <1>0, <1>1, <1>3, <2>3, GoesOnStep
<1> QED BY <1>2, <1>3 DEF Record

LEMMA ApplyStep ==
  ASSUME TablesOK, HandlersOK, NEW h \in Handlers, Apply(h)
  PROVE  TablesOK' /\ HandlersOK'
<1> DEFINE a == req[h].answer
           i == Mine(h).id
           Done(c) == IF c.id = i THEN [c EXCEPT !.issued = TRUE, !.alias = a] ELSE c
<1>1. /\ pc[h] = "apply" /\ Finish(h) /\ status' = "approved"
      /\ UNCHANGED <<next, locations, registry, records, numbers, stale, altered>>
      /\ counters' = {Done(c) : c \in counters}
  BY DEF Apply
<1>2. a \in Aliases \cup {NoAlias}
  BY <1>1, MineFact DEF CounterLabels
<1> HIDE DEF a, i
<1>3. \A c \in counters : Done(c) \in Counter /\ SameRow(c, Done(c))
  BY <1>2, CounterUpdates DEF TablesOK, Snapshot, Good, SameRow
<1> HIDE DEF Done
<1>4. Grown
  BY <1>1, GrownStill DEF TablesOK
<1>5. \A d \in counters' : Good(d)'
  <2>1. \A d \in counters' : Good(d)
    BY <1>1, <1>3, SameRowGood DEF TablesOK, Snapshot
  <2> QED BY <1>4, <2>1, GoodKept DEF TablesOK
<1>6. Snapshot(counters)'
  BY <1>1, <1>3, <1>5 DEF TablesOK, Snapshot, DifferentIds, SameRow
<1> QED BY <1>1, <1>4, <1>6, FinishStep DEF TablesOK

LEMMA FailStep ==
  ASSUME TablesOK, HandlersOK, NEW h \in Handlers, Fail(h)
  PROVE  TablesOK' /\ HandlersOK'
BY RowsStill, FinishStep DEF Fail

(* What others do leaves the requests as they are.                          *)
LEMMA HandlersStill ==
  ASSUME TablesOK, HandlersOK, Grown, UNCHANGED <<pc, req>>
  PROVE  HandlersOK'
BY StillHeld DEF HandlersOK

LEMMA ApproveStep ==
  ASSUME TablesOK, HandlersOK, Approve
  PROVE  TablesOK' /\ HandlersOK'
<1> DEFINE Done(c) == IF c.attached THEN [c EXCEPT !.alias = FinalAlias(c), !.issued = TRUE] ELSE c
<1>1. /\ counters' = {Done(c) : c \in counters} /\ status' = "approved"
      /\ UNCHANGED <<next, locations, records, numbers, stale, altered, pc, req, requests>>
      /\ registry' = {e \in registry : \A c \in Attached : e.id # c.id}
                     \cup {[alias |-> FinalAlias(c), id |-> c.id] : c \in Attached}
  BY DEF Approve
<1>2. \A c \in counters : c \in Counter /\ Good(c) /\ FinalAlias(c) \in Aliases /\ c.id \in Ids
  BY FinalAliasFact, CounterFields DEF TablesOK, Snapshot, Good
<1>3. \A c \in counters : Done(c) \in Counter /\ SameRow(c, Done(c))
  BY <1>2, CounterUpdates DEF SameRow
<1> HIDE DEF Done
<1>4. Grown
  BY <1>1, GrownStill DEF TablesOK
<1>5. \A d \in counters' : Good(d)'
  <2>1. \A d \in counters' : Good(d)
    BY <1>1, <1>2, <1>3, SameRowGood
  <2> QED BY <1>4, <2>1, GoodKept DEF TablesOK
<1>6. Snapshot(counters)'
  BY <1>1, <1>3, <1>5 DEF TablesOK, Snapshot, DifferentIds, SameRow
<1>7. registry' \subseteq [alias : Aliases, id : Ids \cup {Others}]
  BY <1>1, <1>2 DEF Attached, TablesOK
<1> QED BY <1>1, <1>4, <1>6, <1>7, HandlersStill DEF TablesOK

LEMMA ContestStep ==
  ASSUME TablesOK, HandlersOK, NEW a \in Wanted, Contest(a)
  PROVE  TablesOK' /\ HandlersOK'
<1>1. /\ registry' = registry \cup {[alias |-> a, id |-> Others]}
      /\ UNCHANGED <<counters, next, status, locations, records, numbers, stale, altered,
                     pc, req, requests>>
  BY DEF Contest
<1>2. Grown
  BY <1>1, GrownStill DEF TablesOK
<1>3. registry' \subseteq [alias : Aliases, id : Ids \cup {Others}]
  BY <1>1, ConstantFacts DEF TablesOK
<1>4. TablesOK'
  BY <1>1, <1>3 DEF TablesOK, Snapshot, DifferentIds, Good
<1> QED BY <1>1, <1>2, <1>4, HandlersStill

LEMMA InvInit == Init => Inv
<1> SUFFICES ASSUME Init PROVE Inv
  OBVIOUS
<1>1. /\ next = 2 /\ ~stale /\ stale \in BOOLEAN /\ requests = 0
      /\ records = {} /\ altered = {}
      /\ pc = [h \in Handlers |-> "idle"] /\ req = [h \in Handlers |-> NoRequest]
  BY DEF Init
<1>2. HandlersOK /\ requests \in 0..MaxRequests
  BY <1>1, ConstantFacts DEF HandlersOK, Held, Labels, CounterLabels
<1>3. <<>> \in Seq(Numbers) /\ Len(<<>>) = 0
  BY EmptySeq
<1>4. CASE counters = {} /\ numbers = <<>> /\ status = "preparing" /\ locations = {} /\ registry = {}
  <2>1. Snapshot(counters)
    BY <1>4 DEF Snapshot, DifferentIds
  <2>2. numbers \in Seq(Numbers) /\ Len(numbers) <= MaxRows
    BY <1>3, <1>4, ConstantFacts
  <2>3. TablesOK
    BY <1>1, <1>4, <2>1, <2>2 DEF TablesOK
  <2> QED BY <1>2, <2>3 DEF Inv
<1>5. ASSUME NEW l \in Locations \cup {NoLocation}, NEW a \in Aliases, NEW done \in BOOLEAN,
             counters = {Primary(l, a, done)}, numbers = << 1 >>,
             status \in {"preparing", "approved"}, locations \subseteq Locations,
             registry \subseteq [alias : Aliases, id : Ids \cup {Others}]
      PROVE  Inv
  <2>1. Primary(l, a, done) \in Counter /\ Primary(l, a, done).id = 1
        /\ Primary(l, a, done).number = 1 /\ Primary(l, a, done).key = NoKey
    BY ConstantFacts DEF Primary, Counter
  <2>2. numbers \in Seq(Numbers) /\ Len(numbers) = 1 /\ numbers[1] = 1 /\ Len(numbers) <= MaxRows
    BY <1>5, ConstantFacts DEF Ids
  <2>3. Snapshot(counters)
    BY <1>5, <2>1, <2>2 DEF Snapshot, DifferentIds, Good
  <2> QED BY <1>1, <1>2, <1>5, <2>2, <2>3 DEF Inv, TablesOK
<1>6. CASE status = "preparing" /\ locations = {} /\ registry = {} /\ numbers = <<1>>
           /\ \E a \in Wanted : counters = {Primary(NoLocation, a, FALSE)}
  BY <1>5, <1>6, ConstantFacts
<1>7. CASE \E l \in Locations, a \in Wanted \cup {Generated[1]} :
             /\ status = "approved" /\ locations = {l}
             /\ counters = {Primary(l, a, TRUE)} /\ numbers = <<1>>
             /\ registry = {[alias |-> a, id |-> 1]}
  <2>1. PICK l \in Locations, a \in Wanted \cup {Generated[1]} :
             /\ status = "approved" /\ locations = {l}
             /\ counters = {Primary(l, a, TRUE)} /\ numbers = <<1>>
             /\ registry = {[alias |-> a, id |-> 1]}
    BY <1>7
  <2>2. a \in Aliases /\ registry \subseteq [alias : Aliases, id : Ids \cup {Others}]
    BY <2>1, ConstantFacts
  <2> QED BY <1>5, <2>1, <2>2
<1> QED BY <1>4, <1>6, <1>7 DEF Init

LEMMA InvNext == Inv /\ [Next]_vars => Inv'
<1> SUFFICES ASSUME TablesOK, HandlersOK, requests \in 0..MaxRequests, [Next]_vars
             PROVE  TablesOK' /\ HandlersOK' /\ requests' \in 0..MaxRequests
  BY DEF Inv
<1>1. ASSUME NEW h \in Handlers, Step(h) PROVE TablesOK' /\ HandlersOK'
  BY <1>1, ValidateStep, VerifyStep, SyncTables, InsertStep, LookStep, WithdrawStep, FindStep, RegisterStep,
     RecordStep, ApplyStep, FailStep DEF Step
<1>2. ASSUME NEW h \in Handlers, Arrive(h)
      PROVE  TablesOK' /\ HandlersOK' /\ requests' \in 0..MaxRequests
  <2>1. requests' \in 0..MaxRequests
    BY <1>2, ConstantFacts DEF Arrive
  <2>2. ASSUME NEW l \in Locations, LoadPost(h, l) \/ LoadPut(h, l) PROVE TablesOK' /\ HandlersOK'
    BY <2>2, LoadStep DEF LoadPost, LoadPut
  <2>3. ASSUME NEW c \in counters, LoadRetry(h, c) PROVE TablesOK' /\ HandlersOK'
    BY <2>3, LoadRetryStep
  <2> QED BY <1>2, <2>1, <2>2, <2>3, LoadAddStep DEF Arrive
<1>3. CASE UNCHANGED vars
  BY <1>3, RowsStill, HandlersStill DEF vars
<1>4. CASE Approve \/ \E a \in Wanted : Contest(a)
  BY <1>4, ApproveStep, ContestStep DEF Approve, Contest
<1> QED BY <1>1, <1>2, <1>3, <1>4 DEF Next

LEMMA InvAlways == Spec => []Inv
BY InvInit, InvNext, PTL DEF Spec

-----------------------------------------------------------------------------
(* Numbers.  While no location request wrote over what it had not loaded, the *)
(* next number is above all numbers ever given, and the primary counter, once *)
(* there, stays.                                                            *)
HasOne == \E c \in Attached : c.number = 1

NumbersInv ==
  ~stale =>
    /\ \A i, j \in DOMAIN numbers : numbers[i] = numbers[j] => i = j
    /\ \A i \in DOMAIN numbers : numbers[i] < next
    /\ (\E i \in DOMAIN numbers : numbers[i] = 1) => HasOne

LEMMA NumbersInit == Init => NumbersInv
<1> SUFFICES ASSUME Init PROVE NumbersInv
  OBVIOUS
<1>1. CASE numbers = <<>>
  BY <1>1 DEF NumbersInv
<1>2. CASE numbers = <<1>> /\ \E l, a, done : counters = {Primary(l, a, done)}
  <2>1. PICK l, a, done : counters = {Primary(l, a, done)}
    BY <1>2
  <2>2. Primary(l, a, done).attached /\ Primary(l, a, done).number = 1
    BY DEF Primary
  <2>3. HasOne
    BY <2>1, <2>2 DEF HasOne, Attached
  <2> QED BY <1>2, <2>3 DEF Init, NumbersInv
<1> QED BY <1>1, <1>2 DEF Init

LEMMA QuietNumbers ==
  ASSUME NumbersInv, UNCHANGED <<numbers, next, stale>>, HasOne => HasOne'
  PROVE  NumbersInv'
BY DEF NumbersInv

(* A row that is attached keeps its number and stays attached.                *)
LEMMA OneKept ==
  ASSUME \A c \in Attached : c.number = 1 =>
           \E d \in counters' : d.number = 1 /\ d.attached
  PROVE  HasOne => HasOne'
BY DEF HasOne, Attached

LEMMA VerifyNumbers ==
  ASSUME TablesOK, HandlersOK, NumbersInv, NEW h \in Handlers, Verify(h)
  PROVE  NumbersInv'
<1> SUFFICES ASSUME ~stale' PROVE NumbersInv'
  BY DEF NumbersInv
<1>1. /\ counters' = {[c EXCEPT !.attached = c.id \in {d.id : d \in req[h].rows}] : c \in counters}
      /\ next' = req[h].next /\ UNCHANGED numbers
      /\ stale' = (stale \/ req[h].rows # Attached \/ req[h].next # next
                         \/ req[h].status # status)
  BY DEF Verify
<1>2. ~stale /\ req[h].rows = Attached /\ next' = next
  BY <1>1
<1>3. ASSUME NEW c \in Attached, c.number = 1
      PROVE  \E d \in counters' : d.number = 1 /\ d.attached
  <2>1. c \in counters /\ c \in Counter /\ c.id \in {d.id : d \in req[h].rows}
    BY <1>2 DEF Attached, TablesOK, Snapshot, Good
  <2>2. (c.id \in {d.id : d \in req[h].rows}) = TRUE
    BY <2>1
  <2>3. [c EXCEPT !.attached = TRUE] \in counters'
    BY <1>1, <2>1, <2>2
  <2> QED BY <1>3, <2>1, <2>3 DEF Counter
<1>4. HasOne => HasOne'
  BY <1>3, OneKept
<1> QED BY <1>1, <1>2, <1>4 DEF NumbersInv

LEMMA AppendNumbers ==
  ASSUME TablesOK, HandlersOK, NumbersInv, NEW h \in Handlers, NEW b \in Numbers, NEW c \in Counter,
         Inserts(h, b, c)
  PROVE  NumbersInv'
<1> SUFFICES ASSUME ~stale' PROVE NumbersInv'
  BY DEF NumbersInv
<1>1. /\ ~stale /\ b >= 2 /\ b >= next /\ next' = b + 1 /\ counters' = counters \cup {c}
      /\ next \in Nat /\ b \in Nat
  BY DEF Inserts, TablesOK, Numbers
<1>2. /\ Len(numbers') = Len(numbers) + 1 /\ Grown /\ numbers'[Len(numbers) + 1] = b
      /\ numbers' \in Seq(Numbers)
  BY AppendedNumber DEF Inserts
<1>3. /\ Len(numbers) \in Nat /\ DOMAIN numbers = 1..Len(numbers)
      /\ DOMAIN numbers' = 1..(Len(numbers) + 1)
      /\ \A i \in 1..Len(numbers) : numbers[i] \in Nat
  BY <1>2, NumbersFact, LenProperties DEF TablesOK, Numbers
<1>4. /\ \A i, j \in 1..Len(numbers) : numbers[i] = numbers[j] => i = j
      /\ \A i \in 1..Len(numbers) : numbers[i] < next /\ numbers'[i] = numbers[i]
  BY <1>1, <1>2, <1>3 DEF NumbersInv, Grown
<1>5. \A i \in DOMAIN numbers' : i \in 1..Len(numbers) \/ i = Len(numbers) + 1
  BY <1>3
<1>6. \A i, j \in DOMAIN numbers' : numbers'[i] = numbers'[j] => i = j
  BY <1>1, <1>2, <1>3, <1>4, <1>5
<1>7. \A i \in DOMAIN numbers' : numbers'[i] < next'
  BY <1>1, <1>2, <1>3, <1>4, <1>5
<1>8. (\E i \in DOMAIN numbers' : numbers'[i] = 1) => HasOne
  BY <1>1, <1>2, <1>3, <1>4, <1>5 DEF NumbersInv
<1>9. HasOne => HasOne'
  BY <1>1, OneKept DEF Attached
<1> QED BY <1>6, <1>7, <1>8, <1>9 DEF NumbersInv

(* A request that arrives changes no row.                                    *)
LEMMA ArriveKeeps == \A h \in Handlers : Arrive(h) => UNCHANGED rows
<1> SUFFICES ASSUME NEW h \in Handlers, Arrive(h) PROVE UNCHANGED rows
  OBVIOUS
<1>1. ASSUME NEW o, NEW l, Load(h, o, l) PROVE UNCHANGED rows
  BY <1>1 DEF Load
<1>2. ASSUME NEW k, NEW a, NEW l, LoadAdd(h, k, a, l) PROVE UNCHANGED rows
  <2>1. ASSUME NEW r, NEW c, Replay(h, r, c) PROVE UNCHANGED rows
    BY <2>1 DEF Replay
  <2> QED BY <1>2, <2>1 DEF LoadAdd
<1>3. ASSUME NEW c, LoadRetry(h, c) PROVE UNCHANGED rows
  BY <1>3 DEF LoadRetry
<1> QED BY <1>1, <1>2, <1>3 DEF Arrive, LoadPost, LoadPut

LEMMA SyncNumbers ==
  ASSUME TablesOK, HandlersOK, NumbersInv, NEW h \in Handlers, Sync(h)
  PROVE  NumbersInv'
<1>1. CASE UNCHANGED rows
  BY <1>1, QuietNumbers DEF rows, HasOne, Attached
<1>2. CASE ~UNCHANGED rows
  <2> SUFFICES ASSUME ~stale' PROVE NumbersInv'
    BY DEF NumbersInv
  <2>1. /\ req[h] \in LocationRequest /\ Snapshot(req[h].rows)
    BY HeldLocation DEF Sync
  <2>0. PICK k \in Nat, b \in Nat, used \in SUBSET Available(req[h]) : \E target :
               Written(req[h], k, b, used, target)
    BY <1>2, SyncShape
  <2>2. PICK target : Written(req[h], k, b, used, target)
    BY <2>0
  <2> DEFINE r == req[h]
  <2>3. ~stale /\ r.rows = Attached /\ r.next = next /\ b >= 2 /\ b >= next /\ next \in Nat
    BY <2>2 DEF Written, TablesOK
  <2>4. /\ numbers' \in Seq(Numbers) /\ Len(numbers') = Len(numbers) + k /\ Grown
        /\ \A i \in 1..k : numbers'[Len(numbers) + i] = NewNumber(r, b, i)
    BY <2>2, WrittenNumbers
  <2>5. \A i \in 1..k : NewNumber(r, b, i) =
          IF HasPrimary(r) THEN b + i - 1 ELSE IF i = 1 THEN 1 ELSE b + i - 2
    BY <2>2, NewNumbersFact DEF Written
  <2>6. HasPrimary(r) <=> HasOne
    BY <2>3 DEF HasPrimary, HasOne
  <2>7. next' = IF HasOne \/ k = 0 THEN b + k ELSE b + k - 1
    BY <2>2, <2>3, <2>6 DEF Written, NextAfter
  <2> HIDE DEF r
  <2>8. /\ Len(numbers) \in Nat /\ DOMAIN numbers = 1..Len(numbers)
        /\ DOMAIN numbers' = 1..(Len(numbers) + k)
        /\ \A i \in 1..Len(numbers) : numbers[i] \in Nat
    BY <2>4, NumbersFact, LenProperties DEF TablesOK, Numbers
  <2>9. /\ \A i, j \in 1..Len(numbers) : numbers[i] = numbers[j] => i = j
        /\ \A i \in 1..Len(numbers) : numbers[i] < next /\ numbers'[i] = numbers[i]
        /\ (\E i \in 1..Len(numbers) : numbers[i] = 1) => HasOne
    BY <2>3, <2>4, <2>8 DEF NumbersInv, Grown
  <2>10. \A i \in DOMAIN numbers' :
           \/ i \in 1..Len(numbers) /\ numbers'[i] = numbers[i] /\ numbers[i] < b
              /\ (numbers[i] = 1 => HasOne)
           \/ \E x \in 1..k : /\ i = Len(numbers) + x
                              /\ numbers'[i] = IF HasOne THEN b + x - 1
                                               ELSE IF x = 1 THEN 1 ELSE b + x - 2
    <3> SUFFICES ASSUME NEW i \in DOMAIN numbers', i \notin 1..Len(numbers)
                 PROVE  \E x \in 1..k : /\ i = Len(numbers) + x
                              /\ numbers'[i] = IF HasOne THEN b + x - 1
                                               ELSE IF x = 1 THEN 1 ELSE b + x - 2
      <4>1. \A i \in 1..Len(numbers) : numbers'[i] = numbers[i] /\ numbers[i] < b
        BY <2>3, <2>8, <2>9
      <4>2. \A i \in 1..Len(numbers) : numbers[i] = 1 => HasOne
        BY <2>9
      <4> QED BY <4>1, <4>2
    <3>1. i - Len(numbers) \in 1..k /\ i = Len(numbers) + (i - Len(numbers))
      BY <2>8
    <3> QED BY <2>4, <2>5, <2>6, <3>1
  <2>11. \A i, j \in DOMAIN numbers' : numbers'[i] = numbers'[j] => i = j
    BY <2>3, <2>8, <2>9, <2>10
  <2>12. \A i \in DOMAIN numbers' : numbers'[i] < next'
    BY <2>3, <2>7, <2>8, <2>9, <2>10
  <2>13. HasOne => HasOne'
    <3>1. ASSUME NEW c \in Attached, c.number = 1
          PROVE  \E d \in counters' : d.number = 1 /\ d.attached
      <4>1. c \in counters /\ c \in Counter /\ c.attached /\ c \in r.rows
        BY <2>3 DEF Attached, TablesOK, Snapshot, Good
      <4>2. CASE c \in used
        <5>1. Placed(r, c, target) \in counters'
          BY <2>2, <4>2 DEF Written, r
        <5> QED BY <2>1, <3>1, <4>1, <5>1, PlacedFact DEF SameRow, r
      <4>3. c \notin Available(r) \ used
        BY <2>2, <3>1 DEF Written, Refused, r
      <4>4. CASE c \notin Available(r)
        <5>1. c.id \notin AvailableIds(r)
          BY <2>1, <4>1, <4>4 DEF AvailableIds, Available, Snapshot, DifferentIds, r
        <5>2. Kept(r, c) \in counters'
          BY <2>2, <4>1, <5>1 DEF Written, r
        <5> QED BY <3>1, <4>1, <5>2, KeptFact DEF SameRow
      <4> QED BY <4>2, <4>3, <4>4
    <3> QED BY <3>1, OneKept
  <2>14. ASSUME NEW i \in DOMAIN numbers', numbers'[i] = 1 PROVE HasOne'
    <3>1. CASE HasOne
      BY <2>13, <3>1
    <3>2. CASE ~HasOne
      <4>1. PICK x \in 1..k : numbers'[i] = IF x = 1 THEN 1 ELSE b + x - 2
        BY <2>10, <2>14, <3>2
      <4>2. 1 \in 1..k /\ NewNumber(r, b, 1) = 1
        BY <2>5, <2>6, <3>2, <4>1
      <4>3. /\ NewCounter(r, b, 1, target).number = 1
            /\ NewCounter(r, b, 1, target).attached
        BY <2>1, <2>2, <4>2, NewCounterFact DEF Written, r
      <4>4. NewCounter(r, b, 1, target) \in counters'
        BY <2>2, <4>2 DEF Written, r
      <4> QED BY <4>3, <4>4 DEF HasOne, Attached
    <3> QED BY <3>1, <3>2
  <2> QED BY <2>11, <2>12, <2>14 DEF NumbersInv
<1> QED BY <1>1, <1>2

LEMMA NumbersNext ==
  ASSUME TablesOK, HandlersOK, NumbersInv, [Next]_vars
  PROVE  NumbersInv'
<1>1. CASE UNCHANGED rows
  BY <1>1, QuietNumbers DEF rows, HasOne, Attached
<1>2. ASSUME NEW h \in Handlers, Insert(h) PROVE NumbersInv'
  <2>1. CASE UNCHANGED rows
    BY <1>1, <2>1
  <2>2. CASE \E c \in RowsWith(req[h].key) : Replay(h, req[h], c)
    BY <1>1, <2>2 DEF Replay
  <2>3. CASE \E b \in Numbers, c \in Counter : Inserts(h, b, c)
    BY <2>3, AppendNumbers
  <2> QED BY <1>2, <2>1, <2>2, <2>3, InsertShape
<1>3. ASSUME NEW h \in Handlers, Withdraw(h) PROVE NumbersInv'
  <2>1. /\ counters' = {c \in counters : c.id # Mine(h).id} /\ UNCHANGED <<next, numbers, stale>>
    BY <1>3 DEF Withdraw
  <2>2. /\ Mine(h).number = numbers[Mine(h).id] /\ Mine(h).number >= 2
    <3>1. pc[h] \in CounterLabels /\ pc[h] = "withdraw"
      BY <1>3 DEF Withdraw, CounterLabels
    <3>2. Good(Mine(h)) /\ Mine(h).key # NoKey
      BY <3>1, MineFact, ConstantFacts
    <3> QED BY <3>2 DEF Good
  <2>3. ASSUME NEW c \in Attached, c.number = 1
        PROVE  \E d \in counters' : d.number = 1 /\ d.attached
    <3>1. c \in counters /\ c.attached /\ c.number = numbers[c.id]
      BY DEF Attached, TablesOK, Snapshot, Good
    <3>2. c.id # Mine(h).id
      BY <2>2, <2>3, <3>1
    <3> QED BY <2>1, <2>3, <3>1, <3>2
  <2> QED BY <2>1, <2>3, OneKept, QuietNumbers
<1>4. ASSUME NEW h \in Handlers, Apply(h) PROVE NumbersInv'
  <2>1. /\ UNCHANGED <<next, numbers, stale>>
        /\ counters' = {IF c.id = Mine(h).id THEN [c EXCEPT !.issued = TRUE, !.alias = req[h].answer]
                        ELSE c : c \in counters}
    BY <1>4 DEF Apply
  <2>2. ASSUME NEW c \in Attached, c.number = 1
        PROVE  \E d \in counters' : d.number = 1 /\ d.attached
    <3>1. c \in counters /\ c \in Counter /\ c.attached
      BY DEF Attached, TablesOK, Snapshot, Good
    <3>2. /\ [c EXCEPT !.issued = TRUE, !.alias = req[h].answer].number = 1
          /\ [c EXCEPT !.issued = TRUE, !.alias = req[h].answer].attached
      BY <2>2, <3>1 DEF Counter
    <3> QED BY <2>1, <2>2, <3>1, <3>2
  <2> QED BY <2>1, <2>2, OneKept, QuietNumbers
<1>5. CASE Approve
  <2>1. /\ UNCHANGED <<next, numbers, stale>>
        /\ counters' = {IF c.attached THEN [c EXCEPT !.alias = FinalAlias(c), !.issued = TRUE]
                        ELSE c : c \in counters}
    BY <1>5 DEF Approve
  <2>2. ASSUME NEW c \in Attached, c.number = 1
        PROVE  \E d \in counters' : d.number = 1 /\ d.attached
    <3>1. c \in counters /\ c \in Counter /\ c.attached
      BY DEF Attached, TablesOK, Snapshot, Good
    <3>2. /\ [c EXCEPT !.alias = FinalAlias(c), !.issued = TRUE].number = 1
          /\ [c EXCEPT !.alias = FinalAlias(c), !.issued = TRUE].attached
      BY <2>2, <3>1 DEF Counter
    <3> QED BY <2>1, <3>1, <3>2
  <2> QED BY <2>1, <2>2, OneKept, QuietNumbers
<1>6. CASE UNCHANGED <<counters, next, numbers, stale>>
  BY <1>6, QuietNumbers DEF HasOne, Attached
<1>7. ASSUME NEW h \in Handlers, Step(h) PROVE NumbersInv'
  BY <1>1, <1>2, <1>3, <1>4, <1>6, <1>7, VerifyNumbers, SyncNumbers DEF Step, Validate, LookLocally,
     LookInRegistry, Find, Register, Record, Fail
<1>8. ASSUME NEW h \in Handlers, Arrive(h) PROVE NumbersInv'
  BY <1>1, <1>8, ArriveKeeps DEF rows
<1>9. ASSUME NEW a \in Wanted, Contest(a) PROVE NumbersInv'
  BY <1>6, <1>9 DEF Contest
<1> QED BY <1>1, <1>5, <1>7, <1>8, <1>9 DEF Next, vars

(* A synchronization on rows as they are leaves what is issued as it is.     *)
LEMMA SyncKeepsIssued ==
  ASSUME TablesOK, HandlersOK, NEW h \in Handlers, Sync(h), UpToDate(h),
         NEW c \in Attached, c.issued
  PROVE  \E d \in counters' : /\ d.id = c.id /\ d.alias = c.alias
                              /\ d.number = c.number /\ d.issued /\ d.attached
<1>1. /\ req[h] \in LocationRequest /\ Snapshot(req[h].rows) /\ req[h].rows = Attached
  BY HeldLocation DEF Sync, UpToDate
<1>2. c \in counters /\ c \in Counter /\ c.attached /\ c \in req[h].rows
  BY <1>1 DEF Attached, TablesOK, Snapshot, Good
<1>3. CASE UNCHANGED rows
  BY <1>2, <1>3 DEF rows
<1>4. CASE ~UNCHANGED rows
  <2>0. PICK k \in Nat, b \in Nat, used \in SUBSET Available(req[h]) : \E target :
               Written(req[h], k, b, used, target)
    BY <1>4, SyncShape
  <2>1. PICK target : Written(req[h], k, b, used, target)
    BY <2>0
  <2> DEFINE r == req[h]
  <2>2. /\ \A e \in used : ~(e.issued /\ Renamed(r, e, target) # e)
        /\ c \notin Available(r) \ used
    BY <2>1 DEF Written, Refused
  <2>3. CASE c \in used
    <3>1. Renamed(r, c, target) = c
      BY <2>2, <2>3
    <3>2. Placed(r, c, target) \in counters'
      BY <2>1, <2>3 DEF Written
    <3> QED BY <1>1, <1>2, <3>1, <3>2, PlacedFact DEF SameRow
  <2>4. CASE c \notin Available(r)
    <3>1. c.id \notin AvailableIds(r)
      BY <1>1, <1>2, <2>4 DEF AvailableIds, Available, Snapshot, DifferentIds
    <3>2. Kept(r, c) \in counters'
      BY <1>2, <2>1, <3>1 DEF Written
    <3> QED BY <1>2, <3>2, KeptFact DEF SameRow
  <2> QED BY <2>2, <2>3, <2>4
<1> QED BY <1>3, <1>4

-----------------------------------------------------------------------------
(* The limit.  Until a location request wrote over what it had not loaded,   *)
(* the merchant has all its counters, and the primary one is the first that *)
(* is ever numbered: what a location request creates beside an added counter *)
(* is numbered above it.                                                    *)
FirstInv ==
  ~stale =>
    /\ \A c \in counters : c.attached
    /\ status = "approved" \/ numbers # <<>> => \E i \in DOMAIN numbers : numbers[i] = 1

LimitInv == NumbersInv /\ FirstInv /\ AddsKeepLimit

(* What a row there is comes from, or a new one a location request wrote.    *)
Traced(d) ==
  \/ \E c \in counters : SameRow(c, d)
  \/ d.key = NoKey /\ \A c \in counters : c.number < d.number

LEMMA OneFirst ==
  ASSUME TablesOK, NumbersInv, FirstInv, ~stale, counters # {}
  PROVE  HasOne
<1>1. PICK c \in counters : c.id \in 1..Len(numbers)
  BY NumbersFact, CounterFields DEF TablesOK, Snapshot, Good, Ids
<1>2. numbers # <<>>
  BY <1>1, NumbersFact DEF TablesOK
<1> QED BY <1>2 DEF NumbersInv, FirstInv

(* The rows up to a number, each put down to the row it was.                  *)
LEMMA TracedLimit ==
  ASSUME TablesOK, TablesOK', AddsKeepLimit, ~stale, \A d \in counters' : Traced(d)
  PROVE  AddsKeepLimit'
<1> SUFFICES ASSUME NEW d \in counters', d.key # NoKey
             PROVE  Cardinality({e \in counters' : e.number <= d.number}) <= MaxCounters
  BY DEF AddsKeepLimit
<1> DEFINE S == {e \in counters : e.number <= d.number}
           T == {e \in counters' : e.number <= d.number}
           f == [e \in T |-> CHOOSE c \in counters : SameRow(c, e)]
<1>1. PICK c \in counters : SameRow(c, d)
  BY DEF Traced
<1>2. c.key # NoKey /\ c.number = d.number
  BY <1>1 DEF SameRow
<1>3. Cardinality(S) <= MaxCounters
  BY <1>2 DEF AddsKeepLimit
<1>4. ASSUME NEW e \in T PROVE f[e] \in S /\ SameRow(f[e], e)
  <2>1. c.number \in Nat /\ e.number \in Nat /\ ~(c.number < e.number)
    BY <1>2 DEF TablesOK, Snapshot, Good, Counter, Numbers
  <2>2. \E x \in counters : SameRow(x, e)
    BY <2>1 DEF Traced
  <2>3. f[e] \in counters /\ SameRow(f[e], e)
    BY <2>2
  <2> QED BY <2>3 DEF SameRow
<1>5. \A x, y \in T : x.id = y.id => x = y
  BY DEF TablesOK, Snapshot, DifferentIds
<1>6. f \in Injection(T, S)
  <2>1. f \in [T -> S]
    BY <1>4
  <2>2. \A x, y \in T : f[x] = f[y] => x = y
    BY <1>4, <1>5 DEF SameRow
  <2> HIDE DEF f, S, T
  <2> QED BY <2>1, <2>2 DEF Injection, IsInjective
<1>7. IsFiniteSet(S)
  <2>1. Snapshot(S)
    BY DEF TablesOK, Snapshot, DifferentIds
  <2> QED BY <2>1, SnapshotFinite
<1>8. Cardinality(T) <= Cardinality(S) /\ IsFiniteSet(T)
  BY <1>6, <1>7, FS_Injection
<1>9. Cardinality(T) \in Nat /\ Cardinality(S) \in Nat
  BY <1>7, <1>8, FS_CardinalityType
<1> QED BY <1>3, <1>8, <1>9, ConstantFacts

(* Removals, and the updates of an approval or a registration.               *)
LEMMA UpdatedRows ==
  ASSUME TablesOK, LimitInv, ~stale, ~stale', UNCHANGED <<numbers, next>>,
         \A d \in counters' : \E c \in counters : SameRow(c, d) /\ (c.attached => d.attached),
         status' # status => HasOne
  PROVE  FirstInv' /\ \A d \in counters' : Traced(d)
<1>1. \A d \in counters' : d.attached /\ Traced(d)
  BY DEF LimitInv, FirstInv, Traced
<1>2. HasOne => \E i \in DOMAIN numbers : numbers[i] = 1
  <2>1. ASSUME NEW c \in counters PROVE c.id \in DOMAIN numbers /\ c.number = numbers[c.id]
    BY NumbersFact, CounterFields DEF TablesOK, Snapshot, Good, Ids
  <2> QED BY <2>1 DEF HasOne, Attached
<1> QED BY <1>1, <1>2 DEF LimitInv, FirstInv

LEMMA VerifyRows ==
  ASSUME TablesOK, HandlersOK, LimitInv, ~stale', NEW h \in Handlers, Verify(h)
  PROVE  ~stale /\ FirstInv' /\ \A d \in counters' : Traced(d)
<1> DEFINE known == {d.id : d \in req[h].rows}
<1>1. /\ counters' = {[c EXCEPT !.attached = c.id \in known] : c \in counters}
      /\ next' = req[h].next /\ status' = req[h].status /\ UNCHANGED numbers
      /\ stale' = (stale \/ req[h].rows # Attached \/ req[h].next # next
                         \/ req[h].status # status)
  BY DEF Verify
<1>2. ~stale /\ req[h].rows = Attached /\ next' = next /\ status' = status
  BY <1>1
<1>3. ASSUME NEW c \in counters
      PROVE  /\ SameRow(c, [c EXCEPT !.attached = c.id \in known])
             /\ c.attached => [c EXCEPT !.attached = c.id \in known].attached
  <2>1. c \in Counter
    BY DEF TablesOK, Snapshot, Good
  <2>2. CASE c.attached
    <3>1. (c.id \in known) = TRUE
      BY <1>2, <2>2 DEF Attached
    <3>2. [c EXCEPT !.attached = c.id \in known] = [c EXCEPT !.attached = TRUE]
      BY <3>1
    <3> HIDE DEF known
    <3> QED BY <2>1, <3>2 DEF Counter, SameRow
  <2>3. CASE ~c.attached
    <3> HIDE DEF known
    <3> QED BY <2>1, <2>3 DEF Counter, SameRow
  <2> QED BY <2>2, <2>3
<1> HIDE DEF known
<1> QED BY <1>1, <1>2, <1>3, UpdatedRows

LEMMA SyncRows ==
  ASSUME TablesOK, HandlersOK, LimitInv, ~stale', NEW h \in Handlers, Sync(h)
  PROVE  ~stale /\ FirstInv' /\ \A d \in counters' : Traced(d)
<1>1. CASE UNCHANGED rows
  BY <1>1 DEF rows, LimitInv, FirstInv, Traced, SameRow
<1>2. CASE ~UNCHANGED rows
  <2>1. /\ req[h] \in LocationRequest /\ Snapshot(req[h].rows)
    BY HeldLocation DEF Sync
  <2>2. PICK k \in Nat, b \in Nat, used \in SUBSET Available(req[h]) : \E target :
               Written(req[h], k, b, used, target)
    BY <1>2, SyncShape
  <2>3. PICK target : Written(req[h], k, b, used, target)
    BY <2>2
  <2> DEFINE r == req[h]
  <2>4. /\ ~stale /\ r.rows = Attached /\ b >= 2 /\ UNCHANGED status
        /\ \A c \in r.rows : b > c.number
    BY <2>3 DEF Written
  <2>5. Attached = counters
    BY <2>4 DEF LimitInv, FirstInv, Attached
  <2>6. /\ Len(numbers') = Len(numbers) + k /\ Grown
        /\ \A i \in 1..k : numbers'[Len(numbers) + i] = NewNumber(r, b, i)
        /\ Len(numbers) \in Nat /\ DOMAIN numbers = 1..Len(numbers)
        /\ DOMAIN numbers' = 1..(Len(numbers) + k)
    BY <2>3, WrittenNumbers, NumbersFact, LenProperties DEF TablesOK
  <2>7. \A i \in 1..k : NewNumber(r, b, i) =
          IF HasPrimary(r) THEN b + i - 1 ELSE IF i = 1 THEN 1 ELSE b + i - 2
    BY <2>3, NewNumbersFact DEF Written
  <2>8. HasPrimary(r) <=> HasOne
    BY <2>4 DEF HasPrimary, HasOne
  <2> HIDE DEF r
  <2>9. ASSUME NEW d \in counters' PROVE d.attached /\ Traced(d)
    <3>1. Origin(r, k, b, used, target, d)
      BY <2>1, <2>3, WrittenRow DEF r
    <3>2. ASSUME NEW c \in counters, d = Kept(r, c), SameRow(c, d) PROVE d.attached /\ Traced(d)
      BY <2>4, <3>2, KeptFact DEF Traced, LimitInv, FirstInv, TablesOK, Snapshot, Good
    <3>3. ASSUME NEW c \in used, d = Placed(r, c, target), SameRow(c, d)
          PROVE  d.attached /\ Traced(d)
      <4>1. c \in counters /\ c \in Counter
        BY <2>1, <2>4, <2>5 DEF Available, Snapshot, Good, r
      <4> QED BY <2>1, <3>3, <4>1, PlacedFact DEF Traced, r
    <3>4. ASSUME NEW i \in 1..k, d = NewCounter(r, b, i, target), d.number = NewNumber(r, b, i)
          PROVE  d.attached /\ Traced(d)
      <4>1. d.key = NoKey /\ d.attached
        BY <2>1, <2>3, <2>4, <3>4, NewCounterFact DEF Written, r
      <4>2. ASSUME NEW c \in counters PROVE c.number < d.number
        <5>1. HasOne
          BY <2>4, OneFirst DEF LimitInv
        <5>2. d.number = b + i - 1
          BY <2>7, <2>8, <3>4, <5>1
        <5>3. b > c.number /\ c.number \in Nat
          BY <2>4, <2>5 DEF TablesOK, Snapshot, Good, Counter, Numbers
        <5> QED BY <5>2, <5>3
      <4> QED BY <4>1, <4>2 DEF Traced
    <3> QED BY <3>1, <3>2, <3>3, <3>4 DEF Origin
  <2>10. ASSUME status' = "approved" \/ numbers' # <<>>
         PROVE  \E i \in DOMAIN numbers' : numbers'[i] = 1
    <3>1. CASE \E i \in DOMAIN numbers : numbers[i] = 1
      BY <2>6, <3>1 DEF Grown
    <3>2. CASE ~\E i \in DOMAIN numbers : numbers[i] = 1
      <4>1. status # "approved" /\ numbers = <<>>
        BY <2>4, <3>2 DEF LimitInv, FirstInv
      <4>2. Len(numbers) = 0 /\ k # 0
        <5>1. Len(numbers) = 0
          BY <4>1
        <5>2. numbers' # <<>> /\ numbers' \in Seq(Numbers)
          BY <2>4, <2>10, <4>1, <2>6 DEF Grown
        <5> QED BY <2>6, <5>1, <5>2, EmptySeq
      <4>3. ~HasOne
        <5>1. ASSUME NEW c \in counters PROVE c.id \in 1..Len(numbers)
          BY NumbersFact, CounterFields DEF TablesOK, Snapshot, Good, Ids
        <5> QED BY <4>2, <5>1 DEF HasOne, Attached
      <4>4. numbers'[1] = 1 /\ 1 \in DOMAIN numbers'
        BY <2>6, <2>7, <2>8, <4>2, <4>3
      <4> QED BY <4>4
    <3> QED BY <3>1, <3>2
  <2> QED BY <2>4, <2>9, <2>10 DEF FirstInv
<1> QED BY <1>1, <1>2

(* An addition finds the merchant below its limit, and every row numbered    *)
(* below the one it inserts.                                                *)
LEMMA InsertRows ==
  ASSUME TablesOK, HandlersOK, LimitInv, ~stale, NEW h \in Handlers, NEW b \in Numbers,
         NEW x \in Counter, Inserts(h, b, x)
  PROVE  FirstInv' /\ AddsKeepLimit'
<1>1. /\ ~stale' /\ counters' = counters \cup {x} /\ UNCHANGED status /\ status = "approved"
      /\ x.number = b /\ x.attached /\ BelowLimit(Attached)
  BY DEF Inserts
<1>2. Attached = counters /\ IsFiniteSet(counters)
  BY SnapshotFinite DEF LimitInv, FirstInv, Attached, TablesOK
<1>3. /\ Grown /\ Len(numbers) \in Nat /\ DOMAIN numbers = 1..Len(numbers)
      /\ DOMAIN numbers' = 1..(Len(numbers) + 1)
  BY AppendedNumber, NumbersFact, LenProperties DEF Inserts, TablesOK
<1>4. FirstInv'
  <2>1. \E i \in DOMAIN numbers : numbers[i] = 1
    BY <1>1 DEF LimitInv, FirstInv
  <2>2. \E i \in DOMAIN numbers' : numbers'[i] = 1
    BY <1>3, <2>1 DEF Grown
  <2>3. \A d \in counters' : d.attached
    BY <1>1 DEF LimitInv, FirstInv
  <2> QED BY <2>2, <2>3 DEF FirstInv
<1>5. ASSUME NEW d \in counters', d.key # NoKey
      PROVE  Cardinality({e \in counters' : e.number <= d.number}) <= MaxCounters
  <2>1. \A c \in counters : c.number \in Nat /\ c.number < b /\ b \in Nat
    BY <1>2, ConstantFacts DEF Inserts, AddNumber, IsNextNumber, TablesOK, Snapshot, Good, Counter,
       Numbers
  <2>2. CASE d \in counters
    <3>1. ~(b <= d.number)
      BY <2>1, <2>2
    <3>2. {e \in counters' : e.number <= d.number} = {e \in counters : e.number <= d.number}
      BY <1>1, <3>1
    <3> QED BY <1>5, <2>2, <3>2 DEF LimitInv, AddsKeepLimit
  <2>3. CASE d = x
    <3>1. {e \in counters' : e.number <= d.number} \subseteq counters \cup {x}
      BY <1>1
    <3>2. Cardinality(counters \cup {x}) <= Cardinality(counters) + 1
          /\ IsFiniteSet(counters \cup {x}) /\ Cardinality(counters) \in Nat
      <4>1. IsFiniteSet(counters \cup {x})
            /\ Cardinality(counters \cup {x})
                 = (IF x \in counters THEN Cardinality(counters) ELSE Cardinality(counters) + 1)
        BY <1>2, FS_AddElement, Zenon
      <4>2. Cardinality(counters) \in Nat
        BY <1>2, FS_CardinalityType
      <4> QED BY <4>1, <4>2
    <3>3. Cardinality({e \in counters' : e.number <= d.number}) <= Cardinality(counters \cup {x})
          /\ IsFiniteSet({e \in counters' : e.number <= d.number})
      BY <3>1, <3>2, FS_Subset
    <3>4. Cardinality({e \in counters' : e.number <= d.number}) \in Nat
          /\ Cardinality(counters \cup {x}) \in Nat
      BY <3>2, <3>3, FS_CardinalityType
    <3>5. Cardinality(counters) < MaxCounters
      BY <1>1, <1>2 DEF BelowLimit
    <3> QED BY <3>2, <3>3, <3>4, <3>5, ConstantFacts
  <2> QED BY <1>1, <2>2, <2>3
<1> QED BY <1>4, <1>5 DEF AddsKeepLimit

LEMMA LimitInit == Init => LimitInv
<1> SUFFICES ASSUME Init PROVE LimitInv
  OBVIOUS
<1>1. NumbersInv
  BY NumbersInit
<1>2. \A c \in counters : c.attached /\ c.key = NoKey
  BY DEF Init, Primary
<1>3. (status = "approved" \/ numbers # <<>>) => numbers = <<1>>
  BY DEF Init
<1>4. numbers = <<1>> => 1 \in DOMAIN numbers /\ numbers[1] = 1
  OBVIOUS
<1> QED BY <1>1, <1>2, <1>3, <1>4 DEF LimitInv, FirstInv, AddsKeepLimit

LEMMA LimitStep ==
  ASSUME TablesOK, HandlersOK, TablesOK', LimitInv, ~stale', [Next]_vars
  PROVE  FirstInv' /\ AddsKeepLimit'
<1>1. CASE UNCHANGED <<counters, numbers, status, stale>>
  BY <1>1 DEF LimitInv, FirstInv, AddsKeepLimit
<1>2. CASE ~stale /\ FirstInv' /\ \A d \in counters' : Traced(d)
  BY <1>2, TracedLimit DEF LimitInv
<1>3. ASSUME NEW h \in Handlers, Insert(h) PROVE FirstInv' /\ AddsKeepLimit'
  <2>1. CASE UNCHANGED rows
    BY <1>1, <2>1 DEF rows
  <2>2. CASE \E c \in RowsWith(req[h].key) : Replay(h, req[h], c)
    BY <1>1, <2>2 DEF Replay, rows
  <2>3. CASE \E b \in Numbers, c \in Counter : Inserts(h, b, c)
    <3>1. ~stale
      BY <2>3 DEF Inserts
    <3> QED BY <2>3, <3>1, InsertRows
  <2> QED BY <1>3, <2>1, <2>2, <2>3, InsertShape
<1>4. ASSUME NEW h \in Handlers, Withdraw(h) PROVE FirstInv' /\ AddsKeepLimit'
  <2>1. /\ counters' = {c \in counters : c.id # Mine(h).id}
        /\ UNCHANGED <<next, status, numbers, stale>>
    BY <1>4 DEF Withdraw
  <2> QED BY <1>2, <2>1, UpdatedRows DEF SameRow
<1>5. ASSUME NEW h \in Handlers, Apply(h) PROVE FirstInv' /\ AddsKeepLimit'
  <2>1. /\ UNCHANGED <<next, numbers, stale>>
        /\ counters' = {IF c.id = Mine(h).id THEN [c EXCEPT !.issued = TRUE, !.alias = req[h].answer]
                        ELSE c : c \in counters}
    BY <1>5 DEF Apply
  <2>2. HasOne
    <3>1. Good(Mine(h)) /\ Mine(h) \in Counter
      BY <1>5, MineFact DEF Apply, CounterLabels
    <3>2. Mine(h).id \in DOMAIN numbers
      BY <3>1, NumbersFact, CounterFields DEF Good, TablesOK, Ids
    <3>3. numbers # <<>>
      BY <3>2, NumbersFact DEF TablesOK
    <3> QED BY <2>1, <3>3 DEF LimitInv, FirstInv, NumbersInv
  <2>3. ASSUME NEW c \in counters, NEW a
        PROVE  SameRow(c, [c EXCEPT !.issued = TRUE, !.alias = a])
               /\ (c.attached => [c EXCEPT !.issued = TRUE, !.alias = a].attached)
    BY DEF TablesOK, Snapshot, Good, Counter, SameRow
  <2>4. \A c \in counters : SameRow(c, c)
    BY DEF SameRow
  <2>5. ASSUME NEW d \in counters'
        PROVE  \E c \in counters : SameRow(c, d) /\ (c.attached => d.attached)
    <3>1. PICK c \in counters :
            d = IF c.id = Mine(h).id THEN [c EXCEPT !.issued = TRUE, !.alias = req[h].answer] ELSE c
      BY <2>1
    <3> QED BY <2>3, <2>4, <3>1
  <2> QED BY <1>2, <2>1, <2>2, <2>5, UpdatedRows
<1>6. CASE Approve
  <2>1. /\ UNCHANGED <<next, numbers, stale>> /\ Attached # {}
        /\ counters' = {IF c.attached THEN [c EXCEPT !.alias = FinalAlias(c), !.issued = TRUE]
                        ELSE c : c \in counters}
    BY <1>6 DEF Approve
  <2>2. HasOne
    BY <2>1, OneFirst DEF LimitInv, Attached
  <2>3. ASSUME NEW c \in counters, NEW a
        PROVE  SameRow(c, [c EXCEPT !.alias = a, !.issued = TRUE])
               /\ (c.attached => [c EXCEPT !.alias = a, !.issued = TRUE].attached)
    BY DEF TablesOK, Snapshot, Good, Counter, SameRow
  <2>4. \A c \in counters : SameRow(c, c)
    BY DEF SameRow
  <2>5. ASSUME NEW d \in counters'
        PROVE  \E c \in counters : SameRow(c, d) /\ (c.attached => d.attached)
    <3>1. PICK c \in counters :
            d = IF c.attached THEN [c EXCEPT !.alias = FinalAlias(c), !.issued = TRUE] ELSE c
      BY <2>1
    <3> QED BY <2>3, <2>4, <3>1
  <2> QED BY <1>2, <2>1, <2>2, <2>5, UpdatedRows
<1>7. ASSUME NEW h \in Handlers, Verify(h) \/ Sync(h) PROVE FirstInv' /\ AddsKeepLimit'
  BY <1>2, <1>7, VerifyRows, SyncRows
<1>8. ASSUME NEW h \in Handlers, Step(h) PROVE FirstInv' /\ AddsKeepLimit'
  BY <1>1, <1>3, <1>4, <1>5, <1>7, <1>8 DEF Step, Validate, LookLocally, LookInRegistry,
     Find, Register, Record, Fail, rows
<1>9. ASSUME NEW h \in Handlers, Arrive(h) PROVE FirstInv' /\ AddsKeepLimit'
  BY <1>1, <1>9, ArriveKeeps DEF rows
<1>10. ASSUME NEW a \in Wanted, Contest(a) PROVE FirstInv' /\ AddsKeepLimit'
  BY <1>1, <1>10 DEF Contest
<1> QED BY <1>1, <1>6, <1>8, <1>9, <1>10 DEF Next, vars, rows
-----------------------------------------------------------------------------
(* Aliases.  A row, whoever has a copy of it, has no alias, one somebody     *)
(* asked for, or the one built for its number; the oracle's aliases have one *)
(* owner each.                                                              *)
Fits(c) == c.alias \in Wanted \cup {NoAlias, Generated[c.number]}

RegistryFits ==
  /\ \A e \in registry :
       \/ e.alias \in Wanted
       \/ e.id \in 1..Len(numbers) /\ e.alias = Generated[numbers[e.id]]
  /\ \A e, f \in registry : e.alias = f.alias => e.id = f.id

(* What the oracle answers for a counter with a body: the alias asked for,    *)
(* or one that fits.                                                        *)
Answers(a, number, alias) ==
  a \in Wanted \cup {Generated[number]} /\ (alias # NoAlias => a = alias)

RecordsFit ==
  \A e \in records : e.id \in 1..Len(numbers) /\ Answers(e.answer, numbers[e.id], e.alias)

(* What a registration is refused for.                                      *)
Contested(c) ==
  \/ c.alias \in Wanted
  \/ c.alias = NoAlias /\ Generated[c.number] \in Wanted

AliasHeld(h) ==
  /\ pc[h] \in {"validate", "verify", "sync"} =>
       /\ req[h].alias \in Wanted \cup {NoAlias, Unchanged}
       /\ \A c \in req[h].rows : Fits(c)
  /\ pc[h] = "insert" => req[h].alias \in Wanted \cup {NoAlias}
  /\ pc[h] \in CounterLabels => Fits(Mine(h))
  /\ pc[h] \in {"local", "oracle"} => Mine(h).alias # NoAlias
  /\ pc[h] \in {"record", "apply"} => Answers(req[h].answer, Mine(h).number, Mine(h).alias)
  /\ pc[h] = "withdraw" /\ ~stale /\ req[h].key \notin altered => Mine(h).alias \in Wanted

AliasInv ==
  /\ \A c \in counters : Fits(c)
  /\ RegistryFits
  /\ \A h \in Handlers : AliasHeld(h)

(* Keys.  The counter of a key that nothing altered is there, once, with the *)
(* alias it was inserted with; every request that holds it and every record *)
(* of the key agree with it.                                                *)
StillThere(c) == \E d \in counters : d.id = c.id /\ d.key = c.key /\ d.alias = c.alias

KeyRows ==
  /\ \A c \in counters : c.key # NoKey => status = "approved"
  /\ \A c, d \in counters : c.key # NoKey /\ c.key = d.key => c.id = d.id
  /\ \A c \in counters : c.key \in Keys \ altered => c.alias # NoAlias

KeyRecords == \A e \in records : e.key \in Keys \ altered => StillThere(e)

KeyHeld(h) ==
  pc[h] \in CounterLabels =>
    /\ Mine(h).key \in Keys \ altered => StillThere(Mine(h))
    /\ \A d \in counters : d.id = Mine(h).id => d.key = Mine(h).key
    /\ req[h].key \in {Mine(h).key, NoKey}

KeyInv == ~stale => KeyRows /\ KeyRecords /\ \A h \in Handlers : KeyHeld(h)

GeneratedDiffer == \A m, n \in Numbers : Generated[m] = Generated[n] => m = n

LEMMA FitsSame ==
  ASSUME NEW c, NEW d, Fits(c), d.number = c.number,
         d.alias = c.alias \/ d.alias \in Wanted \cup {NoAlias}
  PROVE  Fits(d)
BY DEF Fits

LEMMA FinalAliasFits ==
  ASSUME TablesOK, RegistryFits, NEW c \in Counter, Good(c), Fits(c)
  PROVE  /\ FinalAlias(c) \in Wanted \cup {Generated[c.number]}
         /\ c.alias = NoAlias =>
              \/ OwnersOf(FinalAlias(c)) = {c.id}
              \/ FinalAlias(c) = Generated[c.number]
<1>1. NoAlias \notin Aliases /\ \A n \in Numbers : Generated[n] \in Aliases
  BY ConstantsAssumption, ConstantFacts
<1>2. CASE c.alias # NoAlias
  BY <1>2 DEF FinalAlias, Fits
<1>3. CASE c.alias = NoAlias /\ ~\E e \in registry : e.id = c.id
  BY <1>3 DEF FinalAlias
<1>4. CASE c.alias = NoAlias /\ \E e \in registry : e.id = c.id
  <2>1. PICK f \in registry : f.id = c.id /\ FinalAlias(c) = f.alias
    BY <1>4 DEF FinalAlias
  <2>2. f.alias \in Wanted \cup {Generated[c.number]}
    BY <2>1 DEF RegistryFits, Good
  <2>3. OwnersOf(f.alias) = {c.id}
    BY <2>1 DEF OwnersOf, RegistryFits
  <2> QED BY <2>1, <2>2, <2>3
<1> QED BY <1>2, <1>3, <1>4

(* Nobody else has the alias built for the number of a row.                  *)
LEMMA GeneratedIsFree ==
  ASSUME GeneratedDiffer, TablesOK, NumbersInv, RegistryFits, ~stale,
         NEW c \in Counter, Good(c), Generated[c.number] \notin Wanted
  PROVE  /\ FreeInRegistry(Generated[c.number], {c.id})
         /\ (\A d \in counters : Fits(d)) => FreeLocally(Generated[c.number], {c.id})
<1>1. /\ c.id \in DOMAIN numbers /\ c.number \in Numbers /\ c.number = numbers[c.id]
      /\ NoAlias \notin Aliases /\ Generated[c.number] \in Aliases
  BY NumbersFact, CounterFields, ConstantFacts, ConstantsAssumption DEF Good, TablesOK, Ids
<1>2. \A i, j \in DOMAIN numbers : numbers[i] = numbers[j] => i = j
  BY DEF NumbersInv
<1>3. \A i \in DOMAIN numbers : numbers[i] \in Numbers
  BY NumbersFact DEF TablesOK
<1>4. ASSUME NEW e \in registry, e.alias = Generated[c.number] PROVE e.id = c.id
  <2>1. e.id \in DOMAIN numbers /\ Generated[numbers[e.id]] = Generated[c.number]
    BY <1>4, NumbersFact DEF RegistryFits, TablesOK
  <2> QED BY <1>1, <1>2, <1>3, <2>1 DEF GeneratedDiffer
<1>5. ASSUME NEW d \in counters, Fits(d), d.alias = Generated[c.number] PROVE d.id = c.id
  <2>1. d.id \in DOMAIN numbers /\ d.number \in Numbers /\ d.number = numbers[d.id]
    BY NumbersFact, CounterFields DEF Snapshot, Good, TablesOK, Ids
  <2>2. Generated[d.number] = Generated[c.number]
    BY <1>1, <1>5 DEF Fits
  <2> QED BY <1>1, <1>2, <2>1, <2>2 DEF GeneratedDiffer
<1> QED BY <1>4, <1>5 DEF FreeInRegistry, OwnersOf, FreeLocally

(* What has once been written over or altered stays so.                      *)
Onward == (stale => stale') /\ altered \subseteq altered'

(* A request at rest with what it has.                                      *)
LEMMA AliasStill ==
  ASSUME NEW g \in Handlers, AliasHeld(g), pc'[g] = pc[g], req'[g] = req[g], Onward
  PROVE  AliasHeld(g)'
BY DEF AliasHeld, Mine, Fits, Onward

LEMMA RegistryStill ==
  ASSUME TablesOK, RegistryFits, Grown, registry' = registry
  PROVE  RegistryFits'
<1>1. \A i \in 1..Len(numbers) : i \in 1..Len(numbers') /\ numbers'[i] = numbers[i]
  BY NumbersFact, LenProperties DEF TablesOK, Grown
<1> QED BY <1>1 DEF RegistryFits

LEMMA RecordsStill ==
  ASSUME TablesOK, RecordsFit, Grown, records' = records
  PROVE  RecordsFit'
<1>1. \A i \in 1..Len(numbers) : i \in 1..Len(numbers') /\ numbers'[i] = numbers[i]
  BY NumbersFact, LenProperties DEF TablesOK, Grown
<1> QED BY <1>1 DEF RecordsFit, Answers

LEMMA AliasMoves ==
  ASSUME HandlersOK, \A g \in Handlers : AliasHeld(g), Onward, NEW h \in Handlers,
         NEW label \in Labels, Goto(h, label),
         \A g \in Handlers \ {h} : req'[g] = req[g],
         pc'[h] = label => AliasHeld(h)'
  PROVE  \A g \in Handlers : AliasHeld(g)'
BY GotoFact, AliasStill

LEMMA AliasFinish ==
  ASSUME HandlersOK, \A g \in Handlers : AliasHeld(g), Onward, NEW h \in Handlers,
         Finish(h)
  PROVE  \A g \in Handlers : AliasHeld(g)'
<1>1. Goto(h, "idle") /\ "idle" \in Labels /\ req' = [req EXCEPT ![h] = NoRequest]
  BY DEF Finish, Labels
<1>2. \A g \in Handlers \ {h} : req'[g] = req[g]
  BY <1>1, RequestFact
<1>3. pc'[h] = "idle" => AliasHeld(h)'
  BY DEF AliasHeld, CounterLabels
<1> QED BY <1>1, <1>2, <1>3, AliasMoves

(* A request that goes on with one counter.                                 *)
LEMMA AliasGoes ==
  ASSUME HandlersOK, \A g \in Handlers : AliasHeld(g), Onward, NEW h \in Handlers,
         NEW label \in {"local", "find"}, Goto(h, label),
         NEW r \in CounterRequest, req' = [req EXCEPT ![h] = r], NEW c, r.counter = {c}, Fits(c),
         label = "local" => c.alias # NoAlias
  PROVE  \A g \in Handlers : AliasHeld(g)'
<1>1. label \in Labels
  BY DEF Labels
<1>2. req'[h] = r /\ \A g \in Handlers \ {h} : req'[g] = req[g]
  BY RequestFact
<1>3. Mine(h)' = c
  BY <1>2 DEF Mine
<1>4. Fits(Mine(h))' /\ (label = "local" => Mine(h)'.alias # NoAlias)
  BY <1>3 DEF Fits
<1>5. pc'[h] = label => AliasHeld(h)'
  BY <1>4 DEF AliasHeld
<1> QED BY <1>1, <1>2, <1>5, AliasMoves

LEMMA AliasReplay ==
  ASSUME TablesOK, HandlersOK, AliasInv, NEW h \in Handlers, NEW r \in CounterRequest,
         NEW c \in counters, Replay(h, r, c)
  PROVE  AliasInv'
<1>1. UNCHANGED rows /\ Grown
  BY RowsStill DEF Replay
<1>2. (\A d \in counters' : Fits(d)) /\ RegistryFits'
  BY <1>1, RegistryStill DEF rows, AliasInv
<1>3. Onward
  BY <1>1 DEF rows, Onward
<1>4. CASE Finish(h)
  BY <1>2, <1>3, <1>4, AliasFinish DEF AliasInv, Fits
<1>5. CASE req' = [req EXCEPT ![h] = [r EXCEPT !.counter = {c}]] /\ Goto(h, "find")
  <2>1. c \in Counter
    BY DEF TablesOK, Snapshot, Good
  <2>2. PICK q \in CounterRequest : q.counter = {c} /\ req' = [req EXCEPT ![h] = q]
    BY <1>5, <2>1 DEF CounterRequest
  <2>3. \A g \in Handlers : AliasHeld(g)'
    BY <1>3, <1>5, <2>2, AliasGoes DEF AliasInv
  <2> QED BY <1>2, <2>3 DEF AliasInv, Fits
<1> QED BY <1>4, <1>5 DEF Replay

LEMMA AliasArrive ==
  ASSUME TablesOK, HandlersOK, AliasInv, NEW h \in Handlers, Arrive(h)
  PROVE  AliasInv'
<1>1. ASSUME UNCHANGED rows PROVE (\A d \in counters' : Fits(d)) /\ RegistryFits' /\ Onward
  <2>1. Grown
    BY <1>1, RowsStill
  <2> QED BY <1>1, <2>1, RegistryStill DEF rows, AliasInv, Onward
<1>2. ASSUME NEW o \in {"post", "put"}, NEW l \in Locations, Load(h, o, l) PROVE AliasInv'
  <2>1. UNCHANGED rows /\ Goto(h, "validate") /\ "validate" \in Labels
    BY <1>2 DEF Load, Labels
  <2>2. PICK n \in 0..MaxFresh, ks \in SUBSET {c.id : c \in Attached},
             a \in Wanted \cup {NoAlias, Unchanged} :
          \E i \in ks \cup {0} :
            req' = [req EXCEPT ![h] = [op |-> o, location |-> l, rows |-> Attached, next |-> next,
                                       status |-> status, keep |-> ks, fresh |-> n, alias |-> a,
                                       named |-> i]]
    BY <1>2, Zenon DEF Load
  <2>3. PICK i \in ks \cup {0} :
            req' = [req EXCEPT ![h] = [op |-> o, location |-> l, rows |-> Attached, next |-> next,
                                       status |-> status, keep |-> ks, fresh |-> n, alias |-> a,
                                       named |-> i]]
    BY <2>2
  <2>4. /\ req'[h].rows = Attached /\ req'[h].alias = a
        /\ \A g \in Handlers \ {h} : req'[g] = req[g]
    BY <2>3 DEF HandlersOK
  <2>5. pc'[h] = "validate" => AliasHeld(h)'
    BY <2>4 DEF AliasHeld, AliasInv, Attached, Fits, CounterLabels
  <2>6. \A g \in Handlers : AliasHeld(g)'
    BY <1>1, <2>1, <2>4, <2>5, AliasMoves DEF AliasInv
  <2> QED BY <1>1, <2>1, <2>6 DEF AliasInv, Fits
<1>3. ASSUME NEW k \in Keys, NEW a \in Wanted \cup {NoAlias}, NEW l \in Locations, LoadAdd(h, k, a, l)
      PROVE  AliasInv'
  <2> DEFINE r == [op |-> "add", key |-> k, alias |-> a, location |-> l, counter |-> {},
               answer |-> NoAlias]
  <2>1. r \in CounterRequest /\ r.alias = a
    BY ConstantFacts DEF CounterRequest
  <2>2. \/ UNCHANGED rows /\ req' = [req EXCEPT ![h] = r] /\ Goto(h, "insert")
        \/ \E c \in RowsWith(k) : Replay(h, r, c)
    BY <1>3 DEF LoadAdd
  <2> HIDE DEF r
  <2>3. CASE UNCHANGED rows /\ req' = [req EXCEPT ![h] = r] /\ Goto(h, "insert")
    <3>1. "insert" \in Labels /\ req'[h] = r /\ \A g \in Handlers \ {h} : req'[g] = req[g]
      BY <2>1, <2>3, RequestFact DEF Labels
    <3>2. pc'[h] = "insert" => AliasHeld(h)'
      BY <2>1, <3>1 DEF AliasHeld, CounterLabels
    <3>3. \A g \in Handlers : AliasHeld(g)'
      BY <1>1, <2>3, <3>1, <3>2, AliasMoves DEF AliasInv
    <3> QED BY <1>1, <2>3, <3>3 DEF AliasInv, Fits
  <2> QED BY <2>1, <2>2, <2>3, AliasReplay DEF RowsWith
<1>4. ASSUME NEW c \in counters, LoadRetry(h, c) PROVE AliasInv'
  <2> DEFINE q == [op |-> "retry", key |-> NoKey, alias |-> NoAlias, location |-> NoLocation,
                   counter |-> {c}, answer |-> NoAlias]
  <2>1. UNCHANGED rows /\ req' = [req EXCEPT ![h] = q] /\ Goto(h, "find")
    BY <1>4 DEF LoadRetry
  <2>2. q \in CounterRequest /\ q.counter = {c}
    BY DEF CounterRequest, TablesOK, Snapshot, Good
  <2> HIDE DEF q
  <2>3. \A g \in Handlers : AliasHeld(g)'
    BY <1>1, <2>1, <2>2, AliasGoes DEF AliasInv
  <2> QED BY <1>1, <2>1, <2>3 DEF AliasInv, Fits
<1> QED BY <1>2, <1>3, <1>4 DEF Arrive, LoadPost, LoadPut

(* Location requests.                                                       *)
LEMMA AliasLocation ==
  ASSUME TablesOK, HandlersOK, AliasInv, NEW h \in Handlers, Validate(h) \/ Verify(h)
  PROVE  AliasInv'
<1>1. /\ pc[h] \in {"validate", "verify", "sync"} /\ UNCHANGED <<registry, numbers>>
      /\ Onward
      /\ Finish(h) \/ \E label \in {"sync", "verify"} : Goto(h, label) /\ UNCHANGED req
  <2>1. CASE Validate(h)
    BY <2>1 DEF Validate, rows, Onward
  <2>2. CASE Verify(h)
    BY <2>2 DEF Verify, Onward
  <2> QED BY <2>1, <2>2
<1>2. RegistryFits'
  BY <1>1, GrownStill, RegistryStill DEF TablesOK, AliasInv
<1>3. ASSUME NEW d \in counters' PROVE Fits(d)
  <2>1. CASE UNCHANGED rows
    BY <2>1 DEF rows, AliasInv
  <2>2. CASE Verify(h)
    <3>1. PICK c \in counters : \E b : d = [c EXCEPT !.attached = b]
      BY <2>2 DEF Verify
    <3>2. c \in Counter /\ Fits(c)
      BY DEF TablesOK, Snapshot, Good, AliasInv
    <3>3. d.alias = c.alias /\ d.number = c.number
      BY <3>1, <3>2 DEF Counter
    <3> QED BY <3>2, <3>3, FitsSame
  <2> QED BY <2>1, <2>2 DEF Validate
<1>4. \A g \in Handlers : AliasHeld(g)'
  <2>1. CASE Finish(h)
    BY <1>1, <2>1, AliasFinish DEF AliasInv
  <2>2. ASSUME NEW label \in {"sync", "verify"}, Goto(h, label), UNCHANGED req
        PROVE  \A g \in Handlers : AliasHeld(g)'
    <3>1. AliasHeld(h) /\ label \in Labels
      BY DEF AliasInv, Labels
    <3>2. pc'[h] = label => AliasHeld(h)'
      BY <1>1, <2>2, <3>1 DEF AliasHeld, Fits, CounterLabels
    <3> QED BY <1>1, <2>2, <3>1, <3>2, AliasMoves DEF AliasInv
  <2> QED BY <1>1, <2>1, <2>2
<1> QED BY <1>2, <1>3, <1>4 DEF AliasInv, Fits

LEMMA AliasSync ==
  ASSUME TablesOK, HandlersOK, AliasInv, NEW h \in Handlers, Sync(h)
  PROVE  AliasInv'
<1>1. pc[h] = "sync" /\ Finish(h)
  BY DEF Sync
<1>2. CASE UNCHANGED rows
  <2>1. RegistryFits' /\ Onward
    BY <1>2, RowsStill, RegistryStill DEF rows, AliasInv, Onward
  <2> QED BY <1>1, <1>2, <2>1, AliasFinish DEF AliasInv, Fits, rows
<1>3. CASE ~UNCHANGED rows
  <2>1. /\ req[h] \in LocationRequest /\ Snapshot(req[h].rows)
    BY HeldLocation DEF Sync
  <2>2. PICK k \in Nat, b \in Nat, used \in SUBSET Available(req[h]) : \E target :
               Written(req[h], k, b, used, target)
    BY <1>3, SyncShape
  <2>3. PICK target : Written(req[h], k, b, used, target)
    BY <2>2
  <2> DEFINE r == req[h]
  <2>4. r.alias \in Wanted \cup {NoAlias, Unchanged} /\ \A c \in r.rows : Fits(c)
    BY <1>1 DEF AliasInv, AliasHeld
  <2>5. UNCHANGED registry /\ Onward /\ Grown
    BY <2>3, WrittenNumbers DEF Written, Onward
  <2> HIDE DEF r
  <2>6. ASSUME NEW c \in Counter
        PROVE  LET d == Renamed(r, c, target) IN d.alias = c.alias \/ d.alias \in Wanted \cup {NoAlias}
    BY <2>4 DEF Renamed, Counter
  <2>7. ASSUME NEW d \in counters' PROVE Fits(d)
    <3>1. Origin(r, k, b, used, target, d)
      BY <2>1, <2>3, WrittenRow DEF r
    <3>2. ASSUME NEW c \in counters, d = Kept(r, c), SameRow(c, d) PROVE Fits(d)
      BY <3>2, KeptFact, FitsSame DEF AliasInv, TablesOK, Snapshot, Good, SameRow
    <3>3. ASSUME NEW c \in used, d = Placed(r, c, target), SameRow(c, d) PROVE Fits(d)
      <4>1. c \in Counter /\ Fits(c)
        BY <2>1, <2>4 DEF Available, Snapshot, Good, r
      <4> QED BY <2>1, <2>6, <3>3, <4>1, PlacedFact, FitsSame DEF SameRow, r
    <3>4. ASSUME NEW i \in 1..k, d = NewCounter(r, b, i, target) PROVE Fits(d)
      <4> DEFINE e == [id |-> Len(numbers) + i, number |-> NewNumber(r, b, i),
                       location |-> r.location, alias |-> NoAlias, key |-> NoKey,
                       asked |-> NoAlias, issued |-> FALSE, attached |-> TRUE]
      <4>1. d = Renamed(r, e, target)
        BY <3>4 DEF NewCounter
      <4>2. d.alias = e.alias \/ d.alias \in Wanted \cup {NoAlias}
        BY <2>4, <4>1 DEF Renamed
      <4> QED BY <4>2 DEF Fits
    <3> QED BY <3>1, <3>2, <3>3, <3>4 DEF Origin
  <2> QED BY <1>1, <2>5, <2>7, AliasFinish, RegistryStill DEF AliasInv, Fits
<1> QED BY <1>2, <1>3

(* Added counters.                                                          *)
LEMMA AliasInsert ==
  ASSUME TablesOK, HandlersOK, AliasInv, NEW h \in Handlers, Insert(h)
  PROVE  AliasInv'
<1>1. req[h] \in CounterRequest /\ req[h].op = "add" /\ req[h].key \in Keys
  BY InsertShape
<1>2. CASE UNCHANGED rows /\ Finish(h)
  <2>1. RegistryFits' /\ Onward
    BY <1>2, RowsStill, RegistryStill DEF rows, AliasInv, Onward
  <2> QED BY <1>2, <2>1, AliasFinish DEF AliasInv, Fits, rows
<1>3. CASE \E c \in RowsWith(req[h].key) : Replay(h, req[h], c)
  BY <1>1, <1>3, AliasReplay DEF RowsWith
<1>4. ASSUME NEW b \in Numbers, NEW c \in Counter, Inserts(h, b, c) PROVE AliasInv'
  <2>1. Grown /\ UNCHANGED <<registry, stale>> /\ counters' = counters \cup {c} /\ Goto(h, "local")
        /\ c.alias = (IF req[h].alias = NoAlias THEN Generated[b] ELSE req[h].alias)
        /\ c.number = b
    BY <1>4, AppendedNumber DEF Inserts
  <2>2. req[h].alias \in Wanted \cup {NoAlias} /\ Generated[b] # NoAlias
    BY ConstantFacts, ConstantsAssumption DEF AliasInv, AliasHeld, Insert
  <2>3. Fits(c) /\ c.alias # NoAlias
    BY <2>1, <2>2 DEF Fits
  <2>4. PICK q \in CounterRequest : q.counter = {c} /\ req' = [req EXCEPT ![h] = q]
    BY <1>1, <1>4 DEF Inserts, CounterRequest
  <2>5. Onward
    BY <1>4 DEF Inserts, Onward
  <2>6. \A g \in Handlers : AliasHeld(g)'
    BY <2>1, <2>3, <2>4, <2>5, AliasGoes DEF AliasInv
  <2> QED BY <2>1, <2>3, <2>6, RegistryStill DEF AliasInv, Fits
<1> QED BY <1>2, <1>3, <1>4, InsertShape

(* What makes a request take its counter back.                              *)
LEMMA NotFreeContested ==
  ASSUME GeneratedDiffer, TablesOK, NumbersInv, AliasInv, ~stale, NEW c \in Counter, Good(c),
         Fits(c),
         \/ c.alias # NoAlias /\ ~FreeLocally(c.alias, {c.id})
         \/ ~FreeInRegistry(FinalAlias(c), {c.id})
  PROVE  Contested(c)
<1>1. CASE c.alias # NoAlias
  <2>1. FinalAlias(c) = c.alias
    BY <1>1 DEF FinalAlias
  <2> QED BY <1>1, <2>1, GeneratedIsFree DEF Contested, AliasInv, Fits
<1>2. CASE c.alias = NoAlias
  <2>1. ~FreeInRegistry(FinalAlias(c), {c.id})
    BY <1>2
  <2>2. FinalAlias(c) = Generated[c.number]
    BY <1>2, <2>1, FinalAliasFits DEF AliasInv, FreeInRegistry
  <2> QED BY <1>2, <2>1, <2>2, GeneratedIsFree DEF Contested, AliasInv
<1> QED BY <1>1, <1>2

LEMMA AliasLook ==
  ASSUME GeneratedDiffer, TablesOK, NumbersInv, HandlersOK, AliasInv, NEW h \in Handlers,
         LookLocally(h) \/ LookInRegistry(h)
  PROVE  AliasInv'
<1>1. UNCHANGED rows /\ UNCHANGED req /\ pc[h] \in {"local", "oracle"}
  BY DEF LookLocally, LookInRegistry
<1>2. RegistryFits' /\ Onward
  BY <1>1, RowsStill, RegistryStill DEF rows, AliasInv, Onward
<1>3. Good(Mine(h)) /\ Mine(h) \in Counter /\ Fits(Mine(h)) /\ Mine(h).alias # NoAlias
  BY <1>1, MineFact DEF AliasInv, AliasHeld, CounterLabels
<1>4. PICK label \in {"oracle", "withdraw", "find"} :
        /\ Goto(h, label)
        /\ label = "withdraw" => \/ ~FreeLocally(Mine(h).alias, {Mine(h).id})
                                 \/ ~FreeInRegistry(Mine(h).alias, {Mine(h).id})
  BY DEF LookLocally, LookInRegistry
<1>5. FinalAlias(Mine(h)) = Mine(h).alias
  BY <1>3 DEF FinalAlias
<1>6. label = "withdraw" /\ ~stale => Mine(h).alias \in Wanted
  BY <1>3, <1>4, <1>5, NotFreeContested DEF Contested
<1>7. pc'[h] = label => AliasHeld(h)'
  BY <1>1, <1>3, <1>6 DEF AliasHeld, Mine, Fits, CounterLabels, rows
<1>8. label \in Labels
  BY DEF Labels
<1>9. \A g \in Handlers : AliasHeld(g)'
  BY <1>1, <1>2, <1>4, <1>7, <1>8, AliasMoves DEF AliasInv
<1> QED BY <1>1, <1>2, <1>9 DEF AliasInv, Fits, rows

(* A refused addition is contested, or its key is used on after a change.     *)
LEMMA AliasRefuse ==
  ASSUME HandlersOK, \A g \in Handlers : AliasHeld(g), Onward, NEW h \in Handlers,
         pc[h] \in CounterLabels, Refuse(h),
         ~stale' /\ req[h].op = "add" /\ req[h].key \notin altered => Mine(h).alias \in Wanted
  PROVE  \A g \in Handlers : AliasHeld(g)'
<1>1. CASE Finish(h)
  BY <1>1, AliasFinish
<1>2. CASE req[h].op = "add" /\ Goto(h, "withdraw") /\ UNCHANGED req
  <2>1. "withdraw" \in Labels /\ Fits(Mine(h))
    BY DEF Labels, AliasHeld
  <2>2. pc'[h] = "withdraw" => AliasHeld(h)'
    BY <1>2, <2>1 DEF AliasHeld, Mine, Fits, Onward
  <2> QED BY <1>2, <2>1, <2>2, AliasMoves
<1> QED BY <1>1, <1>2 DEF Refuse

LEMMA AliasAnswer ==
  ASSUME HandlersOK, \A g \in Handlers : AliasHeld(g), Onward, NEW h \in Handlers,
         pc[h] \in CounterLabels, NEW label \in {"record", "apply"}, NEW a \in Aliases,
         Answer(h, a, label), Answers(a, Mine(h).number, Mine(h).alias)
  PROVE  \A g \in Handlers : AliasHeld(g)'
<1>1. label \in Labels /\ Goto(h, label) /\ Fits(Mine(h)) /\ req[h] \in CounterRequest
  BY MineFact DEF Labels, Answer, AliasHeld
<1>2. /\ \A g \in Handlers \ {h} : req'[g] = req[g]
      /\ req'[h].answer = a /\ req'[h].counter = req[h].counter
  BY <1>1 DEF Answer, HandlersOK, CounterRequest
<1>3. Mine(h)' = Mine(h)
  BY <1>2 DEF Mine
<1>4. pc'[h] = label => AliasHeld(h)'
  BY <1>1, <1>2, <1>3 DEF AliasHeld, Fits, Answers
<1> QED BY <1>1, <1>2, <1>4, AliasMoves

(* The record of another body under a key whose counter nothing altered is    *)
(* impossible: record and request have the same row.                        *)
LEMMA SameBodyUnlessAltered ==
  ASSUME TablesOK, HandlersOK, KeyInv, ~stale, NEW h \in Handlers, pc[h] \in CounterLabels,
         req[h].op = "add", req[h].key \notin altered, NEW e \in Recorded(h)
  PROVE  SameBody(e, h)
<1>1. req[h].key \in Keys /\ Mine(h).key = req[h].key /\ e \in records /\ e.key = req[h].key
  BY MineFact DEF Recorded
<1>2. StillThere(e) /\ StillThere(Mine(h))
  BY <1>1 DEF KeyInv, KeyRecords, KeyHeld
<1>3. PICK c \in counters, d \in counters :
        /\ c.id = e.id /\ c.key = e.key /\ c.alias = e.alias
        /\ d.id = Mine(h).id /\ d.key = Mine(h).key /\ d.alias = Mine(h).alias
  BY <1>2 DEF StillThere
<1>4. c = d
  BY <1>1, <1>3, ConstantFacts DEF KeyInv, KeyRows, TablesOK, Snapshot, DifferentIds
<1> QED BY <1>3, <1>4 DEF SameBody

LEMMA AliasAnswered ==
  ASSUME TablesOK, HandlersOK, AliasInv, RecordsFit, KeyInv, Onward, ~stale' => ~stale,
         NEW h \in Handlers, pc[h] \in CounterLabels, Answered(h)
  PROVE  \A g \in Handlers : AliasHeld(g)'
<1>1. PICK e \in Recorded(h) : IF SameBody(e, h) THEN Answer(h, e.answer, "apply") ELSE Refuse(h)
  BY DEF Answered
<1>2. CASE SameBody(e, h) /\ Answer(h, e.answer, "apply")
  <2>1. e \in records /\ e.answer \in Aliases /\ Good(Mine(h))
    BY MineFact DEF Recorded, TablesOK, RegistrationRecord
  <2>2. Answers(e.answer, Mine(h).number, Mine(h).alias)
    BY <1>2, <2>1 DEF RecordsFit, SameBody, Good
  <2> QED BY <1>2, <2>1, <2>2, AliasAnswer DEF AliasInv
<1>3. CASE ~SameBody(e, h) /\ Refuse(h)
  BY <1>3, SameBodyUnlessAltered, AliasRefuse DEF AliasInv
<1> QED BY <1>1, <1>2, <1>3

LEMMA AliasFind ==
  ASSUME TablesOK, HandlersOK, AliasInv, RecordsFit, KeyInv, NEW h \in Handlers, Find(h)
  PROVE  AliasInv'
<1>1. UNCHANGED rows /\ pc[h] = "find" /\ pc[h] \in CounterLabels
  BY DEF Find, CounterLabels
<1>2. RegistryFits' /\ Onward /\ UNCHANGED stale
  BY <1>1, RowsStill, RegistryStill DEF rows, AliasInv, Onward
<1>3. CASE Answered(h)
  BY <1>1, <1>2, <1>3, AliasAnswered DEF AliasInv, Fits, rows
<1>4. CASE Goto(h, "register") /\ UNCHANGED req
  <2>1. "register" \in Labels /\ Fits(Mine(h))
    BY <1>1 DEF Labels, AliasInv, AliasHeld
  <2>2. pc'[h] = "register" => AliasHeld(h)'
    BY <1>4, <2>1 DEF AliasHeld, Mine, Fits
  <2>3. \A g \in Handlers : AliasHeld(g)'
    BY <1>2, <1>4, <2>1, <2>2, AliasMoves DEF AliasInv
  <2> QED BY <1>1, <1>2, <2>3 DEF AliasInv, Fits, rows
<1> QED BY <1>3, <1>4 DEF Find

LEMMA AliasRecord ==
  ASSUME TablesOK, HandlersOK, AliasInv, RecordsFit, KeyInv, NEW h \in Handlers, Record(h)
  PROVE  AliasInv'
<1>1. /\ pc[h] = "record" /\ pc[h] \in CounterLabels
      /\ UNCHANGED <<counters, registry, numbers, stale, altered>>
  BY DEF Record, CounterLabels
<1>2. RegistryFits' /\ Onward
  BY <1>1, GrownStill, RegistryStill DEF TablesOK, AliasInv, Onward
<1>3. CASE Answered(h)
  BY <1>1, <1>2, <1>3, AliasAnswered DEF AliasInv, Fits
<1>4. CASE Goto(h, "apply") /\ UNCHANGED req
  <2>1. /\ "apply" \in Labels /\ Fits(Mine(h))
        /\ Answers(req[h].answer, Mine(h).number, Mine(h).alias)
    BY <1>1 DEF Labels, AliasInv, AliasHeld
  <2>2. pc'[h] = "apply" => AliasHeld(h)'
    BY <1>4, <2>1 DEF AliasHeld, Mine, Fits, Answers
  <2>3. \A g \in Handlers : AliasHeld(g)'
    BY <1>2, <1>4, <2>1, <2>2, AliasMoves DEF AliasInv
  <2> QED BY <1>1, <1>2, <2>3 DEF AliasInv, Fits
<1> QED BY <1>3, <1>4 DEF Record

LEMMA AliasRegister ==
  ASSUME GeneratedDiffer, TablesOK, NumbersInv, HandlersOK, AliasInv, KeyInv, NEW h \in Handlers,
         Register(h)
  PROVE  AliasInv'
<1> DEFINE a == FinalAlias(Mine(h))
<1>1. /\ pc[h] \in CounterLabels /\ UNCHANGED <<counters, numbers, stale, altered>>
      /\ req[h] \in CounterRequest /\ Good(Mine(h)) /\ Mine(h) \in Counter
      /\ req[h].op = "add" => req[h].key \in Keys /\ Mine(h).key = req[h].key
  BY MineFact DEF Register, CounterLabels
<1>2. Fits(Mine(h)) /\ Onward
  BY <1>1 DEF AliasInv, AliasHeld, Onward
<1>3. a \in Wanted \cup {Generated[Mine(h).number]} /\ a \in Aliases
  BY <1>1, <1>2, FinalAliasFits, FinalAliasFact DEF AliasInv
<1>4. Mine(h).id \in 1..Len(numbers) /\ Mine(h).number = numbers[Mine(h).id]
  BY <1>1, NumbersFact, CounterFields DEF Good, TablesOK, Ids
<1>5. Grown
  BY <1>1, GrownStill DEF TablesOK
<1>6. CASE /\ FreeInRegistry(a, {Mine(h).id})
           /\ registry' = {e \in registry : e.id # Mine(h).id} \cup {[alias |-> a, id |-> Mine(h).id]}
           /\ Answer(h, a, "record")
  <2>1. RegistryFits'
    <3>1. \A e \in registry : e.alias = a => e.id = Mine(h).id
      BY <1>6 DEF FreeInRegistry, OwnersOf
    <3> HIDE DEF a
    <3> QED BY <1>1, <1>3, <1>4, <1>6, <3>1 DEF AliasInv, RegistryFits
  <2>2. Answers(a, Mine(h).number, Mine(h).alias)
    BY <1>3 DEF Answers, FinalAlias
  <2>3. \A g \in Handlers : AliasHeld(g)'
    <3> HIDE DEF a
    <3> QED BY <1>1, <1>2, <1>3, <1>6, <2>2, AliasAnswer DEF AliasInv
  <2> QED BY <1>1, <2>1, <2>3 DEF AliasInv, Fits
<1>7. CASE ~FreeInRegistry(a, {Mine(h).id}) /\ UNCHANGED registry /\ Refuse(h)
  <2>1. RegistryFits'
    BY <1>5, <1>7, RegistryStill DEF AliasInv
  <2>2. ASSUME ~stale', req[h].op = "add", req[h].key \notin altered PROVE Mine(h).alias \in Wanted
    <3>1. ~stale /\ Contested(Mine(h))
      BY <1>1, <1>2, <1>7, <2>2, NotFreeContested
    <3>2. PICK d \in counters : d.key = req[h].key /\ d.alias = Mine(h).alias
      BY <1>1, <2>2, <3>1 DEF KeyInv, KeyHeld, StillThere
    <3>3. d.alias # NoAlias
      BY <1>1, <2>2, <3>1, <3>2 DEF KeyInv, KeyRows
    <3> QED BY <3>1, <3>2, <3>3 DEF Contested
  <2>3. \A g \in Handlers : AliasHeld(g)'
    BY <1>1, <1>2, <1>7, <2>2, AliasRefuse DEF AliasInv
  <2> QED BY <1>1, <2>1, <2>3 DEF AliasInv, Fits
<1> QED BY <1>6, <1>7 DEF Register

LEMMA AliasEnds ==
  ASSUME TablesOK, HandlersOK, AliasInv, NEW h \in Handlers, Withdraw(h) \/ Apply(h) \/ Fail(h)
  PROVE  AliasInv'
<1>1. Finish(h) /\ UNCHANGED <<registry, numbers>> /\ Onward
  <2>1. CASE Withdraw(h)
    BY <2>1 DEF Withdraw, Onward
  <2>2. CASE Apply(h)
    BY <2>2 DEF Apply, Onward
  <2>3. CASE Fail(h)
    BY <2>3 DEF Fail, rows, Onward
  <2> QED BY <2>1, <2>2, <2>3
<1>2. RegistryFits'
  BY <1>1, GrownStill, RegistryStill DEF TablesOK, AliasInv
<1>3. ASSUME NEW d \in counters' PROVE Fits(d)
  <2>1. CASE d \in counters
    BY <2>1 DEF AliasInv
  <2>2. CASE Apply(h) /\ d \notin counters
    <3>1. PICK c \in counters : c.id = Mine(h).id
                                /\ d = [c EXCEPT !.issued = TRUE, !.alias = req[h].answer]
      BY <2>2 DEF Apply
    <3>2. /\ c \in Counter /\ Good(c) /\ Good(Mine(h))
          /\ Answers(req[h].answer, Mine(h).number, Mine(h).alias)
      BY <2>2, MineFact DEF TablesOK, Snapshot, Good, AliasInv, AliasHeld, Apply, CounterLabels
    <3>3. d.number = Mine(h).number /\ d.alias = req[h].answer
      BY <3>1, <3>2 DEF Counter, Good
    <3> QED BY <3>2, <3>3 DEF Fits, Answers
  <2> QED BY <2>1, <2>2 DEF Withdraw, Apply, Fail, rows
<1>4. \A g \in Handlers : AliasHeld(g)'
  BY <1>1, AliasFinish DEF AliasInv
<1> QED BY <1>2, <1>3, <1>4 DEF AliasInv, Fits

LEMMA AliasApprove ==
  ASSUME TablesOK, HandlersOK, AliasInv, Approve
  PROVE  AliasInv'
<1>1. /\ counters' = {IF c.attached THEN [c EXCEPT !.alias = FinalAlias(c), !.issued = TRUE]
                      ELSE c : c \in counters}
      /\ registry' = {e \in registry : \A c \in Attached : e.id # c.id}
                     \cup {[alias |-> FinalAlias(c), id |-> c.id] : c \in Attached}
      /\ \A c, d \in Attached : FinalAlias(c) = FinalAlias(d) => c = d
      /\ \A c \in Attached : OwnersOf(FinalAlias(c)) \subseteq {c.id}
      /\ UNCHANGED <<numbers, stale, altered, pc, req>>
  BY DEF Approve
<1>2. ASSUME NEW c \in counters
      PROVE  /\ c \in Counter /\ Fits(c) /\ c.id \in 1..Len(numbers) /\ c.number = numbers[c.id]
             /\ FinalAlias(c) \in Wanted \cup {Generated[c.number]}
  <2>1. c \in Counter /\ Good(c) /\ Fits(c)
    BY DEF TablesOK, Snapshot, Good, AliasInv
  <2> QED BY <2>1, FinalAliasFits, NumbersFact, CounterFields DEF AliasInv, Good, TablesOK, Ids
<1>3. ASSUME NEW d \in counters' PROVE Fits(d)
  <2>1. CASE d \in counters
    BY <1>2, <2>1
  <2>2. ASSUME NEW c \in counters, d = [c EXCEPT !.alias = FinalAlias(c), !.issued = TRUE]
        PROVE  Fits(d)
    <3>1. d.number = c.number /\ d.alias = FinalAlias(c)
      BY <1>2, <2>2 DEF Counter
    <3> QED BY <1>2, <3>1 DEF Fits
  <2> QED BY <1>1, <2>1, <2>2
<1>4. RegistryFits'
  <2>1. ASSUME NEW e \in registry'
        PROVE  \/ e \in registry /\ \A c \in Attached : e.id # c.id
               \/ \E c \in Attached : c \in counters /\ e.alias = FinalAlias(c) /\ e.id = c.id
    <3>1. CASE \E c \in Attached : e = [alias |-> FinalAlias(c), id |-> c.id]
      BY <3>1 DEF Attached
    <3> QED BY <1>1, <3>1
  <2>2. ASSUME NEW e \in registry', NEW f \in registry', e.alias = f.alias PROVE e.id = f.id
    <3>1. ASSUME NEW x \in registry, NEW c \in Attached, x.alias = FinalAlias(c) PROVE x.id = c.id
      <4>1. x.id \in OwnersOf(FinalAlias(c))
        BY <3>1 DEF OwnersOf
      <4> QED BY <1>1, <4>1
    <3>2. e \in registry /\ f \in registry => e.id = f.id
      BY <2>2 DEF AliasInv, RegistryFits
    <3>3. ASSUME NEW c \in Attached, NEW d \in Attached, e.alias = FinalAlias(c), e.id = c.id,
                 f.alias = FinalAlias(d), f.id = d.id
          PROVE  e.id = f.id
      BY <1>1, <2>2, <3>3
    <3> QED BY <2>1, <2>2, <3>1, <3>2, <3>3
  <2>3. ASSUME NEW e \in registry'
        PROVE  \/ e.alias \in Wanted
               \/ e.id \in 1..Len(numbers) /\ e.alias = Generated[numbers[e.id]]
    BY <1>2, <2>1 DEF AliasInv, RegistryFits
  <2> QED BY <1>1, <2>2, <2>3 DEF RegistryFits
<1>5. \A g \in Handlers : AliasHeld(g)'
  BY <1>1, AliasStill DEF AliasInv, Onward
<1> QED BY <1>3, <1>4, <1>5 DEF AliasInv, Fits

LEMMA AliasContest ==
  ASSUME TablesOK, HandlersOK, AliasInv, NEW a \in Wanted, Contest(a)
  PROVE  AliasInv'
<1>1. /\ OwnersOf(a) = {} /\ registry' = registry \cup {[alias |-> a, id |-> Others]}
      /\ UNCHANGED <<counters, numbers, stale, altered, pc, req>>
  BY DEF Contest
<1>2. \A e \in registry : e.alias # a
  BY <1>1 DEF OwnersOf
<1>3. RegistryFits'
  BY <1>1, <1>2 DEF AliasInv, RegistryFits
<1>4. \A g \in Handlers : AliasHeld(g)'
  BY <1>1, AliasStill DEF AliasInv, Onward
<1> QED BY <1>1, <1>3, <1>4 DEF AliasInv, Fits

LEMMA AliasNext ==
  ASSUME GeneratedDiffer, TablesOK, NumbersInv, HandlersOK, AliasInv, RecordsFit, KeyInv,
         [Next]_vars
  PROVE  AliasInv'
<1>1. ASSUME NEW h \in Handlers, Step(h) PROVE AliasInv'
  BY <1>1, AliasLocation, AliasSync, AliasInsert, AliasLook, AliasFind, AliasRegister, AliasRecord,
     AliasEnds DEF Step
<1>2. CASE UNCHANGED vars
  <2>1. RegistryFits'
    BY <1>2, RowsStill, RegistryStill DEF vars, rows, AliasInv
  <2>2. \A g \in Handlers : AliasHeld(g)'
    BY <1>2, AliasStill DEF vars, rows, AliasInv, Onward
  <2> QED BY <1>2, <2>1, <2>2 DEF AliasInv, Fits, vars, rows
<1> QED BY <1>1, <1>2, AliasArrive, AliasApprove, AliasContest DEF Next

LEMMA AliasInit == Init => AliasInv
<1> SUFFICES ASSUME Init PROVE AliasInv
  OBVIOUS
<1>1. \A h \in Handlers : AliasHeld(h)
  BY DEF Init, AliasHeld, CounterLabels
<1>2. \A c \in counters : Fits(c)
  BY DEF Init, Primary, Fits
<1>3. RegistryFits
  <2>1. CASE registry = {}
    BY <2>1 DEF RegistryFits
  <2>2. CASE /\ numbers = <<1>>
             /\ \E a \in Wanted \cup {Generated[1]} : registry = {[alias |-> a, id |-> 1]}
    <3>1. Len(numbers) = 1 /\ numbers[1] = 1
      BY <2>2
    <3> QED BY <2>2, <3>1 DEF RegistryFits
  <2> QED BY <2>1, <2>2 DEF Init
<1> QED BY <1>1, <1>2, <1>3 DEF AliasInv

(* Rows are only ever inserted after those there were, by every step.        *)
LEMMA GrownNext ==
  ASSUME TablesOK, HandlersOK, [Next]_vars
  PROVE  Grown
<1>1. numbers \in Seq(Numbers)
  BY DEF TablesOK
<1>2. CASE UNCHANGED numbers
  BY <1>1, <1>2, GrownStill
<1>3. ASSUME NEW h \in Handlers, Insert(h) PROVE Grown
  <2>1. CASE UNCHANGED rows
    BY <1>2, <2>1 DEF rows
  <2>2. CASE \E c \in RowsWith(req[h].key) : Replay(h, req[h], c)
    BY <1>2, <2>2 DEF Replay, rows
  <2>3. CASE \E b \in Numbers, c \in Counter : Inserts(h, b, c)
    BY <2>3, AppendedNumber DEF Inserts
  <2> QED BY <1>3, <2>1, <2>2, <2>3, InsertShape
<1>4. ASSUME NEW h \in Handlers, Sync(h) PROVE Grown
  <2>1. CASE UNCHANGED rows
    BY <1>2, <2>1 DEF rows
  <2>2. CASE ~UNCHANGED rows
    <3>1. req[h] \in LocationRequest /\ Snapshot(req[h].rows)
      BY <1>4, HeldLocation DEF Sync
    <3>2. PICK k \in Nat, b \in Nat, used \in SUBSET Available(req[h]) : \E target :
                 Written(req[h], k, b, used, target)
      BY <1>4, <2>2, SyncShape
    <3> QED BY <3>1, <3>2, WrittenNumbers
  <2> QED BY <2>1, <2>2
<1>5. ASSUME NEW h \in Handlers, Step(h) PROVE Grown
  BY <1>2, <1>3, <1>4, <1>5 DEF Step, Validate, Verify, LookLocally, LookInRegistry, Withdraw, Find,
     Register, Record, Apply, Fail, rows
<1>6. ASSUME NEW h \in Handlers, Arrive(h) PROVE Grown
  BY <1>2, <1>6, ArriveKeeps DEF rows
<1>7. CASE Approve \/ \E a \in Wanted : Contest(a)
  BY <1>2, <1>7 DEF Approve, Contest
<1> QED BY <1>2, <1>5, <1>6, <1>7 DEF Next, vars, rows

LEMMA RecordsNext ==
  ASSUME TablesOK, HandlersOK, AliasInv, RecordsFit, [Next]_vars
  PROVE  RecordsFit'
<1>1. Grown
  BY GrownNext
<1>2. CASE UNCHANGED records
  BY <1>1, <1>2, RecordsStill
<1>3. ASSUME NEW h \in Handlers, Record(h) PROVE RecordsFit'
  <2>1. CASE UNCHANGED records
    BY <1>2, <2>1
  <2>2. CASE records' = records \cup {[key |-> req[h].key, id |-> Mine(h).id,
                                       alias |-> Mine(h).alias, answer |-> req[h].answer]}
    <3>1. /\ Good(Mine(h)) /\ Mine(h) \in Counter /\ UNCHANGED numbers
          /\ Answers(req[h].answer, Mine(h).number, Mine(h).alias)
      BY <1>3, MineFact DEF Record, CounterLabels, AliasInv, AliasHeld
    <3>2. Mine(h).id \in 1..Len(numbers) /\ Mine(h).number = numbers[Mine(h).id]
      BY <3>1, NumbersFact, CounterFields DEF Good, TablesOK, Ids
    <3> QED BY <2>2, <3>1, <3>2 DEF RecordsFit, Answers
  <2> QED BY <1>3, <2>1, <2>2 DEF Record
<1>4. ASSUME NEW h \in Handlers, Step(h) PROVE RecordsFit'
  <2>1. CASE Sync(h)
    <3>1. CASE ~UNCHANGED rows
      <4>1. PICK k \in Nat, b \in Nat, used \in SUBSET Available(req[h]) : \E target :
                   Written(req[h], k, b, used, target)
        BY <2>1, <3>1, SyncShape
      <4> QED BY <1>2, <4>1 DEF Written
    <3> QED BY <1>2, <3>1 DEF rows
  <2> QED BY <1>2, <1>3, <1>4, <2>1 DEF Step, Validate, Verify, Insert, Replay, LookLocally,
            LookInRegistry, Withdraw, Find, Register, Apply, Fail, rows
<1>5. ASSUME NEW h \in Handlers, Arrive(h) PROVE RecordsFit'
  BY <1>2, <1>5, ArriveKeeps DEF rows
<1>6. CASE Approve \/ \E a \in Wanted : Contest(a)
  BY <1>2, <1>6 DEF Approve, Contest
<1> QED BY <1>2, <1>4, <1>5, <1>6 DEF Next, vars, rows

(* A step that leaves the rows of the keys it does not mark as altered.       *)
RowsFollow ==
  /\ DifferentIds(counters')
  /\ \A d \in counters' :
       \/ \E c \in counters : d.id = c.id /\ d.key = c.key
       \/ d.id > Len(numbers) /\ d.key = NoKey
  /\ \A c \in counters : c.key \in Keys \ altered' =>
       \E d \in counters' : d.id = c.id /\ d.key = c.key /\ d.alias = c.alias
  /\ altered \subseteq altered'
  /\ status = "approved" => status' = "approved"

LEMMA FollowedStill ==
  ASSUME RowsFollow, NEW x, x.key \in Keys \ altered', StillThere(x)
  PROVE  StillThere(x)'
BY DEF RowsFollow, StillThere

LEMMA KeyRowsFollow ==
  ASSUME TablesOK, KeyRows, RowsFollow, \A d \in counters' : d.key \in Keys \cup {NoKey}
  PROVE  KeyRows'
<1>1. ASSUME NEW c \in counters', NEW d \in counters', c.key # NoKey, c.key = d.key PROVE c.id = d.id
  BY <1>1 DEF KeyRows, RowsFollow
<1>2. ASSUME NEW d \in counters', d.key \in Keys \ altered' PROVE d.alias # NoAlias
  <2>1. PICK c \in counters : d.id = c.id /\ d.key = c.key
    BY <1>2, ConstantFacts DEF RowsFollow
  <2>2. PICK e \in counters' : e.id = c.id /\ e.alias = c.alias
    BY <1>2, <2>1 DEF RowsFollow
  <2>3. e = d
    BY <2>1, <2>2 DEF RowsFollow, DifferentIds
  <2> QED BY <1>2, <2>1, <2>2, <2>3 DEF KeyRows, RowsFollow
<1>3. \A d \in counters' : d.key # NoKey => status' = "approved"
  BY DEF KeyRows, RowsFollow
<1> QED BY <1>1, <1>2, <1>3 DEF KeyRows

(* A request keeps the counter it holds, or takes a row as it is.            *)
Keeps(g) ==
  pc'[g] \in CounterLabels =>
    \/ pc[g] \in CounterLabels /\ req'[g].counter = req[g].counter /\ req'[g].key = req[g].key
    \/ \E c \in counters' : req'[g].counter = {c} /\ req'[g].key \in {c.key, NoKey}

LEMMA KeepsGoto ==
  ASSUME HandlersOK, NEW h \in Handlers, NEW label \in Labels, Goto(h, label),
         \A g \in Handlers \ {h} : req'[g] = req[g], pc'[h] = label => Keeps(h)
  PROVE  \A g \in Handlers : Keeps(g)
BY GotoFact DEF Keeps

LEMMA KeepsFinish ==
  ASSUME HandlersOK, NEW h \in Handlers, Finish(h)
  PROVE  \A g \in Handlers : Keeps(g)
<1>1. Goto(h, "idle") /\ "idle" \in Labels /\ req' = [req EXCEPT ![h] = NoRequest]
  BY DEF Finish, Labels
<1>2. \A g \in Handlers \ {h} : req'[g] = req[g]
  BY <1>1, RequestFact
<1> QED BY <1>1, <1>2, KeepsGoto DEF Keeps, CounterLabels

LEMMA KeepsAnswered ==
  ASSUME HandlersOK, NEW h \in Handlers, pc[h] \in CounterLabels,
         \/ Refuse(h)
         \/ \E label \in {"record", "apply", "register"} : Goto(h, label) /\ UNCHANGED req
         \/ \E label \in {"record", "apply"} : \E a : Answer(h, a, label)
  PROVE  \A g \in Handlers : Keeps(g)
<1>1. ASSUME NEW label \in {"withdraw", "record", "apply", "register"}, Goto(h, label), UNCHANGED req
      PROVE  \A g \in Handlers : Keeps(g)
  BY <1>1, KeepsGoto DEF Keeps, Labels
<1>2. ASSUME NEW a, NEW label \in {"record", "apply"}, Answer(h, a, label)
      PROVE  \A g \in Handlers : Keeps(g)
  <2>1. req[h] \in CounterRequest /\ Goto(h, label) /\ label \in Labels
    BY <1>2, MineFact DEF Answer, Labels
  <2>2. /\ \A g \in Handlers \ {h} : req'[g] = req[g]
        /\ req'[h].counter = req[h].counter /\ req'[h].key = req[h].key
    BY <1>2, <2>1 DEF Answer, HandlersOK, CounterRequest
  <2> QED BY <2>1, <2>2, KeepsGoto DEF Keeps
<1> QED BY <1>1, <1>2, KeepsFinish DEF Refuse

LEMMA KeyHeldFollow ==
  ASSUME TablesOK, HandlersOK, RowsFollow, NEW g \in Handlers, KeyHeld(g), Keeps(g)
  PROVE  KeyHeld(g)'
<1>1. CASE /\ pc'[g] \in CounterLabels /\ pc[g] \in CounterLabels
           /\ req'[g].counter = req[g].counter /\ req'[g].key = req[g].key
  <2>1. PICK c : c = Mine(g) /\ c = Mine(g)'
    BY <1>1 DEF Mine
  <2>2. c.key \in Keys \ altered' => StillThere(c)'
    BY <1>1, <2>1, FollowedStill DEF KeyHeld, RowsFollow
  <2>3. c.id <= Len(numbers) /\ c.id \in Nat /\ Len(numbers) \in Nat
    <3>1. Good(c) /\ c \in Counter
      BY <1>1, <2>1, MineFact
    <3> QED BY <3>1, CounterFields, NumbersFact DEF Good, Ids, TablesOK
  <2>4. \A d \in counters' : d.id = c.id => d.key = c.key
    BY <1>1, <2>1, <2>3 DEF KeyHeld, RowsFollow
  <2>5. req'[g].key \in {c.key, NoKey}
    BY <1>1, <2>1 DEF KeyHeld
  <2> QED BY <2>1, <2>2, <2>4, <2>5 DEF KeyHeld, StillThere
<1>2. CASE /\ pc'[g] \in CounterLabels
           /\ \E c \in counters' : req'[g].counter = {c} /\ req'[g].key \in {c.key, NoKey}
  <2>1. PICK c \in counters' : req'[g].counter = {c} /\ req'[g].key \in {c.key, NoKey}
    BY <1>2
  <2>2. Mine(g)' = c
    BY <2>1 DEF Mine
  <2> QED BY <2>1, <2>2 DEF KeyHeld, StillThere, RowsFollow, DifferentIds
<1>3. CASE pc'[g] \notin CounterLabels
  BY <1>3 DEF KeyHeld
<1> QED BY <1>1, <1>2, <1>3 DEF Keeps

LEMMA KeyFollow ==
  ASSUME TablesOK, TablesOK', HandlersOK, KeyInv, stale => stale', RowsFollow, UNCHANGED records,
         \A g \in Handlers : Keeps(g)
  PROVE  KeyInv'
<1> SUFFICES ASSUME ~stale' PROVE KeyRows' /\ KeyRecords' /\ \A h \in Handlers : KeyHeld(h)'
  BY DEF KeyInv
<1>1. KeyRows /\ KeyRecords /\ \A h \in Handlers : KeyHeld(h)
  BY DEF KeyInv
<1>2. \A d \in counters' : d.key \in Keys \cup {NoKey}
  BY CounterFields DEF TablesOK, Snapshot, Good
<1>3. KeyRows'
  BY <1>1, <1>2, KeyRowsFollow
<1>4. ASSUME NEW e \in records', e.key \in Keys \ altered' PROVE StillThere(e)'
  BY <1>1, <1>4, FollowedStill DEF KeyRecords, RowsFollow
<1> QED BY <1>1, <1>3, <1>4, KeyHeldFollow DEF KeyRecords

LEMMA RowsStay ==
  ASSUME TablesOK, UNCHANGED <<counters, altered>>, status = "approved" => status' = "approved"
  PROVE  RowsFollow
BY DEF RowsFollow, TablesOK, Snapshot, DifferentIds

(* A step that leaves rows and records alone.                                *)
LEMMA KeyStay ==
  ASSUME TablesOK, TablesOK', HandlersOK, KeyInv, UNCHANGED <<counters, altered, records>>,
         stale => stale', status = "approved" => status' = "approved", \A g \in Handlers : Keeps(g)
  PROVE  KeyInv'
BY RowsStay, KeyFollow

(* Location requests that write over what they loaded.                       *)
LEMMA KeyLocation ==
  ASSUME TablesOK, TablesOK', HandlersOK, KeyInv, ~stale', NEW h \in Handlers,
         Verify(h) \/ Sync(h)
  PROVE  KeyInv'
<1>1. CASE Verify(h)
  <2>1. /\ counters' = {[c EXCEPT !.attached = c.id \in {e.id : e \in req[h].rows}] : c \in counters}
        /\ UNCHANGED <<records, altered, req>> /\ Goto(h, "sync")
        /\ ~stale /\ status' = status
    BY <1>1 DEF Verify
  <2>2. ASSUME NEW c \in counters, NEW b
        PROVE  LET d == [c EXCEPT !.attached = b]
               IN  d.id = c.id /\ d.key = c.key /\ d.alias = c.alias
    BY DEF TablesOK, Snapshot, Good, Counter
  <2> DEFINE Off(c) == [c EXCEPT !.attached = c.id \in {e.id : e \in req[h].rows}]
  <2>5. /\ counters' = {Off(c) : c \in counters}
        /\ \A c \in counters : Off(c).id = c.id /\ Off(c).key = c.key /\ Off(c).alias = c.alias
    BY <2>1, <2>2
  <2>6. DifferentIds(counters')
    BY DEF TablesOK, Snapshot
  <2> HIDE DEF Off
  <2>3. RowsFollow
    BY <2>1, <2>5, <2>6 DEF RowsFollow
  <2>4. \A g \in Handlers : Keeps(g)
    BY <2>1, KeepsGoto DEF Keeps, Labels, CounterLabels
  <2> QED BY <2>1, <2>3, <2>4, KeyFollow
<1>2. CASE Sync(h) /\ UNCHANGED rows
  BY <1>2, SyncShape, KeepsFinish, KeyStay DEF rows
<1>3. CASE Sync(h) /\ ~UNCHANGED rows
  <2>1. /\ req[h] \in LocationRequest /\ Snapshot(req[h].rows)
    BY <1>3, HeldLocation DEF Sync
  <2>2. PICK k \in Nat, b \in Nat, used \in SUBSET Available(req[h]) : \E target :
               Written(req[h], k, b, used, target)
    BY <1>3, SyncShape
  <2>3. PICK target : Written(req[h], k, b, used, target)
    BY <2>2
  <2>4. /\ ~stale /\ req[h].rows = Attached /\ UNCHANGED <<status, records>>
        /\ altered \subseteq altered'
        /\ \A c \in counters : c.key \in Keys \ altered' =>
             \E d \in counters' : d.id = c.id /\ d.key = c.key /\ d.alias = c.alias
    BY <2>3 DEF Written, RowsWith
  <2>5. DifferentIds(counters')
    BY <2>1, <2>3, WrittenIds
  <2>6. ASSUME NEW d \in counters'
        PROVE  \/ \E c \in counters : d.id = c.id /\ d.key = c.key
               \/ d.id > Len(numbers) /\ d.key = NoKey
    <3>1. Origin(req[h], k, b, used, target, d)
      BY <2>1, <2>3, WrittenRow
    <3>2. \A c \in used : c \in counters
      BY <2>4 DEF Available, Attached
    <3>3. ASSUME NEW i \in 1..k, d = NewCounter(req[h], b, i, target), d.id = Len(numbers) + i
          PROVE  d.id > Len(numbers) /\ d.key = NoKey
      <4>1. Len(numbers) \in Nat
        BY NumbersFact DEF TablesOK
      <4>2. d.key = NoKey
        BY <2>1, <2>3, <3>3, NewCounterFact DEF Written
      <4> QED BY <3>3, <4>1, <4>2
    <3> QED BY <3>1, <3>2, <3>3 DEF Origin, SameRow
  <2>7. RowsFollow
    BY <2>4, <2>5, <2>6 DEF RowsFollow
  <2> QED BY <1>3, <2>4, <2>7, SyncShape, KeepsFinish, KeyFollow
<1> QED BY <1>1, <1>2, <1>3

(* A replay, and the retry of a pending counter, take a row as it is.        *)
LEMMA KeyReplay ==
  ASSUME TablesOK, TablesOK', HandlersOK, KeyInv, NEW h \in Handlers, NEW r \in CounterRequest,
         NEW c \in RowsWith(r.key), Replay(h, r, c)
  PROVE  KeyInv'
<1>1. UNCHANGED rows /\ c \in counters /\ c.key = r.key
  BY DEF Replay, RowsWith
<1>2. CASE Finish(h)
  BY <1>1, <1>2, KeepsFinish, KeyStay DEF rows
<1>3. CASE req' = [req EXCEPT ![h] = [r EXCEPT !.counter = {c}]] /\ Goto(h, "find")
  <2>1. c \in Counter
    BY <1>1 DEF TablesOK, Snapshot, Good
  <2>2. PICK q \in CounterRequest :
          q.counter = {c} /\ q.key = c.key /\ req' = [req EXCEPT ![h] = q]
    BY <1>1, <1>3, <2>1 DEF CounterRequest
  <2>3. req'[h] = q /\ \A g \in Handlers \ {h} : req'[g] = req[g]
    BY <2>2, RequestFact
  <2>4. Keeps(h) /\ "find" \in Labels
    BY <1>1, <2>2, <2>3 DEF Keeps, Labels, rows
  <2>5. \A g \in Handlers : Keeps(g)
    BY <1>3, <2>3, <2>4, KeepsGoto
  <2> QED BY <1>1, <2>5, KeyStay DEF rows
<1> QED BY <1>2, <1>3 DEF Replay

LEMMA KeyArrive ==
  ASSUME TablesOK, TablesOK', HandlersOK, KeyInv, NEW h \in Handlers, Arrive(h)
  PROVE  KeyInv'
<1>1. ASSUME NEW label \in {"validate", "insert"}, Goto(h, label), UNCHANGED rows,
             \E r : req' = [req EXCEPT ![h] = r]
      PROVE  KeyInv'
  <2>1. label \in Labels /\ label \notin CounterLabels
    BY DEF Labels, CounterLabels
  <2>2. \A g \in Handlers \ {h} : req'[g] = req[g]
    BY <1>1 DEF HandlersOK
  <2>3. \A g \in Handlers : Keeps(g)
    BY <1>1, <2>1, <2>2, KeepsGoto DEF Keeps
  <2> QED BY <1>1, <2>3, KeyStay DEF rows
<1>2. ASSUME NEW o, NEW l \in Locations, Load(h, o, l) PROVE KeyInv'
  <2>1. UNCHANGED rows /\ Goto(h, "validate") /\ \E r : req' = [req EXCEPT ![h] = r]
    BY <1>2 DEF Load
  <2> QED BY <1>1, <2>1
<1>3. ASSUME NEW k \in Keys, NEW a \in Wanted \cup {NoAlias}, NEW l \in Locations,
             LoadAdd(h, k, a, l)
      PROVE  KeyInv'
  <2> DEFINE r == [op |-> "add", key |-> k, alias |-> a, location |-> l, counter |-> {},
                   answer |-> NoAlias]
  <2>1. r \in CounterRequest /\ r.key = k
    BY ConstantFacts DEF CounterRequest
  <2>2. \/ UNCHANGED rows /\ req' = [req EXCEPT ![h] = r] /\ Goto(h, "insert")
        \/ \E c \in RowsWith(k) : Replay(h, r, c)
    BY <1>3 DEF LoadAdd
  <2> HIDE DEF r
  <2> QED BY <1>1, <2>1, <2>2, KeyReplay
<1>4. ASSUME NEW c \in counters, LoadRetry(h, c) PROVE KeyInv'
  <2> DEFINE q == [op |-> "retry", key |-> NoKey, alias |-> NoAlias, location |-> NoLocation,
                   counter |-> {c}, answer |-> NoAlias]
  <2>1. UNCHANGED rows /\ req' = [req EXCEPT ![h] = q] /\ Goto(h, "find")
    BY <1>4 DEF LoadRetry
  <2>2. req'[h] = q /\ \A g \in Handlers \ {h} : req'[g] = req[g]
    BY <2>1 DEF HandlersOK
  <2>3. Keeps(h) /\ "find" \in Labels
    BY <2>1, <2>2 DEF Keeps, Labels, rows
  <2>4. \A g \in Handlers : Keeps(g)
    BY <2>1, <2>2, <2>3, KeepsGoto
  <2> QED BY <2>1, <2>4, KeyStay DEF rows
<1> QED BY <1>2, <1>3, <1>4 DEF Arrive, LoadPost, LoadPut

(* An addition inserts the first row of its key, which nothing knows of yet.  *)
LEMMA KeyInsert ==
  ASSUME TablesOK, TablesOK', HandlersOK, KeyInv, AliasInv, NEW h \in Handlers, Insert(h)
  PROVE  KeyInv'
<1>1. req[h] \in CounterRequest /\ req[h].key \in Keys
  BY InsertShape
<1>2. CASE UNCHANGED rows /\ Finish(h)
  BY <1>2, KeepsFinish, KeyStay DEF rows
<1>3. CASE \E c \in RowsWith(req[h].key) : Replay(h, req[h], c)
  BY <1>1, <1>3, KeyReplay
<1>4. ASSUME NEW b \in Numbers, NEW x \in Counter, Inserts(h, b, x), ~stale'
      PROVE  KeyRows' /\ KeyRecords' /\ \A g \in Handlers : KeyHeld(g)'
  <2>1. /\ counters' = counters \cup {x} /\ Goto(h, "local") /\ RowsWith(req[h].key) = {}
        /\ x.key = req[h].key /\ x.id = Len(numbers) + 1 /\ status = "approved"
        /\ UNCHANGED <<status, records, stale, altered>>
        /\ x.alias = (IF req[h].alias = NoAlias THEN Generated[b] ELSE req[h].alias)
    BY <1>4 DEF Inserts, Insertable
  <2>2. x.alias # NoAlias
    BY <2>1, ConstantFacts, ConstantsAssumption DEF AliasInv, AliasHeld, Insert
  <2>3. KeyRows /\ KeyRecords /\ \A g \in Handlers : KeyHeld(g)
    BY <1>4, <2>1 DEF KeyInv
  <2>4. KeyRows'
    BY <2>1, <2>2, <2>3 DEF KeyRows, RowsWith
  <2>5. \A c : StillThere(c) => StillThere(c)'
    BY <2>1 DEF StillThere
  <2>6. KeyRecords'
    BY <2>1, <2>3, <2>5 DEF KeyRecords
  <2>7. PICK q \in CounterRequest :
          q.counter = {x} /\ q.key = x.key /\ req' = [req EXCEPT ![h] = q]
    BY <1>1, <1>4, <2>1 DEF Inserts, CounterRequest
  <2>8. req'[h] = q /\ \A g \in Handlers \ {h} : req'[g] = req[g]
    BY <2>7, RequestFact
  <2>9. KeyHeld(h)'
    <3>1. Mine(h)' = x
      BY <2>7, <2>8 DEF Mine
    <3>2. DifferentIds(counters')
      BY DEF TablesOK, Snapshot
    <3> QED BY <2>1, <2>7, <2>8, <3>1, <3>2 DEF KeyHeld, StillThere, DifferentIds
  <2>10. ASSUME NEW g \in Handlers \ {h} PROVE KeyHeld(g)'
    <3>1. pc'[g] = pc[g] /\ Mine(g)' = Mine(g)
      BY <2>1, <2>8 DEF HandlersOK, Goto, Mine
    <3>2. pc[g] \in CounterLabels =>
            Mine(g).id <= Len(numbers) /\ Mine(g).id \in Nat /\ Len(numbers) \in Nat
      BY MineFact, CounterFields, NumbersFact DEF Good, Ids, TablesOK
    <3>3. pc[g] \in CounterLabels => Mine(g).id # x.id
      BY <2>1, <3>2
    <3>4. pc[g] \in CounterLabels =>
            /\ Mine(g).key \in Keys \ altered => StillThere(Mine(g))'
            /\ \A d \in counters' : d.id = Mine(g).id => d.key = Mine(g).key
      <4>1. pc[g] \in CounterLabels => /\ Mine(g).key \in Keys \ altered => StillThere(Mine(g))
                                       /\ \A d \in counters : d.id = Mine(g).id => d.key = Mine(g).key
        BY <2>3 DEF KeyHeld
      <4>2. PICK c : c = Mine(g)
        OBVIOUS
      <4>3. StillThere(c) => StillThere(c)'
        BY <2>5
      <4>4. StillThere(c)' <=> StillThere(Mine(g))'
        <5>1. c = Mine(g)'
          BY <3>1, <4>2
        <5> QED BY <5>1 DEF StillThere
      <4> QED BY <2>1, <3>3, <4>1, <4>2, <4>3, <4>4
    <3>5. req'[g].key \in {Mine(g).key, NoKey} \/ pc[g] \notin CounterLabels
      BY <2>3, <2>8 DEF KeyHeld
    <3> QED BY <2>1, <3>1, <3>4, <3>5 DEF KeyHeld
  <2> QED BY <2>4, <2>6, <2>9, <2>10
<1> QED BY <1>2, <1>3, <1>4, InsertShape DEF KeyInv

LEMMA KeyWithdraw ==
  ASSUME TablesOK, TablesOK', HandlersOK, KeyInv, NEW h \in Handlers, Withdraw(h)
  PROVE  KeyInv'
<1> SUFFICES ASSUME ~stale PROVE KeyInv'
  BY DEF Withdraw, KeyInv
<1>1. /\ pc[h] \in CounterLabels /\ pc[h] = "withdraw"
      /\ counters' = {c \in counters : c.id # Mine(h).id}
      /\ altered' = altered \cup {req[h].key} /\ Finish(h)
      /\ UNCHANGED <<status, records, stale>>
  BY DEF Withdraw, CounterLabels
<1>2. \A d \in counters : d.id = Mine(h).id => d.key = req[h].key
  BY <1>1, MineFact DEF KeyInv, KeyHeld
<1>3. RowsFollow
  BY <1>1, <1>2 DEF RowsFollow, TablesOK, Snapshot, DifferentIds
<1> QED BY <1>1, <1>3, KeepsFinish, KeyFollow

(* The answer for a counter that nothing altered has the alias of its row.    *)
LEMMA KeyApply ==
  ASSUME TablesOK, TablesOK', HandlersOK, KeyInv, AliasInv, NEW h \in Handlers, Apply(h)
  PROVE  KeyInv'
<1> SUFFICES ASSUME ~stale PROVE KeyInv'
  BY DEF Apply, KeyInv
<1>1. /\ pc[h] \in CounterLabels /\ pc[h] = "apply"
      /\ counters' = {IF c.id = Mine(h).id
                      THEN [c EXCEPT !.issued = TRUE, !.alias = req[h].answer] ELSE c
                      : c \in counters}
      /\ status' = "approved" /\ Finish(h) /\ UNCHANGED <<records, stale, altered>>
  BY DEF Apply, CounterLabels
<1>2. ASSUME NEW c \in counters, NEW a
      PROVE  /\ [c EXCEPT !.issued = TRUE, !.alias = a].id = c.id
             /\ [c EXCEPT !.issued = TRUE, !.alias = a].key = c.key
             /\ [c EXCEPT !.issued = TRUE, !.alias = a].alias = a
  BY DEF TablesOK, Snapshot, Good, Counter
<1>3. ASSUME NEW c \in counters, c.id = Mine(h).id, c.key \in Keys \ altered
      PROVE  req[h].answer = c.alias
  <2>1. c.key = Mine(h).key /\ StillThere(Mine(h))
    BY <1>1, <1>3 DEF KeyInv, KeyHeld
  <2>2. PICK e \in counters : e.id = Mine(h).id /\ e.alias = Mine(h).alias
    BY <2>1 DEF StillThere
  <2>3. e = c /\ c.alias # NoAlias
    BY <1>3, <2>2 DEF TablesOK, Snapshot, DifferentIds, KeyInv, KeyRows
  <2> QED BY <1>1, <2>2, <2>3 DEF AliasInv, AliasHeld, Answers
<1>4. DifferentIds(counters')
  BY DEF TablesOK, Snapshot
<1>5. ASSUME NEW d \in counters' PROVE \E c \in counters : d.id = c.id /\ d.key = c.key
  <2>1. PICK c \in counters : \/ d = [c EXCEPT !.issued = TRUE, !.alias = req[h].answer]
                             \/ d = c
    BY <1>1
  <2>2. c \in Counter
    BY DEF TablesOK, Snapshot, Good
  <2>3. CASE d = [c EXCEPT !.issued = TRUE, !.alias = req[h].answer]
    BY <2>2, <2>3 DEF Counter
  <2> QED BY <2>1, <2>3
<1>6. \A c \in counters : c.key \in Keys \ altered' =>
        \E d \in counters' : d.id = c.id /\ d.key = c.key /\ d.alias = c.alias
  <2> SUFFICES ASSUME NEW c \in counters, c.key \in Keys \ altered
               PROVE  \E d \in counters' : d.id = c.id /\ d.key = c.key /\ d.alias = c.alias
    BY <1>1
  <2>1. CASE c.id = Mine(h).id
    <3>1. [c EXCEPT !.issued = TRUE, !.alias = req[h].answer] \in counters'
      BY <1>1, <2>1
    <3>2. req[h].answer = c.alias
      BY <1>3, <2>1
    <3>3. \E d \in counters' : d.id = c.id /\ d.key = c.key /\ d.alias = req[h].answer
      BY <1>2, <3>1
    <3> QED BY <3>2, <3>3
  <2>2. CASE c.id # Mine(h).id
    BY <1>1, <2>2
  <2> QED BY <2>1, <2>2
<1>7. RowsFollow
  BY <1>1, <1>4, <1>5, <1>6 DEF RowsFollow
<1> QED BY <1>1, <1>7, KeepsFinish, KeyFollow

(* What is recorded is of the row that the request holds.                     *)
LEMMA KeyRecord ==
  ASSUME TablesOK, TablesOK', HandlersOK, KeyInv, NEW h \in Handlers, Record(h)
  PROVE  KeyInv'
<1>1. /\ pc[h] = "record" /\ pc[h] \in CounterLabels
      /\ UNCHANGED <<counters, status, stale, altered>>
  BY DEF Record, CounterLabels
<1>2. CASE Answered(h) /\ UNCHANGED records
  <2>1. \A g \in Handlers : Keeps(g)
    BY <1>1, <1>2, KeepsAnswered DEF Answered
  <2> QED BY <1>1, <1>2, <2>1, KeyStay
<1>3. CASE /\ records' = records \cup {[key |-> req[h].key, id |-> Mine(h).id,
                                        alias |-> Mine(h).alias, answer |-> req[h].answer]}
           /\ Goto(h, "apply") /\ UNCHANGED req
  <2>1. \A g \in Handlers : Keeps(g)
    BY <1>1, <1>3, KeepsAnswered
  <2> SUFFICES ASSUME ~stale PROVE KeyRows' /\ KeyRecords' /\ \A g \in Handlers : KeyHeld(g)'
    BY <1>1 DEF KeyInv
  <2>2. KeyRows /\ KeyRecords /\ \A g \in Handlers : KeyHeld(g)
    BY DEF KeyInv
  <2>3. RowsFollow
    BY <1>1, RowsStay
  <2>4. \A g \in Handlers : KeyHeld(g)'
    BY <2>1, <2>2, <2>3, KeyHeldFollow
  <2>5. KeyRows'
    BY <1>1, <2>2 DEF KeyRows
  <2>6. ASSUME NEW e \in records', e.key \in Keys \ altered' PROVE StillThere(e)'
    <3>1. CASE e \in records
      BY <1>1, <2>2, <2>6, <3>1 DEF KeyRecords, StillThere
    <3>2. CASE e.key = req[h].key /\ e.id = Mine(h).id /\ e.alias = Mine(h).alias
      <4>1. req[h].key = Mine(h).key
        BY <1>1, <2>2, <2>6, <3>2, ConstantFacts DEF KeyHeld
      <4> QED BY <1>1, <2>2, <2>6, <3>2, <4>1 DEF KeyHeld, StillThere
    <3> QED BY <1>3, <3>1, <3>2
  <2> QED BY <2>4, <2>5, <2>6 DEF KeyRecords
<1> QED BY <1>2, <1>3 DEF Record

LEMMA KeyLook ==
  ASSUME TablesOK, TablesOK', HandlersOK, KeyInv, NEW h \in Handlers,
         Validate(h) \/ LookLocally(h) \/ LookInRegistry(h) \/ Find(h) \/ Register(h) \/ Fail(h)
  PROVE  KeyInv'
<1>1. CASE Validate(h)
  <2>1. UNCHANGED rows /\ (Finish(h) \/ \E label \in {"sync", "verify"} : Goto(h, label) /\ UNCHANGED req)
    BY <1>1 DEF Validate
  <2>2. \A g \in Handlers : Keeps(g)
    BY <2>1, KeepsFinish, KeepsGoto DEF Keeps, Labels, CounterLabels
  <2> QED BY <2>1, <2>2, KeyStay DEF rows
<1>2. CASE LookLocally(h) \/ LookInRegistry(h)
  <2>1. /\ UNCHANGED rows /\ UNCHANGED req /\ pc[h] \in CounterLabels
        /\ \E label \in {"oracle", "withdraw", "find"} : Goto(h, label)
    BY <1>2 DEF LookLocally, LookInRegistry, CounterLabels
  <2>2. \A g \in Handlers : Keeps(g)
    BY <2>1, KeepsGoto DEF Keeps, Labels
  <2> QED BY <2>1, <2>2, KeyStay DEF rows
<1>3. CASE Find(h)
  <2>1. /\ UNCHANGED rows /\ pc[h] \in CounterLabels
        /\ \/ Refuse(h)
           \/ \E e \in Recorded(h) : Answer(h, e.answer, "apply")
           \/ Goto(h, "register") /\ UNCHANGED req
    BY <1>3 DEF Find, Answered, CounterLabels
  <2>2. \A g \in Handlers : Keeps(g)
    BY <2>1, KeepsAnswered
  <2> QED BY <2>1, <2>2, KeyStay DEF rows
<1>4. CASE Register(h)
  <2>1. /\ UNCHANGED <<counters, altered, records, stale, status>> /\ pc[h] \in CounterLabels
        /\ Refuse(h) \/ Answer(h, FinalAlias(Mine(h)), "record")
    BY <1>4 DEF Register, CounterLabels
  <2>2. \A g \in Handlers : Keeps(g)
    BY <2>1, KeepsAnswered
  <2> QED BY <2>1, <2>2, KeyStay
<1>5. CASE Fail(h)
  BY <1>5, KeepsFinish, KeyStay DEF Fail, rows
<1> QED BY <1>1, <1>2, <1>3, <1>4, <1>5

LEMMA KeyOthers ==
  ASSUME TablesOK, TablesOK', HandlersOK, KeyInv,
         UNCHANGED vars \/ Approve \/ \E a \in Wanted : Contest(a)
  PROVE  KeyInv'
<1>1. UNCHANGED <<pc, req, stale, altered, records>>
  BY DEF vars, rows, Approve, Contest
<1>2. CASE UNCHANGED <<counters, status>>
  BY <1>1, <1>2, KeyStay DEF Keeps
<1>3. CASE Approve
  <2> SUFFICES ASSUME ~stale PROVE KeyInv'
    BY <1>1 DEF KeyInv
  <2>1. /\ counters' = {IF c.attached THEN [c EXCEPT !.alias = FinalAlias(c), !.issued = TRUE]
                        ELSE c : c \in counters}
        /\ status = "preparing"
    BY <1>3 DEF Approve
  <2>2. \A c \in counters : c.key = NoKey
    BY <2>1 DEF KeyInv, KeyRows
  <2>3. ASSUME NEW c \in counters, NEW a
        PROVE  [c EXCEPT !.alias = a, !.issued = TRUE].id = c.id
               /\ [c EXCEPT !.alias = a, !.issued = TRUE].key = c.key
    BY DEF TablesOK, Snapshot, Good, Counter
  <2>5. ASSUME NEW d \in counters' PROVE \E c \in counters : d.id = c.id /\ d.key = c.key
    <3>1. PICK c \in counters : \/ d = [c EXCEPT !.alias = FinalAlias(c), !.issued = TRUE]
                               \/ d = c
      BY <2>1
    <3>2. CASE d = [c EXCEPT !.alias = FinalAlias(c), !.issued = TRUE]
      <4>1. d.id = c.id /\ d.key = c.key
        BY <2>3, <3>2
      <4> QED BY <4>1
    <3>3. CASE d = c
      BY <3>3
    <3> QED BY <3>1, <3>2, <3>3
  <2>6. DifferentIds(counters')
    BY DEF TablesOK, Snapshot
  <2>4. RowsFollow
    BY <1>1, <2>1, <2>2, <2>5, <2>6, ConstantFacts DEF RowsFollow
  <2> QED BY <1>1, <2>4, KeyFollow DEF Keeps
<1> QED BY <1>2, <1>3 DEF vars, rows, Contest

LEMMA KeyNext ==
  ASSUME TablesOK, TablesOK', HandlersOK, KeyInv, AliasInv, [Next]_vars
  PROVE  KeyInv'
<1>1. ASSUME NEW h \in Handlers, Verify(h) \/ Sync(h) PROVE KeyInv'
  BY <1>1, KeyLocation DEF KeyInv
<1>2. ASSUME NEW h \in Handlers, Step(h) PROVE KeyInv'
  BY <1>1, <1>2, KeyInsert, KeyWithdraw, KeyApply, KeyRecord, KeyLook DEF Step
<1> QED BY <1>2, KeyArrive, KeyOthers DEF Next

LEMMA KeyInit == Init => RecordsFit /\ KeyInv
<1> SUFFICES ASSUME Init PROVE RecordsFit /\ KeyRows /\ KeyRecords /\ \A h \in Handlers : KeyHeld(h)
  BY DEF KeyInv
<1>1. \A c \in counters : c.key = NoKey
  BY DEF Init, Primary
<1>2. records = {} /\ \A h \in Handlers : pc[h] = "idle"
  BY DEF Init
<1> QED BY <1>1, <1>2, ConstantFacts DEF RecordsFit, KeyRows, KeyRecords, KeyHeld, CounterLabels

LEMMA WithdrawnContested == AliasInv => OnlyContestedAreWithdrawn
BY DEF AliasInv, AliasHeld, OnlyContestedAreWithdrawn

-----------------------------------------------------------------------------
(* Counters, requests and aliases keep their types, whatever location         *)
(* requests, additions, retries and the approval overlap or fail.           *)
THEOREM CountersTypeCorrect == Spec => []TypeOK
BY TypeParts, InvAlways, PTL

(* A counter number is given once and for good, until a location request has *)
(* written over rows it had not loaded (checkoutCounters.ts, addCheckout-    *)
(* Counter in approvedCheckoutCounters.ts).                                 *)
THEOREM NumbersAlwaysPermanent == Spec => []NumbersArePermanent
<1>1. Inv /\ NumbersInv /\ [Next]_vars => NumbersInv'
  BY NumbersNext DEF Inv
<1>2. Inv /\ NumbersInv => NumbersArePermanent
  BY DEF Inv, NumbersInv, NumbersArePermanent, TablesOK, Snapshot, Good
<1> QED BY <1>1, <1>2, NumbersInit, InvAlways, PTL DEF Spec

(* A location request that works on the counters as they are takes none from  *)
(* its customers: it removes, renames or renumbers no issued counter         *)
(* (syncCheckoutCounters).                                                  *)
THEOREM IssuedAlwaysStay == Spec => IssuedStay
<1>1. Inv /\ [Next]_vars =>
        [\A h \in Handlers :
           Sync(h) /\ UpToDate(h) =>
             \A c \in Attached : c.issued =>
               \E d \in counters' : /\ d.id = c.id /\ d.alias = c.alias
                                    /\ d.number = c.number /\ d.issued /\ d.attached]_vars
  BY SyncKeepsIssued DEF Inv
<1> QED BY <1>1, InvAlways, PTL DEF Spec, IssuedStay

(* An added counter is always among the first MaxCounters of the numbering:   *)
(* the limit is looked at and the counter inserted under one lock, and what  *)
(* a location request then creates is numbered above it (addCheckoutCounter  *)
(* in approvedCheckoutCounters.ts, syncCheckoutCounters).                    *)
THEOREM AddsAlwaysKeepLimit == Spec => []AddsKeepLimit
<1>1. Inv /\ Inv' /\ LimitInv /\ [Next]_vars => LimitInv'
  BY NumbersNext, LimitStep DEF Inv, LimitInv, FirstInv, AddsKeepLimit
<1>2. LimitInv => AddsKeepLimit
  BY DEF LimitInv
<1> QED BY <1>1, <1>2, LimitInit, InvAlways, PTL DEF Spec

(* While the aliases built for different numbers differ (shortened stems can  *)
(* clash: merchant-alias.ts), an added counter whose alias nobody asks for is *)
(* taken back only when a counter of its key had been renamed or removed:    *)
(* requests under one key never meet each other's registration as a conflict *)
(* (approvedCheckoutCounters.ts, the oracle's idempotency.ts).               *)
THEOREM OnlyContestedAlwaysWithdrawn ==
  ASSUME GeneratedDiffer
  PROVE  Spec => []OnlyContestedAreWithdrawn
<1>1. Inv /\ NumbersInv /\ [Next]_vars => NumbersInv'
  BY NumbersNext DEF Inv
<1>2. Inv /\ NumbersInv /\ AliasInv /\ RecordsFit /\ KeyInv /\ [Next]_vars =>
        AliasInv' /\ RecordsFit'
  BY AliasNext, RecordsNext DEF Inv
<1>3. Inv /\ Inv' /\ KeyInv /\ AliasInv /\ [Next]_vars => KeyInv'
  BY KeyNext DEF Inv
<1>4. Init => RecordsFit /\ KeyInv
  BY KeyInit
<1> QED BY <1>1, <1>2, <1>3, <1>4, NumbersInit, AliasInit, WithdrawnContested, InvAlways, PTL DEF Spec
=============================================================================
