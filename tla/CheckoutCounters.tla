-------------------------- MODULE CheckoutCounters --------------------------
(***************************************************************************)
(* The checkout counters of one merchant: the location requests that       *)
(* replace the counters of a location (POST and PUT locations, with        *)
(* syncCheckoutCounters), and the counters added and registered one by one *)
(* after the approval (POST checkout-counters under an Idempotency-Key,    *)
(* and the retry of a pending registration).                                *)
(*                                                                         *)
(* A location request works on the merchant as it loaded it, an added      *)
(* counter is numbered under a lock of the merchant's row: its transaction *)
(* is one step.  TypeORM saves every column of an entity that differs from *)
(* the row, inserts an entity whose row is gone, and clears the foreign    *)
(* key of the rows that are not in a loaded one-to-many relation.          *)
(***************************************************************************)
EXTENDS Naturals, Sequences, FiniteSets

CONSTANTS
  Handlers,      \* requests the backend works on at once
  Locations, NoLocation,
  Aliases, NoAlias,
  Wanted,        \* the aliases that requests ask for
  Unchanged,     \* an input without alias_value leaves the alias alone
  Keys, NoKey,   \* Idempotency-Keys
  Generated,     \* the alias built from the merchant's stem for each number
  MaxCounters,   \* MAX_CHECKOUT_COUNTERS_PER_MERCHANT
  MaxNumber,     \* bound: the largest counter number
  MaxRows,       \* bound: rows ever inserted
  MaxFresh,      \* bound: new counters one location request asks for
  MaxRequests    \* bound: requests in a behaviour

ASSUME ConstantsAssumption ==
  /\ NoLocation \notin Locations
  /\ NoAlias \notin Aliases /\ Wanted \subseteq Aliases
  /\ Unchanged \notin Aliases \cup {NoAlias}
  /\ NoKey \notin Keys
  /\ MaxCounters \in Nat /\ MaxNumber \in Nat \ {0} /\ MaxRows \in Nat \ {0}
  /\ MaxFresh \in Nat /\ MaxRequests \in Nat
  /\ Generated \in [1..MaxNumber -> Aliases]

VARIABLES
  counters,      \* rows of table checkout_counters
  next,          \* next_checkout_counter_number of the merchant
  status,        \* its registration_status
  locations,     \* its locations
  registry,      \* the oracle's aliases and the counters they belong to
  records,       \* the oracle's idempotency records of registrations
  numbers,       \* history: the number each row was inserted with, by id
  stale,         \* history: a location request wrote over rows it had not loaded
  altered,       \* history: keys whose counter was renamed or removed
  pc, req,
  requests       \* requests so far

rows == <<counters, next, status, locations, registry, records, numbers, stale, altered>>
vars == <<rows, pc, req, requests>>

Numbers == 1..MaxNumber
Ids == 1..MaxRows
Others == 0      \* in the registry: an alias of another merchant or of a DFSP

Counter ==
  [id : Ids, number : Numbers, location : Locations \cup {NoLocation},
   alias : Aliases \cup {NoAlias}, key : Keys \cup {NoKey},
   asked : Aliases \cup {NoAlias},   \* the creation request, by the alias it asked for
   issued : BOOLEAN,                 \* guid, QR code and registry id
   attached : BOOLEAN]               \* the merchant's foreign key

LocationRequest ==
  [op : {"post", "put"}, location : Locations,
   rows : SUBSET Counter, next : Nat, status : {"preparing", "approved"},
   keep : SUBSET Ids,               \* the counters it names by their ids
   fresh : 0..MaxFresh,             \* its inputs without an id
   alias : Aliases \cup {NoAlias, Unchanged}, named : {0} \cup Ids]
CounterRequest ==
  [op : {"add", "retry"}, key : Keys \cup {NoKey}, alias : Aliases \cup {NoAlias},
   location : Locations \cup {NoLocation}, counter : SUBSET Counter,
   answer : Aliases \cup {NoAlias}]  \* the alias the oracle registered
NoRequest == [op |-> "none"]

(* What the oracle keeps of a registration: the key it was sent under, the   *)
(* counter and the alias asked for, which stand for the body (the rest are  *)
(* data of the approved merchant), and the alias it answered.               *)
RegistrationRecord ==
  [key : Keys \cup {NoKey}, id : Ids, alias : Aliases \cup {NoAlias}, answer : Aliases]

Attached == {c \in counters : c.attached}
RowsWith(k) == {c \in counters : c.key = k}
OwnersOf(a) == {e.id : e \in {f \in registry : f.alias = a}}

TypeOK ==
  /\ counters \subseteq Counter
  /\ \A c, d \in counters : c.id = d.id => c = d
  /\ next \in Nat
  /\ status \in {"preparing", "approved"}
  /\ locations \subseteq Locations
  /\ registry \subseteq [alias : Aliases, id : Ids \cup {Others}]
  /\ records \subseteq RegistrationRecord
  /\ numbers \in Seq(Numbers) /\ Len(numbers) <= MaxRows
  /\ \A c \in counters : c.id <= Len(numbers)
  /\ stale \in BOOLEAN
  /\ altered \subseteq Keys
  /\ pc \in [Handlers ->
       {"idle", "validate", "verify", "sync", "insert", "local", "oracle", "withdraw",
        "find", "register", "record", "apply"}]
  /\ req \in [Handlers -> LocationRequest \cup CounterRequest \cup {NoRequest}]
  /\ requests \in 0..MaxRequests

Primary(l, a, done) ==
  [id |-> 1, number |-> 1, location |-> l, alias |-> a, key |-> NoKey, asked |-> NoAlias,
   issued |-> done, attached |-> TRUE]

(* A draft without counters or with the primary alias of its business        *)
(* information, or a merchant approved with one counter.                    *)
Init ==
  /\ next = 2
  /\ stale = FALSE
  /\ records = {} /\ altered = {}
  /\ pc = [h \in Handlers |-> "idle"]
  /\ req = [h \in Handlers |-> NoRequest]
  /\ requests = 0
  /\ \/ /\ status = "preparing" /\ locations = {} /\ registry = {}
        /\ \/ counters = {} /\ numbers = <<>>
           \/ /\ \E a \in Wanted : counters = {Primary(NoLocation, a, FALSE)}
              /\ numbers = <<1>>
     \/ \E l \in Locations, a \in Wanted \cup {Generated[1]} :
          /\ status = "approved" /\ locations = {l}
          /\ counters = {Primary(l, a, TRUE)} /\ numbers = <<1>>
          /\ registry = {[alias |-> a, id |-> 1]}

Goto(h, label) == pc' = [pc EXCEPT ![h] = label]

Finish(h) ==
  /\ Goto(h, "idle")
  /\ req' = [req EXCEPT ![h] = NoRequest]

(* The smallest number above 1, all of cs and the persisted next number.    *)
IsNextNumber(b, cs, n) ==
  /\ b >= 2 /\ b >= n
  /\ \A c \in cs : b > c.number
  /\ b = 2 \/ b = n \/ \E c \in cs : b = c.number + 1

-----------------------------------------------------------------------------
(* Location requests.                                                       *)

Available(r) == {c \in r.rows : c.location \in {NoLocation, r.location}}

(* The merchant is loaded with its counters: inputs name some of the         *)
(* counters by id and leave n to be found or created; one input may carry   *)
(* an alias, that of counter i or, for 0, that of the first one without id. *)
Load(h, o, l) ==
  /\ pc[h] = "idle"
  /\ \E n \in 0..MaxFresh, ks \in SUBSET {c.id : c \in Attached},
        a \in Wanted \cup {NoAlias, Unchanged} :
       \E i \in ks \cup {0} :
         /\ n > 0 \/ ks # {}
         /\ a = Unchanged => i = 0
         /\ a # Unchanged /\ i = 0 => n > 0
         /\ LET r == [op |-> o, location |-> l, rows |-> Attached, next |-> next,
                      status |-> status, keep |-> ks, fresh |-> n, alias |-> a, named |-> i]
            IN  /\ ks \subseteq {c.id : c \in Available(r)}
                /\ req' = [req EXCEPT ![h] = r]
  /\ Goto(h, "validate")
  /\ UNCHANGED rows

(* A PUT that lists no counters keeps those of the location.                *)
LoadPost(h, l) == l \notin locations /\ Load(h, "post", l)
LoadPut(h, l) == l \in locations /\ Load(h, "put", l)

(* isRequestedMerchantAliasAvailable: nobody else has the alias, locally or  *)
(* in the oracle; without a counter of its own every owner is another one.  *)
FreeLocally(a, own) == \A c \in counters : c.alias = a => c.id \in own
FreeInRegistry(a, own) == OwnersOf(a) \subseteq own

(* The counter a named alias is for, as far as the loaded rows tell.         *)
Unassigned(r) == {c \in r.rows : c.location = NoLocation /\ c.id \notin r.keep}
NamedIds(r) ==
  IF r.named # 0 THEN {r.named}
  ELSE {c.id : c \in {d \in Unassigned(r) :
          \A e \in Unassigned(r) : d.number < e.number \/ (d.number = e.number /\ d.id <= e.id)}}

Validate(h) ==
  /\ pc[h] = "validate"
  /\ LET r == req[h] IN
     IF r.alias \in Aliases =>
          FreeLocally(r.alias, NamedIds(r)) /\ FreeInRegistry(r.alias, NamedIds(r))
     THEN /\ \/ Goto(h, "sync")
             \/ r.op = "post" /\ Goto(h, "verify")      \* the merchant has an LEI
          /\ UNCHANGED req
     ELSE Finish(h)
  /\ UNCHANGED rows

(* postMerchantLocation saves the merchant with its counters once GLEIF has  *)
(* verified the address: counters it has not loaded lose their merchant.    *)
Verify(h) ==
  LET r == req[h]
      known == {c.id : c \in r.rows}
  IN
  /\ pc[h] = "verify"
  /\ counters' = {[c EXCEPT !.attached = c.id \in known] : c \in counters}
  /\ next' = r.next
  /\ status' = r.status
  /\ stale' = (stale \/ r.rows # Attached \/ r.next # next \/ r.status # status)
  /\ Goto(h, "sync")
  /\ UNCHANGED <<locations, registry, records, numbers, altered, req>>

(* The i-th of the counters a request creates, numbered from what it loaded. *)
HasPrimary(r) == \E c \in r.rows : c.number = 1
NewNumber(r, b, i) ==
  IF HasPrimary(r) THEN b + i - 1 ELSE IF i = 1 THEN 1 ELSE b + i - 2
NextAfter(r, b, k) == IF HasPrimary(r) \/ k = 0 THEN b + k ELSE b + k - 1

Renamed(r, c, target) ==
  IF r.alias # Unchanged /\ c.id = target THEN [c EXCEPT !.alias = r.alias] ELSE c
NewCounter(r, b, i, target) ==
  Renamed(r, [id |-> Len(numbers) + i, number |-> NewNumber(r, b, i),
              location |-> r.location, alias |-> NoAlias, key |-> NoKey, asked |-> NoAlias,
              issued |-> FALSE, attached |-> TRUE], target)
Placed(r, c, target) ==
  [Renamed(r, c, target) EXCEPT !.location = r.location, !.attached = TRUE]

(* Faulty: nothing is checked before the counters are removed.              *)
FaultyRefused(r, used, target) == FALSE

(* InvalidCheckoutCounterError: a counter the oracle knows would get another *)
(* alias, or it or the primary counter would be removed.                    *)
Refused(r, used, target) ==
  \/ \E c \in used : c.issued /\ Renamed(r, c, target) # c
  \/ \E c \in Available(r) \ used : c.number = 1 \/ c.issued

(* syncCheckoutCounters, in one transaction with the save of the location:   *)
(* inputs without an id take the unassigned counters first.                 *)
Write(h, r, reused, b) ==
  LET keep == {c \in Available(r) : c.id \in r.keep}
      used == keep \cup reused
      created == r.fresh - Cardinality(reused)
      target == IF r.named # 0 THEN r.named
                ELSE IF reused = {} THEN Len(numbers) + 1
                ELSE CHOOSE i \in NamedIds(r) : TRUE
      gone == {c.id : c \in Available(r)}
  IN
  IF Refused(r, used, target) THEN UNCHANGED rows
  ELSE
    /\ Len(numbers) + created <= MaxRows
    /\ b + created <= MaxNumber + 1
    /\ counters' =
         {[c EXCEPT !.location = IF @ = r.location THEN NoLocation ELSE @]
            : c \in {d \in counters : d.id \notin gone}}
         \cup {Placed(r, c, target) : c \in used}
         \cup {NewCounter(r, b, i, target) : i \in 1..created}
    /\ numbers' = numbers \o [i \in 1..created |-> NewNumber(r, b, i)]
    /\ next' = IF NextAfter(r, b, created) # r.next THEN NextAfter(r, b, created) ELSE next
    /\ locations' = locations \cup {r.location}
    /\ stale' = (stale \/ r.rows # Attached \/ r.next # next)
    /\ altered' = altered \cup
         {k \in Keys : \E c \in RowsWith(k) :
            ~\E d \in counters' : d.id = c.id /\ d.key = k /\ d.alias = c.alias}
    /\ UNCHANGED <<status, registry, records>>

Sync(h) ==
  /\ pc[h] = "sync"
  /\ LET r == req[h] IN
     \E reused \in SUBSET Unassigned(r), b \in Numbers \cup {MaxNumber + 1} :
       /\ Cardinality(reused) =
            IF r.fresh < Cardinality(Unassigned(r)) THEN r.fresh ELSE Cardinality(Unassigned(r))
       /\ \A c \in reused, d \in Unassigned(r) \ reused : c.number <= d.number
       /\ IsNextNumber(b, r.rows, r.next)
       /\ Write(h, r, reused, b)
  /\ Finish(h)

-----------------------------------------------------------------------------
(* The alias the oracle registers: the one asked for, the one it has for the *)
(* counter already, or the stem with the counter's number.                  *)
FinalAlias(c) ==
  IF c.alias # NoAlias THEN c.alias
  ELSE IF \E e \in registry : e.id = c.id THEN (CHOOSE e \in registry : e.id = c.id).alias
  ELSE Generated[c.number]

(* putMerchantApproveBulk, here in one step: MerchantApproval has the others. *)
Approve ==
  /\ status = "preparing"
  /\ Attached # {}
  /\ \A c \in Attached : c.location # NoLocation
  /\ \A c, d \in Attached : FinalAlias(c) = FinalAlias(d) => c = d
  /\ \A c \in Attached : OwnersOf(FinalAlias(c)) \subseteq {c.id}
  /\ counters' = {IF c.attached THEN [c EXCEPT !.alias = FinalAlias(c), !.issued = TRUE]
                  ELSE c : c \in counters}
  /\ registry' = {e \in registry : \A c \in Attached : e.id # c.id}
                 \cup {[alias |-> FinalAlias(c), id |-> c.id] : c \in Attached}
  /\ status' = "approved"
  /\ UNCHANGED <<next, locations, records, numbers, stale, altered, pc, req, requests>>

(* Another merchant, or a DFSP, registers an alias.                         *)
Contest(a) ==
  /\ OwnersOf(a) = {}
  /\ registry' = registry \cup {[alias |-> a, id |-> Others]}
  /\ UNCHANGED <<counters, next, status, locations, records, numbers, stale, altered,
                 pc, req, requests>>

-----------------------------------------------------------------------------
(* Counters added to an approved merchant.                                  *)

(* What follows when the key has a counter: a replay goes on with it as it   *)
(* was found, and is answered at once when it is registered.  Any other     *)
(* request under the key is refused.                                        *)
Replay(h, r, c) ==
  \/ /\ c.asked # r.alias \/ ~c.attached \/ c.issued
     /\ Finish(h)
     /\ UNCHANGED rows
  \/ /\ c.asked = r.alias /\ c.attached /\ ~c.issued
     /\ req' = [req EXCEPT ![h] = [r EXCEPT !.counter = {c}]]
     /\ Goto(h, "find")
     /\ UNCHANGED rows

(* The merchant is loaded approved, and its key looked up.                  *)
LoadAdd(h, k, a, l) ==
  LET r == [op |-> "add", key |-> k, alias |-> a, location |-> l, counter |-> {},
            answer |-> NoAlias] IN
  /\ pc[h] = "idle"
  /\ status = "approved"
  /\ l \in locations
  /\ \/ /\ RowsWith(k) = {}
        /\ req' = [req EXCEPT ![h] = r]
        /\ Goto(h, "insert")
        /\ UNCHANGED rows
     \/ \E c \in RowsWith(k) : Replay(h, r, c)

(* Faulty: the persisted next number is not consulted.                      *)
FaultyAddNumber(b) == IsNextNumber(b, Attached, 2)
AddNumber(b) == IsNextNumber(b, Attached, next)

(* Faulty: one more than the limit.                                         *)
FaultyBelowLimit(cs) == Cardinality(cs) <= MaxCounters
BelowLimit(cs) == Cardinality(cs) < MaxCounters

Insertable(k) == RowsWith(k) = {}

(* The transaction under the lock of the merchant's row; the unique index on *)
(* the key's hash turns the second of two creations into a replay.          *)
Insert(h) ==
  LET r == req[h] IN
  /\ pc[h] = "insert"
  /\ \/ /\ status # "approved" \/ ~BelowLimit(Attached)
        /\ Finish(h)
        /\ UNCHANGED rows
     \/ /\ status = "approved" /\ BelowLimit(Attached) /\ ~Insertable(r.key)
        /\ \E c \in RowsWith(r.key) : Replay(h, r, c)
     \/ /\ status = "approved" /\ BelowLimit(Attached) /\ Insertable(r.key)
        /\ Len(numbers) < MaxRows
        /\ \E b \in Numbers :
             /\ AddNumber(b)
             /\ LET c == [id |-> Len(numbers) + 1, number |-> b, location |-> r.location,
                          alias |-> IF r.alias = NoAlias THEN Generated[b] ELSE r.alias,
                          key |-> r.key, asked |-> r.alias,
                          issued |-> FALSE, attached |-> TRUE]
                IN  /\ counters' = counters \cup {c}
                    /\ req' = [req EXCEPT ![h] = [r EXCEPT !.counter = {c}]]
             /\ numbers' = Append(numbers, b)
             /\ next' = b + 1
        /\ Goto(h, "local")
        /\ UNCHANGED <<status, locations, registry, records, stale, altered>>

Mine(h) == CHOOSE c \in req[h].counter : TRUE

(* The alias of the new counter is looked for in both databases; it is taken *)
(* back when somebody else has it.                                          *)
LookLocally(h) ==
  /\ pc[h] = "local"
  /\ Goto(h, IF FreeLocally(Mine(h).alias, {Mine(h).id}) THEN "oracle" ELSE "withdraw")
  /\ UNCHANGED <<rows, req>>

(* Faulty: the oracle is not told whose the alias is.                       *)
FaultyLookInRegistry(h) ==
  /\ pc[h] = "oracle"
  /\ Goto(h, IF FreeInRegistry(Mine(h).alias, {}) THEN "find" ELSE "withdraw")
  /\ UNCHANGED <<rows, req>>
LookInRegistry(h) ==
  /\ pc[h] = "oracle"
  /\ Goto(h, IF FreeInRegistry(Mine(h).alias, {Mine(h).id}) THEN "find" ELSE "withdraw")
  /\ UNCHANGED <<rows, req>>

Withdraw(h) ==
  /\ pc[h] = "withdraw"
  /\ counters' = {c \in counters : c.id # Mine(h).id}
  /\ altered' = altered \cup {req[h].key}
  /\ Finish(h)
  /\ UNCHANGED <<next, status, locations, registry, records, numbers, stale>>

(* A pending counter of the merchant is registered again.                   *)
LoadRetry(h, c) ==
  /\ pc[h] = "idle"
  /\ status = "approved"
  /\ c \in Attached
  /\ ~c.issued
  /\ req' = [req EXCEPT ![h] = [op |-> "retry", key |-> NoKey, alias |-> NoAlias,
                                location |-> NoLocation, counter |-> {c},
                                answer |-> NoAlias]]
  /\ Goto(h, "find")
  /\ UNCHANGED rows

(* registerMerchantsWithRegistry with one counter: RegistryClient has its    *)
(* attempts.  An addition is sent under its request's key, a retry under    *)
(* one that its counter always has; what the oracle recorded for the key is *)
(* the answer to the same body, and a conflict for another one.  On any     *)
(* conflict an addition takes its counter back.                             *)
Recorded(h) == {e \in records : e.key = req[h].key /\ (e.key = NoKey => e.id = Mine(h).id)}
SameBody(e, h) == e.id = Mine(h).id /\ e.alias = Mine(h).alias

Refuse(h) == IF req[h].op = "add" THEN Goto(h, "withdraw") /\ UNCHANGED req ELSE Finish(h)
Answer(h, a, label) ==
  /\ req' = [req EXCEPT ![h].answer = a]
  /\ Goto(h, label)

(* The record, when there is one, answers.                                  *)
Answered(h) ==
  \E e \in Recorded(h) :
    IF SameBody(e, h) THEN Answer(h, e.answer, "apply") ELSE Refuse(h)

Find(h) ==
  /\ pc[h] = "find"
  /\ Answered(h) \/ (Recorded(h) = {} /\ Goto(h, "register") /\ UNCHANGED req)
  /\ UNCHANGED rows

(* The transaction of registerMerchants.                                    *)
Register(h) ==
  LET c == Mine(h)
      a == FinalAlias(c)
  IN
  /\ pc[h] = "register"
  /\ \/ /\ FreeInRegistry(a, {c.id})
        /\ registry' = {e \in registry : e.id # c.id} \cup {[alias |-> a, id |-> c.id]}
        /\ Answer(h, a, "record")
     \/ /\ ~FreeInRegistry(a, {c.id})
        /\ Refuse(h)
        /\ UNCHANGED registry
  /\ UNCHANGED <<counters, next, status, locations, records, numbers, stale, altered>>

(* The record is inserted; the first one for a key stays.                    *)
Record(h) ==
  /\ pc[h] = "record"
  /\ \/ Answered(h) /\ UNCHANGED records
     \/ /\ Recorded(h) = {}
        /\ records' = records \cup {[key |-> req[h].key, id |-> Mine(h).id,
                                     alias |-> Mine(h).alias, answer |-> req[h].answer]}
        /\ Goto(h, "apply")
        /\ UNCHANGED req
  /\ UNCHANGED <<counters, next, status, locations, registry, numbers, stale, altered>>

(* The QR code, which needs the location, is stored, the row updated if it   *)
(* is still there, and read again for the answer.                           *)
Apply(h) ==
  LET i == Mine(h).id IN
  /\ pc[h] = "apply"
  /\ \A c \in counters : c.id = i => c.location # NoLocation
  /\ counters' = {IF c.id = i THEN [c EXCEPT !.issued = TRUE, !.alias = req[h].answer] ELSE c
                  : c \in counters}
  /\ status' = "approved"
  /\ Finish(h)
  /\ UNCHANGED <<next, locations, registry, records, numbers, stale, altered>>

(* The oracle, the QR storage or the database does not answer, or the        *)
(* backend stops: the request ends where it is and a counter stays pending. *)
Fail(h) ==
  /\ pc[h] # "idle"
  /\ Finish(h)
  /\ UNCHANGED rows

Step(h) ==
  \/ Validate(h) \/ Verify(h) \/ Sync(h)
  \/ Insert(h) \/ LookLocally(h) \/ LookInRegistry(h) \/ Withdraw(h)
  \/ Find(h) \/ Register(h) \/ Record(h) \/ Apply(h) \/ Fail(h)

Arrive(h) ==
  /\ requests < MaxRequests
  /\ requests' = requests + 1
  /\ \/ \E l \in Locations : LoadPost(h, l) \/ LoadPut(h, l)
     \/ \E k \in Keys, a \in Wanted \cup {NoAlias}, l \in Locations : LoadAdd(h, k, a, l)
     \/ \E c \in counters : LoadRetry(h, c)

Next ==
  \/ \E h \in Handlers : Arrive(h) \/ (Step(h) /\ UNCHANGED requests)
  \/ Approve
  \/ \E a \in Wanted : Contest(a)

Spec == Init /\ [][Next]_vars

-----------------------------------------------------------------------------
(* Counter numbers are permanent: the rows ever inserted have different      *)
(* numbers, those of removed rows included, and a row keeps its number.     *)
(* Location requests number without a lock, from what they loaded: nothing  *)
(* is promised once one of them has written over what it had not seen.      *)
NumbersArePermanent ==
  ~stale =>
    /\ \A i, j \in DOMAIN numbers : numbers[i] = numbers[j] => i = j
    /\ \A c \in counters : c.number = numbers[c.id]

(* The limit of a merchant's counters is kept by the additions: an added     *)
(* counter is one of the first MaxCounters of the numbering.                *)
AddsKeepLimit ==
  ~stale => \A c \in counters :
    c.key # NoKey => Cardinality({d \in counters : d.number <= c.number}) <= MaxCounters

(* A location request that works on rows as they are now.                   *)
UpToDate(h) == pc[h] = "sync" => req[h].rows = Attached

(* A location request whose rows are current never removes a counter the     *)
(* customers know the alias of, nor renames or renumbers it.                *)
IssuedStay ==
  [][\A h \in Handlers :
       Sync(h) /\ UpToDate(h) =>
         \A c \in Attached : c.issued =>
           \E d \in counters' : /\ d.id = c.id /\ d.alias = c.alias
                                /\ d.number = c.number /\ d.issued /\ d.attached]_vars

(* A counter whose alias nobody asks for is taken back only when its key was *)
(* used on after a counter of it had been renamed or removed (the oracle     *)
(* then has another body for the key): however requests under one key, their *)
(* failures and retries overlap, the registration that one of them made is  *)
(* never met by another as a conflict.                                      *)
OnlyContestedAreWithdrawn ==
  ~stale => \A h \in Handlers :
    pc[h] = "withdraw" /\ req[h].key \notin altered => Mine(h).alias \in Wanted
=============================================================================
