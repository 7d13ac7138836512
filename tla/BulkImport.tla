----------------------------- MODULE BulkImport -----------------------------
(***************************************************************************)
(* POST merchants/bulk-upload: a workbook of merchants is validated, checked *)
(* against what other merchants hold, and written in one transaction under  *)
(* an Idempotency-Key.  The page that sends it (Registry.tsx) makes a key   *)
(* for every file that is selected and repeats it when Upload is pressed    *)
(* again; nothing keeps an earlier attempt, whose answer was lost, from      *)
(* still being at work.  A key here is the hash of user and header.         *)
(*                                                                         *)
(* A workbook is what is left of it once the columns and the fields of a    *)
(* row are valid: the references between its sheets, LEIs and aliases.      *)
(***************************************************************************)
EXTENDS Naturals, Sequences, FiniteSets, Functions

CONSTANTS
  Attempts,        \* requests
  Keys,            \* their Idempotency-Keys
  Books,           \* workbooks
  Leis, Aliases,   \* those that other merchants may take meanwhile
  Blank,           \* an empty cell
  Lower(_),        \* an alias in lower case
  MaxCounters,     \* checkout counters of a location (50 in the code)
  MaxRows          \* rows of a sheet (250 merchants, 5000 of the others)

ASSUME BulkAssumption ==
  Blank \notin Leis \cup Aliases /\ MaxCounters \in Nat /\ MaxRows \in Nat

VARIABLES
  key, batch,    \* of each attempt: its key and its workbook
  pc, todo,      \* of each attempt: where it is, and the aliases it has to look up
  refused,       \* of each attempt: a check found an issue
  reply,         \* of each attempt: what it answered
  answers,       \* table merchant_bulk_imports
  merchants,     \* table merchants with their children, the imported ones
  leis,          \* LEIs, and
  aliases,       \* aliases in lower case, of all merchants, here and at the oracle
  overlapped     \* history: attempts that were at work while another under their key was

vars == <<key, batch, pc, todo, refused, reply, answers, merchants, leis, aliases,
          overlapped>>

-----------------------------------------------------------------------------
(* The workbook: the cells of a row that other rows or tables depend on.  Of *)
(* an owner and of a contact person that is the merchant.                   *)
MerchantCells == {"ref", "lei", "alias"}
LocationCells == {"merchant", "ref"}
CounterCells == {"merchant", "location", "alias"}
Sheets == {"merchants", "locations", "counters", "owners", "contacts"}

Workbook(b) ==
  /\ DOMAIN b = Sheets
  /\ \A sheet \in Sheets : b[sheet] \in Seq(Range(b[sheet]))
  /\ \A m \in Range(b.merchants) : DOMAIN m = MerchantCells
  /\ \A l \in Range(b.locations) : DOMAIN l = LocationCells
  /\ \A c \in Range(b.counters) : DOMAIN c = CounterCells

ASSUME WorkbookAssumption == \A b \in Books : Workbook(b)

(* A cell in lower case is empty if it was.                                  *)
ASSUME LowerAssumption ==
  \A b \in Books : \A row \in Range(b.merchants) \cup Range(b.counters) :
    Lower(row.alias) = Blank <=> row.alias = Blank

SheetsFit(b) == \A sheet \in Sheets : Len(b[sheet]) <= MaxRows

References(b) == {m.ref : m \in Range(b.merchants)}
Places(b) == [i \in DOMAIN b.locations |-> <<b.locations[i].merchant, b.locations[i].ref>>]
Place(c) == <<c.merchant, c.location>>

(* The counters of a merchant, in the order of the sheet.                    *)
Nth(S, k) == CHOOSE i \in S : Cardinality({j \in S : j <= i}) = k
RowsOf(b, ref) == {i \in DOMAIN b.counters : b.counters[i].merchant = ref}
CountersOf(b, ref) ==
  [k \in 1..Cardinality(RowsOf(b, ref)) |-> b.counters[Nth(RowsOf(b, ref), k)]]

EffectiveAlias(m, cs, i) == IF i = 1 /\ m.alias # Blank THEN m.alias ELSE cs[i].alias

(* Faulty: aliases are compared as they are written.                         *)
FaultyNamed(m, cs) == [i \in DOMAIN cs |-> EffectiveAlias(m, cs, i)]
Named(m, cs) == [i \in DOMAIN cs |-> IF EffectiveAlias(m, cs, i) = Blank THEN Blank
                                     ELSE Lower(EffectiveAlias(m, cs, i))]

AliasesDiffer(b) ==
  /\ \A m \in Range(b.merchants) :
       LET cs == CountersOf(b, m.ref) IN
       m.alias # Blank /\ cs # <<>> => cs[1].alias \in {Blank, m.alias}
  /\ LET NamesOf(m) == Named(m, CountersOf(b, m.ref))
         Uses(x) == {u \in Range(b.merchants) \X (1..Len(b.counters)) :
                       u[2] <= Len(NamesOf(u[1])) /\ NamesOf(u[1])[u[2]] = x}
     IN \A m \in Range(b.merchants) :
          \A x \in Range(NamesOf(m)) \ {Blank} : Cardinality(Uses(x)) = 1

KnownPlace(b, c) == Place(c) \in Range(Places(b))

Valid(b) ==
  /\ SheetsFit(b) /\ b.merchants # <<>>
  /\ IsInjective([i \in DOMAIN b.merchants |-> b.merchants[i].ref])
  /\ IsInjective(SelectSeq([i \in DOMAIN b.merchants |-> b.merchants[i].lei],
                           LAMBDA x : x # Blank))
  /\ \A l \in Range(b.locations) : l.merchant \in References(b)
  /\ IsInjective(Places(b))
  /\ \A c \in Range(b.counters) : KnownPlace(b, c)
  /\ \A p \in Range(Places(b)) :
       Cardinality({i \in DOMAIN b.counters : Place(b.counters[i]) = p}) \in 1..MaxCounters
  /\ Range(b.owners) = References(b)
  /\ Range(b.contacts) = References(b)
  /\ \A r \in References(b) : \E l \in Range(b.locations) : l.merchant = r
  /\ AliasesDiffer(b)

(* What createMerchants writes for a row of the sheet Merchants.             *)
Created(b, m) ==
  LET cs == CountersOf(b, m.ref) IN
  [ref |-> m.ref, lei |-> m.lei,
   locations |-> {l.ref : l \in {r \in Range(b.locations) : r.merchant = m.ref}},
   counters |-> [i \in DOMAIN cs |-> [location |-> cs[i].location,
                                     alias |-> EffectiveAlias(m, cs, i)]],
   next |-> Len(cs) + 1,
   owners |-> Cardinality({i \in DOMAIN b.owners : b.owners[i] = m.ref}),
   contacts |-> Cardinality({i \in DOMAIN b.contacts : b.contacts[i] = m.ref})]

LeisOf(b) == {m.lei : m \in Range(b.merchants)} \ {Blank}
AliasesOf(b) ==
  UNION {Range(Named(m, CountersOf(b, m.ref))) : m \in Range(b.merchants)} \ {Blank}
Result(k, b) ==
  [i \in DOMAIN b.merchants |-> [key |-> k, merchant |-> Created(b, b.merchants[i])]]

-----------------------------------------------------------------------------
Import == {[key |-> k, batch |-> b, data |-> Result(k, b)] : k \in Keys, b \in Books}
NoReply == [status |-> "none", data |-> <<>>]
Stages == {"idle", "lookup", "leis", "aliases", "create", "reread", "explain", "done"}

TypeOK ==
  /\ key \in [Attempts -> Keys] /\ batch \in [Attempts -> Books]
  /\ pc \in [Attempts -> Stages]
  /\ \A u \in Attempts : todo[u] \subseteq AliasesOf(batch[u])
  /\ refused \in [Attempts -> BOOLEAN]
  /\ \A u \in Attempts : reply[u].status \in {"none", "ok", "reused", "conflict", "error"}
  /\ \A u \in Attempts : reply[u].status # "none" => pc[u] = "done"
  /\ answers \subseteq Import
  /\ merchants = UNION {Range(r.data) : r \in answers}
  /\ overlapped \subseteq Attempts

Init ==
  /\ key \in [Attempts -> Keys] /\ batch \in [Attempts -> Books]
  /\ pc = [u \in Attempts |-> "idle"]
  /\ todo = [u \in Attempts |-> {}]
  /\ refused = [u \in Attempts |-> FALSE]
  /\ reply = [u \in Attempts |-> NoReply]
  /\ answers = {} /\ merchants = {} /\ leis = {} /\ aliases = {} /\ overlapped = {}

ImportsUnder(k) == {r \in answers : r.key = k}
AtWork(k) == {u \in Attempts : key[u] = k /\ pc[u] \notin {"idle", "done"}}

Goto(u, label) == pc' = [pc EXCEPT ![u] = label]
Answer(u, status, d) ==
  /\ Goto(u, "done")
  /\ reply' = [reply EXCEPT ![u] = [status |-> status, data |-> d]]

tables == <<answers, merchants, leis, aliases>>
request == <<key, batch, overlapped>>

(* postMerchantBulkUpload: the workbook is parsed before anything is awaited. *)
Send(u) ==
  /\ pc[u] = "idle"
  /\ IF Valid(batch[u])
     THEN /\ Goto(u, "lookup")
          /\ overlapped' = IF AtWork(key[u]) = {} THEN overlapped
                           ELSE overlapped \cup AtWork(key[u]) \cup {u}
          /\ UNCHANGED reply
     ELSE Answer(u, "conflict", <<>>) /\ UNCHANGED overlapped
  /\ UNCHANGED <<key, batch, todo, refused, tables>>

(* The key was used: its result, if it was used with this workbook.          *)
Repeat(u, r) ==
  IF r.batch = batch[u] THEN Answer(u, "ok", r.data) ELSE Answer(u, "reused", <<>>)

(* Faulty: the import is not looked up.                                     *)
FaultyLookUp(u) ==
  /\ pc[u] = "lookup"
  /\ Goto(u, "leis")
  /\ UNCHANGED <<request, todo, refused, reply, tables>>
LookUp(u) ==
  /\ pc[u] = "lookup"
  /\ \/ \E r \in ImportsUnder(key[u]) : Repeat(u, r)
     \/ ImportsUnder(key[u]) = {} /\ Goto(u, "leis") /\ UNCHANGED reply
  /\ UNCHANGED <<request, todo, refused, tables>>

(* validateExternalData reads the owners of all LEIs at once; GLEIF may not   *)
(* know an LEI, its name or its address; the aliases follow one by one, but *)
(* for merchants with an issue.                                             *)
CheckLeis(u) ==
  /\ pc[u] = "leis"
  /\ \E bad \in SUBSET Range(batch[u].merchants) :
       /\ \A m \in bad : m.lei # Blank
       /\ \A m \in Range(batch[u].merchants) : m.lei \in leis => m \in bad
       /\ todo' = [todo EXCEPT ![u] =
            UNION {Range(Named(m, CountersOf(batch[u], m.ref))) :
                     m \in Range(batch[u].merchants) \ bad} \ {Blank}]
       /\ refused' = [refused EXCEPT ![u] = bad # {}]
  /\ Goto(u, "aliases")
  /\ UNCHANGED <<request, reply, tables>>

CheckAlias(u, a) ==
  /\ pc[u] = "aliases"
  /\ a \in todo[u]
  /\ todo' = [todo EXCEPT ![u] = @ \ {a}]
  /\ refused' = [refused EXCEPT ![u] = @ \/ a \in aliases]
  /\ UNCHANGED <<request, pc, reply, tables>>

Checked(u) ==
  /\ pc[u] = "aliases" /\ todo[u] = {}
  /\ IF refused[u] THEN Answer(u, "conflict", <<>>) ELSE Goto(u, "create") /\ UNCHANGED reply
  /\ UNCHANGED <<request, todo, refused, tables>>

(* createMerchants, one transaction.  Its first row is that of the key, and   *)
(* both the key and the LEI of a merchant have a unique index.              *)
Missing(b) == \E c \in Range(b.counters) : Place(c) \notin Range(Places(b))

(* Faulty: no unique index on key_hash.                                     *)
FaultyKeyTaken(k) == FALSE
KeyTaken(k) == ImportsUnder(k) # {}

Create(u) ==
  LET b == batch[u] IN
  /\ pc[u] = "create"
  /\ ~KeyTaken(key[u])
  /\ LeisOf(b) \cap leis = {}
  /\ ~Missing(b)
  /\ answers' = answers \cup {[key |-> key[u], batch |-> b, data |-> Result(key[u], b)]}
  /\ merchants' = merchants \cup Range(Result(key[u], b))
  /\ leis' = leis \cup LeisOf(b)
  /\ aliases' = aliases \cup AliasesOf(b)
  /\ Answer(u, "ok", Result(key[u], b))
  /\ UNCHANGED <<request, todo, refused>>

RollBack(u) ==
  /\ pc[u] = "create"
  /\ \/ KeyTaken(key[u]) /\ Goto(u, "reread")
     \/ ~KeyTaken(key[u]) /\ LeisOf(batch[u]) \cap leis # {} /\ Goto(u, "explain")
  /\ UNCHANGED <<request, todo, refused, reply, tables>>

(* The attempt that was first under the key has committed.                   *)
Reread(u) ==
  /\ pc[u] = "reread"
  /\ \E r \in ImportsUnder(key[u]) : Repeat(u, r)
  /\ UNCHANGED <<request, todo, refused, tables>>

Explain(u) ==
  /\ pc[u] = "explain"
  /\ Answer(u, "conflict", <<>>)
  /\ UNCHANGED <<request, todo, refused, tables>>

(* A query throws, the oracle does not answer or the backend stops.           *)
Fail(u) ==
  /\ pc[u] \notin {"idle", "done"}
  /\ Answer(u, "error", <<>>)
  /\ UNCHANGED <<request, todo, refused, tables>>

(* Forms and other DFSPs register merchants.                                 *)
Elsewhere ==
  /\ \/ \E l \in Leis \ leis : leis' = leis \cup {l} /\ UNCHANGED aliases
     \/ \E a \in Aliases : aliases' = aliases \cup {Lower(a)} /\ UNCHANGED leis
  /\ UNCHANGED <<request, pc, todo, refused, reply, answers, merchants>>

Step(u) ==
  \/ Send(u) \/ LookUp(u) \/ CheckLeis(u) \/ Checked(u) \/ Create(u) \/ RollBack(u)
  \/ Reread(u) \/ Explain(u) \/ Fail(u)
  \/ \E a \in todo[u] : CheckAlias(u, a)

Next == (\E u \in Attempts : Step(u)) \/ Elsewhere

Spec == Init /\ [][Next]_vars

-----------------------------------------------------------------------------
(* However attempts overlap, fail and are repeated, a key imports one workbook *)
(* once and answers with that import for good, and it is refused to another *)
(* workbook and only to that: the promise the oracle gives for its keys.     *)
Promise == INSTANCE KeyedAnswers WITH Callers <- Attempts
KeepsPromise == Promise!KSpec

(* The review and the registration can work with a merchant.                 *)
Workable(m) ==
  LET At(p) == {i \in DOMAIN m.counters : m.counters[i].location = p} IN
  /\ m.owners > 0 /\ m.contacts > 0 /\ m.locations # {}
  /\ {m.counters[i].location : i \in DOMAIN m.counters} = m.locations
  /\ \A p \in m.locations : Cardinality(At(p)) <= MaxCounters
  /\ m.next = Len(m.counters) + 1

(* Whatever the sheets hold, a merchant that was imported is one the review   *)
(* can work with: it has an owner, a contact and locations of its own, each  *)
(* with counters within the limit, and no two counters of an import share an *)
(* alias.  No checked workbook fails half way for want of a location.        *)
ImportedIsComplete ==
  /\ \A u \in Attempts : pc[u] = "create" => ~Missing(batch[u])
  /\ \A r \in merchants : Workable(r.merchant)
  /\ \A r, q \in merchants : r.key = q.key =>
       \A i \in DOMAIN r.merchant.counters, j \in DOMAIN q.merchant.counters :
         LET a == r.merchant.counters[i].alias IN
         a # Blank /\ Lower(a) = Lower(q.merchant.counters[j].alias)
           => r.merchant.ref = q.merchant.ref /\ i = j

(* "Workbook validation failed. No merchants were created." is the truth for  *)
(* the key and the workbook, unless two attempts under the key overlapped:   *)
(* one that looked the key up before the other committed is then refused for *)
(* the LEIs and aliases of its own import.                                   *)
RefusalIsTrue ==
  [][\A u \in Attempts :
       reply[u].status = "none" /\ reply'[u].status = "conflict" /\ u \notin overlapped =>
         \A r \in ImportsUnder(key[u]) : r.batch # batch[u]]_vars
=============================================================================
