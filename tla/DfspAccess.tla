----------------------------- MODULE DfspAccess -----------------------------
(***************************************************************************)
(* The DFSPs of the scheme: their rows and client secrets in the backend    *)
(* (POST dfsps, POST dfsps/:id/client-access-key), the secrets the oracle    *)
(* accepts (PUT dfsps/:fspId/access-credential), and the participants that   *)
(* DFSPs register at the oracle with them (POST /participants), whose        *)
(* aliases are made up by incrementing the one of the head row.             *)
(*                                                                         *)
(* A PUT to the oracle may be lost, arrive after the backend gave up, or    *)
(* have its answer lost: RegistryClient has the attempts of one call.       *)
(***************************************************************************)
EXTENDS Naturals, FiniteSets

CONSTANTS
  Handlers,        \* rotations and creations the backend works on at once
  Servers,         \* POST /participants the oracle works on at once
  Dfsps,           \* participant ids (fspId)
  NoSecret,        \* a DFSP without a client secret
  Merchants,       \* the owner of aliases that are registered for merchants
  MaxSecrets,      \* bound: secrets ever generated
  MaxNumber,       \* bound: the largest number used as an alias
  MaxCalls,        \* bound: POST /participants
  MaxItems         \* bound: participants in one of them

ASSUME ConstantsAssumption ==
  /\ MaxSecrets \in Nat /\ NoSecret \notin 1..MaxSecrets
  /\ MaxNumber \in Nat /\ MaxCalls \in Nat /\ MaxItems \in Nat
  /\ Merchants \notin Dfsps

Secrets == 1..MaxSecrets
Numbers == 1..MaxNumber
NoHead == 0

VARIABLES
  dfsps,        \* backend, table dfsps: the client secret of each DFSP
  secrets,      \* secrets generated so far
  sent,         \* PUTs that were sent to the oracle
  access,       \* oracle, table api_access
  shown,        \* history: the secrets answered to an administrator
  disturbed,    \* history: DFSPs whose rotations overlapped or were cut off
  bpc, breq,    \* the backend's handlers
  registry,     \* oracle, table registry, the rows whose alias is a number
  freed,        \* history: the numbers that registered merchants gave up
  pc, req,      \* the oracle's handlers
  calls         \* POST /participants so far

backend == <<dfsps, secrets, sent, shown, disturbed, bpc, breq>>
oracle == <<registry, freed, pc, req, calls>>
vars == <<backend, access, oracle>>

Key == [fsp : Dfsps, secret : Secrets]
Row == [number : Numbers, fsp : Dfsps \cup {Merchants}, head : BOOLEAN, made : BOOLEAN]
Rotation == [fsp : Dfsps, previous : Secrets \cup {NoSecret}, secret : Secrets]
Item == [fsp : Dfsps, left : 0..MaxItems, head : Numbers \cup {NoHead}, number : 1..(MaxNumber + 2)]
NoRequest == [op |-> "none"]

Taken == {r.number : r \in registry}
Heads == {r \in registry : r.head}

TypeOK ==
  /\ \E known \in SUBSET Dfsps : dfsps \in [known -> Secrets \cup {NoSecret}]
  /\ secrets \in 0..MaxSecrets
  /\ sent \subseteq Key /\ access \subseteq Key /\ shown \subseteq Key
  /\ \A k \in access \cup sent : k.secret <= secrets
  /\ disturbed \subseteq Dfsps
  /\ bpc \in [Handlers -> {"idle", "create", "save", "send", "await", "restore"}]
  /\ breq \in [Handlers -> Rotation \cup [fsp : Dfsps] \cup {NoRequest}]
  /\ registry \subseteq Row
  /\ \A r, s \in registry : r.number = s.number => r = s
  /\ freed \subseteq Numbers
  /\ pc \in [Servers -> {"idle", "next", "find", "retire", "insert", "add"}]
  /\ req \in [Servers -> Item \cup {NoRequest}]
  /\ calls \in 0..MaxCalls

Init ==
  /\ dfsps = [d \in {} |-> NoSecret]
  /\ secrets = 0
  /\ sent = {} /\ access = {} /\ shown = {} /\ disturbed = {}
  /\ bpc = [h \in Handlers |-> "idle"]
  /\ breq = [h \in Handlers |-> NoRequest]
  /\ registry = {} /\ freed = {}
  /\ pc = [s \in Servers |-> "idle"]
  /\ req = [s \in Servers |-> NoRequest]
  /\ calls = 0

-----------------------------------------------------------------------------
(* Backend.                                                                 *)
Goto(h, label) == bpc' = [bpc EXCEPT ![h] = label]
Finish(h) ==
  /\ Goto(h, "idle")
  /\ breq' = [breq EXCEPT ![h] = NoRequest]

(* postCreateDFSP looks the participant id up, uploads the logo and inserts; *)
(* the unique index refuses the second of two.                              *)
LoadCreate(h, d) ==
  /\ bpc[h] = "idle"
  /\ d \notin DOMAIN dfsps
  /\ Goto(h, "create")
  /\ breq' = [breq EXCEPT ![h] = [fsp |-> d]]
  /\ UNCHANGED <<dfsps, secrets, sent, shown, disturbed>>

Create(h) ==
  LET d == breq[h].fsp IN
  /\ bpc[h] = "create"
  /\ dfsps' = IF d \in DOMAIN dfsps THEN dfsps
              ELSE [e \in DOMAIN dfsps \cup {d} |-> IF e = d THEN NoSecret ELSE dfsps[e]]
  /\ Finish(h)
  /\ UNCHANGED <<secrets, sent, shown, disturbed>>

Rotating(d) ==
  {h \in Handlers : bpc[h] \in {"save", "send", "await", "restore"} /\ breq[h].fsp = d}

(* createClientAccessKey: the row is read, saved with a new secret, and the  *)
(* oracle is told; when that fails the secret that was read is saved again. *)
LoadRotate(h, d) ==
  /\ bpc[h] = "idle"
  /\ d \in DOMAIN dfsps
  /\ secrets < MaxSecrets
  /\ secrets' = secrets + 1
  /\ disturbed' = IF Rotating(d) = {} THEN disturbed ELSE disturbed \cup {d}
  /\ breq' = [breq EXCEPT ![h] = [fsp |-> d, previous |-> dfsps[d], secret |-> secrets + 1]]
  /\ Goto(h, "save")
  /\ UNCHANGED <<dfsps, sent, shown>>

Save(h) ==
  /\ bpc[h] = "save"
  /\ dfsps' = [dfsps EXCEPT ![breq[h].fsp] = breq[h].secret]
  /\ Goto(h, "send")
  /\ UNCHANGED <<secrets, sent, shown, disturbed, breq>>

KeyOf(h) == [fsp |-> breq[h].fsp, secret |-> breq[h].secret]

Send(h) ==
  /\ bpc[h] = "send"
  /\ sent' = sent \cup {KeyOf(h)}
  /\ Goto(h, "await")
  /\ UNCHANGED <<dfsps, secrets, shown, disturbed, breq>>

(* Faulty: any answer will do.                                              *)
FaultyConfirmed(h) == TRUE
Confirmed(h) == KeyOf(h) \in access

Confirm(h) ==
  /\ bpc[h] = "await"
  /\ Confirmed(h)
  /\ shown' = shown \cup {KeyOf(h)}
  /\ Finish(h)
  /\ UNCHANGED <<dfsps, secrets, sent, disturbed>>

(* No attempt was answered, whether or not the oracle got one.              *)
GiveUp(h) ==
  /\ bpc[h] = "await"
  /\ Goto(h, "restore")
  /\ UNCHANGED <<dfsps, secrets, sent, shown, disturbed, breq>>

(* Faulty: the new secret is left in place.                                 *)
FaultyRestored(r) == r.secret
Restored(r) == r.previous

Restore(h) ==
  /\ bpc[h] = "restore"
  /\ dfsps' = [dfsps EXCEPT ![breq[h].fsp] = Restored(breq[h])]
  /\ Finish(h)
  /\ UNCHANGED <<secrets, sent, shown, disturbed>>

(* The database fails, or the backend stops.                                *)
Fail(h) ==
  /\ bpc[h] # "idle"
  /\ disturbed' = IF bpc[h] = "create" THEN disturbed ELSE disturbed \cup {breq[h].fsp}
  /\ Finish(h)
  /\ UNCHANGED <<dfsps, secrets, sent, shown>>

BackendStep(h) ==
  \/ \E d \in Dfsps : LoadCreate(h, d) \/ LoadRotate(h, d)
  \/ Create(h) \/ Save(h) \/ Send(h) \/ Confirm(h) \/ GiveUp(h) \/ Restore(h) \/ Fail(h)

-----------------------------------------------------------------------------
(* Oracle.  registerEndpointDFSP, one transaction, once, again, late, never. *)
Accepted(k) == access \cup {k}

Deliver(k) ==
  /\ k \in sent
  /\ \A a \in access : a.secret = k.secret => a.fsp = k.fsp
  /\ access' = Accepted(k)
  /\ UNCHANGED <<backend, oracle>>

Jump(s, label) == pc' = [pc EXCEPT ![s] = label]

NextItem(s) ==
  /\ Jump(s, "next")
  /\ req' = [req EXCEPT ![s].head = NoHead, ![s].number = 1]

(* authenticateAPIAccess: a DFSP sends a secret it was given.               *)
Post(s, k, n) ==
  /\ pc[s] = "idle"
  /\ calls < MaxCalls
  /\ calls' = calls + 1
  /\ k \in shown
  /\ k \in access
  /\ Jump(s, "next")
  /\ req' = [req EXCEPT ![s] = [fsp |-> k.fsp, left |-> n, head |-> NoHead, number |-> 1]]
  /\ UNCHANGED <<registry>>

Respond(s) ==
  /\ pc[s] = "next" /\ req[s].left = 0
  /\ Jump(s, "idle")
  /\ req' = [req EXCEPT ![s] = NoRequest]
  /\ UNCHANGED <<registry, calls>>

(* A participant without an alias: the head is read, and the numbers after   *)
(* it are looked up one by one until one is free.                           *)
(* Faulty: incremented by the caller, and by the loop once more.            *)
FaultyFollowing(n) == n + 2
Following(n) == n + 1

ReadHead(s) ==
  /\ pc[s] = "next" /\ req[s].left > 0
  /\ \/ \E r \in Heads :
          req' = [req EXCEPT ![s].left = @ - 1, ![s].head = r.number, ![s].number = Following(r.number)]
     \/ /\ Heads = {}
        /\ req' = [req EXCEPT ![s].left = @ - 1, ![s].head = NoHead, ![s].number = Following(0)]
  /\ Jump(s, "find")
  /\ UNCHANGED <<registry, calls>>

FindIncrement(s) ==
  /\ pc[s] = "find"
  /\ req[s].number <= MaxNumber
  /\ IF req[s].number \notin Taken
     THEN Jump(s, "retire") /\ UNCHANGED req
     ELSE req' = [req EXCEPT ![s].number = @ + 1] /\ UNCHANGED pc
  /\ UNCHANGED <<registry, calls>>

Retired(n) == {IF r.number = n THEN [r EXCEPT !.head = FALSE] ELSE r : r \in registry}

RetireHead(s) ==
  /\ pc[s] = "retire"
  /\ registry' = Retired(req[s].head)
  /\ Jump(s, "insert")
  /\ UNCHANGED <<req, calls>>

(* The unique index on alias_value refuses a number that was taken since.    *)
Stored(r) == IF r.number \in Taken THEN registry ELSE registry \cup {r}

Insert(s) ==
  /\ pc[s] = "insert"
  /\ registry' = Stored([number |-> req[s].number, fsp |-> req[s].fsp,
                        head |-> TRUE, made |-> TRUE])
  /\ NextItem(s)
  /\ UNCHANGED <<calls>>

(* A participant with an alias, here one that is a number.                  *)
LookUp(s, n) ==
  /\ pc[s] = "next" /\ req[s].left > 0
  /\ IF n \in Taken
     THEN req' = [req EXCEPT ![s].left = @ - 1] /\ UNCHANGED pc
     ELSE req' = [req EXCEPT ![s].left = @ - 1, ![s].number = n] /\ Jump(s, "add")
  /\ UNCHANGED <<registry, calls>>

Add(s) ==
  /\ pc[s] = "add"
  /\ registry' = Stored([number |-> req[s].number, fsp |-> req[s].fsp,
                        head |-> FALSE, made |-> FALSE])
  /\ NextItem(s)
  /\ UNCHANGED <<calls>>

(* Saving the head or the row fails: the participant is reported as failed.  *)
ItemFails(s) ==
  /\ pc[s] \in {"retire", "insert", "add"}
  /\ NextItem(s)
  /\ UNCHANGED <<registry, calls>>

(* A query fails or the oracle stops: nothing is answered.                  *)
Abort(s) ==
  /\ pc[s] # "idle"
  /\ Jump(s, "idle")
  /\ req' = [req EXCEPT ![s] = NoRequest]
  /\ UNCHANGED <<registry, calls>>

OracleStep(s) ==
  \/ \E k \in shown, n \in 1..MaxItems : Post(s, k, n)
  \/ ReadHead(s) \/ FindIncrement(s) \/ RetireHead(s) \/ Insert(s) \/ Add(s)
  \/ \E n \in Numbers : LookUp(s, n)
  \/ Respond(s) \/ ItemFails(s) \/ Abort(s)

(* registerMerchants, for a merchant whose alias is a number: in a new row, or *)
(* over the alias of the row it has.  Several in one request are such steps  *)
(* in a row.                                                                *)
MerchantRow(n) == [number |-> n, fsp |-> Merchants, head |-> FALSE, made |-> FALSE]

RegisterMerchant(n) ==
  /\ n \notin Taken
  /\ registry' = registry \cup {MerchantRow(n)}
  /\ UNCHANGED <<backend, access, freed, pc, req, calls>>

(* The new alias is another number, or a word.                              *)
RenameMerchant(r) ==
  /\ r.fsp = Merchants
  /\ \/ \E n \in Numbers \ Taken : registry' = (registry \ {r}) \cup {MerchantRow(n)}
     \/ registry' = registry \ {r}
  /\ freed' = freed \cup {r.number}
  /\ UNCHANGED <<backend, access, pc, req, calls>>

Next ==
  \/ \E h \in Handlers : BackendStep(h) /\ UNCHANGED <<access, oracle>>
  \/ \E k \in sent : Deliver(k)
  \/ \E s \in Servers : OracleStep(s) /\ UNCHANGED <<backend, access, freed>>
  \/ \E n \in Numbers : RegisterMerchant(n)
  \/ \E r \in registry : RenameMerchant(r)

Spec == Init /\ [][Next]_vars

-----------------------------------------------------------------------------
(* A secret that was shown to an administrator opens the oracle to its DFSP  *)
(* and to nobody else, for good: whatever rotations follow, fail or overlap, *)
(* and however late their calls arrive.                                     *)
ShownOpens ==
  \A k \in shown : k \in access /\ \A a \in access : a.secret = k.secret => a = k

(* The secret in the backend's row is one the oracle accepts, unless two      *)
(* rotations of the DFSP overlapped or one was cut off: a rotation that is   *)
(* given up although the oracle performed it takes nothing away.            *)
StoredSecretOpens ==
  \A d \in DOMAIN dfsps :
    d \notin disturbed /\ Rotating(d) = {} =>
      dfsps[d] = NoSecret \/ [fsp |-> d, secret |-> dfsps[d]] \in access

(* However requests overlap, fail or are cut off between the old head and the *)
(* new one, the aliases they make up are handed out as by one counter: each   *)
(* once, and past no number but those that are taken or were given up.       *)
Counter == INSTANCE AliasCounter WITH
  taken <- Taken,
  given <- {r.number : r \in {q \in registry : q.made}}
HandsOutNext == Counter!CSpec
=============================================================================
