-------------------------- MODULE DfspAccessProofs --------------------------
(***************************************************************************)
(* Theorems about DfspAccess, for every set of DFSPs, every number of       *)
(* requests at work on both sides, and every bound.                         *)
(***************************************************************************)
EXTENDS DfspAccess, TLAPS

BackendTypeOK ==
  /\ \E known \in SUBSET Dfsps : dfsps \in [known -> Secrets \cup {NoSecret}]
  /\ secrets \in 0..MaxSecrets
  /\ sent \subseteq Key /\ access \subseteq Key /\ shown \subseteq Key
  /\ \A k \in access \cup sent : k.secret <= secrets
  /\ disturbed \subseteq Dfsps
  /\ bpc \in [Handlers -> {"idle", "create", "save", "send", "await", "restore"}]
  /\ breq \in [Handlers -> Rotation \cup [fsp : Dfsps] \cup {NoRequest}]

OracleTypeOK ==
  /\ registry \subseteq Row
  /\ \A r, s \in registry : r.number = s.number => r = s
  /\ freed \subseteq Numbers
  /\ pc \in [Servers -> {"idle", "next", "find", "retire", "insert", "add"}]
  /\ req \in [Servers -> Item \cup {NoRequest}]
  /\ calls \in 0..MaxCalls

LEMMA TypeParts == TypeOK <=> BackendTypeOK /\ OracleTypeOK
BY Zenon DEF TypeOK, BackendTypeOK, OracleTypeOK

(* What a handler holds while it is at work.                                *)
Holds(h) ==
  /\ bpc[h] = "create" => breq[h] \in [fsp : Dfsps]
  /\ bpc[h] \in {"save", "send", "await", "restore"} =>
       breq[h] \in Rotation /\ breq[h].secret <= secrets /\ breq[h].fsp \in DOMAIN dfsps

BackendInv == BackendTypeOK /\ \A h \in Handlers : Holds(h)

LEMMA BackendInit == Init => BackendInv
<1> SUFFICES ASSUME Init PROVE BackendInv
  OBVIOUS
<1>1. dfsps \in [{} -> Secrets \cup {NoSecret}] /\ {} \in SUBSET Dfsps
  BY DEF Init
<1>2. secrets \in 0..MaxSecrets
  BY ConstantsAssumption DEF Init
<1> QED
  BY <1>1, <1>2 DEF Init, BackendInv, BackendTypeOK, Holds

LEMMA KeyFact ==
  ASSUME NEW h \in Handlers, breq[h] \in Rotation
  PROVE  KeyOf(h) \in Key /\ KeyOf(h).secret = breq[h].secret /\ KeyOf(h).fsp = breq[h].fsp
BY DEF KeyOf, Rotation, Key

LEMMA FinishFact ==
  ASSUME BackendTypeOK, NEW h \in Handlers, Finish(h)
  PROVE  /\ bpc' \in [Handlers -> {"idle", "create", "save", "send", "await", "restore"}]
         /\ breq' \in [Handlers -> Rotation \cup [fsp : Dfsps] \cup {NoRequest}]
         /\ bpc'[h] = "idle"
         /\ \A g \in Handlers \ {h} : bpc'[g] = bpc[g] /\ breq'[g] = breq[g]
BY DEF BackendTypeOK, Finish, Goto

LEMMA GotoFact ==
  ASSUME BackendTypeOK, NEW h \in Handlers,
         NEW label \in {"create", "save", "send", "await", "restore"}, Goto(h, label)
  PROVE  /\ bpc' \in [Handlers -> {"idle", "create", "save", "send", "await", "restore"}]
         /\ bpc'[h] = label
         /\ \A g \in Handlers \ {h} : bpc'[g] = bpc[g]
BY DEF BackendTypeOK, Goto

(* Steps of one handler that leave what the others hold.                     *)
LEMMA HoldsKept ==
  ASSUME BackendInv, NEW g \in Handlers, bpc'[g] = bpc[g], breq'[g] = breq[g],
         secrets' \in Nat, secrets <= secrets', DOMAIN dfsps \subseteq DOMAIN dfsps'
  PROVE  Holds(g)'
<1>1. breq[g] \in Rotation => breq[g].secret \in Nat
  BY DEF Rotation, Secrets
<1>2. secrets \in Nat
  BY ConstantsAssumption DEF BackendInv, BackendTypeOK
<1> QED BY <1>1, <1>2 DEF BackendInv, Holds

(* A save of the secret of a DFSP that is there.                            *)
LEMMA SaveFact ==
  ASSUME BackendInv, NEW d, NEW x \in Secrets \cup {NoSecret},
         dfsps' = [dfsps EXCEPT ![d] = x]
  PROVE  /\ \E known \in SUBSET Dfsps : dfsps' \in [known -> Secrets \cup {NoSecret}]
         /\ DOMAIN dfsps' = DOMAIN dfsps
         /\ \A e \in DOMAIN dfsps : dfsps'[e] = IF e = d THEN x ELSE dfsps[e]
<1>1. PICK known \in SUBSET Dfsps : dfsps \in [known -> Secrets \cup {NoSecret}]
  BY DEF BackendInv, BackendTypeOK
<1>2. dfsps' \in [known -> Secrets \cup {NoSecret}]
  BY <1>1
<1> QED BY <1>1, <1>2

LEMMA BackendNext ==
  ASSUME BackendInv, [Next]_vars
  PROVE  BackendInv'
<1> USE DEF BackendInv
<1>0. secrets \in Nat /\ MaxSecrets \in Nat
  BY ConstantsAssumption DEF BackendTypeOK
<1>1. CASE UNCHANGED vars
  BY <1>1 DEF vars, backend, oracle, BackendTypeOK, Holds
<1>2. CASE UNCHANGED <<backend, access>>
  BY <1>2 DEF backend, BackendTypeOK, Holds
<1>3. ASSUME NEW k \in sent, Deliver(k) PROVE BackendInv'
  <2>1. UNCHANGED <<dfsps, secrets, sent, shown, disturbed, bpc, breq>> /\ access' = access \cup {k}
    BY <1>3 DEF Deliver, Accepted, backend
  <2> QED BY <2>1 DEF BackendTypeOK, Holds
<1>4. ASSUME NEW h \in Handlers, BackendStep(h), UNCHANGED <<access, oracle>> PROVE BackendInv'
  <2>1. ASSUME NEW d \in Dfsps, LoadCreate(h, d) PROVE BackendInv'
    <3>1. breq' = [breq EXCEPT ![h] = [fsp |-> d]]
          /\ UNCHANGED <<dfsps, secrets, sent, shown, disturbed, access>>
      BY <1>4, <2>1 DEF LoadCreate
    <3>2. /\ bpc' \in [Handlers -> {"idle", "create", "save", "send", "await", "restore"}]
          /\ bpc'[h] = "create" /\ \A g \in Handlers \ {h} : bpc'[g] = bpc[g]
      BY <2>1, GotoFact DEF LoadCreate
    <3>3. /\ breq' \in [Handlers -> Rotation \cup [fsp : Dfsps] \cup {NoRequest}]
          /\ breq'[h] = [fsp |-> d] /\ \A g \in Handlers \ {h} : breq'[g] = breq[g]
      BY <3>1 DEF BackendTypeOK
    <3>4. BackendTypeOK'
      BY <3>1, <3>2, <3>3 DEF BackendTypeOK
    <3>5. ASSUME NEW g \in Handlers PROVE Holds(g)'
      BY <1>0, <3>1, <3>2, <3>3, HoldsKept DEF Holds
    <3> QED BY <3>4, <3>5
  <2>2. CASE Create(h)
    <3> DEFINE d == breq[h].fsp
    <3>1. d \in Dfsps
      BY <2>2 DEF Create, Holds
    <3>2. UNCHANGED <<secrets, sent, shown, disturbed, access>>
      BY <1>4, <2>2 DEF Create
    <3>3. /\ \E known \in SUBSET Dfsps : dfsps' \in [known -> Secrets \cup {NoSecret}]
          /\ DOMAIN dfsps \subseteq DOMAIN dfsps'
      <4>1. PICK known \in SUBSET Dfsps : dfsps \in [known -> Secrets \cup {NoSecret}]
        BY DEF BackendTypeOK
      <4>2. CASE d \in DOMAIN dfsps
        BY <2>2, <4>1, <4>2 DEF Create
      <4>3. CASE d \notin DOMAIN dfsps
        <5>1. dfsps' = [e \in known \cup {d} |-> IF e = d THEN NoSecret ELSE dfsps[e]]
          BY <2>2, <4>1, <4>3 DEF Create
        <5>2. dfsps' \in [known \cup {d} -> Secrets \cup {NoSecret}]
              /\ known \cup {d} \in SUBSET Dfsps
          BY <3>1, <4>1, <5>1
        <5> QED BY <4>1, <5>1, <5>2
      <4> QED BY <4>2, <4>3
    <3>4. Finish(h)
      BY <2>2 DEF Create
    <3>5. BackendTypeOK'
      BY <3>2, <3>3, <3>4, FinishFact DEF BackendTypeOK
    <3>6. ASSUME NEW g \in Handlers PROVE Holds(g)'
      <4>1. CASE g = h
        BY <3>4, <4>1, FinishFact DEF Holds
      <4>2. CASE g # h
        BY <1>0, <3>2, <3>3, <3>4, <4>2, FinishFact, HoldsKept
      <4> QED BY <4>1, <4>2
    <3> QED BY <3>5, <3>6
  <2>3. ASSUME NEW d \in Dfsps, LoadRotate(h, d) PROVE BackendInv'
    <3> DEFINE r == [fsp |-> d, previous |-> dfsps[d], secret |-> secrets + 1]
    <3>1. d \in DOMAIN dfsps /\ secrets < MaxSecrets
      BY <2>3 DEF LoadRotate
    <3>2. dfsps[d] \in Secrets \cup {NoSecret}
      BY <3>1 DEF BackendTypeOK
    <3>3. secrets' = secrets + 1 /\ secrets + 1 \in Secrets
      BY <1>0, <2>3, <3>1 DEF LoadRotate, Secrets
    <3>4. r \in Rotation /\ r.secret = secrets' /\ r.fsp = d
      BY <3>2, <3>3 DEF Rotation
    <3>5. breq' = [breq EXCEPT ![h] = r] /\ UNCHANGED <<dfsps, sent, shown, access>>
          /\ disturbed' \subseteq Dfsps
      BY <1>4, <2>3 DEF LoadRotate, BackendTypeOK
    <3> HIDE DEF r
    <3>6. /\ bpc' \in [Handlers -> {"idle", "create", "save", "send", "await", "restore"}]
          /\ bpc'[h] = "save" /\ \A g \in Handlers \ {h} : bpc'[g] = bpc[g]
      BY <2>3, GotoFact DEF LoadRotate
    <3>7. /\ breq' \in [Handlers -> Rotation \cup [fsp : Dfsps] \cup {NoRequest}]
          /\ breq'[h] = r /\ \A g \in Handlers \ {h} : breq'[g] = breq[g]
      BY <3>4, <3>5 DEF BackendTypeOK
    <3>8. \A k \in access \cup sent : k.secret \in Nat
      BY DEF BackendTypeOK, Key, Secrets
    <3>9. BackendTypeOK'
      BY <1>0, <3>1, <3>3, <3>5, <3>6, <3>7, <3>8 DEF BackendTypeOK
    <3>10. ASSUME NEW g \in Handlers PROVE Holds(g)'
      <4>1. CASE g = h
        BY <1>0, <3>1, <3>3, <3>4, <3>5, <3>6, <3>7, <4>1 DEF Holds
      <4>2. CASE g # h
        BY <1>0, <3>3, <3>5, <3>6, <3>7, <4>2, HoldsKept
      <4> QED BY <4>1, <4>2
    <3> QED BY <3>9, <3>10
  <2>4. CASE Save(h)
    <3>1. /\ breq[h] \in Rotation /\ breq[h].secret \in Secrets
          /\ UNCHANGED <<secrets, sent, shown, disturbed, breq, access>>
          /\ dfsps' = [dfsps EXCEPT ![breq[h].fsp] = breq[h].secret]
      BY <1>4, <2>4 DEF Save, Holds, Rotation
    <3>2. /\ \E known \in SUBSET Dfsps : dfsps' \in [known -> Secrets \cup {NoSecret}]
          /\ DOMAIN dfsps' = DOMAIN dfsps
      BY <3>1, SaveFact
    <3>3. /\ bpc' \in [Handlers -> {"idle", "create", "save", "send", "await", "restore"}]
          /\ bpc'[h] = "send" /\ \A g \in Handlers \ {h} : bpc'[g] = bpc[g]
      BY <2>4, GotoFact DEF Save
    <3>4. bpc[h] = "save"
      BY <2>4 DEF Save
    <3> QED BY <3>1, <3>2, <3>3, <3>4 DEF BackendTypeOK, Holds
  <2>5. CASE Send(h)
    <3>1. /\ bpc[h] = "send" /\ breq[h] \in Rotation /\ breq[h].secret <= secrets
          /\ UNCHANGED <<dfsps, secrets, shown, disturbed, breq, access>>
          /\ sent' = sent \cup {KeyOf(h)}
      BY <1>4, <2>5 DEF Send, Holds
    <3>2. /\ bpc' \in [Handlers -> {"idle", "create", "save", "send", "await", "restore"}]
          /\ bpc'[h] = "await" /\ \A g \in Handlers \ {h} : bpc'[g] = bpc[g]
      BY <2>5, GotoFact DEF Send
    <3> QED BY <3>1, <3>2, KeyFact DEF BackendTypeOK, Holds
  <2>6. CASE Confirm(h)
    <3>1. /\ bpc[h] = "await" /\ breq[h] \in Rotation /\ Finish(h)
          /\ UNCHANGED <<dfsps, secrets, sent, disturbed, access>>
          /\ shown' = shown \cup {KeyOf(h)}
      BY <1>4, <2>6 DEF Confirm, Holds
    <3> QED BY <3>1, KeyFact, FinishFact DEF BackendTypeOK, Holds
  <2>7. CASE GiveUp(h)
    <3>1. bpc[h] = "await" /\ UNCHANGED <<dfsps, secrets, sent, shown, disturbed, breq, access>>
      BY <1>4, <2>7 DEF GiveUp
    <3>2. /\ bpc' \in [Handlers -> {"idle", "create", "save", "send", "await", "restore"}]
          /\ bpc'[h] = "restore" /\ \A g \in Handlers \ {h} : bpc'[g] = bpc[g]
      BY <2>7, GotoFact DEF GiveUp
    <3> QED BY <3>1, <3>2 DEF BackendTypeOK, Holds
  <2>8. CASE Restore(h)
    <3>1. /\ breq[h] \in Rotation /\ breq[h].previous \in Secrets \cup {NoSecret}
          /\ Finish(h) /\ UNCHANGED <<secrets, sent, shown, disturbed, access>>
          /\ dfsps' = [dfsps EXCEPT ![breq[h].fsp] = breq[h].previous]
      BY <1>4, <2>8 DEF Restore, Restored, Holds, Rotation
    <3>2. /\ \E known \in SUBSET Dfsps : dfsps' \in [known -> Secrets \cup {NoSecret}]
          /\ DOMAIN dfsps' = DOMAIN dfsps
      BY <3>1, SaveFact
    <3> QED BY <3>1, <3>2, FinishFact DEF BackendTypeOK, Holds
  <2>9. CASE Fail(h)
    <3>1. Finish(h) /\ UNCHANGED <<dfsps, secrets, sent, shown, access>> /\ bpc[h] # "idle"
      BY <1>4, <2>9 DEF Fail
    <3>2. disturbed' \subseteq Dfsps
      <4>1. CASE bpc[h] = "create"
        BY <2>9, <4>1 DEF Fail, BackendTypeOK
      <4>2. CASE bpc[h] # "create"
        <5>1. breq[h].fsp \in Dfsps
          BY <3>1, <4>2 DEF Holds, Rotation, BackendTypeOK
        <5> QED BY <2>9, <4>2, <5>1 DEF Fail, BackendTypeOK
      <4> QED BY <4>1, <4>2
    <3> QED BY <3>1, <3>2, FinishFact DEF BackendTypeOK, Holds
  <2> QED
    BY <1>4, <2>1, <2>2, <2>3, <2>4, <2>5, <2>6, <2>7, <2>8, <2>9 DEF BackendStep
<1> QED
  BY <1>1, <1>2, <1>3, <1>4 DEF Next, RegisterMerchant, RenameMerchant

-----------------------------------------------------------------------------
(* The oracle.  Below a head, and below the number a request is looking at,   *)
(* every number is taken or was given up, which it stays; and merchants have *)
(* no row that was made up or is a head, so that giving one up ends neither. *)
Passed == Taken \cup freed
FullBelow(n) == \A k \in Numbers : k < n => k \in Passed
MerchantRows == \A r \in registry : r.fsp = Merchants => ~r.head /\ ~r.made

Serves(s) ==
  /\ pc[s] # "idle" => req[s] \in Item
  /\ pc[s] \in {"retire", "insert", "add"} => req[s].number \in Numbers
  /\ pc[s] \in {"find", "retire", "insert"} => FullBelow(req[s].number)

OracleInv ==
  /\ OracleTypeOK
  /\ \A s \in Servers : Serves(s)
  /\ \A r \in Heads : FullBelow(r.number)
  /\ MerchantRows

ServerLabels == {"idle", "next", "find", "retire", "insert", "add"}

LEMMA OracleInit == Init => OracleInv
BY ConstantsAssumption DEF Init, OracleInv, OracleTypeOK, Serves, Heads, MerchantRows

LEMMA JumpFact ==
  ASSUME OracleTypeOK, NEW s \in Servers, NEW label \in ServerLabels, Jump(s, label)
  PROVE  /\ pc' \in [Servers -> {"idle", "next", "find", "retire", "insert", "add"}]
         /\ pc'[s] = label
         /\ \A u \in Servers \ {s} : pc'[u] = pc[u]
BY DEF OracleTypeOK, Jump, ServerLabels

LEMMA RequestFact ==
  ASSUME OracleTypeOK, NEW s \in Servers, NEW q \in Item \cup {NoRequest},
         req' = [req EXCEPT ![s] = q]
  PROVE  /\ req' \in [Servers -> Item \cup {NoRequest}]
         /\ req'[s] = q
         /\ \A u \in Servers \ {s} : req'[u] = req[u]
BY DEF OracleTypeOK

LEMMA ItemUpdates ==
  ASSUME NEW q \in Item
  PROVE  /\ q.left \in 0..MaxItems /\ q.number \in 1..(MaxNumber + 2) /\ q.fsp \in Dfsps
         /\ [q EXCEPT !.head = NoHead, !.number = 1] \in Item
         /\ \A n \in 1..(MaxNumber + 2) :
              /\ [q EXCEPT !.number = n] \in Item
              /\ [q EXCEPT !.number = n].number = n
         /\ q.left > 0 =>
              /\ [q EXCEPT !.left = @ - 1] \in Item
              /\ \A n \in 1..(MaxNumber + 2) : [q EXCEPT !.left = @ - 1, !.number = n] \in Item
              /\ \A x \in Numbers \cup {NoHead}, n \in 1..(MaxNumber + 2) :
                   [q EXCEPT !.left = @ - 1, !.head = x, !.number = n] \in Item
<1>1. MaxNumber \in Nat /\ MaxItems \in Nat
  BY ConstantsAssumption
<1>2. q.left \in 0..MaxItems /\ q.number \in 1..(MaxNumber + 2) /\ q.fsp \in Dfsps
  BY DEF Item
<1>3. 1 \in 1..(MaxNumber + 2)
  BY <1>1
<1>4. q.left > 0 => q.left - 1 \in 0..MaxItems
  BY <1>1, <1>2
<1> QED BY <1>2, <1>3, <1>4 DEF Item

(* What a step of a server has to show.                                     *)
LEMMA ServerStep ==
  ASSUME OracleInv, NEW s \in Servers,
         registry' \subseteq Row, \A q, r \in registry' : q.number = r.number => q = r,
         freed' \subseteq Numbers, Passed \subseteq Passed', MerchantRows',
         \A r \in Heads' : FullBelow(r.number)',
         pc' \in [Servers -> {"idle", "next", "find", "retire", "insert", "add"}],
         req' \in [Servers -> Item \cup {NoRequest}],
         \A u \in Servers \ {s} : pc'[u] = pc[u] /\ req'[u] = req[u],
         Serves(s)', calls' \in 0..MaxCalls
  PROVE  OracleInv'
<1>1. OracleTypeOK'
  BY DEF OracleTypeOK
<1>2. ASSUME NEW u \in Servers PROVE Serves(u)'
  <2>1. CASE u = s
    BY <2>1
  <2>2. CASE u # s
    BY <2>2 DEF OracleInv, Serves, FullBelow
  <2> QED BY <2>1, <2>2
<1> QED BY <1>1, <1>2 DEF OracleInv

LEMMA ServerStepStill ==
  ASSUME OracleInv, NEW s \in Servers, UNCHANGED <<registry, freed>>,
         pc' \in [Servers -> {"idle", "next", "find", "retire", "insert", "add"}],
         req' \in [Servers -> Item \cup {NoRequest}],
         \A u \in Servers \ {s} : pc'[u] = pc[u] /\ req'[u] = req[u],
         Serves(s)', calls' \in 0..MaxCalls
  PROVE  OracleInv'
<1>1. /\ registry' \subseteq Row /\ \A q, r \in registry' : q.number = r.number => q = r
      /\ freed' \subseteq Numbers /\ Passed' = Passed /\ MerchantRows'
      /\ \A r \in Heads' : FullBelow(r.number)'
  BY DEF OracleInv, OracleTypeOK, Passed, Taken, Heads, FullBelow, MerchantRows
<1> QED BY <1>1, ServerStep

(* A row stored under its number, which the unique index keeps to itself.     *)
LEMMA StoredFact ==
  ASSUME OracleInv, NEW r \in Row, registry' = Stored(r), UNCHANGED freed,
         FullBelow(r.number) \/ ~r.head, r.fsp = Merchants => ~r.head /\ ~r.made
  PROVE  /\ registry' \subseteq Row
         /\ \A p, q \in registry' : p.number = q.number => p = q
         /\ freed' \subseteq Numbers /\ Passed \subseteq Passed' /\ MerchantRows'
         /\ \A p \in Heads' : FullBelow(p.number)'
<1>0. freed' \subseteq Numbers
  BY DEF OracleInv, OracleTypeOK
<1>1. CASE r.number \in Taken
  BY <1>0, <1>1 DEF Stored, OracleInv, OracleTypeOK, Heads, FullBelow, Passed, Taken, MerchantRows
<1>2. CASE r.number \notin Taken
  <2>1. registry' = registry \cup {r}
    BY <1>2 DEF Stored
  <2>2. Passed \subseteq Passed' /\ \A q \in registry : q.number # r.number
    BY <1>2, <2>1 DEF Passed, Taken
  <2>3. ASSUME NEW p \in Heads' PROVE FullBelow(p.number)'
    <3>1. FullBelow(p.number)
      BY <2>1, <2>3 DEF Heads, OracleInv
    <3> QED BY <2>2, <3>1 DEF FullBelow
  <2>4. MerchantRows'
    BY <2>1 DEF OracleInv, MerchantRows
  <2> QED BY <1>0, <2>1, <2>2, <2>3, <2>4 DEF OracleInv, OracleTypeOK
<1> QED BY <1>1, <1>2

LEMMA RetiredFact ==
  ASSUME OracleInv, NEW n, registry' = Retired(n), UNCHANGED freed
  PROVE  /\ registry' \subseteq Row
         /\ \A p, q \in registry' : p.number = q.number => p = q
         /\ freed' \subseteq Numbers /\ Taken' = Taken /\ Passed' = Passed /\ MerchantRows'
         /\ {r.number : r \in {q \in registry' : q.made}}
              = {r.number : r \in {q \in registry : q.made}}
         /\ \A p \in Heads' : FullBelow(p.number)'
<1> DEFINE Off(r) == IF r.number = n THEN [r EXCEPT !.head = FALSE] ELSE r
<1>1. \A r \in registry : /\ Off(r) \in Row /\ Off(r).number = r.number /\ Off(r).fsp = r.fsp
                          /\ Off(r).made = r.made /\ (Off(r).head => Off(r) = r)
  BY DEF OracleInv, OracleTypeOK, Row
<1>2. registry' = {Off(r) : r \in registry}
  BY DEF Retired
<1> HIDE DEF Off
<1>3. /\ registry' \subseteq Row /\ freed' \subseteq Numbers
      /\ Taken' = Taken /\ Passed' = Passed
  BY <1>1, <1>2 DEF Passed, Taken, OracleInv, OracleTypeOK
<1>4. \A p, q \in registry' : p.number = q.number => p = q
  BY <1>1, <1>2 DEF OracleInv, OracleTypeOK
<1>5. {r.number : r \in {q \in registry' : q.made}}
        = {r.number : r \in {q \in registry : q.made}}
  BY <1>1, <1>2
<1>6. ASSUME NEW p \in Heads' PROVE FullBelow(p.number)'
  <2>1. PICK r \in registry : p = Off(r)
    BY <1>2 DEF Heads
  <2>2. p \in Heads
    BY <1>1, <2>1, <1>6 DEF Heads
  <2> QED BY <1>3, <2>2 DEF OracleInv, FullBelow
<1>7. MerchantRows'
  BY <1>1, <1>2 DEF OracleInv, MerchantRows
<1> QED BY <1>3, <1>4, <1>5, <1>6, <1>7

LEMMA OracleStepInv ==
  ASSUME OracleInv, NEW s \in Servers, OracleStep(s), shown \subseteq Key,
         UNCHANGED freed
  PROVE  OracleInv'
<1>0. /\ OracleTypeOK /\ Serves(s) /\ calls \in 0..MaxCalls
      /\ MaxNumber \in Nat /\ MaxItems \in Nat /\ MaxCalls \in Nat
      /\ req \in [Servers -> Item \cup {NoRequest}]
  BY ConstantsAssumption DEF OracleInv, OracleTypeOK
<1>1. ASSUME NEW k \in shown, NEW n \in 1..MaxItems, Post(s, k, n) PROVE OracleInv'
  <2> DEFINE q == [fsp |-> k.fsp, left |-> n, head |-> NoHead, number |-> 1]
  <2>1. q \in Item
    BY <1>0 DEF Item, Key
  <2>2. Jump(s, "next") /\ "next" \in ServerLabels /\ req' = [req EXCEPT ![s] = q]
        /\ UNCHANGED registry /\ calls' \in 0..MaxCalls
    BY <1>0, <1>1 DEF Post, ServerLabels
  <2> HIDE DEF q
  <2>3. Serves(s)'
    BY <1>0, <2>1, <2>2, JumpFact, RequestFact DEF Serves
  <2> QED BY <1>0, <2>1, <2>2, <2>3, JumpFact, RequestFact, ServerStepStill
<1>2. CASE ReadHead(s)
  <2>1. /\ req[s] \in Item /\ req[s].left > 0 /\ Jump(s, "find") /\ "find" \in ServerLabels
        /\ UNCHANGED <<registry, calls>>
    BY <1>0, <1>2 DEF ReadHead, Serves, ServerLabels
  <2>2. ASSUME NEW x \in Numbers \cup {NoHead}, FullBelow(x + 1),
               req' = [req EXCEPT ![s].left = @ - 1, ![s].head = x, ![s].number = Following(x)]
        PROVE  OracleInv'
    <3> DEFINE q == [req[s] EXCEPT !.left = @ - 1, !.head = x, !.number = x + 1]
    <3>1. x + 1 \in 1..(MaxNumber + 2)
      BY <1>0 DEF Numbers, NoHead
    <3>2. q \in Item /\ q.number = x + 1
      BY <2>1, <3>1, ItemUpdates DEF Item
    <3>3. req' = [req EXCEPT ![s] = q]
      BY <2>2 DEF Following
    <3> HIDE DEF q
    <3>4. /\ pc' \in [Servers -> {"idle", "next", "find", "retire", "insert", "add"}]
          /\ pc'[s] = "find" /\ \A u \in Servers \ {s} : pc'[u] = pc[u]
      BY <1>0, <2>1, JumpFact
    <3>5. /\ req' \in [Servers -> Item \cup {NoRequest}]
          /\ req'[s] = q /\ \A u \in Servers \ {s} : req'[u] = req[u]
      BY <1>0, <3>2, <3>3, RequestFact
    <3>6. FullBelow(x + 1)'
      BY <2>1, <2>2 DEF FullBelow, Passed, Taken
    <3>7. Serves(s)'
      BY <3>2, <3>4, <3>5, <3>6 DEF Serves
    <3> QED BY <1>0, <2>1, <3>4, <3>5, <3>7, ServerStepStill
  <2>3. ASSUME NEW r \in Heads PROVE r.number \in Numbers /\ FullBelow(r.number + 1)
    <3>1. r \in registry /\ r.number \in Numbers /\ FullBelow(r.number)
      BY <2>3 DEF OracleInv, OracleTypeOK, Heads, Row
    <3> QED BY <3>1 DEF FullBelow, Passed, Taken, Heads, Numbers
  <2>4. FullBelow(NoHead + 1)
    BY DEF FullBelow, NoHead, Numbers
  <2> QED BY <1>2, <2>2, <2>3, <2>4 DEF ReadHead, NoHead
<1>3. CASE FindIncrement(s)
  <2>1. /\ req[s] \in Item /\ UNCHANGED <<registry, calls>>
        /\ req[s].number \in Numbers /\ FullBelow(req[s].number)
    <3>1. req[s] \in Item /\ FullBelow(req[s].number)
      BY <1>0, <1>3 DEF FindIncrement, Serves
    <3>2. req[s].number \in 1..(MaxNumber + 2)
      BY <3>1, ItemUpdates
    <3>3. req[s].number <= MaxNumber /\ UNCHANGED <<registry, calls>>
      BY <1>3 DEF FindIncrement
    <3> QED BY <1>0, <3>1, <3>2, <3>3 DEF Numbers
  <2>2. CASE req[s].number \notin Taken
    <3>1. Jump(s, "retire") /\ UNCHANGED req /\ "retire" \in ServerLabels
      BY <1>3, <2>2 DEF FindIncrement, ServerLabels
    <3>2. Serves(s)'
      BY <1>0, <2>1, <3>1, JumpFact DEF Serves, FullBelow, Passed, Taken
    <3> QED BY <1>0, <2>1, <3>1, <3>2, JumpFact, ServerStepStill
  <2>3. CASE req[s].number \in Taken
    <3> DEFINE q == [req[s] EXCEPT !.number = req[s].number + 1]
    <3>1. req[s].number + 1 \in 1..(MaxNumber + 2)
      BY <1>0, <2>1 DEF Numbers
    <3>2. q \in Item /\ q.number = req[s].number + 1
      BY <2>1, <3>1, ItemUpdates
    <3>3. req' = [req EXCEPT ![s] = q] /\ UNCHANGED pc /\ pc[s] = "find"
      BY <1>3, <2>3 DEF FindIncrement
    <3> HIDE DEF q
    <3>4. FullBelow(q.number)
      BY <2>1, <2>3, <3>2 DEF FullBelow, Passed, Numbers
    <3>5. Serves(s)'
      BY <1>0, <2>1, <3>2, <3>3, <3>4, RequestFact DEF Serves, FullBelow, Passed, Taken
    <3> QED BY <1>0, <2>1, <3>2, <3>3, <3>5, RequestFact, ServerStepStill DEF OracleTypeOK
  <2> QED BY <2>2, <2>3
<1>4. CASE RetireHead(s)
  <2>1. /\ req[s] \in Item /\ UNCHANGED <<req, calls>> /\ Jump(s, "insert")
        /\ "insert" \in ServerLabels /\ registry' = Retired(req[s].head)
        /\ req[s].number \in Numbers /\ FullBelow(req[s].number)
    BY <1>0, <1>4 DEF RetireHead, Serves, ServerLabels
  <2>2. Serves(s)'
    BY <1>0, <2>1, JumpFact, RetiredFact DEF Serves, FullBelow
  <2> QED BY <1>0, <2>1, <2>2, JumpFact, RetiredFact, ServerStep
<1>5. ASSUME NextItem(s), req[s] \in Item
      PROVE  /\ pc' \in [Servers -> {"idle", "next", "find", "retire", "insert", "add"}]
             /\ req' \in [Servers -> Item \cup {NoRequest}]
             /\ \A u \in Servers \ {s} : pc'[u] = pc[u] /\ req'[u] = req[u]
             /\ Serves(s)'
  <2> DEFINE q == [req[s] EXCEPT !.head = NoHead, !.number = 1]
  <2>1. q \in Item /\ Jump(s, "next") /\ "next" \in ServerLabels
        /\ req' = [req EXCEPT ![s] = q]
    BY <1>5, ItemUpdates DEF NextItem, ServerLabels
  <2> HIDE DEF q
  <2> QED BY <1>0, <2>1, JumpFact, RequestFact DEF Serves
<1>6. CASE Insert(s)
  <2> DEFINE r == [number |-> req[s].number, fsp |-> req[s].fsp, head |-> TRUE, made |-> TRUE]
  <2>1. /\ req[s] \in Item /\ UNCHANGED calls /\ NextItem(s) /\ registry' = Stored(r)
        /\ req[s].number \in Numbers /\ FullBelow(req[s].number)
    BY <1>0, <1>6 DEF Insert, Serves
  <2>2. r \in Row /\ r.number = req[s].number /\ r.fsp # Merchants
    BY <2>1, ItemUpdates, ConstantsAssumption DEF Row
  <2> HIDE DEF r
  <2> QED BY <1>0, <1>5, <2>1, <2>2, StoredFact, ServerStep
<1>7. CASE Add(s)
  <2> DEFINE r == [number |-> req[s].number, fsp |-> req[s].fsp, head |-> FALSE, made |-> FALSE]
  <2>1. /\ req[s] \in Item /\ UNCHANGED calls /\ NextItem(s) /\ registry' = Stored(r)
        /\ req[s].number \in Numbers
    BY <1>0, <1>7 DEF Add, Serves
  <2>2. r \in Row /\ ~r.head /\ ~r.made
    BY <2>1, ItemUpdates DEF Row
  <2> HIDE DEF r
  <2> QED BY <1>0, <1>5, <2>1, <2>2, StoredFact, ServerStep
<1>8. ASSUME NEW n \in Numbers, LookUp(s, n) PROVE OracleInv'
  <2>1. /\ req[s] \in Item /\ req[s].left > 0 /\ pc[s] = "next" /\ UNCHANGED <<registry, calls>>
        /\ n \in 1..(MaxNumber + 2)
    BY <1>0, <1>8 DEF LookUp, Serves, Numbers
  <2>2. CASE n \in Taken
    <3> DEFINE q == [req[s] EXCEPT !.left = @ - 1]
    <3>1. q \in Item /\ req' = [req EXCEPT ![s] = q] /\ UNCHANGED pc
      BY <1>8, <2>1, <2>2, ItemUpdates DEF LookUp
    <3> HIDE DEF q
    <3>2. Serves(s)'
      BY <1>0, <2>1, <3>1, RequestFact DEF Serves
    <3> QED BY <1>0, <2>1, <3>1, <3>2, RequestFact, ServerStepStill DEF OracleTypeOK
  <2>3. CASE n \notin Taken
    <3> DEFINE q == [req[s] EXCEPT !.left = @ - 1, !.number = n]
    <3>1. q \in Item /\ q.number = n
      BY <2>1, ItemUpdates DEF Item
    <3>2. req' = [req EXCEPT ![s] = q] /\ Jump(s, "add") /\ "add" \in ServerLabels
      BY <1>8, <2>3 DEF LookUp, ServerLabels
    <3> HIDE DEF q
    <3>3. Serves(s)'
      BY <1>0, <3>1, <3>2, JumpFact, RequestFact DEF Serves
    <3> QED BY <1>0, <2>1, <3>1, <3>2, <3>3, JumpFact, RequestFact, ServerStepStill
  <2> QED BY <2>2, <2>3
<1>9. CASE ItemFails(s)
  <2>1. NextItem(s) /\ req[s] \in Item /\ UNCHANGED <<registry, calls>>
    BY <1>0, <1>9 DEF ItemFails, Serves
  <2> QED BY <1>0, <1>5, <2>1, ServerStepStill
<1>10. CASE Respond(s) \/ Abort(s)
  <2>1. /\ Jump(s, "idle") /\ "idle" \in ServerLabels /\ req' = [req EXCEPT ![s] = NoRequest]
        /\ UNCHANGED <<registry, calls>>
    BY <1>10 DEF Respond, Abort, ServerLabels
  <2>2. Serves(s)'
    BY <1>0, <2>1, JumpFact DEF Serves
  <2> QED BY <1>0, <2>1, <2>2, JumpFact, RequestFact, ServerStepStill
<1> QED
  BY <1>1, <1>2, <1>3, <1>4, <1>6, <1>7, <1>8, <1>9, <1>10 DEF OracleStep

LEMMA MerchantRowFact ==
  ASSUME NEW n \in Numbers
  PROVE  /\ MerchantRow(n) \in Row /\ MerchantRow(n).number = n
         /\ ~MerchantRow(n).head /\ ~MerchantRow(n).made
BY DEF MerchantRow, Row

LEMMA RegisterInv ==
  ASSUME OracleInv, NEW n \in Numbers, RegisterMerchant(n)
  PROVE  OracleInv'
<1>1. registry' = Stored(MerchantRow(n)) /\ UNCHANGED <<freed, pc, req, calls>>
  BY DEF RegisterMerchant, Stored, MerchantRow
<1>2. /\ registry' \subseteq Row
      /\ \A p, q \in registry' : p.number = q.number => p = q
      /\ freed' \subseteq Numbers /\ Passed \subseteq Passed' /\ MerchantRows'
      /\ \A p \in Heads' : FullBelow(p.number)'
  BY <1>1, MerchantRowFact, StoredFact
<1> QED BY <1>1, <1>2 DEF OracleInv, OracleTypeOK, Serves, FullBelow

(* A merchant gives up a number of a row that no head and no participant has, *)
(* for others that were free, if any: those it gives up count as passed.     *)
LEMMA RenameFact ==
  ASSUME OracleInv, NEW r \in registry, RenameMerchant(r)
  PROVE  /\ r \in Row /\ r.fsp = Merchants /\ ~r.head /\ ~r.made
         /\ freed' = freed \cup {r.number} /\ UNCHANGED <<pc, req, calls>>
         /\ \/ registry' = registry \ {r}
            \/ \E n \in Numbers \ Taken : registry' = (registry \ {r}) \cup {MerchantRow(n)}
BY DEF RenameMerchant, OracleInv, OracleTypeOK, MerchantRows

LEMMA RenameInv ==
  ASSUME OracleInv, NEW r \in registry, RenameMerchant(r)
  PROVE  OracleInv'
<1>1. /\ r \in Row /\ r.number \in Numbers
      /\ freed' = freed \cup {r.number} /\ UNCHANGED <<pc, req, calls>>
      /\ registry \ {r} \subseteq registry'
      /\ \A q \in registry' : q \in registry \/ \E n \in Numbers \ Taken : q = MerchantRow(n)
  BY RenameFact DEF Row
<1>2. \A p, q \in registry' : p.number = q.number => p = q
  <2>1. CASE registry' = registry \ {r}
    BY <2>1 DEF OracleInv, OracleTypeOK
  <2>2. ASSUME NEW n \in Numbers \ Taken, registry' = (registry \ {r}) \cup {MerchantRow(n)}
        PROVE  \A p, q \in registry' : p.number = q.number => p = q
    <3>1. \A q \in registry : q.number # n
      BY DEF Taken
    <3> QED BY <2>2, <3>1, MerchantRowFact DEF OracleInv, OracleTypeOK
  <2> QED BY <2>1, <2>2, RenameFact
<1>3. registry' \subseteq Row /\ freed' \subseteq Numbers /\ MerchantRows'
  BY <1>1, MerchantRowFact DEF OracleInv, OracleTypeOK, MerchantRows
<1>4. Passed \subseteq Passed'
  BY <1>1 DEF Passed, Taken
<1>5. ASSUME NEW p \in Heads' PROVE FullBelow(p.number)'
  <2>1. p \in Heads
    BY <1>1, <1>5, MerchantRowFact DEF Heads
  <2> QED BY <1>4, <2>1 DEF OracleInv, FullBelow
<1> QED BY <1>1, <1>2, <1>3, <1>4, <1>5 DEF OracleInv, OracleTypeOK, Serves, FullBelow

LEMMA OracleNext ==
  ASSUME OracleInv, shown \subseteq Key, [Next]_vars
  PROVE  OracleInv'
<1>1. CASE UNCHANGED <<registry, freed, pc, req, calls>>
  BY <1>1 DEF OracleInv, OracleTypeOK, Serves, FullBelow, Passed, Taken, Heads, MerchantRows
<1> QED
  BY <1>1, OracleStepInv, RegisterInv, RenameInv DEF Next, Deliver, oracle, vars

Inv == BackendInv /\ OracleInv

LEMMA InvAlways == Spec => []Inv
<1>1. Init => Inv
  BY BackendInit, OracleInit DEF Inv
<1>2. Inv /\ [Next]_vars => Inv'
  BY BackendNext, OracleNext DEF Inv, BackendInv, BackendTypeOK
<1> QED BY <1>1, <1>2, PTL DEF Spec

(* Rows, secrets and requests on both sides keep their types, and numbers     *)
(* stay unique, whatever requests overlap, fail or arrive late.             *)
THEOREM AccessTypeCorrect == Spec => []TypeOK
<1>1. Inv => TypeOK
  BY TypeParts DEF Inv, BackendInv, OracleInv
<1> QED BY <1>1, InvAlways, PTL

-----------------------------------------------------------------------------
(* What a rotation leaves in the row of its DFSP, as long as no other one of  *)
(* that DFSP is at work: before its save the secret it read, from then on its *)
(* own; and what it read is one the oracle accepts.                         *)
Works(h) == bpc[h] \in {"save", "send", "await", "restore"}
Opens(d, x) == x = NoSecret \/ [fsp |-> d, secret |-> x] \in access

Undisturbed(h) ==
  Works(h) /\ breq[h].fsp \notin disturbed =>
    /\ \A g \in Handlers : Works(g) /\ breq[g].fsp = breq[h].fsp => g = h
    /\ Opens(breq[h].fsp, breq[h].previous)
    /\ bpc[h] = "save" => dfsps[breq[h].fsp] = breq[h].previous
    /\ bpc[h] \in {"send", "await"} => dfsps[breq[h].fsp] = breq[h].secret

RotationInv ==
  /\ StoredSecretOpens
  /\ \A h \in Handlers : Undisturbed(h)

LEMMA RotatingFact == \A d : Rotating(d) = {} <=> \A h \in Handlers : Works(h) => breq[h].fsp # d
BY DEF Rotating, Works

LEMMA RotationInit == Init => RotationInv
BY DEF Init, RotationInv, StoredSecretOpens, Undisturbed, Works

(* Handlers other than h stay as they were, and what they rely on does.      *)
LEMMA OthersUndisturbed ==
  ASSUME BackendInv, RotationInv, NEW h \in Handlers, NEW g \in Handlers \ {h},
         \A f \in Handlers \ {h} : bpc'[f] = bpc[f] /\ breq'[f] = breq[f],
         disturbed \subseteq disturbed', access \subseteq access',
         Works(g) /\ breq[g].fsp \notin disturbed' =>
           /\ ~(Works(h)' /\ breq'[h].fsp = breq[g].fsp)
           /\ dfsps'[breq[g].fsp] = dfsps[breq[g].fsp]
  PROVE  Undisturbed(g)'
<1> SUFFICES ASSUME Works(g)', breq'[g].fsp \notin disturbed'
             PROVE  /\ \A f \in Handlers : Works(f)' /\ breq'[f].fsp = breq'[g].fsp => f = g
                    /\ Opens(breq[g].fsp, breq[g].previous)'
                    /\ bpc'[g] = "save" => dfsps'[breq'[g].fsp] = breq'[g].previous
                    /\ bpc'[g] \in {"send", "await"} => dfsps'[breq'[g].fsp] = breq'[g].secret
  BY DEF Undisturbed, Opens
<1>1. /\ Works(g) /\ breq[g].fsp \notin disturbed
      /\ bpc'[g] = bpc[g] /\ breq'[g] = breq[g]
  BY DEF Works
<1>2. /\ \A f \in Handlers : Works(f) /\ breq[f].fsp = breq[g].fsp => f = g
      /\ Opens(breq[g].fsp, breq[g].previous)
      /\ bpc[g] = "save" => dfsps[breq[g].fsp] = breq[g].previous
      /\ bpc[g] \in {"send", "await"} => dfsps[breq[g].fsp] = breq[g].secret
  BY <1>1 DEF RotationInv, Undisturbed
<1>3. \A f \in Handlers : Works(f)' /\ breq'[f].fsp = breq'[g].fsp => f = g
  BY <1>1, <1>2 DEF Works
<1>4. Opens(breq[g].fsp, breq[g].previous)'
  BY <1>1, <1>2 DEF Opens
<1> QED BY <1>1, <1>2, <1>3, <1>4

LEMMA StoredKept ==
  ASSUME RotationInv, NEW h \in Handlers, NEW d \in DOMAIN dfsps,
         \A f \in Handlers \ {h} : bpc'[f] = bpc[f] /\ breq'[f] = breq[f],
         disturbed \subseteq disturbed', access \subseteq access',
         dfsps'[d] = dfsps[d], ~(Works(h) /\ breq[h].fsp = d),
         d \notin disturbed', Rotating(d)' = {}
  PROVE  Opens(d, dfsps[d])'
<1>1. Rotating(d) = {}
  BY DEF Rotating, Works
<1>2. Opens(d, dfsps[d])
  BY <1>1 DEF RotationInv, StoredSecretOpens, Opens
<1> QED BY <1>2 DEF Opens

LEMMA AllStored ==
  ASSUME \A d \in DOMAIN dfsps' :
           d \notin disturbed' /\ Rotating(d)' = {} => Opens(d, dfsps[d])'
  PROVE  StoredSecretOpens'
BY DEF StoredSecretOpens, Opens

LEMMA RotationNext ==
  ASSUME BackendInv, RotationInv, [Next]_vars
  PROVE  RotationInv'
<1>1. CASE UNCHANGED <<backend, access>>
  BY <1>1 DEF backend, RotationInv, StoredSecretOpens, Rotating, Undisturbed, Works, Opens
<1>2. ASSUME NEW k \in sent, Deliver(k) PROVE RotationInv'
  <2>1. UNCHANGED <<dfsps, disturbed, bpc, breq>> /\ access \subseteq access'
    BY <1>2 DEF Deliver, Accepted, backend
  <2> QED BY <2>1 DEF RotationInv, StoredSecretOpens, Rotating, Undisturbed, Works, Opens
<1>3. ASSUME NEW h \in Handlers, BackendStep(h), UNCHANGED <<access, oracle>> PROVE RotationInv'
  <2>0. access \subseteq access' /\ BackendTypeOK /\ Holds(h)
    BY <1>3 DEF BackendInv
  <2>1. ASSUME NEW d \in Dfsps, LoadCreate(h, d) PROVE RotationInv'
    <3>1. /\ bpc[h] = "idle" /\ bpc'[h] = "create" /\ UNCHANGED <<dfsps, disturbed>>
          /\ \A f \in Handlers \ {h} : bpc'[f] = bpc[f] /\ breq'[f] = breq[f]
      BY <2>0, <2>1 DEF LoadCreate, Goto, BackendTypeOK
    <3>2. StoredSecretOpens'
      BY <2>0, <3>1, StoredKept, AllStored DEF Works
    <3>3. ASSUME NEW g \in Handlers PROVE Undisturbed(g)'
      BY <2>0, <3>1, OthersUndisturbed DEF Works, Undisturbed
    <3> QED BY <3>2, <3>3 DEF RotationInv
  <2>2. CASE Create(h)
    <3> DEFINE d == breq[h].fsp
    <3>1. /\ bpc[h] = "create" /\ bpc'[h] = "idle" /\ UNCHANGED disturbed
          /\ \A f \in Handlers \ {h} : bpc'[f] = bpc[f] /\ breq'[f] = breq[f]
      BY <2>0, <2>2, FinishFact DEF Create
    <3>2. /\ \A e \in DOMAIN dfsps : e \in DOMAIN dfsps' /\ dfsps'[e] = dfsps[e]
          /\ \A e \in DOMAIN dfsps' \ DOMAIN dfsps : dfsps'[e] = NoSecret
      BY <2>2 DEF Create
    <3>3. ASSUME NEW e \in DOMAIN dfsps', e \notin disturbed', Rotating(e)' = {}
          PROVE  Opens(e, dfsps[e])'
      <4>1. CASE e \in DOMAIN dfsps
        BY <2>0, <3>1, <3>2, <3>3, <4>1, StoredKept DEF Works
      <4>2. CASE e \notin DOMAIN dfsps
        BY <3>2, <3>3, <4>2 DEF Opens
      <4> QED BY <4>1, <4>2
    <3>4. ASSUME NEW g \in Handlers PROVE Undisturbed(g)'
      <4>1. CASE g = h
        BY <3>1, <4>1 DEF Undisturbed, Works
      <4>2. CASE g # h
        <5>1. Works(g) => breq[g].fsp \in DOMAIN dfsps
          BY DEF BackendInv, Holds, Works
        <5> QED BY <2>0, <3>1, <3>2, <4>2, <5>1, OthersUndisturbed DEF Works
      <4> QED BY <4>1, <4>2
    <3> QED BY <3>3, <3>4, AllStored DEF RotationInv
  <2>3. ASSUME NEW d \in Dfsps, LoadRotate(h, d) PROVE RotationInv'
    <3>1. /\ bpc[h] = "idle" /\ bpc'[h] = "save" /\ UNCHANGED dfsps
          /\ breq'[h].fsp = d /\ breq'[h].previous = dfsps[d]
          /\ \A f \in Handlers \ {h} : bpc'[f] = bpc[f] /\ breq'[f] = breq[f]
      BY <2>0, <2>3 DEF LoadRotate, Goto, BackendTypeOK
    <3>2. /\ d \in DOMAIN dfsps /\ disturbed \subseteq disturbed'
          /\ disturbed' = IF Rotating(d) = {} THEN disturbed ELSE disturbed \cup {d}
      BY <2>3 DEF LoadRotate
    <3>3. StoredSecretOpens'
      <4>1. ~Works(h)
        BY <3>1 DEF Works
      <4>2. ASSUME NEW e \in DOMAIN dfsps, e \notin disturbed', Rotating(e)' = {}
            PROVE  Opens(e, dfsps[e])'
        BY <2>0, <3>1, <3>2, <4>1, <4>2, StoredKept
      <4> QED BY <3>1, <4>2, AllStored
    <3>4. d \notin disturbed' => Rotating(d) = {} /\ Opens(d, dfsps[d])
      BY <3>2 DEF RotationInv, StoredSecretOpens, Opens
    <3>5. d \notin disturbed' => \A g \in Handlers : Works(g) => breq[g].fsp # d
      BY <3>4, RotatingFact
    <3>6. ASSUME NEW g \in Handlers PROVE Undisturbed(g)'
      <4>1. CASE g = h
        <5>1. d \notin disturbed' => \A f \in Handlers : Works(f)' /\ breq'[f].fsp = d => f = h
          BY <3>1, <3>5 DEF Works
        <5>2. d \notin disturbed' => Opens(d, breq[h].previous)'
          BY <2>0, <3>1, <3>4 DEF Opens
        <5>3. bpc'[h] = "save" /\ breq'[h].fsp = d /\ dfsps'[d] = breq'[h].previous
          BY <3>1
        <5> QED BY <4>1, <5>1, <5>2, <5>3 DEF Undisturbed
      <4>2. CASE g # h
        <5>1. Works(g) /\ breq[g].fsp \notin disturbed' => breq[g].fsp # d
          BY <3>2, <3>5
        <5> QED BY <2>0, <3>1, <3>2, <4>2, <5>1, OthersUndisturbed
      <4> QED BY <4>1, <4>2
    <3> QED BY <3>3, <3>6 DEF RotationInv
  <2>4. CASE Save(h)
    <3> DEFINE d == breq[h].fsp
    <3>1. /\ bpc[h] = "save" /\ bpc'[h] = "send" /\ UNCHANGED <<breq, disturbed>>
          /\ breq[h] \in Rotation /\ breq[h].secret \in Secrets /\ d \in DOMAIN dfsps
          /\ \A f \in Handlers \ {h} : bpc'[f] = bpc[f]
          /\ dfsps' = [dfsps EXCEPT ![d] = breq[h].secret]
      BY <2>0, <2>4, GotoFact DEF Save, Holds, Rotation
    <3>2. /\ DOMAIN dfsps' = DOMAIN dfsps /\ dfsps'[d] = breq[h].secret
          /\ \A e \in DOMAIN dfsps : e # d => dfsps'[e] = dfsps[e]
      BY <3>1, SaveFact
    <3>3. ASSUME NEW e \in DOMAIN dfsps', e \notin disturbed', Rotating(e)' = {}
          PROVE  Opens(e, dfsps[e])'
      <4>1. h \in Rotating(d)'
        BY <3>1 DEF Rotating
      <4>2. e # d
        BY <3>1, <3>3, <4>1
      <4> QED BY <2>0, <3>1, <3>2, <3>3, <4>2, StoredKept
    <3>4. ASSUME NEW g \in Handlers PROVE Undisturbed(g)'
      <4>0. Undisturbed(h)
        BY DEF RotationInv
      <4>1. CASE g = h
        <5>1. d \notin disturbed => /\ \A f \in Handlers : Works(f) /\ breq[f].fsp = d => f = h
                                     /\ Opens(d, breq[h].previous)
          BY <3>1, <4>0 DEF Undisturbed, Works
        <5>2. d \notin disturbed => /\ \A f \in Handlers : Works(f)' /\ breq'[f].fsp = d => f = h
                                     /\ Opens(d, breq[h].previous)'
          BY <1>3, <3>1, <5>1 DEF Works, Opens
        <5> QED BY <3>1, <3>2, <4>1, <5>2 DEF Undisturbed
      <4>2. CASE g # h
        <5>1. Works(g) /\ breq[g].fsp \notin disturbed => breq[g].fsp # d
          BY <3>1, <4>2 DEF RotationInv, Undisturbed, Works
        <5>2. Works(g) => breq[g].fsp \in DOMAIN dfsps
          BY DEF BackendInv, Holds, Works
        <5> QED BY <2>0, <3>1, <3>2, <4>2, <5>1, <5>2, OthersUndisturbed
      <4> QED BY <4>1, <4>2
    <3> QED BY <3>3, <3>4, AllStored DEF RotationInv
  <2>5. CASE Send(h) \/ GiveUp(h)
    <3>1. /\ Works(h) /\ Works(h)' /\ bpc'[h] \in {"await", "restore"}
          /\ bpc'[h] = "await" => bpc[h] = "send"
          /\ UNCHANGED <<dfsps, breq, disturbed>>
          /\ \A f \in Handlers \ {h} : bpc'[f] = bpc[f]
      BY <2>0, <2>5, GotoFact DEF Send, GiveUp, Works
    <3>2. /\ \A g \in Handlers : Works(g)' <=> Works(g)
          /\ \A d : Rotating(d)' = Rotating(d)
      BY <3>1 DEF Rotating, Works
    <3>3. StoredSecretOpens'
      BY <1>3, <3>1, <3>2 DEF RotationInv, StoredSecretOpens
    <3>4. ASSUME NEW g \in Handlers PROVE Undisturbed(g)'
      <4>1. Undisturbed(g)
        BY DEF RotationInv
      <4> QED BY <1>3, <3>1, <3>2, <4>1 DEF Undisturbed, Opens
    <3> QED BY <3>3, <3>4 DEF RotationInv
  <2>6. CASE Confirm(h)
    <3> DEFINE d == breq[h].fsp
    <3>1. /\ bpc[h] = "await" /\ bpc'[h] = "idle" /\ UNCHANGED <<dfsps, disturbed>>
          /\ \A f \in Handlers \ {h} : bpc'[f] = bpc[f] /\ breq'[f] = breq[f]
          /\ [fsp |-> d, secret |-> breq[h].secret] \in access
      BY <2>0, <2>6, FinishFact DEF Confirm, Confirmed, KeyOf
    <3>2. ASSUME NEW e \in DOMAIN dfsps', e \notin disturbed', Rotating(e)' = {}
          PROVE  Opens(e, dfsps[e])'
      <4>1. CASE e = d
        <5>1. dfsps[d] = breq[h].secret
          BY <3>1, <3>2, <4>1 DEF RotationInv, Undisturbed, Works
        <5> QED BY <1>3, <3>1, <4>1, <5>1 DEF Opens
      <4>2. CASE e # d
        BY <2>0, <3>1, <3>2, <4>2, StoredKept
      <4> QED BY <4>1, <4>2
    <3>3. ASSUME NEW g \in Handlers PROVE Undisturbed(g)'
      BY <2>0, <3>1, OthersUndisturbed DEF Works, Undisturbed
    <3> QED BY <3>2, <3>3, AllStored DEF RotationInv
  <2>7. CASE Restore(h)
    <3> DEFINE d == breq[h].fsp
    <3>1. /\ bpc[h] = "restore" /\ bpc'[h] = "idle" /\ UNCHANGED disturbed
          /\ \A f \in Handlers \ {h} : bpc'[f] = bpc[f] /\ breq'[f] = breq[f]
          /\ dfsps' = [dfsps EXCEPT ![d] = breq[h].previous]
          /\ breq[h].previous \in Secrets \cup {NoSecret} /\ d \in DOMAIN dfsps
      BY <2>0, <2>7, FinishFact DEF Restore, Restored, Holds, Rotation
    <3>2. /\ DOMAIN dfsps' = DOMAIN dfsps /\ dfsps'[d] = breq[h].previous
          /\ \A e \in DOMAIN dfsps : e # d => dfsps'[e] = dfsps[e]
      BY <3>1, SaveFact
    <3>3. ASSUME NEW e \in DOMAIN dfsps', e \notin disturbed', Rotating(e)' = {}
          PROVE  Opens(e, dfsps[e])'
      <4>1. CASE e = d
        <5>1. Opens(d, breq[h].previous)
          BY <3>1, <3>3, <4>1 DEF RotationInv, Undisturbed, Works
        <5> QED BY <1>3, <3>2, <4>1, <5>1 DEF Opens
      <4>2. CASE e # d
        BY <2>0, <3>1, <3>2, <3>3, <4>2, StoredKept
      <4> QED BY <4>1, <4>2
    <3>4. ASSUME NEW g \in Handlers PROVE Undisturbed(g)'
      <4>1. CASE g = h
        BY <3>1, <4>1 DEF Undisturbed, Works
      <4>2. CASE g # h
        <5>1. Works(g) /\ breq[g].fsp \notin disturbed => breq[g].fsp # d
          BY <3>1, <4>2 DEF RotationInv, Undisturbed, Works
        <5>2. Works(g) => breq[g].fsp \in DOMAIN dfsps
          BY DEF BackendInv, Holds, Works
        <5> QED BY <2>0, <3>1, <3>2, <4>2, <5>1, <5>2, OthersUndisturbed DEF Works
      <4> QED BY <4>1, <4>2
    <3> QED BY <3>3, <3>4, AllStored DEF RotationInv
  <2>8. CASE Fail(h)
    <3> DEFINE d == breq[h].fsp
    <3>1. /\ bpc[h] # "idle" /\ bpc'[h] = "idle" /\ UNCHANGED dfsps
          /\ \A f \in Handlers \ {h} : bpc'[f] = bpc[f] /\ breq'[f] = breq[f]
          /\ disturbed \subseteq disturbed' /\ (Works(h) => d \in disturbed')
      BY <2>0, <2>8, FinishFact DEF Fail, Works
    <3>2. ASSUME NEW e \in DOMAIN dfsps', e \notin disturbed', Rotating(e)' = {}
          PROVE  Opens(e, dfsps[e])'
      BY <2>0, <3>1, <3>2, StoredKept
    <3>3. ASSUME NEW g \in Handlers PROVE Undisturbed(g)'
      BY <2>0, <3>1, OthersUndisturbed DEF Works, Undisturbed
    <3> QED BY <3>2, <3>3, AllStored DEF RotationInv
  <2> QED
    BY <1>3, <2>1, <2>2, <2>3, <2>4, <2>5, <2>6, <2>7, <2>8 DEF BackendStep
<1>4. CASE UNCHANGED vars
  BY <1>1, <1>4 DEF vars
<1> QED
  BY <1>1, <1>2, <1>3, <1>4 DEF Next, RegisterMerchant, RenameMerchant

(* A secret belongs to one DFSP at the oracle, which has those shown.        *)
ShownInv ==
  /\ \A k \in shown : k \in access
  /\ \A a, b \in access : a.secret = b.secret => a = b

LEMMA ShownNext ==
  ASSUME BackendInv, ShownInv, [Next]_vars
  PROVE  ShownInv'
<1>1. CASE UNCHANGED <<shown, access>>
  BY <1>1 DEF ShownInv
<1>2. ASSUME NEW k \in sent, Deliver(k) PROVE ShownInv'
  <2>1. UNCHANGED shown /\ access' = access \cup {k} /\ access \subseteq Key /\ k \in Key
        /\ \A a \in access : a.secret = k.secret => a.fsp = k.fsp
    BY <1>2 DEF Deliver, Accepted, backend, BackendInv, BackendTypeOK
  <2>2. \A a \in access : a.secret = k.secret => a = k
    BY <2>1 DEF Key
  <2> QED BY <2>1, <2>2 DEF ShownInv
<1>3. ASSUME NEW h \in Handlers, Confirm(h), UNCHANGED access PROVE ShownInv'
  BY <1>3 DEF Confirm, Confirmed, ShownInv
<1>4. ASSUME NEW h \in Handlers, BackendStep(h), UNCHANGED access PROVE ShownInv'
  BY <1>1, <1>3, <1>4 DEF BackendStep, LoadCreate, LoadRotate, Create, Save, Send, GiveUp,
     Restore, Fail
<1> QED
  BY <1>1, <1>2, <1>4 DEF Next, RegisterMerchant, RenameMerchant, backend, vars

-----------------------------------------------------------------------------
(* The numbers handed out.                                                  *)
Given == {r.number : r \in {q \in registry : q.made}}

LEMMA StoredHandsOut ==
  ASSUME OracleInv, NEW r \in Row, registry' = Stored(r), UNCHANGED freed,
         FullBelow(r.number) \/ ~r.made
  PROVE  \/ UNCHANGED <<Taken, Given, freed>>
         \/ Counter!Give(r.number) \/ Counter!Take(r.number)
<1>1. CASE r.number \in Taken
  BY <1>1 DEF Stored, Taken, Given
<1>2. CASE r.number \notin Taken
  <2>1. registry' = registry \cup {r}
    BY <1>2 DEF Stored
  <2>2. Taken' = Taken \cup {r.number}
    BY <2>1 DEF Taken
  <2>3. CASE r.made
    <3>1. Given' = Given \cup {r.number}
      BY <2>1, <2>3 DEF Given
    <3>2. r.number \notin Taken \cup Given /\ \A k \in Numbers : k < r.number => k \in Taken \cup freed
      BY <1>2, <2>3 DEF FullBelow, Passed, Taken, Given
    <3>3. Counter!NextNumber(r.number)
      BY <3>2 DEF Counter!NextNumber, Given
    <3> QED BY <2>2, <3>1, <3>3 DEF Counter!Give, Given
  <2>4. CASE ~r.made
    <3>1. Given' = Given
      BY <2>1, <2>4 DEF Given
    <3> QED BY <1>2, <2>2, <3>1 DEF Counter!Take, Given
  <2> QED BY <2>3, <2>4
<1> QED BY <1>1, <1>2

LEMMA HandsOutStep ==
  ASSUME OracleInv, [Next]_vars
  PROVE  [Counter!CNext]_<<Taken, Given, freed>>
<1>1. CASE UNCHANGED <<registry, freed>>
  BY <1>1 DEF Taken, Given
<1>2. ASSUME NEW s \in Servers, RetireHead(s), UNCHANGED freed PROVE UNCHANGED <<Taken, Given, freed>>
  BY <1>2, RetiredFact DEF RetireHead, Given
<1>3. ASSUME NEW s \in Servers, Insert(s), UNCHANGED freed PROVE [Counter!CNext]_<<Taken, Given, freed>>
  <2> DEFINE r == [number |-> req[s].number, fsp |-> req[s].fsp, head |-> TRUE, made |-> TRUE]
  <2>1. /\ req[s] \in Item /\ registry' = Stored(r)
        /\ req[s].number \in Numbers /\ FullBelow(req[s].number)
    BY <1>3 DEF Insert, Serves, OracleInv
  <2>2. r \in Row /\ r.number = req[s].number
    BY <2>1, ItemUpdates DEF Row
  <2> HIDE DEF r
  <2> QED BY <1>3, <2>1, <2>2, StoredHandsOut DEF Counter!CNext
<1>4. ASSUME NEW s \in Servers, Add(s), UNCHANGED freed PROVE [Counter!CNext]_<<Taken, Given, freed>>
  <2> DEFINE r == [number |-> req[s].number, fsp |-> req[s].fsp, head |-> FALSE, made |-> FALSE]
  <2>1. req[s] \in Item /\ registry' = Stored(r) /\ req[s].number \in Numbers
    BY <1>4 DEF Add, Serves, OracleInv
  <2>2. r \in Row /\ ~r.made /\ r.number = req[s].number
    BY <2>1, ItemUpdates DEF Row
  <2> HIDE DEF r
  <2> QED BY <1>4, <2>1, <2>2, StoredHandsOut DEF Counter!CNext
<1>5. ASSUME NEW n \in Numbers, RegisterMerchant(n) PROVE [Counter!CNext]_<<Taken, Given, freed>>
  <2>1. registry' = Stored(MerchantRow(n)) /\ UNCHANGED freed
    BY <1>5 DEF RegisterMerchant, Stored, MerchantRow
  <2> QED BY <2>1, MerchantRowFact, StoredHandsOut DEF Counter!CNext
<1>6. ASSUME NEW r \in registry, RenameMerchant(r)
      PROVE  [Counter!CNext]_<<Taken, Given, freed>>
  <2>1. /\ r.number \in Numbers /\ ~r.made /\ freed' = freed \cup {r.number}
        /\ \A q \in registry : q.number = r.number => q = r
    BY <1>6, RenameFact DEF Row, OracleInv, OracleTypeOK
  <2>2. r.number \in Taken \ Given
    BY <2>1 DEF Taken, Given
  <2>3. CASE registry' = registry \ {r}
    <3>1. Taken' = Taken \ {r.number} /\ Given' = Given
      BY <2>1, <2>3 DEF Taken, Given
    <3>2. Counter!Rename(r.number, {})
      BY <2>1, <2>2, <3>1 DEF Counter!Rename, Given
    <3> QED BY <2>1, <3>2 DEF Counter!CNext
  <2>4. ASSUME NEW n \in Numbers \ Taken, registry' = (registry \ {r}) \cup {MerchantRow(n)}
        PROVE  [Counter!CNext]_<<Taken, Given, freed>>
    <3>1. Taken' = (Taken \ {r.number}) \cup {n}
      BY <2>1, <2>4, MerchantRowFact DEF Taken
    <3>2. Given' = Given
      BY <2>1, <2>4, MerchantRowFact DEF Given
    <3>3. Counter!Rename(r.number, {n})
      BY <2>1, <2>2, <3>1, <3>2 DEF Counter!Rename, Given
    <3> QED BY <2>1, <3>3 DEF Counter!CNext
  <2> QED BY <1>6, <2>3, <2>4, RenameFact
<1>7. ASSUME NEW s \in Servers, OracleStep(s), UNCHANGED freed PROVE [Counter!CNext]_<<Taken, Given, freed>>
  BY <1>1, <1>2, <1>3, <1>4, <1>7 DEF OracleStep, Post, ReadHead, FindIncrement, LookUp, Respond,
     ItemFails, Abort
<1> QED
  BY <1>1, <1>5, <1>6, <1>7 DEF Next, Deliver, oracle, vars

-----------------------------------------------------------------------------
(* A secret that was shown to an administrator opens the oracle to its DFSP  *)
(* and to nobody else, for good, however rotations overlap and fail and      *)
(* their calls are lost, doubled or late (dfspControllers.ts,                *)
(* registerEndpointDFSP).                                                   *)
THEOREM ShownAlwaysOpens == Spec => []ShownOpens
<1>1. Init => ShownInv
  BY DEF Init, ShownInv
<1>2. Inv /\ ShownInv /\ [Next]_vars => ShownInv'
  BY ShownNext DEF Inv
<1>3. ShownInv => ShownOpens
  BY DEF ShownInv, ShownOpens
<1> QED BY <1>1, <1>2, <1>3, InvAlways, PTL DEF Spec

(* The secret in the row of a DFSP is one the oracle accepts whenever no      *)
(* rotation of that DFSP is at work, unless two overlapped or one was cut    *)
(* off: restoring the previous secret after a failed call leaves none that   *)
(* the oracle never heard of (createClientAccessKey).                       *)
THEOREM StoredSecretAlwaysOpens == Spec => []StoredSecretOpens
<1>1. Inv /\ RotationInv /\ [Next]_vars => RotationInv'
  BY RotationNext DEF Inv
<1>2. RotationInv => StoredSecretOpens
  BY DEF RotationInv
<1> QED BY <1>1, <1>2, RotationInit, InvAlways, PTL DEF Spec

(* Aliases that the oracle makes up are handed out as by one counter, each    *)
(* once, and past no number but those that are taken or that a merchant has  *)
(* given up, whatever requests overlap, fail or are cut off between the old  *)
(* head and the new one (participantRoutes.ts, POST /participants).         *)
THEOREM AccessHandsOutNext == Spec => HandsOutNext
<1>1. Init => Counter!CInit
  BY DEF Init, Counter!CInit, Taken
<1>2. Inv /\ [Next]_vars => [Counter!CNext]_<<Taken, Given, freed>>
  BY HandsOutStep DEF Inv
<1> QED
  BY <1>1, <1>2, InvAlways, PTL DEF Spec, HandsOutNext, Counter!CSpec, Given
=============================================================================
