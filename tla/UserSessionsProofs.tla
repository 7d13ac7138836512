------------------------- MODULE UserSessionsProofs -------------------------
(***************************************************************************)
(* Theorems about UserSessions, for every set of accounts, handlers, DFSPs  *)
(* and addresses, and every bound.                                          *)
(***************************************************************************)
EXTENDS UserSessions, SequenceTheorems, FiniteSetTheorems, TLAPS

Rows == Account(Addresses)

-----------------------------------------------------------------------------
(* Rows.                                                                    *)

LEMMA RowFields ==
  ASSUME NEW r \in Rows
  PROVE  /\ r.email \in Addresses /\ r.role \in Roles /\ r.dfsp \in Dfsps \cup {NoDfsp}
         /\ r.creator \in Users \cup {Nobody} /\ r.status \in Statuses
         /\ r.password \in Passwords /\ r.must \in BOOLEAN
BY DEF Rows, Account

LEMMA RowUpdates ==
  ASSUME NEW r \in Rows
  PROVE  /\ \A s \in Statuses : [r EXCEPT !.status = s] \in Rows
         /\ \A p \in Passwords : [r EXCEPT !.password = p] \in Rows
         /\ \A p \in Passwords, b \in BOOLEAN :
              [r EXCEPT !.password = p, !.must = b] \in Rows
BY DEF Rows, Account

(* What WithPassword does to the row a handler has loaded.                  *)
LEMMA WithPasswordFact ==
  ASSUME NEW r \in Request, NEW p \in Passwords
  PROVE  /\ WithPassword(r, p) \in Rows
         /\ WithPassword(r, p).password = p
         /\ WithPassword(r, p).must = (r.op = "temporary")
         /\ WithPassword(r, p).email = r.row.email
         /\ WithPassword(r, p).creator = r.row.creator
         /\ WithPassword(r, p).role = r.row.role
<1>1. r.row \in Rows
  BY DEF Request, Rows
<1>2. "Active" \in Statuses
  BY DEF Statuses
<1>3. Reopened(r) \in Rows /\ Reopened(r).email = r.row.email
      /\ Reopened(r).creator = r.row.creator /\ Reopened(r).role = r.row.role
  BY <1>1, <1>2, RowUpdates DEF Reopened, Rows, Account
<1> QED BY <1>3 DEF WithPassword, Rows, Account

LEMMA RequestFields ==
  ASSUME NEW r \in Request
  PROVE  /\ r.user \in Users /\ r.row \in Rows /\ r.found \subseteq Token
         /\ \A s \in Rows : [r EXCEPT !.row = s] \in Request
         /\ \A f \in SUBSET Token : [r EXCEPT !.found = f] \in Request
BY DEF Request, Rows

LEMMA SeededFact ==
  /\ Seeded \in Seq(Rows) /\ Len(Seeded) \in Nat \ {0}
  /\ Len(Seeded) <= MaxUsers /\ Len(Seeded) <= MaxPasswords
  /\ MaxUsers \in Nat /\ MaxPasswords \in Nat /\ MaxRequests \in Nat /\ Limit \in Nat
  /\ SuperAdmin \in 1..Len(Seeded)
  /\ \A i \in 1..Len(Seeded) :
       Seeded[i].password = i /\ ~Seeded[i].must /\ Seeded[i].creator = Nobody
BY SeededAssumption DEF Rows

-----------------------------------------------------------------------------
(* A handler at work holds a row of an account that is there, whose password *)
(* was set, and which is marked when that one is a temporary one.           *)
Marked(r) == temporary[r.password] => r.must

HoldsRow(h) ==
  pc[h] # "idle" =>
    /\ req[h] \in Request
    /\ req[h].user <= Len(users)
    /\ req[h].row.password <= Len(temporary)
    /\ Marked(req[h].row)
    /\ pc[h] = "insert" => req[h].row.must

IInv ==
  /\ TypeOK
  /\ Len(Seeded) <= Len(users) /\ Len(Seeded) <= Len(temporary)
  /\ \A i \in 1..Len(Seeded) : ~temporary[i]
  /\ \A h \in Handlers : HoldsRow(h)
  /\ TemporaryIsMarked

LEMMA InvInit == Init => IInv
<1> SUFFICES ASSUME Init PROVE IInv
  OBVIOUS
<1> USE SeededFact
<1>1. /\ users = Seeded /\ Len(users) = Len(Seeded)
      /\ DOMAIN users = 1..Len(Seeded) /\ users \in Seq(Rows)
  BY DEF Init
<1>2. /\ temporary \in Seq(BOOLEAN) /\ Len(temporary) = Len(Seeded)
      /\ \A i \in 1..Len(Seeded) : temporary[i] = FALSE
  <2>1. temporary \in [1..Len(Seeded) -> BOOLEAN] /\ \A i \in 1..Len(Seeded) : ~temporary[i]
    BY <1>1 DEF Init
  <2>2. temporary \in Seq(BOOLEAN)
    BY <2>1, SeqDef
  <2>3. Len(temporary) \in Nat /\ DOMAIN temporary = 1..Len(temporary)
    BY <2>2, LenProperties
  <2>4. 1..Len(temporary) = 1..Len(Seeded)
    BY <2>1, <2>3
  <2>5. Len(temporary) = Len(Seeded)
    <3>1. \A m, n \in Nat : 1..m = 1..n => m = n
      <4> SUFFICES ASSUME NEW m \in Nat, NEW n \in Nat, 1..m = 1..n, m # n PROVE FALSE
        OBVIOUS
      <4>1. CASE m < n
        BY <4>1, n \in 1..n, n \notin 1..m
      <4>2. CASE n < m
        BY <4>2, m \in 1..m, m \notin 1..n
      <4> QED BY <4>1, <4>2
    <3> QED BY <2>3, <2>4, <3>1
  <2> QED BY <2>1, <2>2, <2>5
<1>3. TypeOK
  <2>1. \A i \in DOMAIN users : users[i].password <= Len(temporary)
    BY <1>1, <1>2
  <2>2. /\ users \in Seq(Account(Addresses)) /\ Len(users) <= MaxUsers
        /\ temporary \in Seq(BOOLEAN) /\ Len(temporary) <= MaxPasswords
    BY <1>1, <1>2 DEF Rows
  <2>3. pc \in [Handlers -> Labels]
    BY DEF Init, Labels
  <2>4. req \in [Handlers -> Request \cup {NoRequest}]
    BY DEF Init
  <2>5. /\ tokens \subseteq {t \in Token : t.user <= Len(users)}
        /\ links \subseteq {t \in Token : t.user <= Len(users)}
    BY DEF Init
  <2>6. complete \in BOOLEAN /\ raced \in BOOLEAN
    BY DEF Init
  <2>7. requests \in 0..MaxRequests
    BY DEF Init
  <2> QED BY <2>1, <2>2, <2>3, <2>4, <2>5, <2>6, <2>7 DEF TypeOK
<1>4. \A h \in Handlers : HoldsRow(h)
  BY DEF Init, HoldsRow
<1>5. TemporaryIsMarked
  BY <1>1, <1>2 DEF TemporaryIsMarked
<1> QED BY <1>1, <1>2, <1>3, <1>4, <1>5 DEF IInv

(* Types of the parts of IInv, as the steps need them.                      *)
LEMMA InvFact ==
  ASSUME IInv
  PROVE  /\ users \in Seq(Rows) /\ Len(users) \in 1..MaxUsers
         /\ DOMAIN users = 1..Len(users)
         /\ \A i \in 1..Len(users) :
              /\ users[i] \in Rows
              /\ users[i].password \in 1..Len(temporary)
              /\ Marked(users[i])
         /\ temporary \in Seq(BOOLEAN) /\ Len(temporary) \in 1..MaxPasswords
         /\ DOMAIN temporary = 1..Len(temporary)
         /\ \A p \in 1..Len(temporary) : temporary[p] \in BOOLEAN
         /\ SuperAdmin \in 1..Len(users)
         /\ ~temporary[1]
<1> USE SeededFact
<1>1. /\ users \in Seq(Rows) /\ Len(users) \in 1..MaxUsers /\ DOMAIN users = 1..Len(users)
      /\ temporary \in Seq(BOOLEAN) /\ Len(temporary) \in 1..MaxPasswords
      /\ DOMAIN temporary = 1..Len(temporary)
  BY DEF IInv, TypeOK, Rows
<1>2. ASSUME NEW i \in 1..Len(users)
      PROVE  /\ users[i] \in Rows
             /\ users[i].password \in 1..Len(temporary)
             /\ Marked(users[i])
  <2>1. users[i] \in Rows
    BY <1>1
  <2>2. users[i].password \in Nat \ {0}
    BY <2>1, RowFields DEF Passwords
  <2>3. users[i].password <= Len(temporary) /\ Marked(users[i])
    BY <1>1 DEF IInv, TypeOK, TemporaryIsMarked, Marked
  <2> QED BY <1>1, <2>1, <2>2, <2>3
<1>3. SuperAdmin \in 1..Len(users) /\ ~temporary[1]
  BY <1>1 DEF IInv
<1>4. \A p \in 1..Len(temporary) : temporary[p] \in BOOLEAN
  BY <1>1
<1> QED BY <1>1, <1>2, <1>3, <1>4

-----------------------------------------------------------------------------
(* What a handler holds stays good while accounts and passwords are added.   *)
LEMMA HoldsKept ==
  ASSUME IInv, NEW h \in Handlers, pc'[h] = pc[h], req'[h] = req[h],
         Len(users') \in Nat, Len(users) <= Len(users'),
         Len(temporary') \in Nat, Len(temporary) <= Len(temporary'),
         \A p \in 1..Len(temporary) : temporary'[p] = temporary[p]
  PROVE  HoldsRow(h)'
<1> SUFFICES ASSUME pc[h] # "idle"
             PROVE  /\ req[h] \in Request
                    /\ req[h].user <= Len(users')
                    /\ req[h].row.password <= Len(temporary')
                    /\ temporary'[req[h].row.password] => req[h].row.must
                    /\ pc[h] = "insert" => req[h].row.must
  BY DEF HoldsRow, Marked
<1>1. /\ req[h] \in Request /\ req[h].user <= Len(users)
      /\ req[h].row.password <= Len(temporary) /\ Marked(req[h].row)
      /\ pc[h] = "insert" => req[h].row.must
  BY DEF IInv, HoldsRow
<1>2. req[h].row.password \in Nat \ {0} /\ req[h].user \in Nat
  BY <1>1, RequestFields, RowFields DEF Passwords, Users
<1>3. Len(users) \in Nat /\ Len(temporary) \in Nat
  BY InvFact
<1> QED BY <1>1, <1>2, <1>3 DEF Marked

(* The parts of TypeOK that concern the handlers.                           *)
LEMMA FinishType ==
  ASSUME TypeOK, NEW h \in Handlers, Finish(h)
  PROVE  /\ pc' \in [Handlers -> Labels]
         /\ req' \in [Handlers -> Request \cup {NoRequest}]
         /\ pc'[h] = "idle"
         /\ \A g \in Handlers \ {h} : pc'[g] = pc[g] /\ req'[g] = req[g]
BY DEF TypeOK, Finish, Goto, Labels

(* Steps that save one account and may set a password: the rows of the        *)
(* others stay, and with them their marks.                                  *)
LEMMA SaveRow ==
  ASSUME IInv, NEW i \in 1..Len(users), NEW r \in Rows,
         users' = [users EXCEPT ![i] = r]
  PROVE  /\ users' \in Seq(Rows) /\ Len(users') = Len(users)
         /\ DOMAIN users' = 1..Len(users)
         /\ users'[i] = r
         /\ \A j \in 1..Len(users) : j # i => users'[j] = users[j]
<1>1. users \in Seq(Rows)
  BY InvFact
<1> QED BY <1>1, ExceptSeq, LenProperties

LEMMA NewPassword ==
  ASSUME IInv, NEW b \in BOOLEAN, temporary' = Append(temporary, b),
         Len(temporary) < MaxPasswords
  PROVE  /\ temporary' \in Seq(BOOLEAN) /\ Len(temporary') = Len(temporary) + 1
         /\ \A p \in 1..Len(temporary) : temporary'[p] = temporary[p]
         /\ temporary'[Len(temporary) + 1] = b
         /\ Len(temporary) + 1 \in Passwords
<1>1. temporary \in Seq(BOOLEAN) /\ Len(temporary) \in Nat /\ MaxPasswords \in Nat
  BY InvFact, SeededFact
<1> QED BY <1>1, AppendProperties DEF Passwords

(* A request begins.                                                        *)
LEMMA BeginInv ==
  ASSUME IInv, NEW h \in Handlers, NEW label \in Labels, NEW r \in Request,
         Begin(h, label, r), requests' \in 0..MaxRequests,
         r.user <= Len(users), r.row.password <= Len(temporary), Marked(r.row),
         label = "insert" => r.row.must
  PROVE  IInv'
<1>1. /\ pc' = [pc EXCEPT ![h] = label] /\ req' = [req EXCEPT ![h] = r]
      /\ UNCHANGED <<users, tokens, links, complete, temporary, raced>>
  BY DEF Begin, Goto, tables
<1>2. TypeOK'
  BY <1>1 DEF IInv, TypeOK
<1>3. ASSUME NEW g \in Handlers PROVE HoldsRow(g)'
  <2>1. CASE g = h
    BY <1>1, <2>1 DEF IInv, TypeOK, HoldsRow, Marked
  <2>2. CASE g # h
    <3>1. pc'[g] = pc[g] /\ req'[g] = req[g]
      BY <1>1, <2>2 DEF IInv, TypeOK
    <3> QED BY <1>1, <3>1, HoldsKept, InvFact
  <2> QED BY <2>1, <2>2
<1>4. TemporaryIsMarked'
  BY <1>1 DEF IInv, TemporaryIsMarked
<1> QED BY <1>1, <1>2, <1>3, <1>4 DEF IInv

(* What a step at handler h has to show.                                    *)
LEMMA StepInv ==
  ASSUME IInv, NEW h \in Handlers,
         users' \in Seq(Rows), Len(users') <= MaxUsers, Len(users) <= Len(users'),
         temporary' \in Seq(BOOLEAN), Len(temporary') <= MaxPasswords,
         Len(temporary) <= Len(temporary'),
         \A p \in 1..Len(temporary) : temporary'[p] = temporary[p],
         \A i \in 1..Len(users') : /\ users'[i].password <= Len(temporary')
                                   /\ temporary'[users'[i].password] => users'[i].must,
         tokens' \subseteq {t \in Token : t.user <= Len(users)},
         links' \subseteq {t \in Token : t.user <= Len(users)},
         complete' \in BOOLEAN, raced' \in BOOLEAN, requests' \in 0..MaxRequests,
         pc' \in [Handlers -> Labels],
         req' \in [Handlers -> Request \cup {NoRequest}],
         \A g \in Handlers \ {h} : pc'[g] = pc[g] /\ req'[g] = req[g],
         HoldsRow(h)'
  PROVE  IInv'
<1>1. /\ Len(users) \in Nat /\ Len(temporary) \in Nat
      /\ Len(users') \in Nat /\ Len(temporary') \in Nat
      /\ DOMAIN users' = 1..Len(users')
      /\ \A t \in Token : t.user \in Nat
      /\ Len(Seeded) \in Nat
  BY InvFact, SeededFact, LenProperties DEF Token, Users
<1>2. tokens' \subseteq {t \in Token : t.user <= Len(users')}
      /\ links' \subseteq {t \in Token : t.user <= Len(users')}
  BY <1>1
<1>3. TypeOK'
  BY <1>1, <1>2 DEF TypeOK, Rows
<1>4. ASSUME NEW g \in Handlers PROVE HoldsRow(g)'
  <2>1. CASE g = h
    BY <2>1
  <2>2. CASE g # h
    BY <1>1, <2>2, HoldsKept
  <2> QED BY <2>1, <2>2
<1>5. TemporaryIsMarked'
  BY <1>1 DEF TemporaryIsMarked
<1>6. /\ Len(Seeded) <= Len(users') /\ Len(Seeded) <= Len(temporary')
      /\ \A i \in 1..Len(Seeded) : ~temporary'[i]
  BY <1>1 DEF IInv
<1> QED BY <1>3, <1>4, <1>5, <1>6 DEF IInv

(* The case of accounts and passwords that stay.                            *)
LEMMA StillInv ==
  ASSUME IInv, NEW h \in Handlers, UNCHANGED <<users, temporary>>,
         tokens' \subseteq {t \in Token : t.user <= Len(users)},
         links' \subseteq {t \in Token : t.user <= Len(users)},
         complete' \in BOOLEAN, raced' \in BOOLEAN, requests' \in 0..MaxRequests,
         pc' \in [Handlers -> Labels],
         req' \in [Handlers -> Request \cup {NoRequest}],
         \A g \in Handlers \ {h} : pc'[g] = pc[g] /\ req'[g] = req[g],
         HoldsRow(h)'
  PROVE  IInv'
<1>1. \A i \in 1..Len(users) : /\ users[i].password <= Len(temporary)
                               /\ temporary[users[i].password] => users[i].must
  BY InvFact DEF Marked
<1>2. /\ users \in Seq(Rows) /\ Len(users) <= MaxUsers /\ Len(users) \in Nat
      /\ temporary \in Seq(BOOLEAN) /\ Len(temporary) <= MaxPasswords
      /\ Len(temporary) \in Nat
  BY InvFact
<1> QED BY <1>1, <1>2, StepInv

(* The case of one account saved, without a new password.                   *)
LEMMA SaveInv ==
  ASSUME IInv, NEW h \in Handlers, NEW i \in 1..Len(users), NEW r \in Rows,
         users' = [users EXCEPT ![i] = r], UNCHANGED <<temporary, links, requests>>,
         r.password <= Len(temporary), Marked(r),
         tokens' \subseteq tokens, complete' \in BOOLEAN, raced' \in BOOLEAN,
         pc' \in [Handlers -> Labels],
         req' \in [Handlers -> Request \cup {NoRequest}],
         \A g \in Handlers \ {h} : pc'[g] = pc[g] /\ req'[g] = req[g],
         HoldsRow(h)'
  PROVE  IInv'
<1>1. /\ users' \in Seq(Rows) /\ Len(users') = Len(users)
      /\ users'[i] = r /\ \A j \in 1..Len(users) : j # i => users'[j] = users[j]
  BY SaveRow
<1>2. \A j \in 1..Len(users') : /\ users'[j].password <= Len(temporary')
                                /\ temporary'[users'[j].password] => users'[j].must
  <2> SUFFICES ASSUME NEW j \in 1..Len(users)
               PROVE  /\ users'[j].password <= Len(temporary)
                      /\ temporary[users'[j].password] => users'[j].must
    BY <1>1
  <2>1. CASE j = i
    BY <1>1, <2>1 DEF Marked
  <2>2. CASE j # i
    BY <1>1, <2>2, InvFact DEF Marked
  <2> QED BY <2>1, <2>2
<1>3. /\ temporary \in Seq(BOOLEAN) /\ Len(temporary) <= MaxPasswords
      /\ Len(temporary) \in Nat /\ Len(users) \in Nat /\ Len(users) <= MaxUsers
  BY InvFact
<1>4. /\ tokens' \subseteq {t \in Token : t.user <= Len(users)}
      /\ links' \subseteq {t \in Token : t.user <= Len(users)}
      /\ requests' \in 0..MaxRequests
  BY DEF IInv, TypeOK
<1> QED BY <1>1, <1>2, <1>3, <1>4, StepInv

-----------------------------------------------------------------------------
(* Requests arrive.                                                         *)

LEMMA TokenFact ==
  ASSUME IInv, NEW t \in tokens \cup links
  PROVE  t \in Token /\ t.user \in 1..Len(users)
<1>1. t \in Token /\ t.user <= Len(users)
  BY DEF IInv, TypeOK
<1> QED BY <1>1, InvFact DEF Token, Users

LEMMA WorkingFact ==
  ASSUME IInv, NEW i \in 1..Len(users),
         NEW o \in {"login", "change", "reset", "temporary", "status", "add", "forgot", "verify"}
  PROVE  /\ Working(o, i) \in Request
         /\ Working(o, i).user = i
         /\ Working(o, i).row = users[i]
<1>1. i \in Users /\ users[i] \in Rows
  BY InvFact, SeededFact DEF Users
<1> QED BY <1>1 DEF Working, Request, Rows

LEMMA BeginWorking ==
  ASSUME IInv, NEW h \in Handlers, NEW i \in 1..Len(users), requests' \in 0..MaxRequests,
         NEW o \in {"login", "change", "reset", "temporary", "status", "add", "forgot", "verify"},
         NEW label \in Labels \ {"insert"}, Begin(h, label, Working(o, i))
  PROVE  IInv'
<1>1. users[i].password <= Len(temporary) /\ Marked(users[i]) /\ i <= Len(users)
  BY InvFact
<1> QED BY <1>1, WorkingFact, BeginInv

LEMMA LoadStatusInv ==
  ASSUME IInv, NEW h \in Handlers, NEW t \in tokens, NEW i \in DOMAIN users,
         NEW s \in Statuses, LoadStatus(h, t, i, s), requests' \in 0..MaxRequests
  PROVE  IInv'
<1> DEFINE r == [Working("status", i) EXCEPT !.row.status = s]
<1>1. i \in 1..Len(users)
  BY InvFact
<1>2. Working("status", i) \in Request /\ Working("status", i).user = i
      /\ Working("status", i).row = users[i] /\ users[i] \in Rows
  BY <1>1, WorkingFact, InvFact
<1>3. r = [Working("status", i) EXCEPT !.row = [users[i] EXCEPT !.status = s]]
  BY <1>2
<1>4. [users[i] EXCEPT !.status = s] \in Rows
  BY <1>2, RowUpdates
<1>5. r \in Request
  BY <1>2, <1>3, <1>4, RequestFields
<1>6. r.user = i /\ r.row.password = users[i].password /\ r.row.must = users[i].must
  BY <1>2, <1>3 DEF Working, Rows, Account
<1>7. r.user <= Len(users) /\ r.row.password <= Len(temporary) /\ Marked(r.row)
  BY <1>1, <1>6, InvFact DEF Marked
<1>8. Begin(h, "status", r)
  BY DEF LoadStatus
<1>9. "status" \in Labels
  BY DEF Labels
<1> HIDE DEF r
<1> QED BY <1>5, <1>7, <1>8, <1>9, BeginInv

LEMMA NewAccountFact ==
  ASSUME IInv, NEW i \in 1..Len(users), NEW e \in Emails, NEW o \in Roles, NEW d \in Dfsps
  PROVE  /\ NewAccount(i, e, o, d) \in Rows
         /\ NewAccount(i, e, o, d).password = 1
         /\ NewAccount(i, e, o, d).must
         /\ NewAccount(i, e, o, d).creator = i
         /\ NewAccount(i, e, o, d).email = e
<1>1. i \in Users /\ users[i].dfsp \in Dfsps \cup {NoDfsp} /\ 1 \in Passwords
  BY InvFact, SeededFact, RowFields DEF Users, Passwords
<1>2. e \in Addresses /\ "Active" \in Statuses
  BY DEF Addresses, Statuses
<1> QED BY <1>1, <1>2 DEF NewAccount, Rows, Account

LEMMA LoadAddInv ==
  ASSUME IInv, NEW h \in Handlers, NEW t \in tokens, NEW e \in Emails, NEW o \in Roles,
         NEW d \in Dfsps, LoadAdd(h, t, e, o, d), requests' \in 0..MaxRequests
  PROVE  IInv'
<1> DEFINE r == [op |-> "add", user |-> t.user,
                 row |-> NewAccount(t.user, e, o, d), found |-> {}]
<1>1. t.user \in 1..Len(users) /\ t.user \in Users /\ Len(temporary) \in Nat \ {0}
  BY TokenFact, InvFact, SeededFact DEF Users
<1>2. /\ NewAccount(t.user, e, o, d) \in Rows
      /\ NewAccount(t.user, e, o, d).password = 1
      /\ NewAccount(t.user, e, o, d).must
  <2>1. PICK i \in 1..Len(users) : i = t.user
    BY <1>1
  <2>2. /\ NewAccount(i, e, o, d) \in Rows
        /\ NewAccount(i, e, o, d).password = 1
        /\ NewAccount(i, e, o, d).must
    BY NewAccountFact
  <2> QED BY <2>1, <2>2
<1>3. r \in Request
  BY <1>1, <1>2 DEF Request, Rows
<1>4. r.user <= Len(users) /\ r.row.password <= Len(temporary) /\ Marked(r.row) /\ r.row.must
  BY <1>1, <1>2, InvFact DEF Marked
<1>5. Begin(h, "insert", r) /\ "insert" \in Labels
  BY DEF LoadAdd, Labels
<1> HIDE DEF r
<1> QED BY <1>3, <1>4, <1>5, BeginInv

LEMMA ArriveInv ==
  ASSUME IInv, NEW h \in Handlers, Arrive(h)
  PROVE  IInv'
<1>0. requests' \in 0..MaxRequests
  BY SeededFact DEF Arrive, IInv, TypeOK
<1>1. \A label \in {"login", "mail", "verify", "change", "reset", "temporary"} :
        label \in Labels \ {"insert"}
  BY DEF Labels
<1>2. DOMAIN users = 1..Len(users)
  BY InvFact
<1>3. ASSUME NEW i \in DOMAIN users, Login(h, i) \/ LoadForgot(h, i) PROVE IInv'
  BY <1>0, <1>1, <1>2, <1>3, BeginWorking DEF Login, LoadForgot
<1>4. ASSUME NEW t \in links, LoadVerify(h, t) PROVE IInv'
  BY <1>0, <1>1, <1>4, TokenFact, BeginWorking DEF LoadVerify
<1>5. ASSUME NEW t \in tokens, LoadChange(h, t) \/ LoadReset(h, t) PROVE IInv'
  BY <1>0, <1>1, <1>5, TokenFact, BeginWorking DEF LoadChange, LoadReset
<1>6. ASSUME NEW t \in tokens, NEW i \in DOMAIN users, LoadTemporary(h, t, i) PROVE IInv'
  BY <1>0, <1>1, <1>2, <1>6, BeginWorking DEF LoadTemporary
<1> QED BY <1>0, <1>3, <1>4, <1>5, <1>6, LoadStatusInv, LoadAddInv DEF Arrive

-----------------------------------------------------------------------------
(* Steps of the handlers.                                                   *)

LEMMA HandlerFact ==
  ASSUME IInv, NEW h \in Handlers, pc[h] # "idle"
  PROVE  /\ req[h] \in Request /\ req[h].user \in 1..Len(users)
         /\ req[h].row \in Rows /\ req[h].row.password \in 1..Len(temporary)
         /\ Marked(req[h].row)
<1>1. /\ req[h] \in Request /\ req[h].user <= Len(users)
      /\ req[h].row.password <= Len(temporary) /\ Marked(req[h].row)
  BY DEF IInv, HoldsRow
<1>2. req[h].user \in Users /\ req[h].row \in Rows /\ req[h].row.password \in Passwords
  BY <1>1, RequestFields, RowFields
<1> QED BY <1>1, <1>2, InvFact DEF Users, Passwords

LEMMA FinishHolds ==
  ASSUME TypeOK, NEW h \in Handlers, Finish(h)
  PROVE  /\ pc' \in [Handlers -> Labels]
         /\ req' \in [Handlers -> Request \cup {NoRequest}]
         /\ \A g \in Handlers \ {h} : pc'[g] = pc[g] /\ req'[g] = req[g]
         /\ HoldsRow(h)'
BY FinishType DEF HoldsRow

LEMMA TokensKept ==
  ASSUME IInv
  PROVE  /\ tokens \subseteq {t \in Token : t.user <= Len(users)}
         /\ links \subseteq {t \in Token : t.user <= Len(users)}
         /\ complete \in BOOLEAN /\ raced \in BOOLEAN /\ requests \in 0..MaxRequests
BY DEF IInv, TypeOK

LEMMA NewTokenFact ==
  ASSUME IInv, NEW h \in Handlers, pc[h] # "idle", NEW b \in BOOLEAN
  PROVE  [user |-> req[h].user, password |-> req[h].row.password, link |-> b]
           \in {t \in Token : t.user <= Len(users)}
<1>1. req[h].user \in Users /\ req[h].row.password \in Passwords /\ req[h].user <= Len(users)
  BY HandlerFact, RequestFields, RowFields, InvFact
<1> QED BY <1>1 DEF Token

LEMMA LoginSaveInv ==
  ASSUME IInv, NEW h \in Handlers, LoginSave(h), UNCHANGED requests
  PROVE  IInv'
<1>1. TypeOK /\ Finish(h) /\ pc[h] # "idle"
  BY DEF IInv, LoginSave
<1>2. tokens' \subseteq {t \in Token : t.user <= Len(users)}
  BY <1>1, NewTokenFact, TokensKept DEF LoginSave
<1>3. raced' \in BOOLEAN
  BY Zenon DEF LoginSave
<1> QED BY <1>1, <1>2, <1>3, FinishHolds, TokensKept, StillInv DEF LoginSave

LEMMA MailInv ==
  ASSUME IInv, NEW h \in Handlers, Mail(h), UNCHANGED requests
  PROVE  IInv'
<1>1. TypeOK /\ Finish(h) /\ pc[h] # "idle"
  BY DEF IInv, Mail
<1>2. /\ tokens' \subseteq {t \in Token : t.user <= Len(users)}
      /\ links' \subseteq {t \in Token : t.user <= Len(users)}
  BY <1>1, NewTokenFact, TokensKept DEF Mail
<1>3. raced' \in BOOLEAN
  BY Zenon DEF Mail
<1> QED BY <1>1, <1>2, <1>3, FinishHolds, TokensKept, StillInv DEF Mail

LEMMA StatusSaveInv ==
  ASSUME IInv, NEW h \in Handlers, StatusSave(h), UNCHANGED requests
  PROVE  IInv'
<1>1. TypeOK /\ Finish(h) /\ pc[h] # "idle"
  BY DEF IInv, StatusSave
<1>2. /\ req[h].user \in 1..Len(users) /\ req[h].row \in Rows
      /\ req[h].row.password <= Len(temporary) /\ Marked(req[h].row)
  BY <1>1, HandlerFact, InvFact
<1>3. raced' \in BOOLEAN
  BY Zenon DEF StatusSave
<1>4. users' = [users EXCEPT ![req[h].user] = req[h].row]
      /\ UNCHANGED <<temporary, links, requests, tokens, complete>>
  BY DEF StatusSave
<1> QED BY <1>1, <1>2, <1>3, <1>4, FinishHolds, TokensKept, SaveInv

LEMMA VerifySaveInv ==
  ASSUME IInv, NEW h \in Handlers, VerifySave(h), UNCHANGED requests
  PROVE  IInv'
<1> DEFINE r == [req[h].row EXCEPT !.status = "ResetPassword"]
<1>1. TypeOK /\ pc[h] # "idle" /\ "ResetPassword" \in Statuses
  BY DEF IInv, VerifySave, Statuses
<1>2. /\ req[h].user \in 1..Len(users) /\ req[h].row \in Rows
      /\ req[h].row.password <= Len(temporary) /\ Marked(req[h].row)
  BY <1>1, HandlerFact, InvFact
<1>3. r \in Rows /\ r.password = req[h].row.password /\ r.must = req[h].row.must
  BY <1>1, <1>2, RowUpdates DEF Rows, Account
<1>4. r.password <= Len(temporary) /\ Marked(r)
  BY <1>2, <1>3 DEF Marked
<1>5. raced' \in BOOLEAN
  BY Zenon DEF VerifySave
<1>6. users' = [users EXCEPT ![req[h].user] = r]
      /\ UNCHANGED <<temporary, links, requests, tokens, complete>>
  BY DEF VerifySave
<1>7. /\ pc' \in [Handlers -> Labels]
      /\ req' \in [Handlers -> Request \cup {NoRequest}]
      /\ \A g \in Handlers \ {h} : pc'[g] = pc[g] /\ req'[g] = req[g]
      /\ HoldsRow(h)'
  <2>1. CASE Finish(h)
    BY <1>1, <2>1, FinishHolds
  <2>2. CASE Goto(h, "count") /\ UNCHANGED req
    <3>1. /\ pc' \in [Handlers -> Labels] /\ req' \in [Handlers -> Request \cup {NoRequest}]
          /\ \A g \in Handlers \ {h} : pc'[g] = pc[g] /\ req'[g] = req[g]
          /\ pc'[h] = "count"
      BY <1>1, <2>2 DEF TypeOK, Goto, Labels
    <3>2. Len(users') = Len(users)
      BY <1>2, <1>3, <1>6, SaveRow
    <3>3. HoldsRow(h)'
      BY <1>1, <1>6, <2>2, <3>1, <3>2 DEF IInv, HoldsRow, Marked
    <3> QED BY <3>1, <3>3
  <2> QED BY <2>1, <2>2 DEF VerifySave
<1> HIDE DEF r
<1> QED BY <1>2, <1>3, <1>4, <1>5, <1>6, <1>7, TokensKept, SaveInv

LEMMA CountInv ==
  ASSUME IInv, NEW h \in Handlers, Count(h), UNCHANGED requests
  PROVE  IInv'
<1>1. TypeOK /\ pc[h] # "idle" /\ UNCHANGED <<users, tokens, links, complete, temporary, raced>>
  BY DEF IInv, Count, tables
<1>2. /\ req[h] \in Request /\ req[h].user <= Len(users)
      /\ req[h].row.password <= Len(temporary) /\ Marked(req[h].row)
  BY <1>1 DEF IInv, HoldsRow
<1>3. /\ pc' \in [Handlers -> Labels]
      /\ req' \in [Handlers -> Request \cup {NoRequest}]
      /\ \A g \in Handlers \ {h} : pc'[g] = pc[g] /\ req'[g] = req[g]
      /\ HoldsRow(h)'
  <2>1. CASE Finish(h)
    BY <1>1, <2>1, FinishHolds
  <2>2. CASE /\ req' = [req EXCEPT ![h].found = TokensOf(SuperAdmin)]
             /\ Goto(h, "remove")
    <3>1. TokensOf(SuperAdmin) \in SUBSET Token
      BY TokensKept DEF TokensOf
    <3>2. [req[h] EXCEPT !.found = TokensOf(SuperAdmin)] \in Request
      BY <1>2, <3>1, RequestFields
    <3>3. /\ req' = [req EXCEPT ![h] = [req[h] EXCEPT !.found = TokensOf(SuperAdmin)]]
          /\ pc' = [pc EXCEPT ![h] = "remove"]
      BY <2>2 DEF Goto
    <3>4. /\ [req[h] EXCEPT !.found = TokensOf(SuperAdmin)].user = req[h].user
          /\ [req[h] EXCEPT !.found = TokensOf(SuperAdmin)].row = req[h].row
      BY <1>2 DEF Request
    <3>5. /\ pc' \in [Handlers -> Labels] /\ req' \in [Handlers -> Request \cup {NoRequest}]
          /\ \A g \in Handlers \ {h} : pc'[g] = pc[g] /\ req'[g] = req[g]
          /\ req'[h] = [req[h] EXCEPT !.found = TokensOf(SuperAdmin)]
          /\ pc'[h] = "remove"
      BY <1>1, <3>2, <3>3 DEF TypeOK, Labels
    <3>6. HoldsRow(h)'
      BY <1>1, <1>2, <3>2, <3>4, <3>5 DEF HoldsRow, Marked
    <3> QED BY <3>5, <3>6
  <2> QED BY <2>1, <2>2 DEF Count
<1> QED BY <1>1, <1>3, TokensKept, StillInv

LEMMA RemoveInv ==
  ASSUME IInv, NEW h \in Handlers, Remove(h), UNCHANGED requests
  PROVE  IInv'
<1>1. TypeOK /\ pc[h] = "remove" /\ UNCHANGED <<users, links, complete, temporary, raced>>
  BY DEF IInv, Remove
<1>2. /\ req[h] \in Request /\ req[h].user <= Len(users)
      /\ req[h].row.password <= Len(temporary) /\ Marked(req[h].row)
  BY <1>1 DEF IInv, HoldsRow
<1>3. /\ tokens' \subseteq tokens
      /\ pc' \in [Handlers -> Labels]
      /\ req' \in [Handlers -> Request \cup {NoRequest}]
      /\ \A g \in Handlers \ {h} : pc'[g] = pc[g] /\ req'[g] = req[g]
      /\ HoldsRow(h)'
  <2>1. CASE Goto(h, "block") /\ UNCHANGED <<tokens, req>>
    BY <1>1, <1>2, <2>1 DEF TypeOK, Goto, Labels, HoldsRow, Marked
  <2>2. ASSUME NEW t \in req[h].found,
               tokens' = tokens \ {t}, req' = [req EXCEPT ![h].found = @ \ {t}], UNCHANGED pc
        PROVE  /\ tokens' \subseteq tokens
               /\ pc' \in [Handlers -> Labels]
               /\ req' \in [Handlers -> Request \cup {NoRequest}]
               /\ \A g \in Handlers \ {h} : pc'[g] = pc[g] /\ req'[g] = req[g]
               /\ HoldsRow(h)'
    <3> DEFINE r == [req[h] EXCEPT !.found = req[h].found \ {t}]
    <3>1. r \in Request
      BY <1>2, RequestFields
    <3>2. r.user = req[h].user /\ r.row = req[h].row
      BY <1>2 DEF Request
    <3>3. req' = [req EXCEPT ![h] = r]
      BY <2>2
    <3> HIDE DEF r
    <3>4. /\ req' \in [Handlers -> Request \cup {NoRequest}] /\ req'[h] = r
          /\ \A g \in Handlers \ {h} : req'[g] = req[g]
      BY <1>1, <3>1, <3>3 DEF TypeOK
    <3>5. HoldsRow(h)'
      BY <1>1, <1>2, <2>2, <3>1, <3>2, <3>4 DEF HoldsRow, Marked
    <3> QED BY <1>1, <2>2, <3>4, <3>5 DEF TypeOK
  <2> QED BY <2>1, <2>2 DEF Remove
<1>4. tokens' \subseteq {t \in Token : t.user <= Len(users)}
  BY <1>3, TokensKept
<1> QED BY <1>1, <1>3, <1>4, TokensKept, StillInv

LEMMA BlockInv ==
  ASSUME IInv, NEW h \in Handlers, Block(h), UNCHANGED requests
  PROVE  IInv'
<1> DEFINE r == [users[SuperAdmin] EXCEPT !.status = "Blocked"]
<1>1. TypeOK /\ Finish(h) /\ "Blocked" \in Statuses
  BY DEF IInv, Block, Statuses
<1>2. /\ SuperAdmin \in 1..Len(users) /\ users[SuperAdmin] \in Rows
      /\ users[SuperAdmin].password <= Len(temporary) /\ Marked(users[SuperAdmin])
  BY InvFact
<1>3. /\ r \in Rows /\ r.password = users[SuperAdmin].password
      /\ r.must = users[SuperAdmin].must
  BY <1>1, <1>2, RowUpdates DEF Rows, Account
<1>4. r.password <= Len(temporary) /\ Marked(r)
  BY <1>2, <1>3 DEF Marked
<1>5. users' = [users EXCEPT ![SuperAdmin] = r] /\ complete' \in BOOLEAN
      /\ UNCHANGED <<temporary, links, requests, tokens, raced>>
  BY DEF Block
<1> HIDE DEF r
<1> QED BY <1>1, <1>2, <1>3, <1>4, <1>5, FinishHolds, TokensKept, SaveInv

LEMMA FailInv ==
  ASSUME IInv, NEW h \in Handlers, Fail(h), UNCHANGED requests
  PROVE  IInv'
<1>1. TypeOK /\ Finish(h) /\ UNCHANGED <<users, tokens, links, complete, temporary, raced>>
  BY DEF IInv, Fail, tables
<1> QED BY <1>1, FinishHolds, TokensKept, StillInv

(* A new password: its number is new, so that no other row has it.          *)
LEMMA SetPasswordInv ==
  ASSUME IInv, NEW h \in Handlers, NEW label \in Labels \ {"idle"}, SetPassword(h, label),
         UNCHANGED requests
  PROVE  IInv'
<1> DEFINE p == Len(temporary) + 1
           r == WithPassword(req[h], p)
<1>1. TypeOK /\ Finish(h) /\ pc[h] # "idle" /\ Len(temporary) < MaxPasswords
  BY DEF IInv, SetPassword
<1>2. req[h] \in Request /\ req[h].user \in 1..Len(users) /\ (req[h].op = "temporary") \in BOOLEAN
  BY <1>1, HandlerFact
<1>3. temporary' = Append(temporary, req[h].op = "temporary")
  BY DEF SetPassword
<1>4. /\ temporary' \in Seq(BOOLEAN) /\ Len(temporary') = Len(temporary) + 1
      /\ \A q \in 1..Len(temporary) : temporary'[q] = temporary[q]
      /\ temporary'[p] = (req[h].op = "temporary") /\ p \in Passwords
  BY <1>1, <1>2, <1>3, NewPassword
<1>5. r \in Rows /\ r.password = p /\ r.must = (req[h].op = "temporary")
  BY <1>2, <1>4, WithPasswordFact
<1>6. users' = [users EXCEPT ![req[h].user] = r]
  BY DEF SetPassword
<1> HIDE DEF r
<1>7. /\ users' \in Seq(Rows) /\ Len(users') = Len(users) /\ users'[req[h].user] = r
      /\ \A j \in 1..Len(users) : j # req[h].user => users'[j] = users[j]
  BY <1>2, <1>5, <1>6, SaveRow
<1>8. Len(temporary) \in Nat /\ Len(users) \in Nat /\ Len(users) <= MaxUsers
  BY InvFact
<1>9. \A j \in 1..Len(users') : /\ users'[j].password <= Len(temporary')
                                /\ temporary'[users'[j].password] => users'[j].must
  <2> SUFFICES ASSUME NEW j \in 1..Len(users)
               PROVE  /\ users'[j].password <= Len(temporary')
                      /\ temporary'[users'[j].password] => users'[j].must
    BY <1>7
  <2>1. CASE j = req[h].user
    <3>1. users'[j].password = p /\ users'[j].must = (req[h].op = "temporary")
      BY <1>5, <1>7, <2>1
    <3>2. temporary'[users'[j].password] = (req[h].op = "temporary")
      BY <1>4, <3>1
    <3> QED BY <1>4, <1>8, <3>1, <3>2
  <2>2. CASE j # req[h].user
    <3>1. users'[j] = users[j] /\ users[j].password \in 1..Len(temporary) /\ Marked(users[j])
      BY <1>7, <2>2, InvFact
    <3> QED BY <1>4, <1>8, <3>1 DEF Marked
  <2> QED BY <2>1, <2>2
<1>10. tokens' \subseteq {t \in Token : t.user <= Len(users)}
  BY TokensKept DEF SetPassword
<1>11. raced' \in BOOLEAN
  BY Zenon DEF SetPassword
<1>12. UNCHANGED <<links, complete, requests>>
  BY DEF SetPassword
<1> QED
  BY <1>1, <1>4, <1>7, <1>8, <1>9, <1>10, <1>11, <1>12, FinishHolds, TokensKept, StepInv
     DEF Passwords

LEMMA InsertInv ==
  ASSUME IInv, NEW h \in Handlers, Insert(h), UNCHANGED requests
  PROVE  IInv'
<1> DEFINE p == Len(temporary) + 1
           r == [req[h].row EXCEPT !.password = p]
<1>1. TypeOK /\ Finish(h) /\ pc[h] # "idle" /\ Len(temporary) < MaxPasswords
      /\ Len(users) < MaxUsers /\ Len(users) \in Nat /\ Len(temporary) \in Nat
  BY InvFact DEF IInv, Insert
<1>2. req[h].row \in Rows
  BY <1>1, HandlerFact
<1>3. /\ temporary' \in Seq(BOOLEAN) /\ Len(temporary') = p
      /\ \A q \in 1..Len(temporary) : temporary'[q] = temporary[q]
      /\ p \in Passwords
  BY <1>1, NewPassword DEF Insert
<1>4. r \in Rows /\ r.password = p
  BY <1>2, <1>3, RowUpdates DEF Rows, Account
<1>5. users' = Append(users, r)
  BY DEF Insert
<1>6. r.must
  <2>1. req[h].row.must
    BY <1>1 DEF IInv, HoldsRow, Insert
  <2> QED BY <1>2, <2>1 DEF Rows, Account
<1> HIDE DEF r
<1>7. /\ users' \in Seq(Rows) /\ Len(users') = Len(users) + 1
      /\ users'[Len(users) + 1] = r
      /\ \A j \in 1..Len(users) : users'[j] = users[j]
  BY <1>4, <1>5, InvFact, AppendProperties
<1>8. \A j \in 1..Len(users') : /\ users'[j].password <= Len(temporary')
                                /\ temporary'[users'[j].password] => users'[j].must
  <2> SUFFICES ASSUME NEW j \in 1..(Len(users) + 1)
               PROVE  /\ users'[j].password <= Len(temporary')
                      /\ temporary'[users'[j].password] => users'[j].must
    BY <1>7
  <2>1. CASE j = Len(users) + 1
    BY <1>1, <1>3, <1>4, <1>6, <1>7, <2>1
  <2>2. CASE j \in 1..Len(users)
    <3>1. users'[j] = users[j] /\ users[j].password \in 1..Len(temporary) /\ Marked(users[j])
      BY <1>7, <2>2, InvFact
    <3> QED BY <1>1, <1>3, <3>1 DEF Marked
  <2> QED BY <1>1, <2>1, <2>2
<1>9. UNCHANGED <<tokens, links, complete, raced, requests>>
  BY DEF Insert
<1>10. /\ Len(users') <= MaxUsers /\ Len(users) <= Len(users')
       /\ Len(temporary') <= MaxPasswords /\ Len(temporary) <= Len(temporary')
  BY <1>1, <1>3, <1>7, SeededFact
<1>11. /\ pc' \in [Handlers -> Labels]
       /\ req' \in [Handlers -> Request \cup {NoRequest}]
       /\ \A g \in Handlers \ {h} : pc'[g] = pc[g] /\ req'[g] = req[g]
       /\ HoldsRow(h)'
  BY <1>1, FinishHolds
<1>12. /\ tokens' \subseteq {t \in Token : t.user <= Len(users)}
       /\ links' \subseteq {t \in Token : t.user <= Len(users)}
       /\ complete' \in BOOLEAN /\ raced' \in BOOLEAN /\ requests' \in 0..MaxRequests
  BY <1>9, TokensKept
<1> QED BY <1>3, <1>7, <1>8, <1>10, <1>11, <1>12, StepInv

(* A session ends; no handler moves.                                        *)
LEMMA SessionEndsInv ==
  ASSUME IInv, NEW t \in tokens, Logout(t) \/ Expire(t), UNCHANGED requests
  PROVE  IInv'
<1>1. /\ tokens' \subseteq tokens /\ links' \subseteq links
      /\ UNCHANGED <<users, complete, temporary, raced, pc, req, requests>>
  BY DEF Logout, Expire
<1>2. TypeOK'
  BY <1>1 DEF IInv, TypeOK
<1>3. \A h \in Handlers : HoldsRow(h)'
  BY <1>1 DEF IInv, HoldsRow, Marked
<1>4. TemporaryIsMarked'
  BY <1>1 DEF IInv, TemporaryIsMarked
<1> QED BY <1>1, <1>2, <1>3, <1>4 DEF IInv

LEMMA StepIInv ==
  ASSUME IInv, NEW h \in Handlers, Step(h), UNCHANGED requests
  PROVE  IInv'
<1>1. "change" \in Labels \ {"idle"} /\ "reset" \in Labels \ {"idle"}
      /\ "temporary" \in Labels \ {"idle"}
  BY DEF Labels
<1>2. CASE SaveChange(h) \/ SaveReset(h) \/ SaveTemporary(h)
  BY <1>1, <1>2, SetPasswordInv DEF SaveChange, SaveReset, SaveTemporary
<1> QED
  BY <1>2, LoginSaveInv, StatusSaveInv, InsertInv, MailInv, VerifySaveInv, CountInv, RemoveInv,
     BlockInv, FailInv DEF Step

LEMMA InvNext == IInv /\ [Next]_vars => IInv'
<1> SUFFICES ASSUME IInv, [Next]_vars PROVE IInv'
  OBVIOUS
<1>1. CASE UNCHANGED vars
  BY <1>1 DEF vars, tables, IInv, TypeOK, HoldsRow, Marked, TemporaryIsMarked
<1>2. CASE Next
  BY <1>2, ArriveInv, StepIInv, SessionEndsInv DEF Next
<1> QED BY <1>1, <1>2

LEMMA InvAlways == Spec => []IInv
BY InvInit, InvNext, PTL DEF Spec

(* Accounts, sessions, links and requests keep their types, and sessions and  *)
(* links belong to accounts that exist, however handlers overlap and fail.   *)
THEOREM SessionsTypeCorrect == Spec => []TypeOK
<1>1. IInv => TypeOK
  BY DEF IInv
<1> QED BY <1>1, InvAlways, PTL

(* An account whose password was chosen by an administrator is restricted to *)
(* changing it: the whole-row saves of putUserStatus.ts:81, verifyUser.ts:74  *)
(* and the password handlers never bring it back unmarked, races included.   *)
THEOREM TemporaryAlwaysMarked == Spec => []TemporaryIsMarked
<1>1. IInv => TemporaryIsMarked
  BY DEF IInv
<1> QED BY <1>1, InvAlways, PTL

-----------------------------------------------------------------------------
(* Sessions.                                                                *)

LEMMA FollowsSave ==
  ASSUME IInv, SessionsFollowPassword, NEW i \in 1..Len(users), NEW r \in Rows,
         users' = [users EXCEPT ![i] = r], tokens' \subseteq tokens,
         raced' = FALSE => raced = FALSE /\ r.password = users[i].password
  PROVE  SessionsFollowPassword'
<1> SUFFICES ASSUME ~raced', NEW t \in tokens' PROVE t.password = users'[t.user].password
  BY DEF SessionsFollowPassword
<1>1. t \in tokens /\ ~raced /\ r.password = users[i].password
  BY TokensKept
<1>2. t.password = users[t.user].password /\ t.user \in 1..Len(users)
  BY <1>1, TokenFact DEF SessionsFollowPassword
<1>3. /\ users'[i] = r
      /\ \A j \in 1..Len(users) : j # i => users'[j] = users[j]
  BY SaveRow
<1> QED BY <1>1, <1>2, <1>3

LEMMA FollowsNext ==
  ASSUME IInv, IInv', SessionsFollowPassword, [Next]_vars
  PROVE  SessionsFollowPassword'
<1>1. CASE UNCHANGED vars
  BY <1>1 DEF vars, tables, SessionsFollowPassword
<1>2. ASSUME NEW h \in Handlers, Arrive(h) PROVE SessionsFollowPassword'
  <2>1. UNCHANGED <<users, tokens, raced>>
    BY <1>2, Zenon DEF Arrive, Login, LoadForgot, LoadVerify, LoadChange, LoadReset, LoadTemporary,
                LoadStatus, LoadAdd, Begin, tables
  <2> QED BY <2>1 DEF SessionsFollowPassword
<1>3. ASSUME NEW t \in tokens, Logout(t) \/ Expire(t) PROVE SessionsFollowPassword'
  BY <1>3 DEF Logout, Expire, SessionsFollowPassword
<1>4. ASSUME NEW h \in Handlers, LoginSave(h) \/ Mail(h) PROVE SessionsFollowPassword'
  <2> SUFFICES ASSUME ~raced', NEW t \in tokens' PROVE t.password = users'[t.user].password
    BY DEF SessionsFollowPassword
  <2>1. ~raced /\ ~Stale(h) /\ users' = users /\ pc[h] # "idle"
    BY <1>4 DEF LoginSave, Mail
  <2>2. CASE t \in tokens
    BY <2>1, <2>2 DEF SessionsFollowPassword
  <2>3. CASE t \notin tokens
    <3>1. t.user = req[h].user /\ t.password = req[h].row.password
      BY <1>4, <2>3 DEF LoginSave, Mail
    <3> QED BY <2>1, <3>1 DEF Stale
  <2> QED BY <2>2, <2>3
<1>5. ASSUME NEW h \in Handlers, NEW label \in {"change", "reset", "temporary"},
             SetPassword(h, label)
      PROVE  SessionsFollowPassword'
  <2> SUFFICES ASSUME ~raced', NEW t \in tokens' PROVE t.password = users'[t.user].password
    BY DEF SessionsFollowPassword
  <2> DEFINE r == WithPassword(req[h], Len(temporary) + 1)
  <2>1. ~raced /\ t \in tokens /\ t.user # req[h].user
    BY <1>5 DEF SetPassword, Revoked, TokensOf
  <2>2. users' = [users EXCEPT ![req[h].user] = r]
    BY <1>5 DEF SetPassword
  <2> HIDE DEF r
  <2>3. t.user \in DOMAIN users /\ t.password = users[t.user].password
    BY <2>1, TokenFact, InvFact DEF SessionsFollowPassword
  <2> QED BY <2>1, <2>2, <2>3
<1>6. ASSUME NEW h \in Handlers, StatusSave(h) PROVE SessionsFollowPassword'
  <2>1. /\ req[h].user \in 1..Len(users) /\ req[h].row \in Rows
        /\ users[req[h].user] \in Rows
    BY <1>6, HandlerFact, InvFact DEF StatusSave
  <2>2. users' = [users EXCEPT ![req[h].user] = req[h].row] /\ tokens' = tokens
    BY <1>6 DEF StatusSave
  <2>3. ASSUME raced' = FALSE
        PROVE  raced = FALSE /\ req[h].row.password = users[req[h].user].password
    <3>1. ~raced /\ [users[req[h].user] EXCEPT !.status = req[h].row.status] = req[h].row
      BY <1>6, <2>3 DEF StatusSave
    <3>2. [users[req[h].user] EXCEPT !.status = req[h].row.status].password
            = users[req[h].user].password
      BY <2>1 DEF Rows, Account
    <3>3. raced \in BOOLEAN
      BY TokensKept
    <3> QED BY <3>1, <3>2, <3>3
  <2> QED BY <2>1, <2>2, <2>3, FollowsSave
<1>7. ASSUME NEW h \in Handlers, VerifySave(h) PROVE SessionsFollowPassword'
  <2> DEFINE r == [req[h].row EXCEPT !.status = "ResetPassword"]
  <2>1. /\ req[h].user \in 1..Len(users) /\ req[h].row \in Rows
        /\ "ResetPassword" \in Statuses
    BY <1>7, HandlerFact DEF VerifySave, Statuses
  <2>2. r \in Rows /\ r.password = req[h].row.password
    BY <2>1, RowUpdates DEF Rows, Account
  <2>3. users' = [users EXCEPT ![req[h].user] = r] /\ tokens' = tokens
    BY <1>7 DEF VerifySave
  <2>4. ASSUME raced' = FALSE PROVE raced = FALSE /\ r.password = users[req[h].user].password
    <3>1. ~raced /\ users[req[h].user] = req[h].row /\ raced \in BOOLEAN
      BY <1>7, <2>4, TokensKept DEF VerifySave, Stale
    <3> QED BY <2>2, <3>1
  <2> HIDE DEF r
  <2> QED BY <2>1, <2>2, <2>3, <2>4, FollowsSave
<1>8. ASSUME NEW h \in Handlers, Block(h) PROVE SessionsFollowPassword'
  <2> DEFINE r == [users[SuperAdmin] EXCEPT !.status = "Blocked"]
  <2>1. /\ SuperAdmin \in 1..Len(users) /\ users[SuperAdmin] \in Rows
        /\ "Blocked" \in Statuses /\ raced \in BOOLEAN
    BY InvFact, TokensKept DEF Statuses
  <2>2. r \in Rows /\ r.password = users[SuperAdmin].password
    BY <2>1, RowUpdates DEF Rows, Account
  <2>3. users' = [users EXCEPT ![SuperAdmin] = r] /\ tokens' = tokens /\ raced' = raced
    BY <1>8 DEF Block
  <2> HIDE DEF r
  <2> QED BY <2>1, <2>2, <2>3, FollowsSave
<1>9. ASSUME NEW h \in Handlers, Insert(h) PROVE SessionsFollowPassword'
  <2> SUFFICES ASSUME ~raced', NEW t \in tokens' PROVE t.password = users'[t.user].password
    BY DEF SessionsFollowPassword
  <2>1. ~raced /\ t \in tokens
    BY <1>9 DEF Insert
  <2>2. t.user \in 1..Len(users) /\ t.password = users[t.user].password
    BY <2>1, TokenFact DEF SessionsFollowPassword
  <2>3. users'[t.user] = users[t.user]
    <3> DEFINE r == [req[h].row EXCEPT !.password = Len(temporary) + 1]
    <3>1. users' = Append(users, r)
      BY <1>9 DEF Insert
    <3>2. r \in Rows
      <4>1. pc[h] # "idle" /\ Len(temporary) + 1 \in Passwords
        BY <1>9, InvFact, SeededFact DEF Insert, Passwords
      <4> QED BY <4>1, HandlerFact, RowUpdates
    <3> HIDE DEF r
    <3> QED BY <2>2, <3>1, <3>2, InvFact, AppendProperties
  <2> QED BY <2>2, <2>3
<1>10. ASSUME NEW h \in Handlers, Count(h) \/ Remove(h) \/ Fail(h)
       PROVE  SessionsFollowPassword'
  BY <1>10 DEF Count, Remove, Fail, tables, SessionsFollowPassword
<1> QED
  BY <1>1, <1>2, <1>3, <1>4, <1>5, <1>6, <1>7, <1>8, <1>9, <1>10
     DEF Next, Step, SaveChange, SaveReset, SaveTemporary

(* A new password ends the sessions and links made under the old one, as     *)
(* long as no handler has written over what another one changed             *)
(* (putUserResetPassword.ts:84-94, postUserTemporaryPasswordReset.ts:98-110). *)
THEOREM SessionsAlwaysFollow == Spec => []SessionsFollowPassword
<1>1. Init => SessionsFollowPassword
  BY DEF Init, SessionsFollowPassword
<1>2. IInv /\ IInv' /\ SessionsFollowPassword /\ [Next]_vars => SessionsFollowPassword'
  BY FollowsNext
<1> QED BY <1>1, <1>2, InvAlways, PTL DEF Spec

-----------------------------------------------------------------------------
(* CreationBounds.  What a look-up has counted is exceeded by the insertions *)
(* under way, and each handler has at most one: the accounts of an            *)
(* administrator, and of an address, are counted with those insertions.      *)

(* What an account keeps for ever, and what it counts for.                  *)
SameId(r, s) == r.email = s.email /\ r.creator = s.creator /\ r.role = s.role
CountsFor(r) == {<<"creator", r.creator>>, <<"address", r.email>>}

Listed(k) == {j \in DOMAIN users : k \in CountsFor(users[j])}
Coming(k) == {h \in Handlers : pc[h] = "insert" /\ k \in CountsFor(req[h].row)}

Limited == {<<"creator", i>> : i \in {j \in DOMAIN users : users[j].role = "HubSuperAdmin"}}
             \cup {<<"address", e>> : e \in Addresses}
Room(k) == Cardinality(Handlers) + IF k[1] = "creator" THEN Limit - 1 ELSE 0

(* What a handler has loaded has the identity of the account it came from,   *)
(* and no account of a Hub Super Admin is ever added.                        *)
HoldsId(h) ==
  IF pc[h] = "insert" THEN req[h].row.role # "HubSuperAdmin"
  ELSE pc[h] # "idle" => SameId(req[h].row, users[req[h].user])

BoundsInv ==
  /\ \A h \in Handlers : HoldsId(h)
  /\ \A k \in Limited : Cardinality(Listed(k)) + Cardinality(Coming(k)) <= Room(k)

LEMMA CountFact ==
  ASSUME IInv, NEW k
  PROVE  /\ IsFiniteSet(Listed(k)) /\ Cardinality(Listed(k)) \in Nat
         /\ IsFiniteSet(Coming(k)) /\ Cardinality(Coming(k)) \in Nat
         /\ Cardinality(Coming(k)) <= Cardinality(Handlers)
         /\ Cardinality(Handlers) \in Nat \ {0}
         /\ Limit \in Nat
<1>1. Len(users) \in Nat /\ DOMAIN users = 1..Len(users)
  BY InvFact
<1>2. IsFiniteSet(1..Len(users)) /\ Listed(k) \in SUBSET (1..Len(users))
  BY <1>1, FS_Interval DEF Listed
<1>3. IsFiniteSet(Listed(k)) /\ Cardinality(Listed(k)) \in Nat
  BY <1>2, FS_Subset, FS_CardinalityType
<1>4. Coming(k) \in SUBSET Handlers
  BY DEF Coming
<1>5. IsFiniteSet(Coming(k)) /\ Cardinality(Coming(k)) <= Cardinality(Handlers)
  BY <1>4, HandlersAssumption, FS_Subset
<1>6. Cardinality(Coming(k)) \in Nat
  BY <1>5, FS_CardinalityType
<1>7. Cardinality(Handlers) \in Nat \ {0}
  BY HandlersAssumption, FS_CardinalityType, FS_EmptySet
<1> QED BY <1>3, <1>5, <1>6, <1>7, SeededFact

LEMMA BoundsInit == Init => BoundsInv
<1> SUFFICES ASSUME Init PROVE BoundsInv
  OBVIOUS
<1>1. IInv
  BY InvInit
<1>2. \A h \in Handlers : HoldsId(h)
  BY DEF Init, HoldsId
<1>3. ASSUME NEW k \in Limited
      PROVE  Cardinality(Listed(k)) + Cardinality(Coming(k)) <= Room(k)
  <2>1. Coming(k) = {} /\ Cardinality(Coming(k)) = 0
    <3>1. Coming(k) = {}
      BY DEF Init, Coming
    <3> QED BY <3>1, FS_EmptySet
  <2>2. Cardinality(Handlers) \in Nat \ {0} /\ Limit \in Nat
    BY <1>1, CountFact
  <2>3. DOMAIN users = 1..Len(Seeded) /\ users = Seeded
    BY SeededFact DEF Init
  <2>4. CASE k \in {<<"creator", i>> : i \in {j \in DOMAIN users : users[j].role = "HubSuperAdmin"}}
    <3>1. PICK i \in 1..Len(Seeded) : k = <<"creator", i>>
      BY <2>3, <2>4
    <3>2. \A j \in 1..Len(Seeded) : Seeded[j].creator = Nobody
      BY SeededFact
    <3>3. i # Nobody
      BY <3>1, SeededFact DEF Nobody
    <3>4. Listed(k) = {}
      BY <2>3, <3>1, <3>2, <3>3 DEF Listed, CountsFor
    <3>5. Cardinality(Listed(k)) = 0
      BY <3>4, FS_EmptySet
    <3> QED BY <2>1, <2>2, <3>1, <3>5 DEF Room
  <2>5. CASE k \in {<<"address", e>> : e \in Addresses}
    <3>1. PICK e \in Addresses : k = <<"address", e>>
      BY <2>5
    <3>2. \A i, j \in Listed(k) : i = j
      BY <2>3, <3>1, SeededAssumption DEF Listed, CountsFor
    <3>3. Cardinality(Listed(k)) <= 1
      <4>1. CASE Listed(k) = {}
        BY <4>1, FS_EmptySet
      <4>2. CASE Listed(k) # {}
        <5>1. PICK i : Listed(k) = {i}
          BY <3>2, <4>2
        <5>2. Cardinality({i}) = 1
          BY FS_Singleton
        <5>3. Cardinality(Listed(k)) = 1
          BY <5>1, <5>2, Zenon
        <5> QED BY <5>3
      <4> QED BY <4>1, <4>2
    <3>4. Cardinality(Listed(k)) \in Nat /\ Room(k) = Cardinality(Handlers)
      BY <1>1, <2>2, <3>1, CountFact DEF Room
    <3> QED BY <2>1, <2>2, <3>3, <3>4
  <2> QED BY <2>4, <2>5 DEF Limited
<1> QED BY <1>2, <1>3 DEF BoundsInv

(* Accounts keep their identities, and no insertion is begun.                *)
SameIds ==
  /\ DOMAIN users' = DOMAIN users
  /\ \A j \in DOMAIN users : SameId(users'[j], users[j])

LEMMA IdsFrame ==
  ASSUME IInv, IInv', BoundsInv, SameIds,
         \A g \in Handlers : pc'[g] = "insert" => pc[g] = "insert" /\ req'[g] = req[g]
  PROVE  \A k \in Limited' :
           Cardinality(Listed(k)') + Cardinality(Coming(k)') <= Room(k)
<1> SUFFICES ASSUME NEW k \in Limited'
             PROVE  Cardinality(Listed(k)') + Cardinality(Coming(k)') <= Room(k)
  OBVIOUS
<1>1. k \in Limited
  BY DEF Limited, SameIds, SameId
<1>2. Listed(k)' = Listed(k)
  BY DEF Listed, CountsFor, SameIds, SameId
<1>3. Coming(k)' \in SUBSET Coming(k)
  BY DEF Coming
<1>4. IsFiniteSet(Coming(k)) /\ Cardinality(Coming(k)) \in Nat /\ Cardinality(Listed(k)) \in Nat
  BY CountFact
<1>5. Cardinality(Coming(k)') <= Cardinality(Coming(k)) /\ IsFiniteSet(Coming(k)')
  BY <1>3, <1>4, FS_Subset
<1>6. Cardinality(Coming(k)') \in Nat
  BY <1>5, FS_CardinalityType
<1>7. Room(k) \in Int
  BY CountFact DEF Room
<1> QED BY <1>1, <1>2, <1>4, <1>5, <1>6, <1>7 DEF BoundsInv

(* What a handler has loaded keeps the identity of its account.              *)
LEMMA HoldsIdKept ==
  ASSUME IInv, NEW h \in Handlers, HoldsId(h), pc'[h] = pc[h], req'[h] = req[h],
         \A j \in DOMAIN users : SameId(users'[j], users[j])
  PROVE  HoldsId(h)'
<1>1. CASE pc[h] = "insert" \/ pc[h] = "idle"
  BY <1>1 DEF HoldsId
<1>2. CASE pc[h] # "insert" /\ pc[h] # "idle"
  <2>1. req[h].user \in DOMAIN users
    BY <1>2, HandlerFact, InvFact
  <2> QED BY <1>2, <2>1 DEF HoldsId, SameId
<1> QED BY <1>1, <1>2

(* A handler begins: it holds the row of an account, or one it will add, if   *)
(* what it counted before leaves room for it.                               *)
LEMMA ArriveBounds ==
  ASSUME IInv, IInv', BoundsInv, NEW h \in Handlers, Arrive(h)
  PROVE  BoundsInv'
<1>0. PICK label \in Labels : \E r :
        /\ Begin(h, label, r)
        /\ \/ label # "insert" /\ SameId(r.row, users[r.user])
           \/ \E t \in tokens, e \in Emails, o \in Roles, d \in Dfsps :
                /\ label = "insert" /\ LoadAdd(h, t, e, o, d)
                /\ r.row = NewAccount(t.user, e, o, d)
  <2>1. {"login", "change", "reset", "temporary", "insert", "status", "mail", "verify"}
          \subseteq Labels
    BY DEF Labels
  <2>2. ASSUME NEW i \in DOMAIN users, NEW o PROVE SameId(Working(o, i).row, users[Working(o, i).user])
    BY DEF Working, SameId
  <2>3. ASSUME NEW i \in DOMAIN users, Login(h, i) \/ LoadForgot(h, i)
        PROVE  \E label \in Labels \ {"insert"} : \E r :
                 Begin(h, label, r) /\ SameId(r.row, users[r.user])
    BY <2>1, <2>2, <2>3 DEF Login, LoadForgot
  <2>4. ASSUME NEW t \in links, LoadVerify(h, t)
        PROVE  \E label \in Labels \ {"insert"} : \E r :
                 Begin(h, label, r) /\ SameId(r.row, users[r.user])
    BY <2>1, <2>2, <2>4, TokenFact, InvFact DEF LoadVerify
  <2>5. ASSUME NEW t \in tokens, LoadChange(h, t) \/ LoadReset(h, t)
        PROVE  \E label \in Labels \ {"insert"} : \E r :
                 Begin(h, label, r) /\ SameId(r.row, users[r.user])
    BY <2>1, <2>2, <2>5, TokenFact, InvFact DEF LoadChange, LoadReset
  <2>6. ASSUME NEW t \in tokens, NEW i \in DOMAIN users, LoadTemporary(h, t, i)
        PROVE  \E label \in Labels \ {"insert"} : \E r :
                 Begin(h, label, r) /\ SameId(r.row, users[r.user])
    BY <2>1, <2>2, <2>6 DEF LoadTemporary
  <2>7. ASSUME NEW t \in tokens, NEW i \in DOMAIN users, NEW s \in Statuses, LoadStatus(h, t, i, s)
        PROVE  \E label \in Labels \ {"insert"} : \E r :
                 Begin(h, label, r) /\ SameId(r.row, users[r.user])
    <3> DEFINE r == [Working("status", i) EXCEPT !.row.status = s]
    <3>1. users[i] \in Rows
      BY InvFact
    <3>2. r.user = i /\ r.row = [users[i] EXCEPT !.status = s]
      BY DEF Working
    <3>3. SameId(r.row, users[r.user])
      BY <3>1, <3>2 DEF SameId, Rows, Account
    <3>4. Begin(h, "status", r)
      BY <2>7 DEF LoadStatus
    <3> QED BY <2>1, <3>3, <3>4
  <2>8. ASSUME NEW t \in tokens, NEW e \in Emails, NEW o \in Roles, NEW d \in Dfsps,
               LoadAdd(h, t, e, o, d)
        PROVE  \E r : Begin(h, "insert", r) /\ r.row = NewAccount(t.user, e, o, d)
    <3> DEFINE r == [op |-> "add", user |-> t.user, row |-> NewAccount(t.user, e, o, d),
                     found |-> {}]
    <3>1. Begin(h, "insert", r) /\ r.row = NewAccount(t.user, e, o, d)
      BY <2>8 DEF LoadAdd
    <3> QED BY <3>1
  <2> QED BY <2>1, <2>3, <2>4, <2>5, <2>6, <2>7, <2>8 DEF Arrive
<1>1. PICK r :
        /\ Begin(h, label, r)
        /\ \/ label # "insert" /\ SameId(r.row, users[r.user])
           \/ \E t \in tokens, e \in Emails, o \in Roles, d \in Dfsps :
                /\ label = "insert" /\ LoadAdd(h, t, e, o, d)
                /\ r.row = NewAccount(t.user, e, o, d)
  BY <1>0
<1>2. /\ pc'[h] = label /\ req'[h] = r /\ UNCHANGED users
      /\ \A g \in Handlers \ {h} : pc'[g] = pc[g] /\ req'[g] = req[g]
  BY <1>1 DEF Begin, Goto, tables, IInv, TypeOK
<1>3. SameIds
  BY <1>2 DEF SameIds, SameId
<1>4. ASSUME NEW g \in Handlers, g # h PROVE HoldsId(g)'
  BY <1>2, <1>3, <1>4, HoldsIdKept DEF BoundsInv, SameIds
<1>5. CASE label # "insert" /\ SameId(r.row, users[r.user])
  <2>1. HoldsId(h)'
    BY <1>2, <1>5 DEF HoldsId
  <2>2. \A g \in Handlers : pc'[g] = "insert" => pc[g] = "insert" /\ req'[g] = req[g]
    BY <1>2, <1>5
  <2>3. \A k \in Limited' : Cardinality(Listed(k)') + Cardinality(Coming(k)') <= Room(k)
    BY <1>3, <2>2, IdsFrame
  <2> QED BY <1>4, <2>1, <2>3 DEF BoundsInv, Room
<1>6. ASSUME label = "insert",
             NEW t \in tokens, NEW e \in Emails, NEW o \in Roles, NEW d \in Dfsps,
             LoadAdd(h, t, e, o, d), r.row = NewAccount(t.user, e, o, d)
      PROVE  BoundsInv'
  <2>1. r.row.role = o /\ r.row.creator = t.user /\ r.row.email = e
    BY <1>6 DEF NewAccount
  <2>2. HoldsId(h)'
    <3>1. t.user \in DOMAIN users /\ users[t.user] \in Rows
      BY TokenFact, InvFact
    <3>2. users[t.user].role \in Roles /\ o \in Creates[users[t.user].role]
      BY <1>6, <3>1, RowFields DEF LoadAdd
    <3>3. o # "HubSuperAdmin"
      BY <3>2 DEF Creates, Roles
    <3> QED BY <1>2, <1>6, <2>1, <3>3 DEF HoldsId
  <2>3. ASSUME NEW k \in Limited'
        PROVE  Cardinality(Listed(k)') + Cardinality(Coming(k)') <= Room(k)
    <3>1. k \in Limited /\ Listed(k)' = Listed(k)
      BY <1>2, <2>3 DEF Limited, Listed
    <3>2. /\ Cardinality(Listed(k)) \in Nat /\ Cardinality(Coming(k)) \in Nat
          /\ Cardinality(Coming(k)') \in Nat /\ Cardinality(Coming(k)') <= Cardinality(Handlers)
          /\ Cardinality(Handlers) \in Nat \ {0} /\ Limit \in Nat
          /\ IsFiniteSet(Coming(k))
      <4>1. /\ Cardinality(Coming(k)) \in Nat
            /\ Cardinality(Coming(k)) <= Cardinality(Handlers)
            /\ IsFiniteSet(Coming(k))
        BY CountFact
      <4>2. Coming(k)' \in SUBSET Handlers
        BY DEF Coming
      <4>3. IsFiniteSet(Coming(k)') /\ Cardinality(Coming(k)') <= Cardinality(Handlers)
        BY <4>2, HandlersAssumption, FS_Subset
      <4>4. Cardinality(Coming(k)') \in Nat
        BY <4>3, FS_CardinalityType
      <4> QED BY <4>1, <4>3, <4>4, CountFact
    <3>3. CASE k \in CountsFor(r.row)
      <4>1. CASE k = <<"creator", t.user>>
        <5>1. users[t.user].role = "HubSuperAdmin"
          BY <3>1, <4>1 DEF Limited
        <5>2. Listed(k) = CreatedBy(t.user)
          BY <4>1 DEF Listed, CountsFor, CreatedBy
        <5>3. Cardinality(Listed(k)) < Limit
          BY <1>6, <5>1, <5>2 DEF LoadAdd, MayAdd
        <5>4. Room(k) = Cardinality(Handlers) + (Limit - 1)
          BY <4>1 DEF Room
        <5> QED BY <3>1, <3>2, <5>3, <5>4
      <4>2. CASE k = <<"address", e>>
        <5>1. Listed(k) = {}
          BY <1>6, <4>2 DEF Listed, CountsFor, LoadAdd, MayAdd
        <5>2. Cardinality(Listed(k)) = 0
          BY <5>1, FS_EmptySet
        <5>3. Room(k) = Cardinality(Handlers)
          BY <3>2, <4>2 DEF Room
        <5> QED BY <3>1, <3>2, <5>2, <5>3
      <4> QED BY <2>1, <3>3, <4>1, <4>2 DEF CountsFor
    <3>4. CASE k \notin CountsFor(r.row)
      <4>1. Coming(k)' \in SUBSET Coming(k)
        BY <1>2, <3>4 DEF Coming, CountsFor
      <4>2. Cardinality(Coming(k)') <= Cardinality(Coming(k))
        BY <3>2, <4>1, FS_Subset
      <4>3. Cardinality(Listed(k)) + Cardinality(Coming(k)) <= Room(k) /\ Room(k) \in Int
        BY <3>1, <3>2 DEF BoundsInv, Room
      <4> QED BY <3>1, <3>2, <4>2, <4>3
    <3> QED BY <3>3, <3>4
  <2> QED BY <1>4, <2>2, <2>3 DEF BoundsInv, Room
<1> QED BY <1>1, <1>5, <1>6

(* A step that saves an account changes neither its identity nor another's.  *)
LEMMA StepIds ==
  ASSUME IInv, BoundsInv, NEW h \in Handlers, Step(h), ~Insert(h)
  PROVE  /\ SameIds
         /\ pc'[h] # "insert"
         /\ pc'[h] # "idle" => pc[h] \notin {"idle", "insert"} /\ req'[h].row = req[h].row
                               /\ req'[h].user = req[h].user
         /\ \A g \in Handlers \ {h} : pc'[g] = pc[g] /\ req'[g] = req[g]
<1>0. TypeOK /\ DOMAIN users = 1..Len(users)
  BY InvFact DEF IInv
<1>1. ASSUME NEW i \in 1..Len(users), NEW r \in Rows, users' = [users EXCEPT ![i] = r],
             SameId(r, users[i])
      PROVE  SameIds
  BY <1>0, <1>1, SaveRow DEF SameIds, SameId
<1>2. UNCHANGED users => SameIds
  BY DEF SameIds, SameId
<1>3. ASSUME pc[h] \notin {"idle", "insert"}
      PROVE  /\ req[h] \in Request /\ req[h].user \in 1..Len(users) /\ req[h].row \in Rows
             /\ SameId(req[h].row, users[req[h].user])
  BY <1>3, HandlerFact DEF BoundsInv, HoldsId
<1>4. Finish(h) => /\ pc'[h] = "idle"
                   /\ \A g \in Handlers \ {h} : pc'[g] = pc[g] /\ req'[g] = req[g]
  BY <1>0, FinishType
<1>5. CASE LoginSave(h) \/ Mail(h) \/ Fail(h)
  BY <1>2, <1>4, <1>5 DEF LoginSave, Mail, Fail, tables
<1>6. ASSUME NEW label \in {"change", "reset", "temporary"}, SetPassword(h, label)
      PROVE  SameIds /\ Finish(h)
  <2> DEFINE r == WithPassword(req[h], Len(temporary) + 1)
  <2>1. /\ pc[h] = label /\ Finish(h) /\ Len(temporary) + 1 \in Passwords
        /\ users' = [users EXCEPT ![req[h].user] = r]
    BY <1>6, InvFact, SeededFact DEF SetPassword, Passwords
  <2>2. r \in Rows /\ SameId(r, users[req[h].user])
    BY <1>3, <2>1, WithPasswordFact DEF SameId
  <2> HIDE DEF r
  <2> QED BY <1>1, <1>3, <2>1, <2>2
<1>7. CASE StatusSave(h)
  BY <1>1, <1>3, <1>4, <1>7 DEF StatusSave
<1>8. CASE VerifySave(h)
  <2> DEFINE r == [req[h].row EXCEPT !.status = "ResetPassword"]
  <2>1. pc[h] = "verify" /\ users' = [users EXCEPT ![req[h].user] = r]
    BY <1>8 DEF VerifySave
  <2>2. r \in Rows /\ SameId(r, users[req[h].user])
    <3>1. "ResetPassword" \in Statuses
      BY DEF Statuses
    <3>2. r \in Rows
      BY <1>3, <2>1, <3>1, RowUpdates
    <3>3. r.email = req[h].row.email /\ r.creator = req[h].row.creator /\ r.role = req[h].row.role
      BY <1>3, <2>1 DEF Rows, Account
    <3> QED BY <1>3, <2>1, <3>2, <3>3 DEF SameId
  <2> HIDE DEF r
  <2>3. SameIds
    BY <1>1, <1>3, <2>1, <2>2
  <2>4. CASE Finish(h)
    BY <1>4, <2>3, <2>4
  <2>5. CASE Goto(h, "count") /\ UNCHANGED req
    BY <1>0, <2>1, <2>3, <2>5 DEF Goto, TypeOK
  <2> QED BY <1>8, <2>4, <2>5 DEF VerifySave
<1>9. CASE Block(h)
  <2> DEFINE r == [users[SuperAdmin] EXCEPT !.status = "Blocked"]
  <2>1. SuperAdmin \in 1..Len(users) /\ users[SuperAdmin] \in Rows /\ "Blocked" \in Statuses
    BY InvFact DEF Statuses
  <2>2. r \in Rows
    BY <2>1, RowUpdates
  <2>3. SameId(r, users[SuperAdmin])
    BY <2>1 DEF SameId, Rows, Account
  <2>4. users' = [users EXCEPT ![SuperAdmin] = r] /\ Finish(h)
    BY <1>9 DEF Block
  <2> HIDE DEF r
  <2> QED BY <1>1, <1>4, <2>1, <2>2, <2>3, <2>4
<1>10. CASE Count(h) \/ Remove(h)
  <2>1. SameIds /\ pc[h] \in {"count", "remove"}
    BY <1>2, <1>10 DEF Count, Remove, tables
  <2>2. CASE Finish(h)
    BY <1>4, <2>1, <2>2
  <2>3. ASSUME NEW f, req' = [req EXCEPT ![h].found = f], pc' = pc \/ Goto(h, "remove")
        PROVE  /\ pc'[h] \in {"count", "remove"}
               /\ req'[h].row = req[h].row /\ req'[h].user = req[h].user
               /\ \A g \in Handlers \ {h} : pc'[g] = pc[g] /\ req'[g] = req[g]
    BY <1>0, <1>3, <2>1, <2>3 DEF Goto, TypeOK
  <2>4. CASE Goto(h, "block") /\ UNCHANGED req
    BY <1>0, <2>1, <2>4 DEF Goto, TypeOK
  <2>5. \/ Finish(h) \/ (Goto(h, "block") /\ UNCHANGED req)
        \/ \E f : req' = [req EXCEPT ![h].found = f] /\ (pc' = pc \/ Goto(h, "remove"))
    <3>1. CASE Count(h)
      BY <3>1 DEF Count
    <3>2. CASE Remove(h)
      <4>1. ASSUME NEW t \in req[h].found, req' = [req EXCEPT ![h].found = @ \ {t}]
            PROVE  req' = [req EXCEPT ![h].found = req[h].found \ {t}]
        BY <4>1
      <4> QED BY <3>2, <4>1 DEF Remove
    <3> QED BY <1>10, <3>1, <3>2
  <2> QED BY <2>1, <2>2, <2>3, <2>4, <2>5
<1> QED
  BY <1>4, <1>5, <1>6, <1>7, <1>8, <1>9, <1>10
  DEF Step, SaveChange, SaveReset, SaveTemporary, StatusSave

(* An insertion turns a handler that is about to insert into an account.     *)
LEMMA InsertBounds ==
  ASSUME IInv, BoundsInv, NEW h \in Handlers, Insert(h)
  PROVE  BoundsInv'
<1> DEFINE r == [req[h].row EXCEPT !.password = Len(temporary) + 1]
           n == Len(users) + 1
<1>1. /\ TypeOK /\ Finish(h) /\ pc[h] = "insert" /\ Len(users) \in Nat
      /\ DOMAIN users = 1..Len(users) /\ Len(temporary) + 1 \in Passwords
  BY InvFact, SeededFact DEF IInv, Insert, Passwords
<1>2. req[h].row \in Rows
  BY <1>1, HandlerFact
<1>3. r \in Rows /\ SameId(r, req[h].row)
  BY <1>1, <1>2, RowUpdates DEF Rows, Account, SameId
<1>4. users' = Append(users, r)
  BY DEF Insert
<1> HIDE DEF r
<1>5. /\ DOMAIN users' = 1..n /\ users'[n] = r
      /\ \A j \in 1..Len(users) : users'[j] = users[j]
  BY <1>3, <1>4, InvFact, AppendProperties, LenProperties
<1>6. /\ pc'[h] = "idle" /\ \A g \in Handlers \ {h} : pc'[g] = pc[g] /\ req'[g] = req[g]
  BY <1>1, FinishType
<1>7. ASSUME NEW g \in Handlers PROVE HoldsId(g)'
  <2>1. CASE g = h
    BY <1>6, <2>1 DEF HoldsId
  <2>2. CASE g # h
    BY <1>1, <1>5, <1>6, <2>2, HoldsIdKept DEF BoundsInv, SameId
  <2> QED BY <2>1, <2>2
<1>8. ASSUME NEW k \in Limited'
      PROVE  Cardinality(Listed(k)') + Cardinality(Coming(k)') <= Room(k)
  <2>1. k \in Limited
    <3>1. r.role # "HubSuperAdmin"
      BY <1>1, <1>3 DEF BoundsInv, HoldsId, SameId
    <3>2. \A j \in DOMAIN users' : users'[j].role = "HubSuperAdmin" =>
             j \in DOMAIN users /\ users[j].role = "HubSuperAdmin"
      BY <1>1, <1>5, <3>1
    <3> QED BY <1>8, <3>2 DEF Limited
  <2>2. /\ IsFiniteSet(Listed(k)) /\ Cardinality(Listed(k)) \in Nat
        /\ IsFiniteSet(Coming(k)) /\ Cardinality(Coming(k)) \in Nat
        /\ Cardinality(Listed(k)) + Cardinality(Coming(k)) <= Room(k)
    BY <2>1, CountFact DEF BoundsInv
  <2>3. CASE k \in CountsFor(r)
    <3>1. Listed(k)' = Listed(k) \cup {n} /\ n \notin Listed(k)
      BY <1>1, <1>5, <2>3 DEF Listed
    <3>2. Coming(k)' = Coming(k) \ {h} /\ h \in Coming(k)
      BY <1>1, <1>3, <1>6, <2>3 DEF Coming, CountsFor, SameId
    <3>3. Cardinality(Listed(k)') = Cardinality(Listed(k)) + 1
      BY <2>2, <3>1, FS_AddElement
    <3>4. Cardinality(Coming(k)') = Cardinality(Coming(k)) - 1
      BY <2>2, <3>2, FS_RemoveElement
    <3>5. Room(k) \in Int
      BY CountFact DEF Room
    <3> QED BY <2>2, <3>3, <3>4, <3>5
  <2>4. CASE k \notin CountsFor(r)
    <3>1. Listed(k)' = Listed(k)
      BY <1>1, <1>5, <2>4 DEF Listed
    <3>2. Coming(k)' = Coming(k)
      BY <1>1, <1>3, <1>6, <2>4 DEF Coming, CountsFor, SameId
    <3> QED BY <2>2, <3>1, <3>2
  <2> QED BY <2>3, <2>4
<1> QED BY <1>7, <1>8 DEF BoundsInv, Room

LEMMA BoundsNext == IInv /\ IInv' /\ BoundsInv /\ [Next]_vars => BoundsInv'
<1> SUFFICES ASSUME IInv, IInv', BoundsInv, [Next]_vars PROVE BoundsInv'
  OBVIOUS
<1>1. ASSUME UNCHANGED <<users, pc, req>> PROVE BoundsInv'
  BY <1>1 DEF BoundsInv, HoldsId, Limited, Listed, Coming, Room
<1>2. ASSUME NEW h \in Handlers, Step(h), ~Insert(h) PROVE BoundsInv'
  <2>1. /\ SameIds /\ pc'[h] # "insert"
        /\ pc'[h] # "idle" => pc[h] \notin {"idle", "insert"} /\ req'[h].row = req[h].row
                              /\ req'[h].user = req[h].user
        /\ \A g \in Handlers \ {h} : pc'[g] = pc[g] /\ req'[g] = req[g]
    BY <1>2, StepIds
  <2>2. ASSUME NEW g \in Handlers PROVE HoldsId(g)'
    <3>1. CASE g # h
      BY <2>1, <3>1, HoldsIdKept DEF BoundsInv, SameIds
    <3>2. CASE g = h /\ pc'[h] # "idle"
      <4>1. req[h].user \in DOMAIN users
        BY <2>1, <3>2, HandlerFact, InvFact
      <4>2. SameId(req[h].row, users[req[h].user])
        BY <2>1, <3>2 DEF BoundsInv, HoldsId
      <4>3. SameId(users'[req[h].user], users[req[h].user])
        BY <2>1, <4>1 DEF SameIds
      <4> QED BY <2>1, <3>2, <4>2, <4>3 DEF HoldsId, SameId
    <3>3. CASE g = h /\ pc'[h] = "idle"
      BY <3>3 DEF HoldsId
    <3> QED BY <3>1, <3>2, <3>3
  <2>3. \A k \in Limited' : Cardinality(Listed(k)') + Cardinality(Coming(k)') <= Room(k)
    <3>1. \A g \in Handlers : pc'[g] = "insert" => pc[g] = "insert" /\ req'[g] = req[g]
      BY <2>1
    <3> QED BY <2>1, <3>1, IdsFrame
  <2> QED BY <2>2, <2>3 DEF BoundsInv, Room
<1>3. ASSUME NEW t \in tokens, Logout(t) \/ Expire(t) PROVE BoundsInv'
  BY <1>1, <1>3 DEF Logout, Expire
<1>4. CASE UNCHANGED vars
  BY <1>1, <1>4 DEF vars, tables
<1> QED BY <1>2, <1>3, <1>4, ArriveBounds, InsertBounds DEF Next

(* The limit of a Hub Super Admin and the uniqueness of addresses, which     *)
(* addUser looks up before it inserts, are overshot by no more than the      *)
(* requests that run beside the one that looks.                             *)
THEOREM CreationAlwaysBounded == Spec => []CreationBounds
<1>1. IInv /\ BoundsInv => CreationBounds
  <2> SUFFICES ASSUME IInv, BoundsInv PROVE CreationBounds
    OBVIOUS
  <2>1. ASSUME NEW i \in DOMAIN users, users[i].role = "HubSuperAdmin"
        PROVE  Cardinality(CreatedBy(i)) <= Limit + Cardinality(Handlers) - 1
    <3> DEFINE k == <<"creator", i>>
    <3>1. k \in Limited /\ Listed(k) = CreatedBy(i)
      BY <2>1 DEF Limited, Listed, CountsFor, CreatedBy
    <3>2. Room(k) = Cardinality(Handlers) + (Limit - 1)
      BY DEF Room
    <3> HIDE DEF k
    <3> QED BY <3>1, <3>2, CountFact DEF BoundsInv
  <2>2. ASSUME NEW e \in Addresses
        PROVE  Cardinality({i \in DOMAIN users : users[i].email = e}) <= Cardinality(Handlers)
    <3> DEFINE k == <<"address", e>>
    <3>1. k \in Limited /\ Listed(k) = {i \in DOMAIN users : users[i].email = e}
      BY DEF Limited, Listed, CountsFor
    <3>2. Room(k) = Cardinality(Handlers)
      BY CountFact DEF Room
    <3> HIDE DEF k
    <3>3. /\ Cardinality(Listed(k)) + Cardinality(Coming(k)) <= Cardinality(Handlers)
          /\ Cardinality(Listed(k)) \in Nat /\ Cardinality(Coming(k)) \in Nat
          /\ Cardinality(Handlers) \in Nat
      <4>1. Cardinality(Listed(k)) + Cardinality(Coming(k)) <= Room(k)
        BY <3>1 DEF BoundsInv
      <4> QED BY <3>2, <4>1, CountFact
    <3>4. Cardinality(Listed(k)) <= Cardinality(Handlers)
      BY <3>3
    <3> QED BY <3>1, <3>4
  <2> QED BY <2>1, <2>2 DEF CreationBounds
<1> QED BY <1>1, BoundsInit, BoundsNext, InvAlways, PTL DEF Spec
=============================================================================
