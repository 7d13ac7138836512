---------------------------- MODULE UserSessions ----------------------------
(***************************************************************************)
(* The accounts of the portal's users, their passwords and their sessions: *)
(* login and logout, the user's own change and reset of the password, the  *)
(* temporary password an administrator sets, the status an administrator   *)
(* sets, the mailed link of a forgotten password, and new accounts.        *)
(*                                                                         *)
(* Handlers read an account, await (bcrypt, mail, database) and save the    *)
(* whole row as it was read.  One save, its look at the row included, is    *)
(* one step, and so is one transaction.                                     *)
(***************************************************************************)
EXTENDS Naturals, Sequences, FiniteSets

CONSTANTS
  Handlers,       \* requests the backend works on at once
  Seeded,         \* the first accounts, a sequence of rows
  SuperAdmin,     \* DefaultHubSuperAdmin, the number of one of them
  Emails,         \* addresses of new accounts
  Dfsps, NoDfsp,
  Limit,          \* accounts a Hub Super Admin may create
  MaxUsers,       \* bound: accounts
  MaxPasswords,   \* bound: passwords ever set
  MaxRequests     \* bound: requests in a behaviour

Roles == {"HubSuperAdmin", "HubAdmin", "DfspAdmin", "DfspOperator", "DfspAuditor"}
HubRoles == {"HubSuperAdmin", "HubAdmin"}
(* Disabled and Inactive accounts are as Unverified ones, but for Count.    *)
Statuses == {"Active", "ResetPassword", "Blocked", "Unverified"}
Nobody == 0

(* The roles whose accounts a role creates: its CREATE_ permissions.        *)
Creates ==
  [HubSuperAdmin |-> {"HubAdmin"},
   HubAdmin      |-> {"HubAdmin", "DfspAdmin"},
   DfspAdmin     |-> {"DfspOperator", "DfspAuditor"},
   DfspOperator  |-> {},
   DfspAuditor   |-> {}]

Users == 1..MaxUsers
Passwords == 1..MaxPasswords
Account(addresses) ==
  [email : addresses, role : Roles, dfsp : Dfsps \cup {NoDfsp}, creator : Users \cup {Nobody},
   status : Statuses, password : Passwords, must : BOOLEAN]   \* must_change_password
Addresses == Emails \cup {Seeded[i].email : i \in DOMAIN Seeded}

(* A session, or the token of a mailed link; password is the one the account *)
(* had when it was made.                                                    *)
Token == [user : Users, password : Passwords, link : BOOLEAN]

ASSUME SeededAssumption ==
  /\ Len(Seeded) \in 1..MaxUsers /\ Len(Seeded) <= MaxPasswords
  /\ Seeded \in Seq(Account(Addresses))
  /\ \A i \in DOMAIN Seeded :
       Seeded[i].password = i /\ ~Seeded[i].must /\ Seeded[i].creator = Nobody
  /\ \A i, j \in DOMAIN Seeded : Seeded[i].email = Seeded[j].email => i = j
  /\ SuperAdmin \in DOMAIN Seeded
  /\ NoDfsp \notin Dfsps
  /\ Limit \in Nat /\ MaxRequests \in Nat /\ MaxUsers \in Nat /\ MaxPasswords \in Nat

ASSUME HandlersAssumption == IsFiniteSet(Handlers) /\ Handlers # {}

VARIABLES
  users,      \* table portal_users, by id
  tokens,     \* the rows of table jwt_tokens that are not expired
  links,      \* the rows of table email_verification_tokens that are not expired
  complete,   \* is_hub_onboarding_complete
  temporary,  \* history: of each password ever set, whether it was a temporary one
  raced,      \* history: a handler wrote although what it had read was no longer so
  pc, req,
  requests    \* requests so far

tables == <<users, tokens, links, complete, temporary, raced>>
vars == <<tables, pc, req, requests>>

Labels ==
  {"idle", "login", "change", "reset", "temporary", "insert", "status", "mail", "verify",
   "count", "remove", "block"}
(* What a handler holds: the user it works for, the account it loaded, and   *)
(* what it is to write.                                                     *)
Request ==
  [op : {"login", "change", "reset", "temporary", "status", "add", "forgot", "verify"},
   user : Users, row : Account(Addresses), found : SUBSET Token]
NoRequest == [op |-> "none"]

TypeOK ==
  /\ users \in Seq(Account(Addresses)) /\ Len(users) <= MaxUsers
  /\ tokens \subseteq {t \in Token : t.user <= Len(users)}
  /\ links \subseteq {t \in Token : t.user <= Len(users)}
  /\ complete \in BOOLEAN
  /\ temporary \in Seq(BOOLEAN) /\ Len(temporary) <= MaxPasswords
  /\ \A i \in DOMAIN users : users[i].password <= Len(temporary)
  /\ raced \in BOOLEAN
  /\ pc \in [Handlers -> Labels]
  /\ req \in [Handlers -> Request \cup {NoRequest}]
  /\ requests \in 0..MaxRequests

Init ==
  /\ users = Seeded
  /\ tokens = {} /\ links = {}
  /\ complete = FALSE
  /\ temporary = [i \in DOMAIN Seeded |-> FALSE]
  /\ raced = FALSE
  /\ pc = [h \in Handlers |-> "idle"]
  /\ req = [h \in Handlers |-> NoRequest]
  /\ requests = 0

Goto(h, label) == pc' = [pc EXCEPT ![h] = label]
Finish(h) ==
  /\ Goto(h, "idle")
  /\ req' = [req EXCEPT ![h] = NoRequest]
Begin(h, label, r) ==
  /\ pc[h] = "idle"
  /\ Goto(h, label)
  /\ req' = [req EXCEPT ![h] = r]
  /\ UNCHANGED tables

Working(o, i) == [op |-> o, user |-> i, row |-> users[i], found |-> {}]
TokensOf(i) == {t \in tokens : t.user = i}
CreatedBy(i) == {j \in DOMAIN users : users[j].creator = i}
Stale(h) == users[req[h].user] # req[h].row

-----------------------------------------------------------------------------
(* postUserLogin: the account is active when it is read, the password is    *)
(* compared with the one read.                                              *)
Login(h, i) ==
  /\ users[i].status = "Active"
  /\ Begin(h, "login", Working("login", i))

LoginSave(h) ==
  /\ pc[h] = "login"
  /\ tokens' = tokens \cup {[user |-> req[h].user, password |-> req[h].row.password,
                             link |-> FALSE]}
  /\ raced' = (raced \/ Stale(h))
  /\ Finish(h)
  /\ UNCHANGED <<users, links, complete, temporary>>

(* authenticateJWT: the session's account, whatever its status; one that    *)
(* must change its password is let through to change it or to log out.      *)
Authenticated(t) == t \in tokens
Unrestricted(t) == Authenticated(t) /\ ~users[t.user].must

(* postUserLogout.  Another session of the same account may remain.         *)
Logout(t) ==
  /\ Authenticated(t)
  /\ tokens' = tokens \ {t}
  /\ UNCHANGED <<users, links, complete, temporary, raced, pc, req>>

-----------------------------------------------------------------------------
(* The account's own password.  A change asks for the current one, a reset  *)
(* does not, and is what the page of a mailed link calls.                   *)
LoadChange(h, t) == Authenticated(t) /\ Begin(h, "change", Working("change", t.user))
LoadReset(h, t) == Unrestricted(t) /\ Begin(h, "reset", Working("reset", t.user))

(* postUserTemporaryPasswordReset, by the role's CREATE_ permissions and,   *)
(* for a DFSP's administrator, within the DFSP.                             *)
MayReset(a, b) ==
  /\ b.role \in Creates[a.role]
  /\ a.role \in HubRoles \/ (a.dfsp # NoDfsp /\ a.dfsp = b.dfsp)
  /\ b.status # "Blocked"

LoadTemporary(h, t, i) ==
  /\ Unrestricted(t)
  /\ i # t.user
  /\ MayReset(users[t.user], users[i])
  /\ Begin(h, "temporary", Working("temporary", i))

Reopened(r) ==
  IF r.op # "temporary" /\ r.row.status = "ResetPassword"
  THEN [r.row EXCEPT !.status = "Active"] ELSE r.row

(* The account as it is saved: the row read, with a new password.           *)
(* Faulty: a temporary password is not marked.                              *)
FaultyWithPassword(r, p) ==
  [Reopened(r) EXCEPT !.password = p, !.must = FALSE]
WithPassword(r, p) ==
  [Reopened(r) EXCEPT !.password = p, !.must = r.op = "temporary"]

(* Faulty: the tokens of mailed links stay.                                 *)
FaultyRevoked(i) == {t \in TokensOf(i) : ~t.link}
Revoked(i) == TokensOf(i)

(* One transaction saves the account and deletes its tokens.                *)
SetPassword(h, label) ==
  LET r == req[h] IN
  /\ pc[h] = label
  /\ Len(temporary) < MaxPasswords
  /\ users' = [users EXCEPT ![r.user] = WithPassword(r, Len(temporary) + 1)]
  /\ temporary' = Append(temporary, r.op = "temporary")
  /\ tokens' = tokens \ Revoked(r.user)
  /\ raced' = (raced \/ Stale(h))
  /\ Finish(h)
  /\ UNCHANGED <<links, complete>>

SaveChange(h) == SetPassword(h, "change")
SaveReset(h) == SetPassword(h, "reset")
SaveTemporary(h) == SetPassword(h, "temporary")

-----------------------------------------------------------------------------
(* putUserStatus, for administrators of the hub, saves the whole row.       *)
LoadStatus(h, t, i, s) ==
  /\ Unrestricted(t)
  /\ users[t.user].role = "HubAdmin"
  /\ i # t.user
  /\ users[i].status # s
  /\ Begin(h, "status", [Working("status", i) EXCEPT !.row.status = s])

(* As it was read, but for the status.                                      *)
StatusSave(h) ==
  LET r == req[h] IN
  /\ pc[h] = "status"
  /\ users' = [users EXCEPT ![r.user] = r.row]
  /\ raced' = (raced \/ [users[r.user] EXCEPT !.status = r.row.status] # r.row)
  /\ Finish(h)
  /\ UNCHANGED <<tokens, links, complete, temporary>>

-----------------------------------------------------------------------------
(* addUser.  The limit and the address are looked up, and the account is    *)
(* inserted later; no index keeps addresses apart.                          *)
(* Faulty: the address is not looked up.                                    *)
FaultyMayAdd(i, e) == users[i].role = "HubSuperAdmin" => Cardinality(CreatedBy(i)) < Limit
MayAdd(i, e) ==
  /\ users[i].role = "HubSuperAdmin" => Cardinality(CreatedBy(i)) < Limit
  /\ \A j \in DOMAIN users : users[j].email # e

NewAccount(i, e, o, d) ==
  [email |-> e, role |-> o,
   dfsp |-> IF users[i].dfsp # NoDfsp THEN users[i].dfsp
            ELSE IF o \in HubRoles THEN NoDfsp ELSE d,
   creator |-> i, status |-> "Active", password |-> 1, must |-> TRUE]

LoadAdd(h, t, e, o, d) ==
  /\ Unrestricted(t)
  /\ o \in Creates[users[t.user].role]
  /\ MayAdd(t.user, e)
  /\ Begin(h, "insert", [op |-> "add", user |-> t.user,
                         row |-> NewAccount(t.user, e, o, d), found |-> {}])

Insert(h) ==
  LET r == req[h] IN
  /\ pc[h] = "insert"
  /\ Len(users) < MaxUsers /\ Len(temporary) < MaxPasswords
  /\ users' = Append(users, [r.row EXCEPT !.password = Len(temporary) + 1])
  /\ temporary' = Append(temporary, TRUE)
  /\ Finish(h)
  /\ UNCHANGED <<tokens, links, complete, raced>>

-----------------------------------------------------------------------------
(* postUserForgotPassword: anybody who knows the address, when mail is       *)
(* configured.  The token of the link is a session as well.                 *)
LoadForgot(h, i) == Begin(h, "mail", Working("forgot", i))

Mail(h) ==
  LET t == [user |-> req[h].user, password |-> req[h].row.password, link |-> TRUE] IN
  /\ pc[h] = "mail"
  /\ tokens' = tokens \cup {t}
  /\ links' = links \cup {t}
  /\ raced' = (raced \/ Stale(h))
  /\ Finish(h)
  /\ UNCHANGED <<users, complete, temporary>>

(* verifyUserEmail: the link is followed, once or again.                    *)
LoadVerify(h, t) == t \in links /\ Begin(h, "verify", Working("verify", t.user))

VerifySave(h) ==
  LET r == req[h] IN
  /\ pc[h] = "verify"
  /\ users' = [users EXCEPT ![r.user] = [r.row EXCEPT !.status = "ResetPassword"]]
  /\ raced' = (raced \/ Stale(h))
  /\ IF r.row.creator = SuperAdmin THEN Goto(h, "count") /\ UNCHANGED req ELSE Finish(h)
  /\ UNCHANGED <<tokens, links, complete, temporary>>

(* Once the accounts the default administrator may create are there, his     *)
(* sessions are found, removed one by one, and he is blocked.               *)
Count(h) ==
  /\ pc[h] = "count"
  /\ IF Cardinality({j \in CreatedBy(SuperAdmin) : users[j].status # "Unverified"}) >= Limit
     THEN /\ req' = [req EXCEPT ![h].found = TokensOf(SuperAdmin)]
          /\ Goto(h, "remove")
     ELSE Finish(h)
  /\ UNCHANGED tables

Remove(h) ==
  /\ pc[h] = "remove"
  /\ IF req[h].found = {} THEN Goto(h, "block") /\ UNCHANGED <<tokens, req>>
     ELSE \E t \in req[h].found :
            /\ tokens' = tokens \ {t}
            /\ req' = [req EXCEPT ![h].found = @ \ {t}]
            /\ UNCHANGED pc
  /\ UNCHANGED <<users, links, complete, temporary, raced>>

Block(h) ==
  /\ pc[h] = "block"
  /\ users' = [users EXCEPT ![SuperAdmin].status = "Blocked"]
  /\ complete' = TRUE
  /\ Finish(h)
  /\ UNCHANGED <<tokens, links, temporary, raced>>

-----------------------------------------------------------------------------
(* A query, the mail or the process fails: the request ends where it is.    *)
Fail(h) ==
  /\ pc[h] # "idle"
  /\ Finish(h)
  /\ UNCHANGED tables

Expire(t) ==
  /\ t \in tokens
  /\ tokens' = tokens \ {t}
  /\ links' = links \ {t}
  /\ UNCHANGED <<users, complete, temporary, raced, pc, req>>

Step(h) ==
  \/ LoginSave(h) \/ SaveChange(h) \/ SaveReset(h) \/ SaveTemporary(h) \/ StatusSave(h)
  \/ Insert(h) \/ Mail(h)
  \/ VerifySave(h) \/ Count(h) \/ Remove(h) \/ Block(h) \/ Fail(h)

Arrive(h) ==
  /\ requests < MaxRequests
  /\ requests' = requests + 1
  /\ \/ \E i \in DOMAIN users : Login(h, i) \/ LoadForgot(h, i)
     \/ \E t \in links : LoadVerify(h, t)
     \/ \E t \in tokens :
          \/ LoadChange(h, t) \/ LoadReset(h, t)
          \/ \E i \in DOMAIN users :
               LoadTemporary(h, t, i) \/ \E s \in Statuses : LoadStatus(h, t, i, s)
          \/ \E e \in Emails, o \in Roles, d \in Dfsps : LoadAdd(h, t, e, o, d)

Next ==
  \/ \E h \in Handlers : Arrive(h) \/ (Step(h) /\ UNCHANGED requests)
  \/ \E t \in tokens : (Logout(t) \/ Expire(t)) /\ UNCHANGED requests

Spec == Init /\ [][Next]_vars

-----------------------------------------------------------------------------
(* However handlers overlap, an account whose password an administrator     *)
(* chose is restricted to changing it: no stale save of another request      *)
(* brings a temporary password back unmarked.                               *)
TemporaryIsMarked ==
  \A i \in DOMAIN users : temporary[users[i].password] => users[i].must

(* A new password ends the sessions and mailed links that were made under    *)
(* the old one, unless a handler was at work on the account meanwhile.      *)
SessionsFollowPassword ==
  ~raced => \A t \in tokens : t.password = users[t.user].password

(* The limit of a Hub Super Admin and the uniqueness of addresses are        *)
(* overshot by the other requests at work at most.                          *)
CreationBounds ==
  /\ \A i \in DOMAIN users : users[i].role = "HubSuperAdmin" =>
       Cardinality(CreatedBy(i)) <= Limit + Cardinality(Handlers) - 1
  /\ \A e \in Addresses :
       Cardinality({i \in DOMAIN users : users[i].email = e}) <= Cardinality(Handlers)
=============================================================================
