---------------------------- MODULE PortalProofs -----------------------------
(***************************************************************************)
(* Theorems about the pages of the portal: PortalSession, for every set of   *)
(* tabs and users and every number of logins, and ReviewLists, for every set *)
(* of merchants, every page size and every number of verdicts.              *)
(***************************************************************************)
EXTENDS PortalSession, ReviewLists, FiniteSetTheorems, SequenceTheorems, TLAPS

Kinds == {"profile", "query", "login", "enter", "logout", "change"}
Statuses == {"sent", "checked", "ok", "unauthorized", "failed"}
Requests == [kind : Kinds, user : Users \cup {None}, sess : Nat \cup {None},
             status : Statuses, must : BOOLEAN]

Sessions == 1..Len(owner)

(* A request that is under way or answered.  A refusal is for good: a session *)
(* that was closed is never opened again.  What a profile says of the        *)
(* password holds as long as its session is accepted, and so does what a     *)
(* login says that was not overtaken.                                        *)
RequestOK(r) ==
  r # None =>
    /\ r \in Requests
    /\ r.sess \in Sessions \cup {None}
    /\ r.kind \in {"profile", "query", "enter", "change"} => r.sess \in Sessions
    /\ r.kind = "login" /\ r.status = "ok" => r.sess \in Sessions
    /\ r.kind = "login" /\ r.status # "ok" => r.user \in Users
    /\ r.status = "unauthorized" => r.sess \notin open
    /\ r.kind \in {"profile", "login"} /\ r.status = "ok" /\ r.sess \in open
         => r.must = (owner[r.sess] \in must) \/ (r.kind = "login" /\ r.sess \in raced)

BackendOK ==
  /\ owner \in Seq(Users) /\ open \subseteq Sessions /\ expired \subseteq Sessions
  /\ open \cap expired = {} /\ raced \subseteq Sessions
  /\ token \in Sessions \cup {None}

RequestsOK ==
  /\ ask = [t \in Tabs |-> ask[t]] /\ query = [t \in Tabs |-> query[t]]
  /\ call = [t \in Tabs |-> call[t]]
  /\ \A t \in Tabs : /\ RequestOK(ask[t]) /\ RequestOK(query[t]) /\ RequestOK(call[t])
                     /\ ask[t] # None => ask[t].kind = "profile"
                     /\ query[t] # None => query[t].kind = "query"

(* What a tab holds is of the user whose token is stored, and nothing is      *)
(* held while no token is, unless the tab is left over.                      *)
OwnData(t) ==
  cache[t] # {} \/ query[t] # None =>
    /\ token # None /\ cache[t] \subseteq {owner[token]}
    /\ query[t] # None => query[t].sess = token

DataOK ==
  /\ cache = [t \in Tabs |-> cache[t]]
  /\ \A t \in Tabs \ leftover : OwnData(t)

Inv == BackendOK /\ RequestsOK /\ DataOK /\ FlagIsTrue

LEMMA InvInit == Init => Inv
<1> SUFFICES ASSUME Init PROVE Inv
  OBVIOUS
<1>1. BackendOK
  BY DEF Init, BackendOK
<1>2. RequestsOK
  BY DEF Init, RequestsOK, RequestOK
<1>3. DataOK
  BY DEF Init, DataOK, OwnData
<1>4. FlagIsTrue
  BY DEF Init, FlagIsTrue
<1> QED BY <1>1, <1>2, <1>3, <1>4 DEF Inv

-----------------------------------------------------------------------------
(* The backend.  Sessions are only added; whoever has to change his password  *)
(* stays the same as far as the sessions go that stay open.                  *)
BackendStep ==
  /\ owner' \in Seq(Users) /\ Len(owner) <= Len(owner')
  /\ \A s \in Sessions : owner'[s] = owner[s]
  /\ open' \subseteq Sessions' /\ expired' \subseteq Sessions' /\ raced' \subseteq Sessions'
  /\ open' \cap expired' = {}
  /\ open' \cap Sessions \subseteq open /\ raced \subseteq raced'
  /\ \A s \in open' \cap Sessions : (owner[s] \in must') = (owner[s] \in must)

LEMMA LenFact ==
  ASSUME owner \in Seq(Users)
  PROVE  Len(owner) \in Nat /\ \A s \in Sessions : owner[s] \in Users
BY LenProperties, ElementOfSeq DEF Sessions

LEMMA BackendStays ==
  ASSUME BackendOK, UNCHANGED backend
  PROVE  BackendStep
BY LenFact DEF BackendOK, BackendStep, backend, Sessions

LEMMA RequestKept ==
  ASSUME BackendOK, BackendStep, NEW r, RequestOK(r)
  PROVE  RequestOK(r)'
<1> SUFFICES ASSUME r # None PROVE RequestOK(r)'
  BY DEF RequestOK
<1>1. Sessions \subseteq Sessions' /\ None \notin Sessions' /\ open' \subseteq Sessions'
  BY LenFact, LenProperties, PortalAssumption DEF BackendOK, BackendStep, Sessions
<1>2. r.sess \in Sessions \/ r.sess = None
  BY DEF RequestOK
<1>3. r.sess \in open' => r.sess \in Sessions /\ r.sess \in open
  BY <1>1, <1>2 DEF BackendStep
<1>4. r.sess \in open' => /\ owner'[r.sess] = owner[r.sess]
                          /\ (owner'[r.sess] \in must') = (owner[r.sess] \in must)
                          /\ r.sess \in raced => r.sess \in raced'
  BY <1>3 DEF BackendStep
<1> QED BY <1>1, <1>3, <1>4 DEF RequestOK

-----------------------------------------------------------------------------
(* Requests.  A step sets those of its tab only.                             *)
AskSet(t) == ask' = ask \/ \E x : /\ ask' = Set(ask, t, x) /\ RequestOK(x)'
                                  /\ x # None => x.kind = "profile"
QuerySet(t) == query' = query \/ \E x : /\ query' = Set(query, t, x) /\ RequestOK(x)'
                                        /\ x # None => x.kind = "query"
CallSet(t) == call' = call \/ \E x : call' = Set(call, t, x) /\ RequestOK(x)'

(* Of a state before the step and after it, the same request.                *)
LEMMA SameRequest ==
  ASSUME NEW r, RequestOK(r)', NEW t \in Tabs
  PROVE  /\ ask'[t] = r => RequestOK(ask[t])'
         /\ query'[t] = r => RequestOK(query[t])'
         /\ call'[t] = r => RequestOK(call[t])'
BY DEF RequestOK

LEMMA RequestsSet ==
  ASSUME BackendOK, BackendStep, RequestsOK, NEW t \in Tabs, AskSet(t), QuerySet(t), CallSet(t)
  PROVE  RequestsOK'
<1>1. /\ ask' = [x \in Tabs |-> ask'[x]] /\ query' = [x \in Tabs |-> query'[x]]
      /\ call' = [x \in Tabs |-> call'[x]]
  BY DEF RequestsOK, AskSet, QuerySet, CallSet, Set
<1>2. ASSUME NEW x \in Tabs
      PROVE  RequestOK(ask[x])' /\ (ask'[x] # None => ask'[x].kind = "profile")
  <2>1. CASE ask'[x] = ask[x]
    BY <2>1, RequestKept, SameRequest DEF RequestsOK
  <2>2. CASE \E r : ask'[x] = r /\ RequestOK(r)' /\ (r # None => r.kind = "profile")
    BY <2>2, SameRequest
  <2> QED BY <2>1, <2>2 DEF AskSet, Set, RequestsOK
<1>3. ASSUME NEW x \in Tabs
      PROVE  RequestOK(query[x])' /\ (query'[x] # None => query'[x].kind = "query")
  <2>1. CASE query'[x] = query[x]
    BY <2>1, RequestKept, SameRequest DEF RequestsOK
  <2>2. CASE \E r : query'[x] = r /\ RequestOK(r)' /\ (r # None => r.kind = "query")
    BY <2>2, SameRequest
  <2> QED BY <2>1, <2>2 DEF QuerySet, Set, RequestsOK
<1>4. ASSUME NEW x \in Tabs PROVE RequestOK(call[x])'
  <2>1. CASE call'[x] = call[x]
    BY <2>1, RequestKept, SameRequest DEF RequestsOK
  <2>2. CASE \E r : call'[x] = r /\ RequestOK(r)'
    BY <2>2, SameRequest
  <2> QED BY <2>1, <2>2 DEF CallSet, Set, RequestsOK
<1> QED BY <1>1, <1>2, <1>3, <1>4 DEF RequestsOK

LEMMA RequestsStay ==
  ASSUME BackendOK, BackendStep, RequestsOK, UNCHANGED requests
  PROVE  RequestsOK'
BY RequestKept DEF RequestsOK, requests

(* What a request is when it is sent, and when it is answered.               *)
LEMMA SentFact ==
  ASSUME NEW kind \in Kinds \ {"login"}, NEW s, s \in Sessions \/ (kind = "logout" /\ s = None), BackendOK
  PROVE  LET r == Request(kind, None, s) IN RequestOK(r) /\ r.kind = kind /\ r.sess = s
BY LenFact DEF Request, RequestOK, Requests, Statuses, Kinds, BackendOK, Sessions

LEMMA AnswerFact ==
  ASSUME NEW r, RequestOK(r), r # None, r.kind \notin {"profile", "login"}, NEW a \in Authenticate(r)
  PROVE  RequestOK(a) /\ a.kind = r.kind /\ a.sess = r.sess
BY DEF Authenticate, Outcomes, RequestOK, Requests, Statuses

LEMMA ProfileFact ==
  ASSUME NEW r, RequestOK(r), r # None, r.kind = "profile", NEW b \in Authenticate(r)
  PROVE  LET a == [b EXCEPT !.must = MustChange(r)]
         IN  RequestOK(a) /\ a.kind = "profile" /\ a.sess = r.sess
<1> DEFINE m == MustChange(r)
           a == [b EXCEPT !.must = m]
<1>1. m \in BOOLEAN /\ (r.sess \in open => m = (owner[r.sess] \in must))
  BY DEF MustChange
<1> HIDE DEF m
<1>2. /\ a \in Requests /\ a.kind = "profile" /\ a.sess = r.sess /\ a.must = m
      /\ a.status = "unauthorized" => r.sess \notin open
  BY <1>1 DEF Authenticate, Outcomes, RequestOK, Requests, Statuses
<1> HIDE DEF a
<1>3. RequestOK(a)
  BY <1>1, <1>2 DEF RequestOK
<1> QED BY <1>2, <1>3 DEF a, m

LEMMA NoRequestOK == RequestOK(None) /\ RequestOK(None)'
BY DEF RequestOK

-----------------------------------------------------------------------------
(* Data.  A tab keeps what it holds, or loses some of it.                    *)
Less(t) ==
  /\ cache'[t] \subseteq cache[t]
  /\ query'[t] # None => query[t] # None /\ query'[t].sess = query[t].sess

LEMMA OwnDataKept ==
  ASSUME BackendOK, BackendStep, NEW t \in Tabs, OwnData(t), Less(t), UNCHANGED token
  PROVE  OwnData(t)'
BY DEF BackendOK, BackendStep, OwnData, Less

LEMMA OwnDataLost ==
  ASSUME NEW t \in Tabs, Less(t), t \notin Holding
  PROVE  OwnData(t)'
BY DEF Holding, OwnData, Less

(* A step that adds no data, and takes the token at most from tabs that it    *)
(* counts as left over.                                                     *)
LEMMA DataKept ==
  ASSUME BackendOK, BackendStep, DataOK, cache' = [t \in Tabs |-> cache'[t]],
         \A t \in Tabs : Less(t),
         \/ UNCHANGED <<token, leftover>>
         \/ \A t \in Tabs \ leftover' : t \notin Holding \/ (cache'[t] = {} /\ query'[t] = None)
  PROVE  DataOK'
<1>1. ASSUME NEW t \in Tabs \ leftover' PROVE OwnData(t)'
  <2>1. CASE UNCHANGED <<token, leftover>>
    BY <2>1, OwnDataKept DEF DataOK
  <2>2. CASE t \notin Holding
    BY <2>2, OwnDataLost
  <2>3. CASE cache'[t] = {} /\ query'[t] = None
    BY <2>3 DEF OwnData
  <2> QED BY <2>1, <2>2, <2>3
<1> QED BY <1>1 DEF DataOK

-----------------------------------------------------------------------------
(* The storage: it stays, or the session is dropped and with it the data of   *)
(* the tabs is left over.                                                   *)
Keeps == UNCHANGED <<storage, leftover>>
Loses == Drop /\ leftover' = leftover \cup Holding

LEMMA FlagKept ==
  ASSUME BackendOK, BackendStep, FlagIsTrue, UNCHANGED storage \/ Drop
  PROVE  FlagIsTrue' /\ token' \in Sessions' \cup {None}
<1>1. Sessions \subseteq Sessions' /\ None \notin open'
  <2>1. Len(owner) \in Nat /\ Len(owner') \in Nat /\ Len(owner) <= Len(owner')
    BY LenProperties DEF BackendOK, BackendStep
  <2>2. Sessions \subseteq Sessions'
    BY <2>1 DEF Sessions
  <2>3. Sessions' \subseteq Nat
    BY <2>1 DEF Sessions
  <2> QED BY <2>2, <2>3, PortalAssumption DEF BackendStep
<1>2. CASE UNCHANGED storage
  <2>1. token' = token /\ flag' = flag /\ crossed' = crossed
    BY <1>2 DEF storage
  <2>2. token \in open' \ raced' => token \in Sessions /\ token \in open \ raced
    BY <1>1 DEF BackendOK, BackendStep
  <2> QED BY <1>1, <2>1, <2>2 DEF FlagIsTrue, BackendOK, BackendStep
<1>3. CASE Drop
  BY <1>1, <1>3 DEF Drop, FlagIsTrue
<1> QED BY <1>2, <1>3

LEMMA GoFact ==
  ASSUME NEW t, NEW p \in Pages, Go(t, p)
  PROVE  Keeps \/ (Stale /\ Loses)
BY DEF Go, Pages, Layout, ToChangePage, Keeps, Loses, storage

LEMMA RejectedFact ==
  ASSUME NEW t, NEW r, Rejected(t, r)
  PROVE  Keeps \/ (token # None /\ r.sess = token /\ Loses)
BY DEF Rejected, Keeps, Loses, storage

LEMMA Preserved ==
  ASSUME Inv, BackendStep, NEW t \in Tabs, AskSet(t), QuerySet(t), CallSet(t),
         cache' = [x \in Tabs |-> cache'[x]], \A x \in Tabs : Less(x),
         UNCHANGED storage \/ Drop,
         \/ UNCHANGED <<token, leftover>>
         \/ \A x \in Tabs \ leftover' : x \notin Holding \/ (cache'[x] = {} /\ query'[x] = None)
  PROVE  Inv'
<1>1. FlagIsTrue' /\ token' \in Sessions' \cup {None}
  BY FlagKept DEF Inv
<1>2. BackendOK'
  BY <1>1 DEF BackendOK, BackendStep
<1>3. RequestsOK' /\ DataOK'
  BY RequestsSet, DataKept DEF Inv
<1> QED BY <1>1, <1>2, <1>3 DEF Inv

(* The data stays as it is.                                                 *)
LEMMA StillLess ==
  ASSUME DataOK
  PROVE  /\ UNCHANGED <<cache, query>> => \A x \in Tabs : Less(x)
         /\ UNCHANGED cache => cache' = [x \in Tabs |-> cache'[x]]
BY DEF DataOK, Less

LEMMA KeepsOrLoses ==
  ASSUME Keeps \/ Loses
  PROVE  /\ UNCHANGED storage \/ Drop
         /\ \/ UNCHANGED <<token, leftover>>
            \/ \A x \in Tabs \ leftover' : x \notin Holding
BY DEF Keeps, Loses, storage

(* Steps of a tab that touch none of its data, whatever becomes of the token.  *)
LEMMA TabStep ==
  ASSUME Inv, BackendStep, NEW t \in Tabs, AskSet(t), CallSet(t), UNCHANGED <<cache, query>>,
         Keeps \/ Loses
  PROVE  Inv'
<1>1. QuerySet(t)
  BY DEF QuerySet
<1> QED BY <1>1, Preserved, StillLess, KeepsOrLoses DEF Inv

LEMMA Stored ==
  ASSUME Inv, token # None
  PROVE  token \in Sessions /\ Len(owner) \in Nat
BY LenFact DEF Inv, BackendOK

LEMMA OfTab ==
  ASSUME Inv, NEW t \in Tabs
  PROVE  /\ BackendOK /\ RequestOK(ask[t]) /\ RequestOK(query[t]) /\ RequestOK(call[t])
         /\ ask[t] # None => ask[t].kind = "profile"
         /\ query[t] # None => query[t].kind = "query"
BY DEF Inv, RequestsOK

(* A request of the tab that is OK before the step is OK after it.            *)
LEMMA SetTo ==
  ASSUME Inv, BackendStep, NEW t \in Tabs, NEW r, RequestOK(r)
  PROVE  /\ ask' = Set(ask, t, r) /\ (r # None => r.kind = "profile") => AskSet(t)
         /\ query' = Set(query, t, r) /\ (r # None => r.kind = "query") => QuerySet(t)
         /\ call' = Set(call, t, r) => CallSet(t)
BY RequestKept DEF Inv, AskSet, QuerySet, CallSet

LEMMA SetToNone ==
  ASSUME NEW t \in Tabs
  PROVE  /\ ask' = Set(ask, t, None) => AskSet(t)
         /\ query' = Set(query, t, None) => QuerySet(t)
         /\ call' = Set(call, t, None) => CallSet(t)
         /\ UNCHANGED ask => AskSet(t)
         /\ UNCHANGED query => QuerySet(t)
         /\ UNCHANGED call => CallSet(t)
BY NoRequestOK DEF AskSet, QuerySet, CallSet

-----------------------------------------------------------------------------
(* Steps at the backend's side that leave its tables alone, and requests that *)
(* are sent.                                                                *)
LEMMA QuietSteps ==
  ASSUME Inv, NEW t \in Tabs, UNCHANGED <<backend, storage, leftover, cache>>,
         AskSet(t), CallSet(t), QuerySet(t), \A x \in Tabs : Less(x)
  PROVE  Inv'
<1>1. BackendStep
  BY BackendStays DEF Inv
<1> QED BY <1>1, Preserved, StillLess DEF storage, Inv

LEMMA LoginSteps ==
  ASSUME Inv, NEW t \in Tabs, (\E u \in Users : Login(t, u)) \/ CheckLogin(t) \/ CallFails(t)
  PROVE  Inv'
<1>1. UNCHANGED <<backend, storage, leftover, cache, ask, query>>
  BY DEF Login, CheckLogin, CallFails
<1>2. BackendStep /\ BackendOK
  BY <1>1, BackendStays DEF Inv
<1>3. CallSet(t)
  <2>1. ASSUME NEW u \in Users, Login(t, u) PROVE CallSet(t)
    <3>1. RequestOK(Request("login", u, None))
      BY DEF Request, RequestOK, Requests, Kinds, Statuses
    <3> QED BY <1>2, <2>1, <3>1, SetTo DEF Login
  <2>2. CASE CheckLogin(t)
    <3> DEFINE m == call[t].user \in must
               r == [call[t] EXCEPT !.status = "checked", !.must = m]
    <3>1. RequestOK(call[t]) /\ call[t] # None /\ call[t].kind = "login"
      BY <2>2, OfTab DEF CheckLogin, Is
    <3>2. m \in BOOLEAN
      OBVIOUS
    <3> HIDE DEF m
    <3>3. /\ r \in Requests /\ r.kind = "login" /\ r.status = "checked"
          /\ r.sess = call[t].sess /\ r.user = call[t].user
      BY <3>1, <3>2 DEF RequestOK, Requests, Statuses
    <3>4. call[t].status = "sent"
      BY <2>2 DEF CheckLogin, Is
    <3> HIDE DEF r
    <3>5. RequestOK(r)
      BY <3>1, <3>3, <3>4 DEF RequestOK
    <3>6. call' = Set(call, t, r)
      BY <2>2 DEF CheckLogin, r, m
    <3> QED BY <1>2, <3>5, <3>6, SetTo
  <2> QED BY <2>1, <2>2, SetToNone DEF CallFails
<1> QED BY <1>1, <1>3, SetToNone, StillLess, QuietSteps DEF Inv

LEMMA SendSteps ==
  ASSUME Inv, NEW t \in Tabs, ChangePassword(t) \/ ServeEnter(t) \/ ServeAsk(t)
  PROVE  Inv'
<1>1. UNCHANGED <<backend, storage, leftover, cache, query>>
  BY DEF ChangePassword, ServeEnter, ServeAsk
<1>2. BackendStep /\ BackendOK
  BY <1>1, BackendStays DEF Inv
<1>3. AskSet(t) /\ CallSet(t)
  <2>1. CASE ChangePassword(t)
    <3> DEFINE r == Request("change", None, token)
    <3>1. RequestOK(r)
      BY <1>2, <2>1, Stored, SentFact DEF ChangePassword, Kinds
    <3> HIDE DEF r
    <3>2. call' = Set(call, t, r) /\ UNCHANGED ask
      BY <2>1 DEF ChangePassword, r
    <3> QED BY <1>2, <3>1, <3>2, SetTo, SetToNone
  <2>2. CASE ServeEnter(t)
    <3>1. RequestOK(call[t]) /\ call[t] # None /\ call[t].kind = "enter"
      BY <2>2, OfTab DEF ServeEnter, Is
    <3>2. PICK r \in Authenticate(call[t]) : call' = Set(call, t, r) /\ UNCHANGED ask
      BY <2>2 DEF ServeEnter
    <3>3. RequestOK(r)
      BY <3>1, AnswerFact
    <3> QED BY <1>2, <3>2, <3>3, SetTo, SetToNone
  <2>3. CASE ServeAsk(t)
    <3>1. PICK a \in Authenticate(ask[t]) :
               ask' = Set(ask, t, [a EXCEPT !.must = MustChange(ask[t])]) /\ UNCHANGED call
      BY <2>3 DEF ServeAsk
    <3> DEFINE r == [a EXCEPT !.must = MustChange(ask[t])]
    <3>2. RequestOK(ask[t]) /\ ask[t] # None /\ ask[t].kind = "profile"
      BY <2>3, OfTab DEF ServeAsk, Is
    <3>3. RequestOK(r) /\ r.kind = "profile"
      BY <3>2, ProfileFact
    <3>4. ask' = Set(ask, t, r) /\ UNCHANGED call
      BY <3>1
    <3> HIDE DEF r
    <3> QED BY <1>2, <3>3, <3>4, SetTo, SetToNone
  <2> QED BY <2>1, <2>2, <2>3
<1> QED BY <1>1, <1>3, SetToNone, StillLess, QuietSteps DEF Inv

LEMMA ServeQueryStep ==
  ASSUME Inv, NEW t \in Tabs, ServeQuery(t)
  PROVE  Inv'
<1>1. RequestOK(query[t]) /\ query[t] # None /\ query[t].kind = "query"
  BY OfTab DEF ServeQuery, Is
<1>2. PICK r \in Authenticate(query[t]) :
           UNCHANGED <<backend, storage, leftover, cache, ask, call>> /\ query' = Set(query, t, r)
  BY DEF ServeQuery
<1>3. RequestOK(r) /\ r.kind = "query" /\ r.sess = query[t].sess
  BY <1>1, AnswerFact
<1>4. BackendStep /\ QuerySet(t)
  BY <1>3, <1>2, BackendStays, SetTo DEF Inv
<1>5. \A x \in Tabs : Less(x)
  BY <1>1, <1>3, <1>2 DEF Inv, DataOK, RequestsOK, Less, Set
<1> QED BY <1>2, <1>4, <1>5, SetToNone, QuietSteps

-----------------------------------------------------------------------------
(* Steps that may end the session.                                          *)
LEMMA LeaveSteps ==
  ASSUME Inv, NEW t \in Tabs,
         Visit(t) \/ AskRejected(t) \/ CallRejected(t) \/ LogoutFails(t)
  PROVE  Inv'
<1>1. UNCHANGED <<backend, cache, query>>
  BY DEF Visit, AskRejected, CallRejected, LogoutFails, requests
<1>2. Keeps \/ Loses
  BY GoFact, RejectedFact DEF Visit, AskRejected, CallRejected, LogoutFails, Loses
<1>3. AskSet(t) /\ CallSet(t)
  BY SetToNone DEF Visit, AskRejected, CallRejected, LogoutFails, requests
<1> QED BY <1>1, <1>2, <1>3, BackendStays, TabStep DEF Inv

LEMMA EnterStep ==
  ASSUME Inv, NEW t \in Tabs, EnterArrives(t)
  PROVE  Inv'
<1>1. UNCHANGED <<backend, cache, query, ask>> /\ CallSet(t) /\ AskSet(t)
  BY SetToNone DEF EnterArrives
<1>2. Keeps \/ Loses
  BY DEF EnterArrives, Layout, ToChangePage, Keeps, Loses, storage
<1> QED BY <1>1, <1>2, BackendStays, TabStep DEF Inv

LEMMA LoadStep ==
  ASSUME Inv, NEW t \in Tabs, Load(t)
  PROVE  Inv'
<1>1. UNCHANGED <<backend, query, call>> /\ cache' = Set(cache, t, {})
  BY DEF Load
<1>2. BackendStep /\ BackendOK
  BY <1>1, BackendStays DEF Inv
<1>3. AskSet(t)
  <2>1. CASE token = None
    BY <2>1, SetToNone DEF Load
  <2>2. CASE token # None
    <3> DEFINE r == Request("profile", None, token)
    <3>1. RequestOK(r) /\ r.kind = "profile"
      BY <1>2, <2>2, Stored, SentFact DEF Kinds
    <3> HIDE DEF r
    <3>2. ask' = Set(ask, t, r)
      BY <2>2 DEF Load, r
    <3> QED BY <1>2, <3>1, <3>2, SetTo
  <2> QED BY <2>1, <2>2
<1>4. (\A x \in Tabs : Less(x)) /\ cache' = [x \in Tabs |-> cache'[x]]
  BY <1>1 DEF Inv, DataOK, Less, Set
<1>5. Keeps \/ Loses
  BY GoFact DEF Load
<1> QED BY <1>1, <1>2, <1>3, <1>4, <1>5, SetToNone, KeepsOrLoses, Preserved

LEMMA QueryRejectedStep ==
  ASSUME Inv, NEW t \in Tabs, QueryRejected(t)
  PROVE  Inv'
<1>1. UNCHANGED <<backend, cache, ask, call>> /\ query' = Set(query, t, None)
  BY DEF QueryRejected
<1>2. Keeps \/ Loses
  BY RejectedFact DEF QueryRejected
<1>3. (\A x \in Tabs : Less(x)) /\ cache' = [x \in Tabs |-> cache'[x]]
  BY <1>1 DEF Inv, DataOK, RequestsOK, Less, Set
<1> QED BY <1>1, <1>2, <1>3, BackendStays, SetToNone, KeepsOrLoses, Preserved DEF Inv

LEMMA DoneStep ==
  ASSUME Inv, NEW t \in Tabs, Done(t)
  PROVE  Inv'
<1>1. /\ UNCHANGED <<backend, ask>> /\ cache' = Set(cache, t, {}) /\ query' = Set(query, t, None)
      /\ Drop /\ call' = Set(call, t, None) /\ leftover' = (leftover \cup Holding) \ {t}
  BY DEF Done
<1>2. (\A x \in Tabs : Less(x)) /\ cache' = [x \in Tabs |-> cache'[x]]
  BY <1>1 DEF Inv, DataOK, RequestsOK, Less, Set
<1>3. \A x \in Tabs \ leftover' : x \notin Holding \/ (cache'[x] = {} /\ query'[x] = None)
  BY <1>1 DEF Inv, DataOK, RequestsOK, Set
<1> QED BY <1>1, <1>2, <1>3, BackendStays, SetToNone, Preserved DEF Inv

LEMMA LogoutStep ==
  ASSUME Inv, NEW t \in Tabs, Logout(t)
  PROVE  Inv'
<1> DEFINE r == Request("logout", None, token)
<1>1. RequestOK(r)
  BY SentFact DEF Inv, BackendOK, Kinds
<1> HIDE DEF r
<1>2. /\ UNCHANGED <<backend, storage, leftover, ask>> /\ call' = Set(call, t, r)
      /\ cache' = Set(cache, t, {}) /\ query' = Set(query, t, None)
  BY DEF Logout, r
<1>3. (\A x \in Tabs : Less(x)) /\ cache' = [x \in Tabs |-> cache'[x]]
  BY <1>2 DEF Inv, DataOK, RequestsOK, Less, Set
<1>4. BackendStep
  BY <1>2, BackendStays DEF Inv
<1>5. CallSet(t)
  BY <1>1, <1>2, <1>4, SetTo
<1> QED BY <1>2, <1>3, <1>4, <1>5, SetToNone, Preserved DEF storage

-----------------------------------------------------------------------------
(* Sessions that are closed, and passwords that are changed or replaced.      *)
LEMMA Closes ==
  ASSUME BackendOK, UNCHANGED <<owner, raced>>, open' \subseteq open, expired' \subseteq Sessions,
         open' \cap expired' = {},
         \A s \in open' : (owner[s] \in must') = (owner[s] \in must)
  PROVE  BackendStep
BY LenFact DEF BackendOK, BackendStep, Sessions

LEMMA ServeSteps ==
  ASSUME Inv, NEW t \in Tabs, ServeLogout(t) \/ ServeChange(t)
  PROVE  Inv'
<1>1. RequestOK(call[t]) /\ call[t] # None /\ call[t].kind \in {"logout", "change"} /\ BackendOK
  BY OfTab DEF ServeLogout, ServeChange, Is
<1>2. /\ UNCHANGED <<storage, owner, expired, raced, cache, ask, query, leftover>>
      /\ \E r \in Authenticate(call[t]) : call' = Set(call, t, r)
  BY DEF ServeLogout, ServeChange
<1>3. PICK r \in Authenticate(call[t]) : RequestOK(r) /\ call' = Set(call, t, r)
  BY <1>1, <1>2, AnswerFact
<1>4. BackendStep
  <2>1. open' \subseteq open /\ \A s \in open' : (owner[s] \in must') = (owner[s] \in must)
    BY DEF ServeLogout, ServeChange
  <2> QED BY <1>1, <1>2, <2>1, Closes DEF BackendOK
<1>5. CallSet(t)
  BY <1>3, <1>4, SetTo
<1> QED BY <1>2, <1>4, <1>5, SetToNone, TabStep DEF Keeps

LEMMA BackendSteps ==
  ASSUME Inv,
         (\E u \in Users : TemporaryPassword(u)) \/ (\E s \in open : Expire(s)) \/ UNCHANGED vars
  PROVE  Inv'
<1>1. UNCHANGED <<storage, cache, requests, leftover>>
  BY DEF TemporaryPassword, Expire, vars
<1>2. BackendOK
  BY DEF Inv
<1>3. BackendStep
  <2>1. CASE \E u \in Users : TemporaryPassword(u)
    BY <1>2, <2>1, Closes DEF TemporaryPassword, BackendOK
  <2>2. CASE \E s \in open : Expire(s)
    BY <1>2, <2>2, Closes DEF Expire, BackendOK
  <2>3. CASE UNCHANGED vars
    BY <1>2, <2>3, BackendStays DEF vars
  <2> QED BY <2>1, <2>2, <2>3
<1>4. FlagIsTrue' /\ token' \in Sessions' \cup {None}
  BY <1>1, <1>3, FlagKept DEF Inv
<1>5. DataOK'
  BY <1>1, <1>3, StillLess, DataKept DEF Inv, storage, requests
<1>6. RequestsOK'
  BY <1>1, <1>3, RequestsStay DEF Inv
<1> QED BY <1>3, <1>4, <1>5, <1>6 DEF Inv, BackendOK, BackendStep

LEMMA ServeLoginStep ==
  ASSUME Inv, NEW t \in Tabs, ServeLogin(t)
  PROVE  Inv'
<1> DEFINE n == Len(owner) + 1
<1>1. /\ RequestOK(call[t]) /\ call[t] # None /\ call[t].kind = "login"
      /\ call[t].status = "checked" /\ BackendOK
  BY OfTab DEF ServeLogin, Is
<1>2. call[t] \in Requests /\ call[t].user \in Users /\ call[t].must \in BOOLEAN
  BY <1>1 DEF RequestOK, Requests
<1>3. /\ owner' = Append(owner, call[t].user) /\ open' = open \cup {Len(owner')}
      /\ raced' = IF call[t].must = (call[t].user \in must) THEN raced
                  ELSE raced \cup {Len(owner')}
      /\ UNCHANGED <<storage, expired, must, cache, ask, query, leftover>>
  BY DEF ServeLogin
<1>4. /\ Len(owner) \in Nat /\ n \in Nat \ {0} /\ Len(owner') = n /\ owner' \in Seq(Users)
      /\ owner'[n] = call[t].user /\ \A s \in Sessions : owner'[s] = owner[s]
      /\ Sessions' = Sessions \cup {n} /\ n \notin Sessions
  BY <1>1, <1>2, <1>3, LenFact, AppendProperties DEF BackendOK, Sessions
<1>5. PICK r : /\ r \in Requests /\ r.kind = "login" /\ r.status = "ok" /\ r.sess = n
               /\ r.must = call[t].must /\ call' = Set(call, t, r)
  <2> DEFINE q == [Ok(call[t]) EXCEPT !.sess = Len(owner'), !.user = None]
  <2>1. /\ q \in Requests /\ q.kind = "login" /\ q.status = "ok" /\ q.sess = n
        /\ q.must = call[t].must
    BY <1>1, <1>2, <1>4 DEF Ok, Requests, Statuses
  <2>2. call' = Set(call, t, q)
    BY DEF ServeLogin
  <2> QED BY <2>1, <2>2
<1> HIDE DEF n
<1>6. open' = open \cup {n} /\ raced \subseteq raced' /\ raced' \subseteq raced \cup {n}
  BY <1>3, <1>4
<1>7. BackendStep
  <2>1. open \subseteq Sessions /\ expired \subseteq Sessions /\ raced \subseteq Sessions
        /\ open \cap expired = {}
    BY <1>1 DEF BackendOK
  <2>2. Len(owner) <= Len(owner')
    BY <1>4 DEF n
  <2>3. open' \subseteq Sessions' /\ expired' \subseteq Sessions' /\ raced' \subseteq Sessions'
    BY <1>3, <1>4, <1>6, <2>1
  <2>4. open' \cap expired' = {} /\ open' \cap Sessions \subseteq open
    BY <1>3, <1>4, <1>6, <2>1
  <2> QED BY <1>3, <1>4, <1>6, <2>2, <2>3, <2>4 DEF BackendStep
<1>8. r.must = (owner'[n] \in must') \/ n \in raced'
  BY <1>3, <1>4, <1>5
<1>9. RequestOK(r)'
  BY <1>4, <1>5, <1>8 DEF RequestOK
<1>10. CallSet(t)
  BY <1>5, <1>9 DEF CallSet
<1> QED BY <1>3, <1>7, <1>10, SetToNone, TabStep DEF Keeps

-----------------------------------------------------------------------------
(* Data that a tab asks for and receives.                                   *)
LEMMA DataAdded ==
  ASSUME Inv, UNCHANGED <<backend, storage, leftover>>, NEW t \in Tabs,
         AskSet(t), QuerySet(t), CallSet(t), cache' = [x \in Tabs |-> cache'[x]],
         \A x \in Tabs \ {t} : cache'[x] = cache[x] /\ query'[x] = query[x],
         t \notin leftover /\ OwnData(t) => OwnData(t)'
  PROVE  Inv'
<1>1. BackendStep /\ BackendOK /\ DataOK
  BY BackendStays DEF Inv
<1>2. FlagIsTrue' /\ token' \in Sessions' \cup {None}
  BY <1>1, FlagKept DEF Inv
<1>3. BackendOK' /\ RequestsOK'
  BY <1>1, <1>2, RequestsSet DEF Inv, BackendOK, BackendStep
<1>4. ASSUME NEW x \in Tabs \ leftover' PROVE OwnData(x)'
  <2>1. x \in Tabs \ leftover /\ OwnData(x)
    BY <1>1 DEF DataOK
  <2>2. CASE x # t
    <3>1. Less(x)
      BY <2>2 DEF Less
    <3> QED BY <1>1, <2>1, <3>1, OwnDataKept DEF storage
  <2> QED BY <2>1, <2>2
<1> QED BY <1>2, <1>3, <1>4 DEF Inv, DataOK

LEMMA QueryStep ==
  ASSUME Inv, NEW t \in Tabs, Query(t)
  PROVE  Inv'
<1> DEFINE r == Request("query", None, token)
<1>1. RequestOK(r) /\ r.kind = "query" /\ r.sess = token /\ token # None
  BY Stored, SentFact DEF Inv, Query, Kinds
<1> HIDE DEF r
<1>2. UNCHANGED <<backend, storage, leftover, cache, ask, call>> /\ query' = Set(query, t, r)
  BY DEF Query, r
<1>3. BackendStep
  BY <1>2, BackendStays DEF Inv
<1>4. QuerySet(t)
  BY <1>1, <1>2, <1>3, SetTo
<1>5. /\ cache' = [x \in Tabs |-> cache'[x]] /\ query'[t] = r
      /\ \A x \in Tabs \ {t} : cache'[x] = cache[x] /\ query'[x] = query[x]
  BY <1>2 DEF Inv, DataOK, RequestsOK, Set
<1>6. OwnData(t) => OwnData(t)'
  BY <1>1, <1>2, <1>5 DEF OwnData, storage, backend
<1> QED BY <1>2, <1>4, <1>5, <1>6, SetToNone, DataAdded

LEMMA QueryArrivesStep ==
  ASSUME Inv, NEW t \in Tabs, QueryArrives(t)
  PROVE  Inv'
<1>1. /\ UNCHANGED <<backend, storage, leftover, ask, call>> /\ query' = Set(query, t, None)
      /\ cache' = Set(cache, t, cache[t] \cup {owner[query[t].sess]}) /\ query[t] # None
  BY DEF QueryArrives, Is
<1>2. /\ cache' = [x \in Tabs |-> cache'[x]] /\ query'[t] = None
      /\ cache'[t] = cache[t] \cup {owner[query[t].sess]}
      /\ \A x \in Tabs \ {t} : cache'[x] = cache[x] /\ query'[x] = query[x]
  BY <1>1 DEF Inv, DataOK, RequestsOK, Set
<1>3. OwnData(t) => OwnData(t)'
  BY <1>1, <1>2 DEF OwnData, storage, backend
<1> QED BY <1>1, <1>2, <1>3, SetToNone, DataAdded

-----------------------------------------------------------------------------
(* The answers that write the mark.                                         *)
LEMMA AskArrivesStep ==
  ASSUME Inv, NEW t \in Tabs, AskArrives(t)
  PROVE  Inv'
<1>1. /\ UNCHANGED <<backend, token, cache, query, call, leftover>>
      /\ flag' = IF ask[t].must THEN "true" ELSE "false"
      /\ crossed' = (ask[t].sess # token)
      /\ ask[t] # None /\ ask[t].kind = "profile" /\ ask[t].status = "ok"
  BY DEF AskArrives, Is
<1>2. BackendStep /\ BackendOK /\ RequestOK(ask[t])
  BY <1>1, BackendStays, OfTab DEF Inv
<1>3. AskSet(t)
  <2>1. CASE ask' = Set(ask, t, None)
    BY <2>1, SetToNone
  <2>2. CASE token # None /\ ask' = Set(ask, t, Request("profile", None, token))
    <3> DEFINE r == Request("profile", None, token)
    <3>1. RequestOK(r) /\ r.kind = "profile"
      BY <1>2, <2>2, Stored, SentFact DEF Kinds
    <3> HIDE DEF r
    <3>2. ask' = Set(ask, t, r)
      BY <2>2 DEF r
    <3> QED BY <1>2, <3>1, <3>2, SetTo
  <2> QED BY <2>1, <2>2 DEF AskArrives
<1>4. RequestsOK' /\ DataOK'
  BY <1>1, <1>2, <1>3, SetToNone, RequestsSet, StillLess, DataKept DEF Inv
<1>5. FlagIsTrue'
  <2>1. token \in open /\ ask[t].sess = token => ask[t].must = (owner[token] \in must)
                                                 \/ (ask[t].kind = "login" /\ token \in raced)
    BY <1>1, <1>2 DEF RequestOK
  <2>2. ask[t].must \in BOOLEAN
    BY <1>1, <1>2 DEF RequestOK, Requests
  <2> QED BY <1>1, <2>1, <2>2 DEF FlagIsTrue, backend
<1>6. BackendOK'
  BY <1>1, <1>2 DEF BackendOK, Sessions, backend
<1> QED BY <1>4, <1>5, <1>6 DEF Inv

LEMMA LoginArrivesStep ==
  ASSUME Inv, NEW t \in Tabs, LoginArrives(t)
  PROVE  Inv'
<1>1. /\ UNCHANGED <<backend, cache, ask, query>>
      /\ token' = call[t].sess /\ flag' = (IF call[t].must THEN "true" ELSE "false")
      /\ leftover' = (IF token = None THEN leftover ELSE leftover \cup Holding)
      /\ call[t] # None /\ call[t].kind = "login" /\ call[t].status = "ok"
  BY DEF LoginArrives, Is
<1>2. BackendStep /\ BackendOK /\ RequestOK(call[t])
  BY <1>1, BackendStays, OfTab DEF Inv
<1>3. token' \in Sessions
  BY <1>1, <1>2 DEF RequestOK
<1>4. CallSet(t)
  <2>1. CASE call' = Set(call, t, None)
    BY <2>1, SetToNone
  <2>2. CASE call' = Set(call, t, Request("enter", None, token'))
    <3>1. PICK s : s = token'
      OBVIOUS
    <3>2. RequestOK(Request("enter", None, s))
      BY <1>2, <1>3, <3>1, SentFact DEF Kinds
    <3> QED BY <1>2, <2>2, <3>1, <3>2, SetTo
  <2> QED BY <2>1, <2>2 DEF LoginArrives
<1>5. RequestsOK'
  BY <1>1, <1>2, <1>4, SetToNone, RequestsSet DEF Inv
<1>6. DataOK'
  <2>1. ASSUME NEW x \in Tabs \ leftover' PROVE x \notin Holding
    <3>1. CASE token = None
      BY <1>1, <3>1 DEF Inv, DataOK, OwnData, Holding
    <3>2. CASE token # None
      BY <1>1, <3>2
    <3> QED BY <3>1, <3>2
  <2> QED BY <1>1, <1>2, <2>1, StillLess, DataKept DEF Inv
<1>7. FlagIsTrue'
  <2>1. token' \in open => call[t].must = (owner[token'] \in must) \/ token' \in raced
    BY <1>1, <1>2 DEF RequestOK
  <2>2. call[t].must \in BOOLEAN
    BY <1>1, <1>2 DEF RequestOK, Requests
  <2> QED BY <1>1, <2>1, <2>2 DEF FlagIsTrue, backend
<1>8. BackendOK'
  BY <1>1, <1>2, <1>3 DEF BackendOK, Sessions, backend
<1> QED BY <1>5, <1>6, <1>7, <1>8 DEF Inv

LEMMA InvNext == Inv /\ [Next]_vars => Inv'
<1> SUFFICES ASSUME Inv, [Next]_vars PROVE Inv'
  OBVIOUS
<1>1. ASSUME NEW t \in Tabs,
             \/ Visit(t) \/ Load(t) \/ ServeAsk(t) \/ AskArrives(t) \/ AskRejected(t)
             \/ (\E u \in Users : Login(t, u))
             \/ CheckLogin(t) \/ ServeLogin(t) \/ LoginArrives(t) \/ ServeEnter(t)
             \/ EnterArrives(t) \/ Query(t) \/ ServeQuery(t) \/ QueryArrives(t)
             \/ QueryRejected(t) \/ Logout(t) \/ ServeLogout(t) \/ ChangePassword(t)
             \/ ServeChange(t) \/ Done(t) \/ LogoutFails(t) \/ CallRejected(t) \/ CallFails(t)
      PROVE  Inv'
  BY <1>1, LoginSteps, SendSteps, ServeQueryStep, LeaveSteps, EnterStep, LoadStep,
     QueryRejectedStep, DoneStep, LogoutStep, ServeSteps, ServeLoginStep, QueryStep,
     QueryArrivesStep, AskArrivesStep, LoginArrivesStep
<1> QED BY <1>1, BackendSteps DEF Next

LEMMA InvAlways == Spec => []Inv
BY InvInit, InvNext, PTL DEF Spec

-----------------------------------------------------------------------------
(* While the backend accepts the stored token, the mark that is stored with it *)
(* tells whether its user has to change his password: AuthProvider, the login *)
(* and the interceptor of axios keep the two together, whatever is closed or  *)
(* issued meanwhile, unless the profile of another session arrived late or    *)
(* the password was replaced during the login.                              *)
THEOREM FlagAlwaysTrue == Spec => []FlagIsTrue
<1>1. Inv => FlagIsTrue
  BY DEF Inv
<1> QED BY <1>1, InvAlways, PTL

(* What a page shows is of the user whose token is stored, in every tab from  *)
(* which no token was taken and in which none was replaced: the queries sent   *)
(* with one token never arrive in the session of another user unnoticed.     *)
THEOREM TabsAlwaysShowOwn == Spec => []ShowsOwn
<1>1. Inv => ShowsOwn
  BY DEF Inv, DataOK, OwnData, ShowsOwn
<1> QED BY <1>1, InvAlways, PTL

(* A refusal of an earlier session, or a token that ran out, does not end a    *)
(* session that the backend accepts: its token leaves the storage only when a *)
(* tab logs out or has changed the password, or a query of the backend failed *)
(* for a request of that session, which is answered with a 401 too.          *)
THEOREM OpenSessionsStay == Spec => OpenStay
<1>1. ASSUME Inv, [Next]_vars, token \in open, token' = None
      PROVE  \E t \in Tabs : Ends(t) \/ QueryFailed(t)
  <2>1. token # None /\ token \notin expired /\ ~Stale /\ ~UNCHANGED token
    BY <1>1, LenFact, PortalAssumption DEF Inv, BackendOK, Sessions, Stale
  <2>2. ~Keeps
    BY <2>1 DEF Keeps, storage
  <2>3. ASSUME NEW t \in Tabs, Visit(t) \/ Load(t) PROVE FALSE
    <3>1. PICK p \in Pages : Go(t, p)
      BY <2>3 DEF Visit, Load
    <3> QED BY <2>1, <2>2, <3>1, GoFact
  <2>4. ASSUME NEW t \in Tabs, EnterArrives(t) PROVE FALSE
    BY <1>1, <2>1, <2>4 DEF EnterArrives, Layout, ToChangePage, storage
  <2>5. ASSUME NEW t \in Tabs, NEW r, NEW kinds, RequestOK(r), Refused(r, kinds), Rejected(t, r)
        PROVE  FailedOn(r, None)
    BY <1>1, <2>1, <2>5 DEF Rejected, RequestOK, Refused, Is, FailedOn, storage
  <2>6. ASSUME NEW t \in Tabs, AskRejected(t) \/ QueryRejected(t) \/ CallRejected(t)
        PROVE  QueryFailed(t)
    <3>1. CASE AskRejected(t)
      <4>1. FailedOn(ask[t], None) /\ ask' = Set(ask, t, None)
        BY <1>1, <2>5, <3>1, OfTab DEF AskRejected
      <4> QED BY <1>1, <4>1 DEF QueryFailed, Inv, RequestsOK, Set
    <3>2. CASE QueryRejected(t)
      <4>1. FailedOn(query[t], None) /\ query' = Set(query, t, None)
        BY <1>1, <2>5, <3>2, OfTab DEF QueryRejected
      <4> QED BY <1>1, <4>1 DEF QueryFailed, Inv, RequestsOK, Set
    <3>3. CASE CallRejected(t)
      <4>1. FailedOn(call[t], None) /\ call' = Set(call, t, None)
        BY <1>1, <2>5, <3>3, OfTab DEF CallRejected
      <4> QED BY <1>1, <4>1 DEF QueryFailed, Inv, RequestsOK, Set
    <3> QED BY <2>6, <3>1, <3>2, <3>3
  <2>7. ASSUME NEW t \in Tabs, LoginArrives(t) PROVE FALSE
    <3>1. call[t] # None /\ call[t].kind = "login" /\ call[t].status = "ok" /\ token' = call[t].sess
      BY <2>7 DEF LoginArrives, Is
    <3>2. call[t].sess \in Sessions /\ Len(owner) \in Nat
      BY <1>1, <3>1, OfTab, LenFact DEF RequestOK, BackendOK
    <3> QED BY <1>1, <3>1, <3>2, PortalAssumption DEF Sessions
  <2>8. ASSUME NEW t \in Tabs, Done(t) \/ LogoutFails(t) PROVE Ends(t)
    <3>1. call' = Set(call, t, None) /\ call[t] # None
          /\ (call[t].kind = "logout" \/ Is(call[t], {"change"}, "ok"))
      BY <2>8 DEF Done, LogoutFails, Is
    <3> QED BY <1>1, <3>1 DEF Ends, Inv, RequestsOK, Set
  <2>9. ASSUME NEW t \in Tabs,
               \/ ServeAsk(t) \/ AskArrives(t) \/ (\E u \in Users : Login(t, u))
               \/ CheckLogin(t) \/ ServeLogin(t) \/ ServeEnter(t)
               \/ Query(t) \/ ServeQuery(t) \/ QueryArrives(t) \/ Logout(t) \/ ServeLogout(t)
               \/ ChangePassword(t) \/ ServeChange(t) \/ CallFails(t)
        PROVE  UNCHANGED token
    BY <2>9 DEF ServeAsk, AskArrives, Login, CheckLogin, ServeLogin, ServeEnter, Query,
       ServeQuery, QueryArrives, Logout, ServeLogout, ChangePassword, ServeChange, CallFails, storage
  <2>10. ASSUME \/ \E u \in Users : TemporaryPassword(u)
                \/ \E s \in open : Expire(s)
                \/ UNCHANGED vars
         PROVE  UNCHANGED token
    BY <2>10 DEF TemporaryPassword, Expire, vars, storage
  <2> QED BY <1>1, <2>1, <2>3, <2>4, <2>6, <2>7, <2>8, <2>9, <2>10 DEF Next
<1> QED BY <1>1, InvAlways, PTL DEF Spec, OpenStay
-----------------------------------------------------------------------------
(* The review lists.  A page of a list: the order it is cut from exists, since *)
(* the place of a merchant is the number of those that are not older.        *)
Descends(s, S) ==
  /\ s \in [1..Cardinality(S) -> S]
  /\ \A i, j \in DOMAIN s : i < j => s[i] > s[j]

LEMMA NewestExists ==
  ASSUME NEW S, S \subseteq Nat, IsFiniteSet(S)
  PROVE  \E s : Descends(s, S)
<1> DEFINE Since(m) == {x \in S : x >= m}
           n == Cardinality(S)
           place == [m \in S |-> Cardinality(Since(m))]
<1>1. ASSUME NEW m \in S PROVE IsFiniteSet(Since(m)) /\ place[m] \in 1..n
  <2>1. Since(m) \in SUBSET S /\ m \in Since(m)
    OBVIOUS
  <2>2. IsFiniteSet(Since(m)) /\ Cardinality(Since(m)) <= n
    BY <2>1, FS_Subset
  <2>3. Cardinality(Since(m)) \in Nat /\ n \in Nat /\ Cardinality(Since(m)) # 0
    BY <2>1, <2>2, FS_CardinalityType, FS_EmptySet
  <2> QED BY <2>2, <2>3
<1>2. ASSUME NEW l \in S, NEW m \in S, l < m PROVE place[m] < place[l]
  <2>0. l \in Nat /\ m \in Nat /\ \A x \in S : x \in Nat
    OBVIOUS
  <2>1. Since(m) \in SUBSET Since(l) /\ l \in Since(l) \ Since(m)
    <3>1. \A x \in S : x >= m => x >= l
      BY <1>2, <2>0
    <3>2. l >= l /\ ~(l >= m)
      BY <1>2, <2>0
    <3> QED BY <3>1, <3>2
  <2>2. Cardinality(Since(m)) <= Cardinality(Since(l)) /\ Cardinality(Since(m)) # Cardinality(Since(l))
    BY <1>1, <2>1, FS_Subset
  <2> QED BY <1>1, <2>2
<1>3. place \in Injection(S, 1..n)
  <2>1. place \in [S -> 1..n]
    BY <1>1
  <2>2. \A l, m \in S : place[l] = place[m] => l = m
    <3>1. \A m \in S : place[m] \in Nat /\ m \in Nat
      BY <1>1
    <3> HIDE DEF place
    <3> QED BY <1>2, <3>1
  <2> QED BY <2>1, <2>2 DEF Injection, IsInjective
<1>4. n \in Nat /\ IsFiniteSet(1..n) /\ Cardinality(1..n) = n
  BY FS_CardinalityType, FS_Interval
<1> HIDE DEF place
<1>5. \A i \in 1..n : \E m \in S : place[m] = i
  <2>1. place \in Surjection(S, 1..n)
    BY <1>3, <1>4, FS_Injection
  <2> QED BY <2>1 DEF Surjection
<1> DEFINE s == [i \in 1..n |-> CHOOSE m \in S : place[m] = i]
<1>6. \A i \in 1..n : s[i] \in S /\ place[s[i]] = i
  BY <1>5
<1>s. s = [i \in 1..n |-> s[i]]
  OBVIOUS
<1> HIDE DEF s
<1>7. ASSUME NEW i \in 1..n, NEW j \in 1..n, i < j PROVE s[i] > s[j]
  <2>1. s[i] \in Nat /\ s[j] \in Nat /\ place[s[i]] = i /\ place[s[j]] = j
    BY <1>6
  <2>2. ~(s[i] < s[j])
    BY <1>2, <1>4, <1>6, <1>7, <2>1
  <2>3. s[i] # s[j]
    BY <1>4, <1>7, <2>1
  <2> QED BY <2>1, <2>2, <2>3
<1> QED BY <1>6, <1>s, <1>7 DEF Descends

LEMMA NewestFact ==
  ASSUME NEW S, S \subseteq Nat, IsFiniteSet(S)
  PROVE  /\ Newest(S) \in Seq(S) /\ Len(Newest(S)) = Cardinality(S)
         /\ IsInjective(Newest(S)) /\ ToSet(Newest(S)) = S
<1> DEFINE s == Newest(S)
           n == Cardinality(S)
<1>1. Descends(s, S)
  BY NewestExists DEF Newest, Descends
<1>2. n \in Nat /\ IsFiniteSet(1..n) /\ Cardinality(1..n) = n
  BY FS_CardinalityType, FS_Interval
<1>3. s \in Seq(S) /\ Len(s) = n /\ DOMAIN s = 1..n
  BY <1>1, <1>2, SeqDef DEF Descends
<1> HIDE DEF s
<1>4. IsInjective(s)
  <2>1. \A i \in 1..n : s[i] \in Nat
    BY <1>1 DEF Descends
  <2> QED BY <1>1, <1>2, <1>3, <2>1 DEF IsInjective, Descends
<1>5. s \in Injection(1..n, S)
  BY <1>1, <1>4 DEF Injection, Descends
<1>6. s \in Surjection(1..n, S)
  BY <1>2, <1>5, FS_Injection
<1>7. ToSet(s) = S
  BY <1>1, <1>6, <1>3 DEF ToSet, Surjection, Descends
<1> QED BY <1>3, <1>4, <1>7 DEF s

(* The rows of page p, of q rows each, of n.                                *)
LEMMA CutFact ==
  ASSUME NEW p \in Nat \ {0}, NEW q \in Nat \ {0}, NEW n \in Nat
  PROVE  LET first == (p - 1) * q + 1
             last == IF p * q < n THEN p * q ELSE n
         IN /\ first \in Nat \ {0} /\ last \in Nat /\ last <= n /\ last - first + 1 <= q
            /\ p = 1 => first = 1 /\ (n <= q => last = n)
<1> DEFINE c == p * q
           d == (p - 1) * q
<1>1. c \in Nat /\ d \in Nat
  OBVIOUS
<1>2. c = d + q
  OBVIOUS
<1>3. p = 1 => d = 0
  OBVIOUS
<1> HIDE DEF c, d
<1>4. LET first == d + 1
          last == IF c < n THEN c ELSE n
      IN /\ first \in Nat \ {0} /\ last \in Nat /\ last <= n /\ last - first + 1 <= q
         /\ p = 1 => first = 1 /\ (n <= q => last = n)
  BY <1>1, <1>2, <1>3
<1> QED BY <1>4 DEF c, d

MayHold(k) == IF k.filter THEN Filtered ELSE Merchants
RowsOK(k, rows) ==
  /\ rows \in Seq(Merchants) /\ Len(rows) <= PageSize
  /\ IsInjective(rows) /\ ToSet(rows) \subseteq MayHold(k)

LEMMA PageFact ==
  ASSUME NEW k \in Keys
  PROVE  /\ RowsOK(k, PageOf(k)) /\ PagesOf(k) \in Int
         /\ ToSet(PageOf(k)) \subseteq Matching(k.list, k.filter)
         /\ k.page = 1 /\ Len(PageOf(k)) < PageSize =>
              ToSet(PageOf(k)) = Matching(k.list, k.filter)
<1> DEFINE M == Matching(k.list, k.filter)
           all == Newest(M)
           first == (k.page - 1) * PageSize + 1
           last == IF k.page * PageSize < Len(all) THEN k.page * PageSize ELSE Len(all)
           rows == PageOf(k)
<1>1. k.page \in Nat \ {0} /\ PageSize \in Nat \ {0} /\ k.filter \in BOOLEAN
  BY ListsAssumption
<1>2. M \in SUBSET Merchants /\ M \subseteq Nat /\ M \subseteq MayHold(k)
  BY ListsAssumption DEF Matching, MayHold
<1>3. IsFiniteSet(M)
  BY <1>2, ListsAssumption, FS_Subset
<1>13. PagesOf(k) \in Int
  <2>1. Cardinality(M) \in Nat /\ PageSize \in Nat \ {0}
    BY <1>1, <1>3, FS_CardinalityType
  <2>2. PagesOf(k) = (Cardinality(M) + PageSize - 1) \div PageSize
    BY DEF PagesOf
  <2> HIDE DEF M
  <2> QED BY <2>1, <2>2
<1>4. all \in Seq(M) /\ IsInjective(all) /\ ToSet(all) = M /\ Len(all) = Cardinality(M)
  BY <1>2, <1>3, NewestFact
<1> HIDE DEF all, M
<1>5. Len(all) \in Nat /\ DOMAIN all = 1..Len(all) /\ \A i \in 1..Len(all) : all[i] \in M
  BY <1>4, LenProperties, ElementOfSeq
<1>6. /\ first \in Nat \ {0} /\ last \in Nat /\ last <= Len(all) /\ last - first + 1 <= PageSize
      /\ k.page = 1 => first = 1 /\ (Len(all) <= PageSize => last = Len(all))
  BY <1>1, <1>5, CutFact
<1>7. rows = SubSeq(all, first, last)
  BY DEF PageOf, all, M
<1> HIDE DEF first, last
<1>9. /\ rows \in Seq(M) /\ Len(rows) = (IF first <= last THEN last - first + 1 ELSE 0)
      /\ \A i \in 1..(last - first + 1) : rows[i] = all[first + i - 1]
  <2>0. first \in Int /\ last \in Int /\ \A i \in first..last : i \in 1..Len(all)
    <3>1. first \in Nat \ {0} /\ last \in Nat /\ last <= Len(all) /\ Len(all) \in Nat
      BY <1>5, <1>6
    <3>2. first \in Int /\ last \in Int
      BY <3>1
    <3>3. ASSUME NEW i \in first..last PROVE i \in 1..Len(all)
      BY <3>1, <3>2, <3>3
    <3> QED BY <3>2, <3>3
  <2>1. \A i \in first..last : all[i] \in M
    BY <1>5, <2>0
  <2>2. \A i \in 1..(last - first + 1) : SubSeq(all, first, last)[i] = all[first + i - 1]
    BY <2>0, <2>1, SubSeqProperties
  <2> QED BY <1>7, <2>0, <2>1, <2>2, SubSeqProperties
<1> HIDE DEF rows
<1>10. /\ DOMAIN rows = 1..Len(rows) /\ Len(rows) \in Nat /\ Len(rows) <= PageSize
       /\ \A i \in 1..Len(rows) : rows[i] = all[first + i - 1] /\ first + i - 1 \in 1..Len(all)
  <2>1. DOMAIN rows = 1..Len(rows) /\ Len(rows) \in Nat
    BY <1>9, LenProperties
  <2>2. /\ first \in Nat \ {0} /\ last \in Nat /\ last <= Len(all) /\ Len(all) \in Nat
        /\ last - first + 1 <= PageSize /\ PageSize \in Nat
        /\ Len(rows) = (IF first <= last THEN last - first + 1 ELSE 0)
    BY <1>1, <1>5, <1>6, <1>9
  <2> DEFINE n == Len(rows)
  <2> HIDE DEF n
  <2>3. n = (IF first <= last THEN last - first + 1 ELSE 0)
    BY <2>2 DEF n
  <2>4. \A i \in 1..n : i \in 1..(last - first + 1) /\ first + i - 1 \in 1..Len(all)
    BY <2>2, <2>3
  <2>5. n <= PageSize
    BY <2>2, <2>3
  <2> QED BY <1>9, <2>1, <2>4, <2>5 DEF n
<1>11. IsInjective(rows)
  <2>1. ASSUME NEW i \in 1..Len(rows), NEW j \in 1..Len(rows), rows[i] = rows[j]
        PROVE  i = j
    <3>1. /\ first + i - 1 \in DOMAIN all /\ first + j - 1 \in DOMAIN all
          /\ all[first + i - 1] = all[first + j - 1]
      BY <1>5, <1>10, <2>1
    <3>2. first + i - 1 = first + j - 1
      BY <1>4, <3>1 DEF IsInjective
    <3>3. first \in Nat /\ i \in Nat /\ j \in Nat
      BY <1>6, <1>10
    <3> QED BY <3>2, <3>3
  <2> QED BY <1>10, <2>1 DEF IsInjective
<1>12. rows \in Seq(Merchants) /\ ToSet(rows) \subseteq M
  <2>1. \A i \in 1..Len(rows) : rows[i] \in M /\ rows[i] \in Merchants
    BY <1>2, <1>5, <1>10
  <2>2. rows = [i \in 1..Len(rows) |-> rows[i]]
    BY <1>9, SeqDef
  <2> QED BY <1>2, <1>9, <1>10, <2>1, <2>2, SeqDef DEF ToSet
<1>14. ASSUME k.page = 1, Len(rows) < PageSize
       PROVE  ToSet(rows) = M
  <2>1. /\ first = 1 /\ last \in Nat /\ Len(all) \in Nat /\ PageSize \in Nat
        /\ Len(rows) = (IF 1 <= last THEN last ELSE 0)
    <3>1. first = 1 /\ last \in Nat /\ Len(all) \in Nat /\ PageSize \in Nat
      BY <1>1, <1>5, <1>6, <1>14
    <3>2. Len(rows) = (IF first <= last THEN last - first + 1 ELSE 0)
      BY <1>9
    <3>3. last - 1 + 1 = last
      BY <3>1
    <3> QED BY <3>1, <3>2, <3>3
  <2>2. last = Len(all)
    <3>1. last < PageSize
      BY <1>14, <2>1
    <3>2. last = IF PageSize < Len(all) THEN PageSize ELSE Len(all)
      BY <1>1, <1>14 DEF last
    <3> QED BY <2>1, <3>1, <3>2
  <2>3. DOMAIN rows = DOMAIN all /\ \A i \in DOMAIN all : rows[i] = all[i]
    BY <1>5, <1>9, <1>10, <2>1, <2>2
  <2> QED BY <1>4, <2>3 DEF ToSet
<1> QED BY <1>2, <1>10, <1>11, <1>12, <1>13, <1>14 DEF RowsOK, rows, M

-----------------------------------------------------------------------------
(* Types.  Rows of a page are different merchants; what is fetched has them,   *)
(* too.  The list that a render would show is one of those looked at.        *)
Entry == [rows : Seq(Merchants), pages : Int, got : BOOLEAN, old : BOOLEAN, error : BOOLEAN]
Fetched == [state : {"counted", "read"}, rows : Seq(Merchants), pages : Int]
EntryOK(k, e) == e \in Entry /\ RowsOK(k, e.rows) /\ (e.got \/ e.old)
FetchOK(k, f) == f \in {NoFetch, Asked} \/ (f \in Fetched /\ RowsOK(k, f.rows))

Typed(e, f) ==
  /\ e = [k \in Keys |-> e[k]] /\ f = [k \in Keys |-> f[k]]
  /\ \A k \in Keys : EntryOK(k, e[k]) /\ FetchOK(k, f[k])

Status == {"draft", "review"} \cup Verdicts
ShownOK == shown \in Keys /\ filter \in BOOLEAN /\ Key(shown.list, filter, shown.page) \in Keys

CheckerOK ==
  /\ status \in [Merchants -> Status] /\ elsewhere \in 0..MaxElsewhere
  /\ ticks \subseteq 1..PageSize /\ dialog \in Dialog
  /\ sent \in 0..MaxCalls /\ calls \subseteq Call
  /\ meant \subseteq Merchants \ Own /\ unsure \in BOOLEAN
  /\ answered \subseteq [merchant : Merchants, verdict : Verdicts, key : Keys]
  /\ late \subseteq Keys

ListsTypes == Typed(entries, fetches) /\ ShownOK /\ CheckerOK

(* Verdicts are given on the page of pending merchants.                      *)
PendingOK ==
  /\ dialog # NoDialog => shown.list = "pending"
  /\ \A c \in calls : IF c.page = Here THEN shown.list = "pending" ELSE c.page.list = "pending"

(* The list that is shown is fetched when it is old.                         *)
FreshOK == fetches[shown] = NoFetch => entries[shown].error \/ ~entries[shown].old

(* While the checker can be sure, nothing moves beneath the ticks.           *)
TicksOK ==
  /\ ticks = {} => meant = {}
  /\ ticks # {} /\ ~unsure => calls = {} /\ fetches[shown] = NoFetch /\ meant = Selected
  /\ DecidesWhatWasTicked

(* A merchant decided on is not in the list it was in, nor in what was read    *)
(* for it; and it is in its report, unless that is full or old.              *)
Gone(m, e, f) ==
  /\ f.state = "read" => m \notin ToSet(f.rows)
  /\ f = NoFetch => e.error \/ m \notin ToSet(e.rows)
Reported(m, e, f) ==
  /\ f.state = "read" /\ Len(f.rows) < PageSize => m \in ToSet(f.rows)
  /\ f = NoFetch => e.error \/ e.old \/ (Len(e.rows) < PageSize => m \in ToSet(e.rows))
Report(a) == Key(a.verdict, FALSE, 1)

FollowOK ==
  \A a \in answered :
    /\ status[a.merchant] = a.verdict /\ a.key.list = "pending"
    /\ a.key \notin late => Gone(a.merchant, entries[a.key], fetches[a.key])
    /\ Report(a) \in Keys \ late =>
         Reported(a.merchant, entries[Report(a)], fetches[Report(a)])

ListsInv == ListsTypes /\ PendingOK /\ FreshOK /\ TicksOK /\ FollowOK

LEMMA KeyFact ==
  /\ \A l, f, n : /\ Key(l, f, n).list = l /\ Key(l, f, n).filter = f
                  /\ Key(l, f, n).page = n
  /\ Home \in Keys /\ Here \notin Keys
  /\ \A k \in Keys : Key(k.list, FALSE, 1) \in Keys
  /\ \A k \in Keys : k.page \in Nat \ {0} /\ k.filter \in BOOLEAN
BY ListsAssumption DEF Key, Home, Here

LEMMA FetchFact ==
  /\ NoFetch # Asked /\ NoFetch.state = "none" /\ Asked.state = "asked"
  /\ \A k, f : FetchOK(k, f) => f \in {NoFetch, Asked} \/ f.state \in {"counted", "read"}
BY DEF NoFetch, Asked, FetchOK, Fetched

LEMMA ListsInvInit == ListsInit => ListsInv
<1> SUFFICES ASSUME ListsInit PROVE ListsInv
  OBVIOUS
<1>1. << >> \in Seq(Merchants) /\ Len(<< >>) = 0 /\ DOMAIN << >> = {} /\ ToSet(<< >>) = {}
      /\ IsInjective(<< >>)
  BY EmptySeq DEF ToSet, IsInjective
<1>2. Typed(entries, fetches)
  <2>1. \A k \in Keys : RowsOK(k, << >>)
    BY <1>1, ListsAssumption DEF RowsOK
  <2>2. NoEntry \in Entry /\ NoEntry.rows = << >> /\ NoEntry.old
    BY <1>1 DEF NoEntry, Entry
  <2> QED BY <2>1, <2>2 DEF ListsInit, Typed, EntryOK, FetchOK
<1>3. ShownOK
  <2>1. Home \in Keys /\ Home = Key("pending", FALSE, 1)
    BY KeyFact DEF Home
  <2>2. Key(Home.list, FALSE, Home.page) = Home
    BY <2>1 DEF Key
  <2> QED BY <2>1, <2>2 DEF ListsInit, ShownOK
<1>4. CheckerOK
  <2>1. status \in [Merchants -> Status]
    BY DEF ListsInit, Status
  <2>2. 0 \in 0..MaxElsewhere /\ 0 \in 0..MaxCalls
    BY ListsAssumption
  <2> QED BY <2>1, <2>2 DEF ListsInit, CheckerOK, Dialog
<1>5. PendingOK /\ FreshOK /\ TicksOK /\ FollowOK
  BY KeyFact, FetchFact DEF ListsInit, PendingOK, FreshOK, TicksOK, FollowOK, DecidesWhatWasTicked, Home
<1> QED BY <1>2, <1>3, <1>4, <1>5 DEF ListsInv, ListsTypes

-----------------------------------------------------------------------------
(* What useQuery makes of the lists.                                         *)
Displays(cached, under) ==
  /\ shown' \in Keys /\ entries' = cached /\ Typed(entries', fetches')
  /\ \A j \in Keys : fetches'[j] \in {under[j], Asked}
  /\ shown' = shown => fetches' = under
  /\ shown' # shown /\ fetches'[shown'] = NoFetch => ~cached[shown'].old

LEMMA ShowFact ==
  ASSUME NEW k \in Keys, NEW cached, NEW under, Typed(cached, under), Show(k, cached, under)
  PROVE  shown' = k /\ Displays(cached, under)
<1>1. shown' = k /\ entries' = cached
  BY DEF Show
<1>2. CASE k # shown /\ fetches' = [under EXCEPT ![k] = IF @ = NoFetch THEN Asked ELSE @]
  <2>1. /\ fetches' = [j \in Keys |-> fetches'[j]]
        /\ \A j \in Keys : fetches'[j] \in {under[j], Asked}
        /\ fetches'[k] # NoFetch
    BY <1>2, FetchFact DEF Typed
  <2>2. \A j \in Keys : FetchOK(j, fetches'[j])
    BY <2>1 DEF Typed, FetchOK
  <2> QED BY <1>1, <1>2, <2>1, <2>2 DEF Displays, Typed
<1>3. CASE (k = shown \/ ~cached[k].old) /\ fetches' = under
  BY <1>1, <1>3 DEF Displays
<1> QED BY <1>2, <1>3 DEF Show

LEMMA RenderFact ==
  ASSUME ListsTypes, NEW n, NEW cached, NEW under, Typed(cached, under),
         Render(n, cached, under), filter' = filter
  PROVE  /\ Displays(cached, under) /\ ShownOK' /\ shown'.list = shown.list
         /\ unsure' \in BOOLEAN
         /\ ticks # {} /\ ~unsure' => ~unsure /\ shown' = shown /\ fetches' = under
<1>1. shown' = Key(shown.list, filter, n) /\ Displays(cached, under)
  BY ShowFact DEF Render
<1>2. ShownOK'
  BY <1>1, KeyFact DEF Displays, ShownOK, ListsTypes
<1>3. shown'.list = shown.list
  BY <1>1, KeyFact
<1>4. unsure' = (ticks # {} /\ (unsure \/ shown' # shown)) /\ unsure \in BOOLEAN
  BY DEF Render, ListsTypes, CheckerOK
<1> QED BY <1>1, <1>2, <1>3, <1>4 DEF Displays

LEMMA FreshShown ==
  ASSUME NEW cached, NEW under, Displays(cached, under),
         under[shown] = NoFetch => cached[shown].error \/ ~cached[shown].old
  PROVE  FreshOK'
BY DEF Displays, FreshOK

(* Verdicts stay followed when lists are fetched again, and others decide.    *)
LEMMA FollowShown ==
  ASSUME ListsTypes', NEW e, NEW f, entries' = e,
         \A j \in Keys : fetches'[j] \in {f[j], Asked},
         \A a \in answered' : /\ status'[a.merchant] = a.verdict /\ a.key.list = "pending"
                              /\ a.key \notin late' => Gone(a.merchant, e[a.key], f[a.key])
                              /\ Report(a) \in Keys \ late' =>
                                   Reported(a.merchant, e[Report(a)], f[Report(a)])
  PROVE  FollowOK'
<1>1. \A m, x, y, z : Gone(m, x, y) /\ z \in {y, Asked} => Gone(m, x, z)
  BY FetchFact DEF Gone
<1>2. \A m, x, y, z : Reported(m, x, y) /\ z \in {y, Asked} => Reported(m, x, z)
  BY FetchFact DEF Reported
<1>3. \A a \in answered' : a.key \in Keys
  BY DEF ListsTypes, CheckerOK
<1>4. ASSUME NEW a \in answered', a.key \notin late'
      PROVE  Gone(a.merchant, entries'[a.key], fetches'[a.key])
  BY <1>1, <1>3, <1>4
<1>5. ASSUME NEW a \in answered', Report(a) \in Keys \ late'
      PROVE  Reported(a.merchant, entries'[Report(a)], fetches'[Report(a)])
  BY <1>2, <1>5
<1> QED BY <1>4, <1>5 DEF FollowOK, Report, Key

LEMMA FollowKept ==
  ASSUME ListsTypes', FollowOK, answered' \subseteq answered, late' = late, entries' = entries,
         \A j \in Keys : fetches'[j] \in {fetches[j], Asked},
         \A a \in answered' : status'[a.merchant] = a.verdict
  PROVE  FollowOK'
BY FollowShown DEF FollowOK

-----------------------------------------------------------------------------
(* Steps that leave the lists as they are.                                   *)
LEMMA EnterFilterStep ==
  ASSUME ListsInv, EnterFilter
  PROVE  ListsInv'
<1>1. /\ UNCHANGED <<status, elsewhere, ticks, dialog, meant, unsure, sent, calls, answered, late>>
      /\ UNCHANGED <<shown, entries, fetches>>
  BY DEF EnterFilter, lists
<1>2. ListsTypes'
  <2>1. ShownOK'
    BY <1>1 DEF EnterFilter, ShownOK, ListsInv, ListsTypes
  <2>2. Typed(entries, fetches)' /\ CheckerOK'
    BY <1>1 DEF ListsInv, ListsTypes, CheckerOK, Typed
  <2> QED BY <2>1, <2>2 DEF ListsTypes
<1>3. PendingOK' /\ FreshOK' /\ FollowOK'
  BY <1>1 DEF ListsInv, PendingOK, FreshOK, FollowOK
<1>4. TicksOK'
  BY <1>1 DEF ListsInv, TicksOK, DecidesWhatWasTicked, Selected, Rows
<1> QED BY <1>2, <1>3, <1>4 DEF ListsInv

LEMMA DialogStep ==
  ASSUME ListsInv, Dismiss \/ GiveReason
  PROVE  ListsInv'
<1>1. /\ UNCHANGED <<status, elsewhere, filter, ticks, meant, unsure, sent, calls, answered, late>>
      /\ UNCHANGED <<shown, entries, fetches>>
  BY DEF Dismiss, GiveReason, lists
<1>2. dialog' \in Dialog /\ (dialog' # NoDialog => dialog # NoDialog)
  <2>1. CASE Dismiss
    BY <2>1 DEF Dismiss, Dialog
  <2>2. CASE GiveReason
    <3>1. dialog \in Dialog /\ dialog # NoDialog
      BY <2>2 DEF GiveReason, ListsInv, ListsTypes, CheckerOK, NoDialog
    <3> QED BY <2>2, <3>1 DEF GiveReason, Dialog
  <2> QED BY <2>1, <2>2
<1>3. ListsTypes'
  <2>1. Typed(entries, fetches)' /\ ShownOK' /\ CheckerOK'
    BY <1>1, <1>2 DEF ListsInv, ListsTypes, CheckerOK, Typed, ShownOK
  <2> QED BY <2>1 DEF ListsTypes
<1>4. PendingOK' /\ FreshOK' /\ FollowOK'
  BY <1>1, <1>2 DEF ListsInv, PendingOK, FreshOK, FollowOK
<1>5. TicksOK'
  BY <1>1 DEF ListsInv, TicksOK, DecidesWhatWasTicked, Selected, Rows
<1> QED BY <1>3, <1>4, <1>5 DEF ListsInv

LEMMA SelectedFact ==
  ASSUME ListsTypes
  PROVE  Selected \subseteq Merchants \ Own
<1>1. RowsOK(shown, Rows(shown))
  BY DEF ListsTypes, ShownOK, Typed, EntryOK, Rows
<1>2. \A i \in DOMAIN Rows(shown) : Rows(shown)[i] \in Merchants
  BY <1>1, LenProperties, ElementOfSeq DEF RowsOK
<1> QED BY <1>2 DEF Selected

LEMMA ConfirmStep ==
  ASSUME ListsInv, Confirm
  PROVE  ListsInv'
<1> DEFINE c == [number |-> sent', verdict |-> dialog.verdict, ids |-> Selected,
                 meant |-> meant, sure |-> ~unsure, done |-> FALSE, page |-> Here]
<1>1. /\ UNCHANGED <<status, elsewhere, filter, answered, late>>
      /\ UNCHANGED <<shown, entries, fetches>>
      /\ sent < MaxCalls /\ sent' = sent + 1 /\ calls' = calls \cup {c} /\ dialog' = NoDialog
      /\ ticks' = {} /\ meant' = {} /\ unsure' = FALSE
  BY DEF Confirm, lists, TicksAfter
<1>2. dialog \in Dialog /\ dialog # NoDialog
  BY DEF Confirm, NoDialog, ListsInv, ListsTypes, CheckerOK
<1>3. sent' \in 0..MaxCalls /\ c \in Call
  <2>1. sent' \in 0..MaxCalls /\ sent' \in 1..MaxCalls
    BY <1>1, ListsAssumption DEF ListsInv, ListsTypes, CheckerOK
  <2>2. dialog.verdict \in Verdicts
    BY <1>2 DEF Dialog
  <2>3. Selected \in SUBSET Merchants /\ meant \in SUBSET Merchants /\ unsure \in BOOLEAN
    BY SelectedFact DEF ListsInv, ListsTypes, CheckerOK
  <2> QED BY <2>1, <2>2, <2>3 DEF Call
<1>4. ListsTypes'
  <2>1. Typed(entries, fetches)' /\ ShownOK'
    BY <1>1 DEF ListsInv, ListsTypes, Typed, ShownOK
  <2>2. CheckerOK'
    BY <1>1, <1>3 DEF ListsInv, ListsTypes, CheckerOK, Dialog
  <2> QED BY <2>1, <2>2 DEF ListsTypes
<1>5. PendingOK'
  BY <1>1, <1>2 DEF ListsInv, PendingOK
<1>6. FreshOK' /\ FollowOK'
  BY <1>1 DEF ListsInv, FreshOK, FollowOK
<1>7. TicksOK'
  <2>1. c.sure => c.ids = c.meant
    BY DEF ListsInv, TicksOK, Selected
  <2> QED BY <1>1, <2>1 DEF ListsInv, TicksOK, DecidesWhatWasTicked
<1> QED BY <1>4, <1>5, <1>6, <1>7 DEF ListsInv

-----------------------------------------------------------------------------
(* Steps that show a list.                                                   *)
LEMMA AgainFact ==
  ASSUME ListsTypes, NEW keys
  PROVE  /\ Refetching(keys) = [k \in Keys |-> Refetching(keys)[k]]
         /\ \A k \in Keys : /\ Refetching(keys)[k] \in {fetches[k], Asked}
                            /\ FetchOK(k, Refetching(keys)[k])
                            /\ k \notin keys => Refetching(keys)[k] = fetches[k]
                            /\ k \in keys => Refetching(keys)[k] # NoFetch
BY FetchFact DEF ListsTypes, Typed, Refetching, FirstFetch, FetchOK

LEMMA TypedNow ==
  ASSUME ListsTypes
  PROVE  Typed(entries, fetches) /\ Typed(entries, Refetching({shown}))
BY AgainFact DEF ListsTypes, Typed

LEMMA SearchStep ==
  ASSUME ListsInv, Search
  PROVE  ListsInv'
<1> DEFINE under == Refetching({shown})
<1>1. /\ UNCHANGED <<status, elsewhere, filter, ticks, dialog, meant, sent, calls, answered, late>>
      /\ unsure' = (ticks # {}) /\ Show(Key(shown.list, filter, shown.page), entries, under)
      /\ Key(shown.list, filter, shown.page) \in Keys
  BY DEF Search
<1>2. Displays(entries, under) /\ shown' = Key(shown.list, filter, shown.page)
  BY <1>1, TypedNow, ShowFact DEF ListsInv
<1>3. ListsTypes'
  <2>1. ShownOK'
    BY <1>1, <1>2, KeyFact DEF Displays, ShownOK, ListsInv, ListsTypes
  <2>2. CheckerOK'
    BY <1>1 DEF ListsInv, ListsTypes, CheckerOK
  <2> QED BY <1>2, <2>1, <2>2 DEF ListsTypes, Displays
<1>4. PendingOK'
  BY <1>1, <1>2, KeyFact DEF ListsInv, PendingOK
<1>5. FreshOK'
  <2>1. under[shown] # NoFetch
    BY AgainFact DEF ListsInv, ListsTypes, ShownOK
  <2> QED BY <1>2, <2>1, FreshShown
<1>6. \A j \in Keys : fetches'[j] \in {fetches[j], Asked}
  <2>1. \A j \in Keys : under[j] \in {fetches[j], Asked}
    BY AgainFact DEF ListsInv
  <2> QED BY <1>2, <2>1 DEF Displays
<1>7. FollowOK'
  BY <1>1, <1>2, <1>3, <1>6, FollowKept DEF ListsInv, FollowOK, Displays
<1>8. TicksOK'
  BY <1>1 DEF ListsInv, TicksOK, DecidesWhatWasTicked
<1> QED BY <1>3, <1>4, <1>5, <1>7, <1>8 DEF ListsInv

LEMMA RenderStep ==
  ASSUME ListsInv, NEW n, Render(n, entries, fetches),
         UNCHANGED <<status, elsewhere, filter, ticks, meant, sent, calls, answered, late>>,
         dialog' \in Dialog, dialog' # NoDialog => shown.list = "pending"
  PROVE  ListsInv'
<1>1. /\ Displays(entries, fetches) /\ ShownOK' /\ shown'.list = shown.list
      /\ unsure' \in BOOLEAN
      /\ ticks # {} /\ ~unsure' => ~unsure /\ shown' = shown /\ fetches' = fetches
  BY RenderFact, TypedNow DEF ListsInv
<1>2. ListsTypes'
  <2>1. CheckerOK'
    BY <1>1 DEF ListsInv, ListsTypes, CheckerOK
  <2> QED BY <1>1, <2>1 DEF ListsTypes, Displays
<1>3. PendingOK'
  BY <1>1 DEF ListsInv, PendingOK
<1>4. FreshOK'
  BY <1>1, FreshShown DEF ListsInv, FreshOK
<1>5. FollowOK'
  BY <1>1, <1>2, FollowKept DEF ListsInv, FollowOK, Displays
<1>6. TicksOK'
  <2>1. shown' = shown => Selected' = Selected
    BY <1>1 DEF Displays, Selected, Rows
  <2> QED BY <1>1, <2>1 DEF ListsInv, TicksOK, DecidesWhatWasTicked
<1> QED BY <1>2, <1>3, <1>4, <1>5, <1>6 DEF ListsInv

LEMMA TurnPageStep ==
  ASSUME ListsInv, TurnPage
  PROVE  ListsInv'
<1>1. PICK n \in 1..entries[shown].pages : Render(n, entries, fetches)
  BY DEF TurnPage
<1>2. /\ UNCHANGED <<status, elsewhere, filter, ticks, dialog, meant, sent, calls, answered, late>>
      /\ dialog = NoDialog
  BY DEF TurnPage
<1> QED BY <1>1, <1>2, RenderStep DEF ListsInv, ListsTypes, CheckerOK

LEMMA AskStep ==
  ASSUME ListsInv, NEW v \in Verdicts, Ask(v)
  PROVE  ListsInv'
<1>1. /\ UNCHANGED <<status, elsewhere, filter, ticks, meant, sent, calls, answered, late>>
      /\ Render(shown.page, entries, fetches) /\ shown.list = "pending"
      /\ dialog' = [verdict |-> v, step |-> "alert"]
  BY DEF Ask, Deciding
<1>2. dialog' \in Dialog
  BY <1>1 DEF Dialog
<1> QED BY <1>1, <1>2, RenderStep

(* Another page.                                                            *)
LEMMA OpenStep ==
  ASSUME ListsInv, NEW l \in {k.list : k \in Keys}, Open(l)
  PROVE  ListsInv'
<1> DEFINE Left(c) == [c EXCEPT !.page = IF @ = Here THEN shown ELSE @]
<1>1. /\ UNCHANGED <<status, elsewhere, sent, answered, late>>
      /\ filter' = FALSE /\ ticks' = {} /\ dialog' = NoDialog /\ meant' = {} /\ unsure' = FALSE
      /\ calls' = {Left(c) : c \in calls} /\ Show(Key(l, FALSE, 1), entries, fetches)
  BY DEF Open
<1>2. Key(l, FALSE, 1) \in Keys
  BY KeyFact
<1>3. shown' = Key(l, FALSE, 1) /\ Displays(entries, fetches)
  BY <1>1, <1>2, ShowFact, TypedNow DEF ListsInv
<1>4. ASSUME NEW c \in calls
      PROVE  /\ Left(c) \in Call /\ Left(c).sure = c.sure /\ Left(c).ids = c.ids
             /\ Left(c).meant = c.meant
             /\ Left(c).page = (IF c.page = Here THEN shown ELSE c.page)
  <2>1. c \in Call /\ shown \in Keys
    BY DEF ListsInv, ListsTypes, CheckerOK, ShownOK
  <2> QED BY <2>1 DEF Call
<1>5. ListsTypes'
  <2>1. ShownOK'
    <3>1. shown'.list = l /\ shown'.page = 1
      BY <1>3 DEF Key
    <3> QED BY <1>1, <1>2, <1>3, <3>1 DEF ShownOK
  <2>2. calls' \subseteq Call
    BY <1>1, <1>4
  <2>3. CheckerOK'
    BY <1>1, <2>2 DEF ListsInv, ListsTypes, CheckerOK, Dialog
  <2> QED BY <1>3, <2>1, <2>3 DEF ListsTypes, Displays
<1>6. PendingOK'
  <2>1. ASSUME NEW c \in calls PROVE Left(c).page # Here /\ Left(c).page.list = "pending"
    BY <1>4, KeyFact DEF ListsInv, PendingOK, ListsTypes, ShownOK
  <2> QED BY <1>1, <2>1 DEF PendingOK
<1>7. FreshOK'
  BY <1>3, FreshShown DEF ListsInv, FreshOK
<1>8. FollowOK'
  BY <1>1, <1>3, <1>5, FollowKept DEF ListsInv, FollowOK, Displays
<1>9. TicksOK'
  <2>1. \A c \in calls : Left(c).sure => Left(c).ids = Left(c).meant
    BY <1>4 DEF ListsInv, TicksOK, DecidesWhatWasTicked
  <2> HIDE DEF Left
  <2>2. DecidesWhatWasTicked'
    BY <1>1, <2>1 DEF DecidesWhatWasTicked
  <2> QED BY <1>1, <2>2 DEF TicksOK
<1> QED BY <1>5, <1>6, <1>7, <1>8, <1>9 DEF ListsInv

-----------------------------------------------------------------------------
(* Ticks.                                                                   *)
SelectedBy(rows) == {Rows(shown)[i] : i \in rows \cap DOMAIN Rows(shown)} \ Own

LEMMA TickToStep ==
  ASSUME ListsInv, Deciding, NEW rows \in SUBSET (1..PageSize), NEW merchants \in SUBSET Merchants,
         TickTo(rows, merchants),
         ~unsure => merchants \ Own = SelectedBy(rows)
  PROVE  ListsInv'
<1>1. /\ UNCHANGED <<status, elsewhere, filter, dialog, sent, calls, answered, late>>
      /\ ticks' = rows /\ meant' = (IF rows = {} THEN {} ELSE merchants \ Own)
      /\ unsure' = (rows # {} /\ (unsure \/ calls # {} \/ shown' # shown))
      /\ Show(Key(shown.list, filter, shown.page), entries, fetches)
  BY DEF TickTo
<1>2. shown' = Key(shown.list, filter, shown.page) /\ Displays(entries, fetches)
  BY <1>1, ShowFact, TypedNow DEF ListsInv, ListsTypes, ShownOK
<1>3. ListsTypes'
  <2>1. ShownOK'
    BY <1>1, <1>2, KeyFact DEF Displays, ShownOK, ListsInv, ListsTypes
  <2>2. CheckerOK'
    BY <1>1 DEF ListsInv, ListsTypes, CheckerOK
  <2> QED BY <1>2, <2>1, <2>2 DEF ListsTypes, Displays
<1>4. PendingOK'
  BY <1>1, <1>2, KeyFact DEF ListsInv, PendingOK
<1>5. FreshOK'
  BY <1>2, FreshShown DEF ListsInv, FreshOK
<1>6. FollowOK'
  BY <1>1, <1>2, <1>3, FollowKept DEF ListsInv, FollowOK, Displays
<1>7. TicksOK'
  <2>1. DecidesWhatWasTicked' /\ (ticks' = {} => meant' = {})
    BY <1>1 DEF ListsInv, TicksOK, DecidesWhatWasTicked
  <2>2. ASSUME ticks' # {}, ~unsure'
        PROVE  calls' = {} /\ fetches'[shown'] = NoFetch /\ meant' = Selected'
    <3>1. ~unsure /\ calls' = {} /\ shown' = shown /\ fetches' = fetches /\ entries' = entries
      BY <1>1, <1>2, <2>2 DEF Displays
    <3>2. Selected' = SelectedBy(rows)
      BY <1>1, <3>1 DEF Selected, SelectedBy, Rows
    <3> QED BY <1>1, <2>2, <3>1, <3>2 DEF Deciding, Visible
  <2> QED BY <2>1, <2>2 DEF TicksOK
<1> QED BY <1>3, <1>4, <1>5, <1>6, <1>7 DEF ListsInv

LEMMA ShownRows ==
  ASSUME ListsInv
  PROVE  /\ DOMAIN Rows(shown) \subseteq 1..PageSize /\ IsInjective(Rows(shown))
         /\ ToSet(Rows(shown)) \subseteq Merchants
         /\ \A i \in DOMAIN Rows(shown) : Rows(shown)[i] \in Merchants
         /\ ticks \in SUBSET (1..PageSize) /\ meant \in SUBSET Merchants
         /\ ~unsure => meant = SelectedBy(ticks)
<1>1. RowsOK(shown, Rows(shown))
  BY DEF ListsInv, ListsTypes, ShownOK, Typed, EntryOK, Rows
<1>2. DOMAIN Rows(shown) = 1..Len(Rows(shown)) /\ Len(Rows(shown)) \in Nat
      /\ \A i \in DOMAIN Rows(shown) : Rows(shown)[i] \in Merchants
  BY <1>1, LenProperties, ElementOfSeq DEF RowsOK
<1>3. DOMAIN Rows(shown) \subseteq 1..PageSize
  BY <1>1, <1>2, ListsAssumption DEF RowsOK
<1>4. ToSet(Rows(shown)) \subseteq Merchants
  BY <1>2 DEF ToSet
<1>5. ~unsure => meant = SelectedBy(ticks)
  <2>1. CASE ticks = {}
    BY <2>1 DEF ListsInv, TicksOK, SelectedBy
  <2>2. CASE ticks # {}
    BY <2>2 DEF ListsInv, TicksOK, SelectedBy, Selected
  <2> QED BY <2>1, <2>2
<1>6. ticks \in SUBSET (1..PageSize) /\ meant \in SUBSET Merchants
  BY DEF ListsInv, ListsTypes, CheckerOK
<1> QED BY <1>1, <1>2, <1>3, <1>4, <1>5, <1>6 DEF RowsOK

LEMMA TickStep ==
  ASSUME ListsInv, NEW i \in 1..PageSize, Tick(i)
  PROVE  ListsInv'
<1> DEFINE r == Rows(shown)
<1>1. Deciding /\ i \in DOMAIN r /\ r[i] \notin Own
  BY DEF Tick
<1>2. CASE i \in ticks
  <2>1. TickTo(ticks \ {i}, meant \ {r[i]})
    BY <1>2 DEF Tick
  <2>2. ~unsure => (meant \ {r[i]}) \ Own = SelectedBy(ticks \ {i})
    BY <1>1, ShownRows DEF SelectedBy, IsInjective
  <2> QED BY <1>1, <2>1, <2>2, ShownRows, TickToStep
<1>3. CASE i \notin ticks
  <2>1. TickTo(ticks \cup {i}, meant \cup {r[i]})
    BY <1>3 DEF Tick
  <2>2. ~unsure => (meant \cup {r[i]}) \ Own = SelectedBy(ticks \cup {i})
    BY <1>1, ShownRows DEF SelectedBy
  <2>3. meant \cup {r[i]} \in SUBSET Merchants
    BY <1>1, ShownRows
  <2> QED BY <1>1, <2>1, <2>2, <2>3, ShownRows, TickToStep
<1> QED BY <1>2, <1>3

LEMMA TickAllStep ==
  ASSUME ListsInv, TickAll
  PROVE  ListsInv'
<1> DEFINE r == Rows(shown)
<1>1. Deciding
  BY DEF TickAll
<1>2. CASE AllTicked
  <2>1. TickTo(ticks \ DOMAIN r, meant \ ToSet(r))
    BY <1>2 DEF TickAll
  <2>2. ~unsure => (meant \ ToSet(r)) \ Own = SelectedBy(ticks \ DOMAIN r)
    BY ShownRows DEF SelectedBy, ToSet
  <2> QED BY <1>1, <2>1, <2>2, ShownRows, TickToStep
<1>3. CASE ~AllTicked
  <2>1. TickTo(ticks \cup DOMAIN r, meant \cup ToSet(r))
    BY <1>3 DEF TickAll
  <2>2. ~unsure => (meant \cup ToSet(r)) \ Own = SelectedBy(ticks \cup DOMAIN r)
    BY ShownRows DEF SelectedBy, ToSet
  <2>3. ticks \cup DOMAIN r \in SUBSET (1..PageSize) /\ meant \cup ToSet(r) \in SUBSET Merchants
    BY ShownRows
  <2> QED BY <1>1, <2>1, <2>2, <2>3, TickToStep
<1> QED BY <1>2, <1>3

-----------------------------------------------------------------------------
(* The backend, and what is fetched from it.                                 *)
LEMMA VerdictFact ==
  \A v \in Verdicts : v \notin {"pending", "review"} /\ StatusOf(v) = v
BY ListsAssumption DEF StatusOf

LEMMA PerformStep ==
  ASSUME ListsInv, NEW c \in calls, Perform(c)
  PROVE  ListsInv'
<1> DEFINE d == [c EXCEPT !.done = TRUE]
<1>1. /\ UNCHANGED <<elsewhere, filter, ticks, dialog, meant, unsure, sent, answered, late>>
      /\ UNCHANGED <<shown, entries, fetches>>
      /\ status' = [m \in Merchants |-> IF m \in c.ids THEN c.verdict ELSE status[m]]
      /\ calls' = (calls \ {c}) \cup {d} /\ \A m \in c.ids : status[m] = "review"
  BY DEF Perform, form, lists, Accepts
<1>2. c \in Call /\ c.verdict \in Verdicts
  BY DEF ListsInv, ListsTypes, CheckerOK, Call
<1>3. d \in Call /\ d.sure = c.sure /\ d.ids = c.ids /\ d.meant = c.meant /\ d.page = c.page
  BY <1>2 DEF Call
<1>4. ListsTypes'
  <2>1. Typed(entries, fetches)' /\ ShownOK'
    BY <1>1 DEF ListsInv, ListsTypes, Typed, ShownOK
  <2>2. status' \in [Merchants -> Status] /\ calls' \subseteq Call
    BY <1>1, <1>2, <1>3 DEF ListsInv, ListsTypes, CheckerOK, Status
  <2>3. CheckerOK'
    BY <1>1, <2>2 DEF ListsInv, ListsTypes, CheckerOK
  <2> QED BY <2>1, <2>3 DEF ListsTypes
<1>5. PendingOK'
  <2>1. IF d.page = Here THEN shown.list = "pending" ELSE d.page.list = "pending"
    BY <1>3 DEF ListsInv, PendingOK
  <2> HIDE DEF d
  <2> QED BY <1>1, <2>1 DEF ListsInv, PendingOK
<1>6. FreshOK'
  BY <1>1 DEF ListsInv, FreshOK
<1>7. FollowOK'
  <2>1. \A a \in answered : status'[a.merchant] = a.verdict
    BY <1>1, VerdictFact DEF ListsInv, FollowOK, ListsTypes, CheckerOK
  <2> QED BY <1>1, <1>4, <2>1, FollowKept DEF ListsInv
<1>8. TicksOK'
  <2>1. d.sure => d.ids = d.meant
    BY <1>3 DEF ListsInv, TicksOK, DecidesWhatWasTicked
  <2> HIDE DEF d
  <2>2. ticks = {} \/ unsure
    BY DEF ListsInv, TicksOK
  <2> QED BY <1>1, <2>1, <2>2 DEF ListsInv, TicksOK, DecidesWhatWasTicked
<1> QED BY <1>4, <1>5, <1>6, <1>7, <1>8 DEF ListsInv

LEMMA ElsewhereStep ==
  ASSUME ListsInv, NEW m \in Merchants, Elsewhere(m)
  PROVE  ListsInv'
<1>1. /\ UNCHANGED <<filter, ticks, dialog, meant, unsure, sent, calls, late>>
      /\ UNCHANGED <<shown, entries, fetches>>
      /\ elsewhere < MaxElsewhere /\ elsewhere' = elsewhere + 1
      /\ answered' = {a \in answered : a.merchant # m}
  BY DEF Elsewhere, form, lists
<1>2. status' \in [Merchants -> Status] /\ \A n \in Merchants \ {m} : status'[n] = status[n]
  BY DEF Elsewhere, ListsInv, ListsTypes, CheckerOK, Status
<1>3. ListsTypes'
  <2>1. Typed(entries, fetches)' /\ ShownOK'
    BY <1>1 DEF ListsInv, ListsTypes, Typed, ShownOK
  <2>2. elsewhere' \in 0..MaxElsewhere
    BY <1>1, ListsAssumption DEF ListsInv, ListsTypes, CheckerOK
  <2>3. CheckerOK'
    BY <1>1, <1>2, <2>2 DEF ListsInv, ListsTypes, CheckerOK
  <2> QED BY <2>1, <2>3 DEF ListsTypes
<1>4. PendingOK' /\ FreshOK'
  BY <1>1 DEF ListsInv, PendingOK, FreshOK
<1>5. FollowOK'
  <2>1. \A a \in answered' : status'[a.merchant] = a.verdict
    BY <1>1, <1>2 DEF ListsInv, FollowOK, ListsTypes, CheckerOK
  <2> QED BY <1>1, <1>3, <2>1, FollowKept DEF ListsInv
<1>6. TicksOK'
  BY <1>1 DEF ListsInv, TicksOK, DecidesWhatWasTicked, Selected, Rows
<1> QED BY <1>3, <1>4, <1>5, <1>6 DEF ListsInv

(* What the backend answers to fetch k goes on, with f.                      *)
LEMMA ServedStep ==
  ASSUME ListsInv, NEW k \in Keys, NEW f \in Fetched, RowsOK(k, f.rows),
         f.state = "read" => f.rows = PageOf(k),
         fetches[k] # NoFetch, fetches' = [fetches EXCEPT ![k] = f],
         UNCHANGED <<status, elsewhere, filter, ticks, dialog, meant, unsure, sent, calls, answered>>,
         UNCHANGED <<shown, entries>>, late' \in {late, late \ {k}},
         f.state = "read" \/ late' = late
  PROVE  ListsInv'
<1>1. fetches'[k] = f /\ \A j \in Keys \ {k} : fetches'[j] = fetches[j]
  BY DEF ListsInv, ListsTypes, Typed
<1>2. f # NoFetch
  BY DEF NoFetch, Fetched
<1>3. ListsTypes'
  <2>1. Typed(entries, fetches)'
    <3>1. fetches' = [j \in Keys |-> fetches'[j]]
      BY DEF ListsInv, ListsTypes, Typed
    <3> QED BY <1>1, <3>1 DEF ListsInv, ListsTypes, Typed, FetchOK
  <2>2. ShownOK' /\ CheckerOK'
    BY DEF ListsInv, ListsTypes, ShownOK, CheckerOK
  <2> QED BY <2>1, <2>2 DEF ListsTypes
<1>4. PendingOK'
  BY DEF ListsInv, PendingOK
<1>5. FreshOK'
  BY <1>1, <1>2 DEF ListsInv, FreshOK, ListsTypes, ShownOK
<1>6. FollowOK'
  <2>1. ASSUME NEW a \in answered
        PROVE  /\ status[a.merchant] = a.verdict /\ a.key.list = "pending"
               /\ a.merchant \in Merchants /\ a.verdict \in Verdicts /\ a.key \in Keys
    BY DEF ListsInv, FollowOK, ListsTypes, CheckerOK
  <2>2. ASSUME NEW a \in answered, a.key \notin late'
        PROVE  Gone(a.merchant, entries[a.key], fetches'[a.key])
    <3>1. a.key # k => Gone(a.merchant, entries[a.key], fetches[a.key])
      BY <2>2 DEF ListsInv, FollowOK
    <3>2. a.merchant \notin Matching("pending", k.filter)
      BY <2>1, VerdictFact DEF Matching, StatusOf
    <3>3. CASE a.key = k
      BY <1>1, <1>2, <2>1, <3>2, <3>3, PageFact DEF Gone
    <3> QED BY <1>1, <2>1, <3>1, <3>3
  <2>3. ASSUME NEW a \in answered, Report(a) \in Keys \ late'
        PROVE  Reported(a.merchant, entries[Report(a)], fetches'[Report(a)])
    <3>1. Report(a) # k => Reported(a.merchant, entries[Report(a)], fetches[Report(a)])
      BY <2>3 DEF ListsInv, FollowOK
    <3>2. /\ Report(a).list = a.verdict /\ Report(a).filter = FALSE /\ Report(a).page = 1
          /\ a.merchant \in Matching(a.verdict, FALSE)
      <4>1. a.merchant \in Matching(a.verdict, FALSE)
        BY <2>1, VerdictFact DEF Matching
      <4> QED BY <4>1 DEF Report, Key
    <3>3. CASE Report(a) = k
      BY <1>1, <1>2, <3>2, <3>3, PageFact DEF Reported
    <3> QED BY <1>1, <2>3, <3>1, <3>3
  <2> DEFINE g == fetches'
  <2> HIDE DEF g
  <2>4. \A a \in answered' : /\ status'[a.merchant] = a.verdict /\ a.key.list = "pending"
                             /\ a.key \notin late' => Gone(a.merchant, entries[a.key], g[a.key])
                             /\ Report(a) \in Keys \ late' =>
                                  Reported(a.merchant, entries[Report(a)], g[Report(a)])
    BY <2>1, <2>2, <2>3 DEF g
  <2>5. \A j \in Keys : fetches'[j] \in {g[j], Asked}
    BY DEF g
  <2> QED BY <1>3, <2>4, <2>5, FollowShown
<1>7. TicksOK'
  <2>1. fetches'[shown] = fetches[shown] \/ fetches[shown] # NoFetch
    BY <1>1 DEF ListsInv, ListsTypes, ShownOK
  <2> QED BY <2>1 DEF ListsInv, TicksOK, DecidesWhatWasTicked, Selected, Rows
<1> QED BY <1>3, <1>4, <1>5, <1>6, <1>7 DEF ListsInv

LEMMA CountStep ==
  ASSUME ListsInv, NEW k \in Keys, Count(k)
  PROVE  ListsInv'
<1> DEFINE f == [state |-> "counted", rows |-> << >>, pages |-> PagesOf(k)]
<1>1. << >> \in Seq(Merchants) /\ RowsOK(k, << >>)
  <2>1. << >> \in Seq(Merchants) /\ Len(<< >>) = 0 /\ DOMAIN << >> = {} /\ ToSet(<< >>) = {}
        /\ IsInjective(<< >>)
    BY EmptySeq DEF ToSet, IsInjective
  <2> QED BY <2>1, ListsAssumption DEF RowsOK
<1>2. f \in Fetched /\ RowsOK(k, f.rows) /\ f.state # "read"
  BY <1>1, PageFact DEF Fetched
<1>3. /\ UNCHANGED <<status, elsewhere, filter, ticks, dialog, meant, unsure, sent, calls, answered, late>>
      /\ UNCHANGED <<shown, entries>>
      /\ fetches[k] # NoFetch /\ fetches' = [fetches EXCEPT ![k] = f]
  BY FetchFact DEF Count, form
<1> HIDE DEF f
<1> QED BY <1>2, <1>3, ServedStep

LEMMA ReadStep ==
  ASSUME ListsInv, NEW k \in Keys, Read(k)
  PROVE  ListsInv'
<1> DEFINE f == [state |-> "read", rows |-> PageOf(k), pages |-> fetches[k].pages]
<1>1. fetches[k].state = "counted" /\ fetches' = [fetches EXCEPT ![k] = f]
  BY DEF Read
<1>2. fetches[k] \in Fetched /\ fetches[k] # NoFetch
  BY <1>1, FetchFact DEF ListsInv, ListsTypes, Typed, FetchOK
<1>3. f \in Fetched /\ RowsOK(k, f.rows) /\ f.rows = PageOf(k)
  BY <1>2, PageFact DEF Fetched, RowsOK
<1>4. /\ UNCHANGED <<status, elsewhere, filter, ticks, dialog, meant, unsure, sent, calls, answered>>
      /\ UNCHANGED <<shown, entries>> /\ late' = late \ {k} /\ f.state = "read"
  BY DEF Read, form
<1> HIDE DEF f
<1> QED BY <1>1, <1>2, <1>3, <1>4, ServedStep

LEMMA SettleStep ==
  ASSUME ListsInv, NEW k \in Keys, NEW entry, EntryOK(k, entry), Settle(k, entry),
         fetches[k] # NoFetch, entry.error \/ ~entry.old,
         k \notin late => \A a \in answered :
           /\ a.key = k => Gone(a.merchant, entry, NoFetch)
           /\ Report(a) = k => Reported(a.merchant, entry, NoFetch)
  PROVE  ListsInv'
<1> DEFINE cached == [entries EXCEPT ![k] = entry]
           under == [fetches EXCEPT ![k] = NoFetch]
<1>1. /\ UNCHANGED <<status, elsewhere, filter, ticks, dialog, meant, sent, calls, answered, late>>
      /\ IF k = shown THEN Render(shown.page, cached, under)
         ELSE entries' = cached /\ fetches' = under /\ UNCHANGED <<shown, unsure>>
  BY DEF Settle
<1>2. /\ cached[k] = entry /\ under[k] = NoFetch
      /\ \A j \in Keys \ {k} : cached[j] = entries[j] /\ under[j] = fetches[j]
  BY DEF ListsInv, ListsTypes, Typed
<1>3. Typed(cached, under)
  <2>1. cached = [j \in Keys |-> cached[j]] /\ under = [j \in Keys |-> under[j]]
    BY DEF ListsInv, ListsTypes, Typed
  <2> HIDE DEF cached, under
  <2> QED BY <1>2, <2>1 DEF ListsInv, ListsTypes, Typed, FetchOK
<1> HIDE DEF cached, under
<1>4. /\ Typed(entries, fetches)' /\ ShownOK' /\ shown'.list = shown.list /\ unsure' \in BOOLEAN
      /\ entries' = cached /\ \A j \in Keys : fetches'[j] \in {under[j], Asked}
      /\ FreshOK'
      /\ ticks # {} /\ ~unsure' => ~unsure /\ (k # shown => fetches' = under /\ shown' = shown)
  <2>1. CASE k = shown
    <3>1. Render(shown.page, cached, under) /\ filter' = filter
      BY <1>1, <2>1
    <3>2. /\ Displays(cached, under) /\ ShownOK' /\ shown'.list = shown.list
          /\ unsure' \in BOOLEAN
          /\ ticks # {} /\ ~unsure' => ~unsure /\ shown' = shown /\ fetches' = under
      BY <1>3, <3>1, RenderFact DEF ListsInv
    <3>3. FreshOK'
      BY <1>2, <2>1, <3>2, FreshShown
    <3> QED BY <2>1, <3>2, <3>3 DEF Displays
  <2>2. CASE k # shown
    <3>1. entries' = cached /\ fetches' = under /\ UNCHANGED <<shown, unsure, filter>>
      BY <1>1, <2>2
    <3>2. FreshOK'
      BY <1>2, <2>2, <3>1 DEF FreshOK, ListsInv, ListsTypes, ShownOK
    <3> QED BY <1>3, <2>2, <3>1, <3>2 DEF ListsInv, ListsTypes, ShownOK, CheckerOK
  <2> QED BY <2>1, <2>2
<1>5. ListsTypes'
  <2>1. CheckerOK'
    BY <1>1, <1>4 DEF ListsInv, ListsTypes, CheckerOK
  <2> QED BY <1>4, <2>1 DEF ListsTypes
<1>6. PendingOK'
  BY <1>1, <1>4 DEF ListsInv, PendingOK
<1>7. FollowOK'
  <2>1. ASSUME NEW a \in answered
        PROVE  /\ status[a.merchant] = a.verdict /\ a.key.list = "pending" /\ a.key \in Keys
               /\ a.key \notin late => Gone(a.merchant, cached[a.key], under[a.key])
    BY <1>2 DEF ListsInv, FollowOK, ListsTypes, CheckerOK
  <2>2. ASSUME NEW a \in answered, Report(a) \in Keys \ late
        PROVE  Reported(a.merchant, cached[Report(a)], under[Report(a)])
    BY <1>2, <2>2 DEF ListsInv, FollowOK
  <2>3. \A a \in answered' : /\ status'[a.merchant] = a.verdict /\ a.key.list = "pending"
                             /\ a.key \notin late' => Gone(a.merchant, cached[a.key], under[a.key])
                             /\ Report(a) \in Keys \ late' =>
                                  Reported(a.merchant, cached[Report(a)], under[Report(a)])
    BY <1>1, <2>1, <2>2
  <2> QED BY <1>4, <1>5, <2>3, FollowShown
<1>8. TicksOK'
  <2>1. ASSUME ticks # {}, ~unsure'
        PROVE  calls = {} /\ fetches'[shown'] = NoFetch /\ meant = Selected'
    <3>1. ~unsure /\ calls = {} /\ fetches[shown] = NoFetch /\ meant = Selected
      BY <1>4, <2>1 DEF ListsInv, TicksOK
    <3>2. k # shown
      BY <3>1
    <3>3. fetches' = under /\ shown' = shown /\ entries' = cached /\ shown \in Keys
      BY <1>4, <2>1, <3>2 DEF ListsInv, ListsTypes, ShownOK
    <3>4. fetches'[shown'] = fetches[shown] /\ entries'[shown'] = entries[shown]
      BY <1>2, <3>2, <3>3
    <3> QED BY <1>1, <3>1, <3>3, <3>4 DEF Selected, Rows
  <2> QED BY <1>1, <2>1 DEF ListsInv, TicksOK, DecidesWhatWasTicked
<1> QED BY <1>4, <1>5, <1>6, <1>7, <1>8 DEF ListsInv

LEMMA DeliverStep ==
  ASSUME ListsInv, NEW k \in Keys, Deliver(k)
  PROVE  ListsInv'
<1> DEFINE f == fetches[k]
           entry == [rows |-> f.rows, pages |-> f.pages, got |-> TRUE, old |-> FALSE, error |-> FALSE]
<1>1. f.state = "read" /\ Settle(k, entry)
  BY DEF Deliver
<1>2. f \in Fetched /\ RowsOK(k, f.rows) /\ f # NoFetch
  BY <1>1, FetchFact DEF ListsInv, ListsTypes, Typed, FetchOK
<1>3. EntryOK(k, entry)
  BY <1>2 DEF EntryOK, Entry, Fetched
<1>4. k \notin late => \A a \in answered : a.key = k => Gone(a.merchant, entry, NoFetch)
  BY <1>1, FetchFact DEF ListsInv, FollowOK, Gone
<1>5. k \notin late => \A a \in answered : Report(a) = k => Reported(a.merchant, entry, NoFetch)
  BY <1>1, FetchFact DEF ListsInv, FollowOK, Reported
<1>6. ~entry.old
  OBVIOUS
<1> HIDE DEF entry
<1> QED BY <1>1, <1>2, <1>3, <1>4, <1>5, <1>6, SettleStep

LEMMA FetchFailsStep ==
  ASSUME ListsInv, NEW k \in Keys, FetchFails(k)
  PROVE  ListsInv'
<1> DEFINE entry == [entries[k] EXCEPT !.error = TRUE]
<1>1. fetches[k] # NoFetch /\ Settle(k, entry)
  BY DEF FetchFails
<1>2. EntryOK(k, entry) /\ entry.error
  BY DEF ListsInv, ListsTypes, Typed, EntryOK, Entry
<1> HIDE DEF entry
<1>3. \A m : Gone(m, entry, NoFetch) /\ Reported(m, entry, NoFetch)
  BY <1>2, FetchFact DEF Gone, Reported
<1> QED BY <1>1, <1>2, <1>3, SettleStep

-----------------------------------------------------------------------------
(* Verdicts are answered.                                                    *)
LEMMA RenderAfterFact ==
  ASSUME ListsInv, NEW c \in calls, NEW cached, NEW under, Typed(cached, under),
         RenderAfter(c, cached, under), UNCHANGED <<filter, ticks>>,
         under[shown] = NoFetch => cached[shown].error \/ ~cached[shown].old
  PROVE  /\ Typed(entries, fetches)' /\ ShownOK' /\ shown'.list = shown.list
         /\ unsure' \in BOOLEAN /\ FreshOK' /\ (ticks' = {} \/ unsure')
         /\ entries' = cached /\ \A j \in Keys : fetches'[j] \in {under[j], Asked}
<1>1. ticks = {} \/ unsure
  BY DEF ListsInv, TicksOK
<1>2. CASE Render(shown.page, cached, under)
  <2>1. /\ Displays(cached, under) /\ ShownOK' /\ shown'.list = shown.list
        /\ unsure' \in BOOLEAN
        /\ ticks # {} /\ ~unsure' => ~unsure /\ shown' = shown /\ fetches' = under
    BY <1>2, RenderFact DEF ListsInv
  <2>2. FreshOK'
    BY <2>1, FreshShown
  <2> QED BY <1>1, <2>1, <2>2 DEF Displays
<1>3. CASE entries' = cached /\ fetches' = under /\ UNCHANGED <<shown, unsure>>
  BY <1>1, <1>3 DEF ListsInv, ListsTypes, ShownOK, CheckerOK, FreshOK
<1> QED BY <1>2, <1>3 DEF RenderAfter

LEMMA AnswerStep ==
  ASSUME ListsInv, NEW c \in calls, Answer(c)
  PROVE  ListsInv'
<1> DEFINE key == IF c.page = Here THEN shown ELSE c.page
           old == Outdated(c.verdict)
           again == {key} \cup ({shown} \cap old)
           cached == [k \in Keys |-> [entries[k] EXCEPT !.old = @ \/ k \in old]]
           under == Refetching(again)
           new == {[merchant |-> m, verdict |-> c.verdict, key |-> key] :
                     m \in {n \in c.ids : status[n] = c.verdict}}
<1>1. /\ UNCHANGED <<status, elsewhere, filter, ticks, dialog, meant, sent>>
      /\ calls' = calls \ {c} /\ RenderAfter(c, cached, under)
      /\ answered' = answered \cup new
      /\ late' = late \cup {k \in again \cup old : under[k].state = "read"}
  BY DEF Answer
<1>2. /\ c \in Call /\ c.verdict \in Verdicts /\ c.ids \subseteq Merchants
      /\ shown \in Keys /\ key \in Keys /\ key.list = "pending"
      /\ old = {k \in Keys : k.list = c.verdict}
  <2>1. c \in Call /\ shown \in Keys
    BY DEF ListsInv, ListsTypes, CheckerOK, ShownOK
  <2>2. key \in Keys
    BY <2>1 DEF Call
  <2>3. key.list = "pending"
    BY DEF ListsInv, PendingOK
  <2> QED BY <2>1, <2>2, <2>3 DEF Call, Outdated
<1>3. ASSUME NEW k \in Keys
      PROVE  /\ cached[k].rows = entries[k].rows /\ cached[k].pages = entries[k].pages
             /\ cached[k].error = entries[k].error /\ cached[k].old = (entries[k].old \/ k \in old)
             /\ under[k] \in {fetches[k], Asked} /\ (k \in again => under[k] # NoFetch)
             /\ EntryOK(k, cached[k]) /\ FetchOK(k, under[k])
  <2>1. EntryOK(k, entries[k]) /\ FetchOK(k, fetches[k])
    BY DEF ListsInv, ListsTypes, Typed
  <2>2. /\ under[k] \in {fetches[k], Asked} /\ (k \in again => under[k] # NoFetch)
        /\ FetchOK(k, under[k])
    BY AgainFact DEF ListsInv
  <2> HIDE DEF under, old, again
  <2>3. cached[k] = [entries[k] EXCEPT !.old = @ \/ k \in old]
    OBVIOUS
  <2> QED BY <2>1, <2>2, <2>3 DEF EntryOK, Entry
<1>4. cached = [k \in Keys |-> cached[k]] /\ under = [k \in Keys |-> under[k]]
  BY DEF Refetching
<1> HIDE DEF cached, under
<1>5. Typed(cached, under)
  BY <1>3, <1>4 DEF Typed
<1>6. under[shown] = NoFetch => cached[shown].error \/ ~cached[shown].old
  BY <1>2, <1>3, FetchFact DEF ListsInv, FreshOK
<1>7. /\ Typed(entries, fetches)' /\ ShownOK' /\ shown'.list = shown.list
      /\ unsure' \in BOOLEAN /\ FreshOK' /\ (ticks' = {} \/ unsure')
      /\ entries' = cached /\ \A j \in Keys : fetches'[j] \in {under[j], Asked}
  BY <1>1, <1>5, <1>6, RenderAfterFact
<1>8. ListsTypes'
  <2>1. answered' \subseteq [merchant : Merchants, verdict : Verdicts, key : Keys]
    BY <1>1, <1>2 DEF ListsInv, ListsTypes, CheckerOK
  <2>2. late' \subseteq Keys
    BY <1>1, <1>2 DEF ListsInv, ListsTypes, CheckerOK
  <2>3. CheckerOK'
    BY <1>1, <1>7, <2>1, <2>2 DEF ListsInv, ListsTypes, CheckerOK
  <2> QED BY <1>7, <2>3 DEF ListsTypes
<1>9. PendingOK'
  BY <1>1, <1>7 DEF ListsInv, PendingOK
<1>10. FollowOK'
  <2>0. late \subseteq late' /\ \A k \in again \cup old : k \notin late' => under[k].state # "read"
    BY <1>1
  <2>1. ASSUME NEW a \in answered'
        PROVE  status[a.merchant] = a.verdict /\ a.key.list = "pending" /\ a.key \in Keys
    BY <1>1, <1>2 DEF ListsInv, FollowOK, ListsTypes, CheckerOK
  <2>2. ASSUME NEW a \in answered', a.key \notin late'
        PROVE  Gone(a.merchant, cached[a.key], under[a.key])
    <3>1. CASE a \in answered
      <4>1. Gone(a.merchant, entries[a.key], fetches[a.key])
        BY <2>0, <2>2, <3>1 DEF ListsInv, FollowOK
      <4> QED BY <1>3, <2>1, <4>1, FetchFact DEF Gone
    <3>2. CASE a \in new
      <4>1. a.key = key /\ key \in again
        BY <3>2
      <4>2. under[a.key] # NoFetch /\ under[a.key].state # "read"
        BY <1>2, <1>3, <2>0, <2>2, <4>1
      <4> QED BY <4>2 DEF Gone
    <3> QED BY <1>1, <3>1, <3>2
  <2>3. ASSUME NEW a \in answered', Report(a) \in Keys \ late'
        PROVE  Reported(a.merchant, cached[Report(a)], under[Report(a)])
    <3>1. CASE a \in answered
      <4>1. Reported(a.merchant, entries[Report(a)], fetches[Report(a)])
        BY <2>0, <2>3, <3>1 DEF ListsInv, FollowOK
      <4> QED BY <1>3, <2>3, <4>1, FetchFact DEF Reported
    <3>2. CASE a \in new
      <4>1. Report(a) \in old
        BY <1>2, <2>3, <3>2 DEF Report, Key
      <4>2. under[Report(a)].state # "read" /\ cached[Report(a)].old
        BY <1>3, <2>0, <2>3, <4>1
      <4> QED BY <4>2 DEF Reported
    <3> QED BY <1>1, <3>1, <3>2
  <2>4. \A a \in answered' : /\ status'[a.merchant] = a.verdict /\ a.key.list = "pending"
                             /\ a.key \notin late' => Gone(a.merchant, cached[a.key], under[a.key])
                             /\ Report(a) \in Keys \ late' =>
                                  Reported(a.merchant, cached[Report(a)], under[Report(a)])
    BY <1>1, <2>1, <2>2, <2>3
  <2> QED BY <1>7, <1>8, <2>4, FollowShown
<1>11. TicksOK'
  BY <1>1, <1>7 DEF ListsInv, TicksOK, DecidesWhatWasTicked
<1> QED BY <1>7, <1>8, <1>9, <1>10, <1>11 DEF ListsInv

LEMMA FailsStep ==
  ASSUME ListsInv, NEW c \in calls, Fails(c)
  PROVE  ListsInv'
<1>1. /\ UNCHANGED <<status, elsewhere, filter, ticks, dialog, meant, sent, answered, late>>
      /\ calls' = calls \ {c} /\ RenderAfter(c, entries, fetches)
  BY DEF Fails
<1>2. /\ Typed(entries, fetches)' /\ ShownOK' /\ shown'.list = shown.list
      /\ unsure' \in BOOLEAN /\ FreshOK' /\ (ticks' = {} \/ unsure')
      /\ entries' = entries /\ \A j \in Keys : fetches'[j] \in {fetches[j], Asked}
  BY <1>1, TypedNow, RenderAfterFact DEF ListsInv, FreshOK
<1>3. ListsTypes'
  <2>1. CheckerOK'
    BY <1>1, <1>2 DEF ListsInv, ListsTypes, CheckerOK
  <2> QED BY <1>2, <2>1 DEF ListsTypes
<1>4. PendingOK'
  BY <1>1, <1>2 DEF ListsInv, PendingOK
<1>5. FollowOK'
  BY <1>1, <1>2, <1>3, FollowKept DEF ListsInv, FollowOK
<1>6. TicksOK'
  BY <1>1, <1>2 DEF ListsInv, TicksOK, DecidesWhatWasTicked
<1> QED BY <1>2, <1>3, <1>4, <1>5, <1>6 DEF ListsInv

-----------------------------------------------------------------------------
LEMMA ListsInvNext ==
  ASSUME ListsInv, [ListsNext]_listsVars
  PROVE  ListsInv'
<1>1. CASE UNCHANGED listsVars
  <2>1. /\ UNCHANGED <<status, elsewhere, filter, ticks, dialog, meant, unsure>>
        /\ UNCHANGED <<shown, entries, fetches, sent, calls, answered, late>>
    BY <1>1 DEF listsVars, form, lists
  <2>2. ListsTypes'
    BY <2>1 DEF ListsInv, ListsTypes, Typed, ShownOK, CheckerOK
  <2>3. PendingOK' /\ FreshOK' /\ FollowOK'
    BY <2>1 DEF ListsInv, PendingOK, FreshOK, FollowOK
  <2>4. TicksOK'
    BY <2>1 DEF ListsInv, TicksOK, DecidesWhatWasTicked, Selected, Rows
  <2> QED BY <2>2, <2>3, <2>4 DEF ListsInv
<1>2. CASE EnterFilter \/ Search \/ TurnPage \/ \E l \in {k.list : k \in Keys} : Open(l)
  BY <1>2, EnterFilterStep, SearchStep, TurnPageStep, OpenStep
<1>3. CASE TickAll \/ \E i \in 1..PageSize : Tick(i)
  BY <1>3, TickAllStep, TickStep
<1>4. CASE Dismiss \/ GiveReason \/ Confirm \/ \E v \in Verdicts : Ask(v)
  BY <1>4, DialogStep, ConfirmStep, AskStep
<1>5. CASE \E c \in calls : Perform(c) \/ Answer(c) \/ Fails(c)
  BY <1>5, PerformStep, AnswerStep, FailsStep
<1>6. CASE \E k \in Keys : Count(k) \/ Read(k) \/ Deliver(k) \/ FetchFails(k)
  BY <1>6, CountStep, ReadStep, DeliverStep, FetchFailsStep
<1>7. CASE \E m \in Merchants : Elsewhere(m)
  BY <1>7, ElsewhereStep
<1> QED BY <1>1, <1>2, <1>3, <1>4, <1>5, <1>6, <1>7 DEF ListsNext

LEMMA ListsInvariant == ListsSpec => []ListsInv
BY ListsInvInit, ListsInvNext, PTL DEF ListsSpec

(* What is fetched and shown, ticked and asked for keeps its type: the rows of *)
(* a page are different merchants that its filter lets through.              *)
THEOREM ListsTypeCorrect == ListsSpec => []TypeOK
<1>1. ListsInv => TypeOK
  <2> SUFFICES ASSUME ListsInv PROVE TypeOK
    OBVIOUS
  <2>1. ASSUME NEW k \in Keys
        PROVE  /\ DOMAIN Rows(k) \subseteq 1..PageSize /\ IsInjective(Rows(k))
               /\ ToSet(Rows(k)) \subseteq IF k.filter THEN Filtered ELSE Merchants
               /\ entries[k].got \/ entries[k].old
    <3>1. EntryOK(k, entries[k]) /\ RowsOK(k, Rows(k))
      BY DEF ListsInv, ListsTypes, Typed, EntryOK, Rows
    <3>2. DOMAIN Rows(k) = 1..Len(Rows(k)) /\ Len(Rows(k)) \in Nat /\ Len(Rows(k)) <= PageSize
      BY <3>1, LenProperties DEF RowsOK
    <3>3. DOMAIN Rows(k) \subseteq 1..PageSize
      BY <3>2, ListsAssumption
    <3> QED BY <3>1, <3>3 DEF EntryOK, RowsOK, MayHold
  <2>2. DOMAIN fetches = Keys
    BY DEF ListsInv, ListsTypes, Typed
  <2> QED BY <2>1, <2>2 DEF TypeOK, ListsInv, ListsTypes, ShownOK, CheckerOK, Status
<1> QED BY <1>1, ListsInvariant, PTL

(* A verdict is on the merchants that were ticked, when no list was fetched or *)
(* shown beneath the ticks and no verdict was under way.                     *)
THEOREM AlwaysDecidesWhatWasTicked == ListsSpec => []DecidesWhatWasTicked
<1>1. ListsInv => DecidesWhatWasTicked
  BY DEF ListsInv, TicksOK
<1> QED BY <1>1, ListsInvariant, PTL

(* The list that was shown when a verdict was confirmed, and the report of its *)
(* kind if that has room, know of it whenever they are shown, unless the rows *)
(* had been read before and the fetch went on (PendingMerchantRecords, the    *)
(* hooks of a verdict).                                                     *)
THEOREM ListsAlwaysFollowVerdicts == ListsSpec => []ListsFollowVerdicts
<1>1. ListsInv => ListsFollowVerdicts
  <2> SUFFICES ASSUME ListsInv, Visible, shown \notin late, NEW a \in answered
               PROVE  /\ shown = a.key => a.merchant \notin ToSet(Rows(shown))
                      /\ shown = Key(a.verdict, FALSE, 1) /\ Len(Rows(shown)) < PageSize
                           => a.merchant \in ToSet(Rows(shown))
    BY DEF ListsFollowVerdicts
  <2>1. fetches[shown] = NoFetch /\ ~entries[shown].error /\ ~entries[shown].old /\ shown \in Keys
    BY DEF Visible, ListsInv, FreshOK, ListsTypes, ShownOK
  <2>2. shown = a.key => a.merchant \notin ToSet(Rows(shown))
    BY <2>1 DEF ListsInv, FollowOK, Gone, Rows
  <2>3. ASSUME shown = Report(a), Len(Rows(shown)) < PageSize
        PROVE  a.merchant \in ToSet(Rows(shown))
    BY <2>1, <2>3 DEF ListsInv, FollowOK, Reported, Rows
  <2> QED BY <2>2, <2>3 DEF Report
<1> QED BY <1>1, ListsInvariant, PTL
=============================================================================
