--------------------------- MODULE PortalSession ---------------------------
(***************************************************************************)
(* The session of the portal as the frontend keeps it.  The token and the   *)
(* mark of a temporary password are in the storage that all tabs share; each *)
(* tab has its page, the data it holds and the route that `/' leads to.     *)
(* A request carries the token that is stored when it is sent, and its       *)
(* answer may arrive when another is stored: other tabs log in and out, an   *)
(* administrator issues a temporary password, a token runs out.             *)
(*                                                                         *)
(* Of the backend there is what its answers depend on, with one step for a   *)
(* handler and two for the login: the sessions that it accepts, and the      *)
(* users that must change their passwords.  A request that fails was served  *)
(* before, or never is.                                                     *)
(***************************************************************************)
EXTENDS Naturals, Sequences

CONSTANTS
  Tabs, Users, None,
  Hub,           \* users whose portal is the hub's
  MaxSessions,   \* logins
  MaxIssued      \* temporary passwords issued while the portal is in use

ASSUME PortalAssumption ==
  Hub \subseteq Users /\ None \notin Nat /\ MaxSessions \in Nat /\ MaxIssued \in Nat

VARIABLES
  token, flag,     \* localStorage: a session, and true, false or none
  owner,           \* backend: the user of each session
  open,            \* backend: sessions it accepts
  expired,         \* tokens that ran out
  must,            \* backend: users with a temporary password
  issued,
  page,            \* of each tab: login, change or inside
  target,          \* of each tab: where `/' leads: home, hub or change
  cache,           \* of each tab: the users whose data it has
  ask, query,      \* of each tab: the profile asked for by Routes, a query, or None
  call,            \* of each tab: the request of a page, or None
  crossed,         \* history: the flag is from a profile of another session
  raced,           \* history: sessions whose login answered what no longer held
  leftover         \* history: tabs with data from before the token was replaced or taken

storage == <<token, flag, crossed>>
backend == <<owner, open, expired, must, issued, raced>>
requests == <<ask, query, call>>
vars == <<storage, backend, page, target, cache, requests, leftover>>

Set(f, t, v) == [f EXCEPT ![t] = v]

Init ==
  /\ token = None /\ flag = "none" /\ crossed = FALSE
  /\ owner = << >> /\ open = {} /\ expired = {} /\ must \in SUBSET Users
  /\ issued = 0 /\ raced = {}
  /\ page = [t \in Tabs |-> "login"] /\ target = [t \in Tabs |-> "home"]
  /\ cache = [t \in Tabs |-> {}]
  /\ ask = [t \in Tabs |-> None] /\ query = ask /\ call = ask
  /\ leftover = {}

-----------------------------------------------------------------------------
(* Requests.                                                                *)
Request(kind, u, s) == [kind |-> kind, user |-> u, sess |-> s, status |-> "sent", must |-> FALSE]

Ok(r) == [r EXCEPT !.status = "ok"]

(* What a request sees of its session; a user that has to change his password *)
(* is refused nothing that is asked for here.  When a query of the database   *)
(* fails, the answer is the same as to a session that is not accepted.       *)
Outcomes(sess) == IF sess \in open THEN {"ok", "failed"} ELSE {"unauthorized"}
Authenticate(r) == {[r EXCEPT !.status = outcome] : outcome \in Outcomes(r.sess)}

MustChange(r) == r.sess \in open /\ owner[r.sess] \in must

Is(r, kinds, status) == r # None /\ r.kind \in kinds /\ r.status = status
Refused(r, kinds) == Is(r, kinds, "unauthorized") \/ Is(r, kinds, "failed")

Holding == {x \in Tabs : cache[x] # {} \/ query[x] # None}

Drop == token' = None /\ flag' = "none" /\ crossed' = FALSE

(* Faulty: it ends whatever session there is.                                *)
FaultyRejected(t, r) ==
  IF token # None
  THEN /\ Drop /\ page' = Set(page, t, "login")
       /\ leftover' = leftover \cup Holding
  ELSE UNCHANGED <<storage, page, leftover>>

(* A 401 ends the session if the request was sent with the stored token.     *)
Rejected(t, r) ==
  IF token # None /\ r.sess = token
  THEN /\ Drop /\ page' = Set(page, t, "login")
       /\ leftover' = leftover \cup Holding
  ELSE UNCHANGED <<storage, page, leftover>>

-----------------------------------------------------------------------------
(* Where a route leads.                                                     *)
Stale == token = None \/ token \in expired

(* The page to change a password clears a token that ran out.                *)
ToChangePage(t) ==
  IF Stale THEN page' = Set(page, t, "login") /\ Drop /\ leftover' = leftover \cup Holding
  ELSE page' = Set(page, t, "change") /\ UNCHANGED <<storage, leftover>>

Layout(t) ==
  IF ~Stale /\ flag = "true" THEN ToChangePage(t)
  ELSE page' = Set(page, t, IF Stale THEN "login" ELSE "inside") /\ UNCHANGED <<storage, leftover>>

Go(t, p) ==
  CASE p = "login"  -> page' = Set(page, t, "login") /\ UNCHANGED <<storage, leftover>>
    [] p = "change" -> ToChangePage(t)
    [] p = "inside" -> Layout(t)

Pages == {"login", "change", "inside"}

(* A tab shows a page when its first profile has been answered.              *)
Ready(t) == ask[t] = None \/ target[t] # "home"

(* By links, and by the history of the browser.                              *)
Visit(t) ==
  /\ Ready(t)
  /\ \E p \in Pages : Go(t, p)
  /\ UNCHANGED <<backend, target, cache, requests>>

(* Opening or reloading the portal.                                         *)
Load(t) ==
  /\ call[t] = None /\ query[t] = None /\ ask[t] = None
  /\ \E p \in Pages : Go(t, p)
  /\ target' = Set(target, t, "home") /\ cache' = Set(cache, t, {})
  /\ ask' = Set(ask, t, IF token = None THEN None ELSE Request("profile", None, token))
  /\ UNCHANGED <<backend, query, call>>

ServeAsk(t) ==
  /\ Is(ask[t], {"profile"}, "sent")
  /\ \E a \in Authenticate(ask[t]) : ask' = Set(ask, t, [a EXCEPT !.must = MustChange(ask[t])])
  /\ UNCHANGED <<storage, backend, page, target, cache, query, call, leftover>>

TargetFor(t) ==
  IF ask[t].must THEN "change" ELSE IF owner[ask[t].sess] \in Hub THEN "hub" ELSE target[t]

(* The effect runs again when it changed where `/' leads.                    *)
AskArrives(t) ==
  /\ Is(ask[t], {"profile"}, "ok")
  /\ target' = Set(target, t, TargetFor(t))
  /\ ask' = Set(ask, t, IF target' # target /\ token # None
                        THEN Request("profile", None, token) ELSE None)
  /\ flag' = IF ask[t].must THEN "true" ELSE "false"
  /\ crossed' = (ask[t].sess # token)
  /\ page' = IF page[t] # "inside" THEN page
             ELSE Set(page, t, IF Stale THEN "login" ELSE IF ask[t].must THEN "change" ELSE "inside")
  /\ UNCHANGED <<token, backend, cache, query, call, leftover>>

AskRejected(t) ==
  /\ Refused(ask[t], {"profile"})
  /\ Rejected(t, ask[t])
  /\ ask' = Set(ask, t, None)
  /\ UNCHANGED <<backend, target, cache, query, call>>

-----------------------------------------------------------------------------
(* Logging in.                                                              *)
Login(t, u) ==
  /\ page[t] = "login" /\ call[t] = None /\ Ready(t)
  /\ call' = Set(call, t, Request("login", u, None))
  /\ UNCHANGED <<storage, backend, page, target, cache, ask, query, leftover>>

CheckLogin(t) ==
  /\ Is(call[t], {"login"}, "sent")
  /\ call' = Set(call, t, [call[t] EXCEPT !.status = "checked", !.must = call[t].user \in must])
  /\ UNCHANGED <<storage, backend, page, target, cache, ask, query, leftover>>

ServeLogin(t) ==
  /\ Is(call[t], {"login"}, "checked") /\ Len(owner) < MaxSessions
  /\ owner' = Append(owner, call[t].user)
  /\ open' = open \cup {Len(owner')}
  /\ raced' = IF call[t].must = (call[t].user \in must) THEN raced ELSE raced \cup {Len(owner')}
  /\ call' = Set(call, t, [Ok(call[t]) EXCEPT !.sess = Len(owner'), !.user = None])
  /\ UNCHANGED <<storage, expired, must, issued, page, target, cache, ask, query, leftover>>

(* Faulty: the mark of an earlier login stays.                               *)
FaultyLoginArrives(t) ==
  /\ Is(call[t], {"login"}, "ok")
  /\ token' = call[t].sess /\ flag' = (IF call[t].must THEN "true" ELSE flag)
  /\ crossed' = FALSE
  /\ call' = Set(call, t, IF call[t].must THEN None ELSE Request("enter", None, token'))
  /\ page' = IF call[t].must THEN Set(page, t, "change") ELSE page
  /\ leftover' = IF token = None THEN leftover ELSE leftover \cup Holding
  /\ UNCHANGED <<backend, target, cache, ask, query>>
LoginArrives(t) ==
  /\ Is(call[t], {"login"}, "ok")
  /\ token' = call[t].sess /\ flag' = (IF call[t].must THEN "true" ELSE "false")
  /\ crossed' = FALSE
  /\ call' = Set(call, t, IF call[t].must THEN None ELSE Request("enter", None, token'))
  /\ page' = IF call[t].must THEN Set(page, t, "change") ELSE page
  /\ leftover' = IF token = None THEN leftover ELSE leftover \cup Holding
  /\ UNCHANGED <<backend, target, cache, ask, query>>

ServeEnter(t) ==
  /\ Is(call[t], {"enter"}, "sent")
  /\ \E a \in Authenticate(call[t]) : call' = Set(call, t, a)
  /\ UNCHANGED <<storage, backend, page, target, cache, ask, query, leftover>>

(* Users of the hub are sent to a page of theirs, the others to `/'.         *)
EnterArrives(t) ==
  /\ Is(call[t], {"enter"}, "ok")
  /\ call' = Set(call, t, None)
  /\ IF owner[call[t].sess] \notin Hub /\ target[t] = "change" /\ ~Stale
     THEN ToChangePage(t) ELSE Layout(t)
  /\ UNCHANGED <<backend, target, cache, ask, query>>

-----------------------------------------------------------------------------
(* Working, and leaving.  Pages ask again for what was removed, while the    *)
(* logout is under way too.                                                 *)
Query(t) ==
  /\ page[t] = "inside" /\ Ready(t) /\ query[t] = None /\ token # None
  /\ query' = Set(query, t, Request("query", None, token))
  /\ UNCHANGED <<storage, backend, page, target, cache, ask, call, leftover>>

ServeQuery(t) ==
  /\ Is(query[t], {"query"}, "sent")
  /\ \E a \in Authenticate(query[t]) : query' = Set(query, t, a)
  /\ UNCHANGED <<storage, backend, page, target, cache, ask, call, leftover>>

QueryArrives(t) ==
  /\ Is(query[t], {"query"}, "ok")
  /\ cache' = Set(cache, t, cache[t] \cup {owner[query[t].sess]})
  /\ query' = Set(query, t, None)
  /\ UNCHANGED <<storage, backend, page, target, ask, call, leftover>>

QueryRejected(t) ==
  /\ Refused(query[t], {"query"})
  /\ Rejected(t, query[t])
  /\ query' = Set(query, t, None)
  /\ UNCHANGED <<backend, target, cache, ask, call>>

Logout(t) ==
  /\ page[t] = "inside" /\ call[t] = None /\ Ready(t)
  /\ call' = Set(call, t, Request("logout", None, token))
  /\ cache' = Set(cache, t, {}) /\ query' = Set(query, t, None)
  /\ UNCHANGED <<storage, backend, page, target, ask, leftover>>

ServeLogout(t) ==
  /\ Is(call[t], {"logout"}, "sent")
  /\ \E a \in Authenticate(call[t]) :
       /\ call' = Set(call, t, a)
       /\ open' = IF a.status = "ok" THEN open \ {call[t].sess} ELSE open
  /\ UNCHANGED <<storage, owner, expired, must, issued, raced, page, target, cache,
                 ask, query, leftover>>

ChangePassword(t) ==
  /\ page[t] = "change" /\ call[t] = None /\ Ready(t) /\ token # None
  /\ call' = Set(call, t, Request("change", None, token))
  /\ UNCHANGED <<storage, backend, page, target, cache, ask, query, leftover>>

ServeChange(t) ==
  /\ Is(call[t], {"change"}, "sent")
  /\ \E a \in Authenticate(call[t]) :
       /\ call' = Set(call, t, a)
       /\ IF a.status = "ok"
          THEN /\ must' = must \ {owner[call[t].sess]}
               /\ open' = {s \in open : owner[s] # owner[call[t].sess]}
          ELSE UNCHANGED <<must, open>>
  /\ UNCHANGED <<storage, owner, expired, issued, raced, page, target, cache,
                 ask, query, leftover>>

(* Faulty: what was asked for meanwhile stays.                               *)
FaultyDone(t) ==
  /\ Is(call[t], {"logout", "change"}, "ok")
  /\ Drop /\ page' = Set(page, t, "login") /\ call' = Set(call, t, None)
  /\ leftover' = (leftover \cup Holding) \ {t}
  /\ UNCHANGED <<backend, target, cache, ask, query>>
Done(t) ==
  /\ Is(call[t], {"logout", "change"}, "ok")
  /\ Drop /\ page' = Set(page, t, "login") /\ call' = Set(call, t, None)
  /\ cache' = Set(cache, t, {}) /\ query' = Set(query, t, None)
  /\ leftover' = (leftover \cup Holding) \ {t}
  /\ UNCHANGED <<backend, target, ask>>

(* A logout that fails, or whose answer is lost, ends the session here only. *)
LogoutFails(t) ==
  /\ call[t] # None /\ call[t].kind = "logout" /\ call[t].status # "ok"
  /\ Drop /\ leftover' = leftover \cup Holding
  /\ page' = IF Refused(call[t], {"logout"}) /\ call[t].sess = token
             THEN Set(page, t, "login") ELSE page
  /\ call' = Set(call, t, None)
  /\ UNCHANGED <<backend, target, cache, ask, query>>

CallRejected(t) ==
  /\ Refused(call[t], {"enter", "change"})
  /\ Rejected(t, call[t])
  /\ call' = Set(call, t, None)
  /\ UNCHANGED <<backend, target, cache, ask, query>>

(* The other refusals, and answers that do not arrive.                       *)
CallFails(t) ==
  /\ call[t] # None /\ call[t].kind \in {"login", "enter", "change"}
  /\ call' = Set(call, t, None)
  /\ UNCHANGED <<storage, backend, page, target, cache, ask, query, leftover>>

-----------------------------------------------------------------------------
TemporaryPassword(u) ==
  /\ issued < MaxIssued /\ issued' = issued + 1
  /\ must' = must \cup {u}
  /\ open' = {s \in open : owner[s] # u}
  /\ UNCHANGED <<storage, owner, expired, raced, page, target, cache, requests, leftover>>

Expire(s) ==
  /\ s \in open
  /\ open' = open \ {s} /\ expired' = expired \cup {s}
  /\ UNCHANGED <<storage, owner, must, issued, raced, page, target, cache, requests, leftover>>

Next ==
  \/ \E t \in Tabs :
       \/ Visit(t) \/ Load(t) \/ ServeAsk(t) \/ AskArrives(t) \/ AskRejected(t)
       \/ (\E u \in Users : Login(t, u))
       \/ CheckLogin(t) \/ ServeLogin(t) \/ LoginArrives(t) \/ ServeEnter(t) \/ EnterArrives(t)
       \/ Query(t) \/ ServeQuery(t) \/ QueryArrives(t) \/ QueryRejected(t)
       \/ Logout(t) \/ ServeLogout(t) \/ ChangePassword(t) \/ ServeChange(t)
       \/ Done(t) \/ LogoutFails(t) \/ CallRejected(t) \/ CallFails(t)
  \/ \E u \in Users : TemporaryPassword(u)
  \/ \E s \in open : Expire(s)

Spec == Init /\ [][Next]_vars

-----------------------------------------------------------------------------
(* While the backend accepts the stored token, the stored mark says whether  *)
(* its user has to change his password, unless the profile of another session *)
(* arrived late or the password was replaced during the login.               *)
FlagIsTrue ==
  token \in open \ raced /\ ~crossed => (flag = "true") = (owner[token] \in must)

Ends(t) ==
  /\ call[t] # None /\ call'[t] = None
  /\ call[t].kind = "logout" \/ Is(call[t], {"change"}, "ok")

(* The answer to a request of the stored token that a failing query refused.  *)
FailedOn(now, later) == now # None /\ now.status = "failed" /\ now.sess = token /\ later = None
QueryFailed(t) ==
  \/ FailedOn(ask[t], ask'[t])
  \/ FailedOn(query[t], query'[t])
  \/ FailedOn(call[t], call'[t])

(* A token that the backend accepts leaves the storage only when a tab logs  *)
(* out or has changed the password, or a query of the backend failed for a    *)
(* request of that very token: the 401 of an earlier session does not end a   *)
(* later one, whichever tab it belongs to.                                  *)
OpenStay ==
  [][(token \in open /\ token' = None) => \E t \in Tabs : Ends(t) \/ QueryFailed(t)]_vars

(* A tab that is inside shows data of the user whose token is stored, unless *)
(* the token of that data was taken from the tab or replaced: by a 401, by    *)
(* another tab, by a logout that failed, or by a login over the old session. *)
ShowsOwn ==
  \A t \in Tabs \ leftover :
    page[t] = "inside" /\ token # None => cache[t] \subseteq {owner[token]}
=============================================================================
