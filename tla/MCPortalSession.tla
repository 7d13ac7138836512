-------------------------- MODULE MCPortalSession -------------------------
(* Two tabs, and two users, one of the hub.  One tab works; the other logs   *)
(* in and out and changes the password.                                     *)
EXTENDS PortalSession, FiniteSets, TLC
CONSTANT Other

OtherIsIdle == query[Other] = None /\ ask[Other] = None

(* Two requests are under way at once.                                      *)
TwoRequests ==
  Cardinality({t \in Tabs : ask[t] # None}) + Cardinality({t \in Tabs : query[t] # None})
    + Cardinality({t \in Tabs : call[t] # None}) <= 2

(* Nobody logs in for whom no session is left.                              *)
LoginsFit ==
  Len(owner) + Cardinality({t \in Tabs : Is(call[t], {"login"}, "sent")
                                       \/ Is(call[t], {"login"}, "checked")}) <= MaxSessions

(* One token runs out, or one temporary password is there or is issued; none *)
(* is for the user of the hub.                                              *)
OneMishap ==
  /\ Cardinality(expired) + (IF must = {} THEN issued ELSE 1) <= 1
  /\ must \cap Hub = {}

(* A tab is not moved to another page by hand while its call is under way.   *)
StaysForCall ==
  UNCHANGED <<requests, backend>> =>
    \A t \in Tabs : page'[t] # page[t] => call[t] = None
=============================================================================
