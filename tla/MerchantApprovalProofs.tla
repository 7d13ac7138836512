----------------------- MODULE MerchantApprovalProofs -----------------------
(***************************************************************************)
(* Theorems about MerchantApproval, for every set of merchants, counters,  *)
(* users and requests, and with or without faults.                         *)
(***************************************************************************)
EXTENDS MerchantApproval, TLAPS, WellFoundedInduction

-----------------------------------------------------------------------------
(* Counter numbers are natural, so that a set of them has a first.          *)
LEMMA FirstFact ==
  ASSUME NEW cs \in SUBSET Counters, cs # {}
  PROVE  First(cs) \in cs
<1>. DEFINE Less == OpToRel(<, Nat)
<1>0. cs \subseteq Nat
  BY ConstantsAssumption
<1>1. IsWellFoundedOn(Less, Nat)
  BY NatLessThanWellFounded, Zenon
<1>2. \A d, c \in Nat : <<d, c>> \in Less <=> d < c
  BY DEF OpToRel
<1>. HIDE DEF Less
<1>3. PICK c \in cs : \A d \in cs : ~(<<d, c>> \in Less)
  BY <1>0, <1>1, WFMin
<1>4. ASSUME NEW d \in cs PROVE c <= d
  <2>1. d \in Nat /\ c \in Nat
    BY <1>0
  <2>2. ~(d < c)
    BY <1>2, <1>3, <2>1, Zenon
  <2> QED BY <2>1, <2>2
<1> QED BY <1>4 DEF First

LEMMA SetType ==
  ASSUME NEW T, NEW f \in [Merchants -> T], NEW S, NEW v \in T
  PROVE  Set(f, S, v) \in [Merchants -> T]
BY DEF Set

LEMMA OverlayType ==
  ASSUME NEW T, NEW f \in [Merchants -> T], NEW S, NEW g \in [S -> T]
  PROVE  Overlay(f, g) \in [Merchants -> T]
BY DEF Overlay

(* What the type of a request says of its fields.                           *)
LEMMA RequestFact ==
  ASSUME NEW r \in Requests
  PROVE  /\ r.op \in Operations /\ r.user \in Users
         /\ r.ids \subseteq Merchants /\ r.ids # {}
         /\ r.status \in [r.ids -> Statuses] /\ r.creator \in [r.ids -> Users]
         /\ r.allowed \subseteq r.ids /\ r.issued \subseteq Counters
BY DEF Requests

-----------------------------------------------------------------------------
(* Type correctness.                                                        *)

LEMMA TypeInit == Init => TypeOK
BY DEF Init, TypeOK, RowsTypeOK, HandlersTypeOK, Statuses, Labels

LEMMA FinishType ==
  ASSUME HandlersTypeOK, NEW h \in Handlers, Finish(h)
  PROVE  HandlersTypeOK'
BY DEF HandlersTypeOK, Finish, Goto, Labels

LEMMA GotoType ==
  ASSUME HandlersTypeOK, NEW h \in Handlers, NEW l \in Labels, Goto(h, l),
         pc[h] # "idle", UNCHANGED <<req, todo>>,
         l \in {"apply", "approve"} => todo[h] # {}
  PROVE  HandlersTypeOK'
BY DEF HandlersTypeOK, Goto

LEMMA LoadType ==
  ASSUME TypeOK, NEW h \in Handlers, NEW o \in Operations, NEW u \in Users,
         NEW ms \in SUBSET Merchants, Load(h, o, u, ms)
  PROVE  TypeOK'
<1>1. RowsTypeOK'
  BY DEF TypeOK, Load, RowsTypeOK, rows
<1>. DEFINE r == [op |-> o, user |-> u, ids |-> ms,
        status |-> [m \in ms |-> status[m]], creator |-> [m \in ms |-> creator[m]],
        allowed |-> ms \cap allowed, issued |-> CountersOf(ms) \cap issued]
<1>2. r \in Requests
  BY DEF Load, TypeOK, RowsTypeOK, Requests, CountersOf
<1>3. /\ req' = [req EXCEPT ![h] = r]
      /\ pc' = [pc EXCEPT ![h] = FirstWrite(o)]
      /\ UNCHANGED todo
  BY DEF Load, Goto
<1>4. FirstWrite(o) \in Labels \ {"apply", "approve"}
  BY DEF FirstWrite, Labels, Operations
<1>. HIDE DEF r
<1>5. HandlersTypeOK'
  BY <1>2, <1>3, <1>4 DEF TypeOK, HandlersTypeOK
<1> QED BY <1>1, <1>5 DEF TypeOK

(* The steps of one handler.                                                *)
LEMMA StepType ==
  ASSUME TypeOK, NEW h \in Handlers, Step(h)
  PROVE  TypeOK'
<1>. DEFINE r == req[h]
<1>0. RowsTypeOK /\ HandlersTypeOK
  BY DEF TypeOK
<1>1. pc[h] # "idle"
  BY DEF Step, Submit, Save, SaveAlias, Resave, StaleSave, Decide, Mark, Audit, Register,
         Apply, Approve, Reset
<1>2. r \in Requests
  BY <1>0, <1>1 DEF HandlersTypeOK
<1>3. /\ r.op \in Operations /\ r.user \in Users
      /\ r.ids \subseteq Merchants /\ r.ids # {}
      /\ r.status \in [r.ids -> Statuses] /\ r.creator \in [r.ids -> Users]
      /\ r.allowed \subseteq r.ids /\ r.issued \subseteq Counters
  BY <1>2, RequestFact
<1>. HIDE DEF r
<1>4. \A s \in Statuses, u \in Users :
        /\ Set(status, r.ids, s) \in [Merchants -> Statuses]
        /\ Set(creator, r.ids, u) \in [Merchants -> Users]
        /\ Set(checker, r.ids, u) \in [Merchants -> Users \cup {NoUser}]
  BY <1>0, SetType DEF RowsTypeOK
<1>5. /\ Overlay(status, r.status) \in [Merchants -> Statuses]
      /\ Overlay(creator, r.creator) \in [Merchants -> Users]
  BY <1>0, <1>3, OverlayType DEF RowsTypeOK
<1>6. CASE Submit(h)
  <2>1. RowsTypeOK'
    BY <1>0, <1>3, <1>4, <1>5, <1>6 DEF Submit, RowsTypeOK, Statuses, r
  <2> QED BY <1>0, <1>6, <2>1, FinishType DEF Submit, TypeOK
<1>7. ASSUME SaveDraft(h) PROVE RowsTypeOK'
  BY <1>0, <1>3, <1>4, <1>7 DEF SaveDraft, RowsTypeOK, Statuses, r
<1>8. CASE Save(h)
  <2>1. HandlersTypeOK'
    BY <1>0, <1>1, <1>8, GotoType DEF Save, Labels
  <2> QED BY <1>7, <1>8, <2>1 DEF Save, TypeOK
<1>9. CASE SaveAlias(h)
  <2>1. RowsTypeOK'
    BY <1>0, <1>3, <1>9 DEF SaveAlias, RowsTypeOK, r
  <2>2. HandlersTypeOK'
    BY <1>0, <1>1, <1>9, GotoType, FinishType DEF SaveAlias, Labels
  <2> QED BY <2>1, <2>2 DEF TypeOK
<1>10. CASE Resave(h)
  BY <1>0, <1>7, <1>10, FinishType DEF Resave, TypeOK
<1>11. CASE StaleSave(h)
  <2>1. RowsTypeOK'
    BY <1>0, <1>3, <1>4, <1>5, <1>11 DEF StaleSave, RowsTypeOK, r
  <2> QED BY <1>0, <1>11, <2>1, FinishType DEF StaleSave, TypeOK
<1>12. CASE Decide(h)
  <2>1. RowsTypeOK'
    BY <1>0, <1>3, <1>4, <1>12 DEF Decide, RowsTypeOK, Statuses, r
  <2> QED BY <1>0, <1>12, <2>1, FinishType DEF Decide, TypeOK
<1>13. CASE Mark(h)
  <2>1. RowsTypeOK'
    BY <1>0, <1>3, <1>4, <1>13 DEF Mark, RowsTypeOK, Statuses, r
  <2>2. HandlersTypeOK'
    BY <1>0, <1>1, <1>13, GotoType DEF Mark, Labels
  <2> QED BY <2>1, <2>2 DEF TypeOK
<1>14. CASE Audit(h)
  <2>1. RowsTypeOK'
    BY <1>0, <1>14 DEF Audit, RowsTypeOK, rows
  <2>2. HandlersTypeOK'
    BY <1>0, <1>1, <1>14, GotoType DEF Audit, Labels
  <2> QED BY <2>1, <2>2 DEF TypeOK
<1>15. CASE Register(h)
  <2>1. CountersOf(r.ids) # {} /\ CountersOf(r.ids) \subseteq Counters
    BY <1>3, ConstantsAssumption DEF CountersOf
  <2>2. RowsTypeOK'
    BY <1>0, <1>15, <2>1 DEF Register, RowsTypeOK, r
  <2>3. CASE Goto(h, "reset") /\ UNCHANGED todo
    BY <1>0, <1>1, <1>15, <2>2, <2>3, GotoType DEF Register, Labels, TypeOK
  <2>4. CASE Goto(h, "apply") /\ todo' = [todo EXCEPT ![h] = CountersOf(r.ids)]
    <3>1. HandlersTypeOK'
      BY <1>0, <1>2, <1>15, <2>1, <2>4 DEF Register, Goto, HandlersTypeOK, Labels, r
    <3> QED BY <2>2, <3>1 DEF TypeOK
  <2> QED BY <1>15, <2>3, <2>4 DEF Register, r
<1>16. CASE Apply(h)
  <2>1. todo[h] # {} /\ First(todo[h]) \in Counters
    BY <1>0, <1>16, FirstFact DEF Apply, HandlersTypeOK
  <2>2. RowsTypeOK'
    BY <1>0, <1>16, <2>1 DEF Apply, RowsTypeOK
  <2>3. HandlersTypeOK'
    BY <1>0, <1>1, <1>16, <2>1, GotoType DEF Apply, Labels
  <2> QED BY <2>2, <2>3 DEF TypeOK
<1>17. CASE Approve(h)
  <2>. DEFINE c == First(todo[h])
  <2>1. todo[h] # {} /\ c \in todo[h] /\ c \in Counters /\ MerchantOf[c] \in Merchants
    BY <1>0, <1>17, FirstFact, ConstantsAssumption DEF Approve, HandlersTypeOK
  <2>2. Set(status, {MerchantOf[c]}, "approved") \in [Merchants -> Statuses]
    BY <1>0, SetType DEF RowsTypeOK, Statuses
  <2>. HIDE DEF c
  <2>3. RowsTypeOK'
    BY <1>0, <1>17, <2>1, <2>2 DEF Approve, RowsTypeOK, c
  <2>4. CASE todo[h] = {c}
    BY <1>0, <1>17, <2>3, <2>4, FinishType DEF Approve, TypeOK, c
  <2>5. CASE todo[h] # {c}
    <3>1. HandlersTypeOK'
      BY <1>0, <1>2, <1>17, <2>1, <2>5 DEF Approve, Goto, HandlersTypeOK, Labels, c, r
    <3> QED BY <2>3, <3>1 DEF TypeOK
  <2> QED BY <2>4, <2>5
<1>18. CASE Reset(h)
  <2>1. RowsTypeOK'
    BY <1>0, <1>3, <1>4, <1>18 DEF Reset, RowsTypeOK, Statuses, r
  <2> QED BY <1>0, <1>18, <2>1, FinishType DEF Reset, TypeOK
<1> QED
  BY <1>6, <1>8, <1>9, <1>10, <1>11, <1>12, <1>13, <1>14, <1>15, <1>16, <1>17, <1>18 DEF Step

(* The faults, which leave the rows alone.                                  *)
LEMMA FaultType ==
  ASSUME TypeOK, Crash \/ \E h \in Handlers : QueryFails(h)
  PROVE  TypeOK'
<1>0. RowsTypeOK /\ HandlersTypeOK
  BY DEF TypeOK
<1>1. RowsTypeOK'
  BY <1>0 DEF Crash, QueryFails, RowsTypeOK, rows
<1>2. CASE Crash
  BY <1>0, <1>1, <1>2 DEF Crash, HandlersTypeOK, Labels, TypeOK
<1>3. ASSUME NEW h \in Handlers, QueryFails(h) PROVE HandlersTypeOK'
  BY <1>0, <1>3, GotoType, FinishType DEF QueryFails, Labels
<1> QED BY <1>1, <1>2, <1>3 DEF TypeOK

(* A step of the specification is one of four kinds.                        *)
LEMMA TypeNext == TypeOK /\ [Next]_vars => TypeOK'
<1>. SUFFICES ASSUME TypeOK, [Next]_vars PROVE TypeOK'
  OBVIOUS
<1>1. CASE UNCHANGED vars
  BY <1>1 DEF vars, rows, TypeOK, RowsTypeOK, HandlersTypeOK
<1>2. CASE Next
  BY <1>2, LoadType, StepType, FaultType DEF Next, Proceed, Arrive
<1> QED BY <1>1, <1>2

(* The rows and the handlers of the backend keep their types, whatever      *)
(* requests race, fail or are cut off.                                      *)
THEOREM ApprovalTypeCorrect == Spec => []TypeOK
BY TypeInit, TypeNext, PTL DEF Spec

-----------------------------------------------------------------------------
(* RegistryFirst.  It is not inductive: a save writes what was loaded       *)
(* earlier, and an approval writes what it was answered earlier.  Both rest *)
(* on rows that the oracle had then, and it forgets none.                   *)

Loaded(r) ==
  /\ r.issued \subseteq registered
  /\ \A m \in r.ids :
       r.status[m] = "approved" \/ m \in r.allowed => CountersOf({m}) \subseteq registered

Backed(h) ==
  /\ pc[h] # "idle" => Loaded(req[h])
  /\ pc[h] \in {"apply", "approve"} =>
       /\ todo[h] \subseteq CountersOf(req[h].ids)
       /\ CountersOf(req[h].ids) \subseteq registered

RegistryInv == TypeOK /\ RegistryFirst /\ \A h \in Handlers : Backed(h)

LEMMA RegistryInit == Init => RegistryInv
<1>1. Init => RegistryFirst
  BY DEF Init, RegistryFirst
<1>2. Init => \A h \in Handlers : Backed(h)
  BY DEF Init, Backed
<1> QED BY <1>1, <1>2, TypeInit DEF RegistryInv

(* The oracle keeps the rows it has.                                        *)
LEMMA RegistryGrows ==
  ASSUME [Next]_vars
  PROVE  registered \subseteq registered'
<1>1. CASE UNCHANGED vars
  BY <1>1 DEF vars, rows
<1>2. CASE Next
  BY <1>2 DEF Next, Proceed, Arrive, Load, Step, Submit, SaveDraft, Save, SaveAlias, Resave,
              StaleSave, Decide, Mark, Audit, Register, Apply, Approve, Reset, QueryFails,
              Crash, rows
<1> QED BY <1>1, <1>2

(* A handler that does not move stays backed, and so does one that moves on *)
(* with the same request without an answer, or finishes.                    *)
LEMMA BackedFrame ==
  ASSUME NEW h \in Handlers, Backed(h), registered \subseteq registered',
         UNCHANGED <<pc[h], req[h], todo[h]>>
  PROVE  Backed(h)'
BY DEF Backed, Loaded, CountersOf

LEMMA BackedGoto ==
  ASSUME HandlersTypeOK, NEW h \in Handlers, Backed(h), registered \subseteq registered',
         NEW l \in Labels \ {"apply", "approve"}, Goto(h, l), pc[h] # "idle",
         UNCHANGED req
  PROVE  Backed(h)'
BY DEF HandlersTypeOK, Backed, Loaded, CountersOf, Goto

LEMMA BackedFinish ==
  ASSUME HandlersTypeOK, NEW h \in Handlers, Finish(h)
  PROVE  Backed(h)'
BY DEF HandlersTypeOK, Backed, Finish, Goto

(* Only the handler that takes a step moves.                                *)
LEMMA OthersStay ==
  ASSUME HandlersTypeOK, NEW h \in Handlers, NEW g \in Handlers, g # h,
         Step(h) \/ QueryFails(h) \/ Arrive(h)
  PROVE  UNCHANGED <<pc[g], req[g], todo[g]>>
BY DEF HandlersTypeOK, Step, Submit, Save, SaveAlias, Resave, StaleSave, Decide, Mark,
       Audit, Register, Apply, Approve, Reset, QueryFails, Arrive, Load, Goto, Finish

(* RegistryFirst survives a step that backs whatever it writes.             *)
LEMMA FirstFrame ==
  ASSUME RegistryFirst, registered \subseteq registered',
         issued' \subseteq issued \cup registered',
         \A m \in Merchants : status'[m] = "approved" =>
           status[m] = "approved" \/ CountersOf({m}) \subseteq registered',
         \A m \in Merchants : m \in allowed' =>
           m \in allowed \/ CountersOf({m}) \subseteq registered'
  PROVE  RegistryFirst'
<1>1. CountersOf({})' = CountersOf({}) /\ \A m \in Merchants : CountersOf({m})' = CountersOf({m})
  BY DEF CountersOf
<1> QED BY <1>1 DEF RegistryFirst

LEMMA LoadBacked ==
  ASSUME RegistryInv, NEW h \in Handlers, Arrive(h)
  PROVE  RegistryFirst' /\ Backed(h)'
<1>1. PICK o \in Operations, u \in Users, ms \in SUBSET Merchants : Load(h, o, u, ms)
  BY DEF Arrive
<1>2. UNCHANGED <<status, allowed, issued, registered>>
  BY <1>1 DEF Load, rows
<1>3. RegistryFirst'
  BY <1>2, FirstFrame DEF RegistryInv
<1>4. /\ pc'[h] \notin {"apply", "approve"}
      /\ req'[h].ids = ms
      /\ req'[h].status = [m \in ms |-> status[m]]
      /\ req'[h].allowed = ms \cap allowed
      /\ req'[h].issued = CountersOf(ms) \cap issued
  BY <1>1 DEF Load, Goto, FirstWrite, RegistryInv, TypeOK, HandlersTypeOK, Operations
<1>5. Loaded(req[h])'
  BY <1>2, <1>4 DEF Loaded, RegistryInv, RegistryFirst, CountersOf
<1> QED BY <1>3, <1>4, <1>5 DEF Backed

LEMMA StepBacked ==
  ASSUME RegistryInv, NEW h \in Handlers, Step(h), registered \subseteq registered'
  PROVE  RegistryFirst' /\ Backed(h)'
<1>. DEFINE r == req[h]
<1>0. TypeOK /\ RowsTypeOK /\ HandlersTypeOK /\ RegistryFirst /\ Backed(h)
  BY DEF RegistryInv, TypeOK
<1>1. pc[h] # "idle"
  BY DEF Step, Submit, Save, SaveAlias, Resave, StaleSave, Decide, Mark, Audit, Register,
         Apply, Approve, Reset
<1>2. r \in Requests
  BY <1>0, <1>1 DEF HandlersTypeOK
<1>3. /\ r.ids \subseteq Merchants
      /\ r.status \in [r.ids -> Statuses]
      /\ r.allowed \subseteq r.ids
  BY <1>2, RequestFact
<1>4. Loaded(r)
  BY <1>0, <1>1 DEF Backed
<1>. HIDE DEF r
<1>5. CASE Submit(h)
  <2>1. RegistryFirst'
    BY <1>0, <1>3, <1>4, <1>5, FirstFrame DEF Submit, Set, Loaded, r
  <2> QED BY <1>0, <1>5, <2>1, BackedFinish DEF Submit
<1>6. ASSUME SaveDraft(h) PROVE RegistryFirst'
  BY <1>0, <1>6, FirstFrame DEF SaveDraft, Set
<1>7. CASE Save(h)
  BY <1>0, <1>1, <1>6, <1>7, BackedGoto DEF Save, Labels
<1>8. CASE SaveAlias(h)
  <2>1. RegistryFirst'
    BY <1>0, <1>4, <1>8, FirstFrame DEF SaveAlias, Loaded, r
  <2> QED BY <1>0, <1>1, <1>8, <2>1, BackedGoto, BackedFinish DEF SaveAlias, Labels
<1>9. CASE Resave(h)
  BY <1>0, <1>6, <1>9, BackedFinish DEF Resave
<1>10. CASE StaleSave(h)
  <2>1. RegistryFirst'
    BY <1>0, <1>3, <1>4, <1>10, FirstFrame DEF StaleSave, Overlay, Loaded, r
  <2> QED BY <1>0, <1>10, <2>1, BackedFinish DEF StaleSave
<1>11. CASE Decide(h)
  <2>1. RegistryFirst'
    BY <1>0, <1>11, FirstFrame DEF Decide, Set
  <2> QED BY <1>0, <1>11, <2>1, BackedFinish DEF Decide
<1>12. CASE Mark(h)
  <2>1. RegistryFirst'
    BY <1>0, <1>12, FirstFrame DEF Mark, Set
  <2> QED BY <1>0, <1>1, <1>12, <2>1, BackedGoto DEF Mark, Labels
<1>13. CASE Audit(h)
  <2>1. RegistryFirst'
    BY <1>0, <1>13, FirstFrame DEF Audit, rows
  <2> QED BY <1>0, <1>1, <1>13, <2>1, BackedGoto DEF Audit, Labels
<1>14. CASE Register(h)
  <2>1. RegistryFirst'
    BY <1>0, <1>14, FirstFrame DEF Register
  <2>2. CASE Goto(h, "reset")
    BY <1>0, <1>1, <1>14, <2>1, <2>2, BackedGoto DEF Register, Labels
  <2>3. CASE Goto(h, "apply") /\ registered' = registered \cup CountersOf(r.ids)
                              /\ todo' = [todo EXCEPT ![h] = CountersOf(r.ids)]
    <3>1. todo'[h] = CountersOf(r.ids) /\ req'[h] = r
      BY <1>0, <1>14, <2>3 DEF Register, HandlersTypeOK, r
    <3>2. Loaded(req[h])'
      BY <1>4, <2>3, <3>1 DEF Loaded, CountersOf
    <3> QED BY <2>1, <2>3, <3>1, <3>2 DEF Backed, CountersOf
  <2> QED BY <1>14, <2>2, <2>3 DEF Register, r
<1>15. CASE Apply(h)
  <2>1. First(todo[h]) \in todo[h] /\ todo[h] \subseteq registered
    BY <1>0, <1>15, FirstFact DEF Apply, HandlersTypeOK, Backed
  <2>2. RegistryFirst'
    BY <1>0, <1>15, <2>1, FirstFrame DEF Apply
  <2>3. pc'[h] \in {"approve", "reset"} /\ UNCHANGED <<req, todo, registered>>
    BY <1>0, <1>15 DEF Apply, Goto, HandlersTypeOK
  <2>4. Backed(h)'
    BY <1>0, <1>4, <1>15, <2>3 DEF Apply, Backed, Loaded, CountersOf, r
  <2> QED BY <2>2, <2>4
<1>16. CASE Approve(h)
  <2>. DEFINE c == First(todo[h])
  <2>1. c \in todo[h] /\ todo[h] \subseteq CountersOf(r.ids) /\ CountersOf(r.ids) \subseteq registered
    BY <1>0, <1>16, FirstFact DEF Approve, HandlersTypeOK, Backed, r
  <2>2. CountersOf({MerchantOf[c]}) \subseteq registered
    BY <2>1 DEF CountersOf
  <2>. HIDE DEF c
  <2>3. RegistryFirst'
    BY <1>0, <1>16, <2>2, FirstFrame DEF Approve, Set, c
  <2>4. CASE todo[h] = {c}
    BY <1>0, <1>16, <2>3, <2>4, BackedFinish DEF Approve, c
  <2>5. CASE todo[h] # {c}
    <3>1. /\ pc'[h] = "apply" /\ todo'[h] \subseteq todo[h]
          /\ UNCHANGED <<req, registered>>
      BY <1>0, <1>16, <2>5 DEF Approve, Goto, HandlersTypeOK, c
    <3>2. Backed(h)'
      BY <1>4, <2>1, <3>1 DEF Backed, Loaded, CountersOf, r
    <3> QED BY <2>3, <3>2
  <2> QED BY <2>4, <2>5
<1>17. CASE Reset(h)
  <2>1. RegistryFirst'
    BY <1>0, <1>17, FirstFrame DEF Reset, Set
  <2> QED BY <1>0, <1>17, <2>1, BackedFinish DEF Reset
<1> QED
  BY <1>5, <1>7, <1>8, <1>9, <1>10, <1>11, <1>12, <1>13, <1>14, <1>15, <1>16, <1>17 DEF Step

LEMMA FaultBacked ==
  ASSUME RegistryInv, NEW h \in Handlers, QueryFails(h)
  PROVE  RegistryFirst' /\ Backed(h)'
<1>0. HandlersTypeOK /\ RegistryFirst /\ Backed(h)
  BY DEF RegistryInv, TypeOK
<1>1. UNCHANGED <<status, allowed, issued, registered>>
  BY DEF QueryFails, rows
<1>2. RegistryFirst'
  BY <1>0, <1>1, FirstFrame
<1>3. CASE Finish(h)
  BY <1>0, <1>2, <1>3, BackedFinish
<1>4. CASE pc[h] = "approve" /\ Goto(h, "reset") /\ UNCHANGED <<req, todo>>
  BY <1>0, <1>1, <1>2, <1>4, BackedGoto DEF Labels
<1> QED BY <1>3, <1>4 DEF QueryFails

LEMMA RegistryNext == RegistryInv /\ [Next]_vars => RegistryInv'
<1>. SUFFICES ASSUME RegistryInv, [Next]_vars PROVE RegistryInv'
  OBVIOUS
<1>1. TypeOK' /\ registered \subseteq registered' /\ HandlersTypeOK
  BY TypeNext, RegistryGrows DEF RegistryInv, TypeOK
<1>2. CASE UNCHANGED vars
  <2>1. RegistryFirst'
    BY <1>2, FirstFrame DEF RegistryInv, vars, rows
  <2> QED BY <1>1, <1>2, <2>1, BackedFrame DEF RegistryInv, vars
<1>3. CASE Crash
  <2>1. RegistryFirst'
    BY <1>3, FirstFrame DEF RegistryInv, Crash, rows
  <2>2. \A h \in Handlers : Backed(h)'
    BY <1>3 DEF Crash, Backed
  <2> QED BY <1>1, <2>1, <2>2 DEF RegistryInv
<1>4. ASSUME NEW h \in Handlers, Step(h) \/ QueryFails(h) \/ Arrive(h) PROVE RegistryInv'
  <2>1. RegistryFirst' /\ Backed(h)'
    BY <1>1, <1>4, LoadBacked, StepBacked, FaultBacked
  <2>2. \A g \in Handlers : g # h => Backed(g)'
    BY <1>1, <1>4, OthersStay, BackedFrame DEF RegistryInv
  <2> QED BY <1>1, <2>1, <2>2 DEF RegistryInv
<1> QED BY <1>2, <1>3, <1>4 DEF Next, Proceed

(* Whatever requests race, fail or are cut off, no counter is treated as    *)
(* issued and no merchant as approved or allowed before the oracle has it.  *)
THEOREM RegisteredFirst == Spec => []RegistryFirst
<1>1. Init => RegistryInv
  BY RegistryInit
<1>2. RegistryInv /\ [Next]_vars => RegistryInv'
  BY RegistryNext
<1>3. RegistryInv => RegistryFirst
  BY DEF RegistryInv
<1> QED BY <1>1, <1>2, <1>3, PTL DEF Spec

-----------------------------------------------------------------------------
(* The lifecycle, while no two requests are at work on the same merchant.   *)
(* Then what a handler loaded still holds when it writes: that is Fresh.    *)

Fresh(h) ==
  LET r == req[h] IN
  /\ pc[h] \in {"submit", "save", "alias", "resave", "stalesave"} =>
       \E m \in Merchants : r.ids = {m}
  /\ pc[h] = "submit" => \A m \in r.ids : status[m] = "draft" /\ creator[m] = r.creator[m]
  /\ pc[h] \in {"save", "alias", "resave"} =>
       \A m \in r.ids : status[m] \in {"draft", "reverted"}
  /\ pc[h] = "stalesave" => \A m \in r.ids : status[m] = r.status[m]
  /\ pc[h] \in {"decide", "mark"} =>
       \A m \in r.ids : status[m] = "review" /\ creator[m] # r.user
  /\ pc[h] \in {"audit", "register", "apply", "approve", "reset"} =>
       \A m \in r.ids : status[m] \in {"waiting", "approved"}
  /\ pc[h] \in {"apply", "approve"} => todo[h] \subseteq CountersOf(r.ids)

Disjoint == \A g, h \in Handlers : g # h => req[g].ids \cap req[h].ids = {}

AloneInv == TypeOK /\ Disjoint /\ \A h \in Handlers : Fresh(h)

LEMMA AloneInit == Init => AloneInv
<1>1. Init => Disjoint
  BY DEF Init, Disjoint, NoRequest
<1>2. Init => \A h \in Handlers : Fresh(h)
  BY DEF Init, Fresh
<1> QED BY <1>1, <1>2, TypeInit DEF AloneInv

LEMMA AloneIsNext == [AloneNext]_vars => [Next]_vars
BY DEF AloneNext, ArriveAlone, Next, Arrive

(* A handler writes the status and the maker of its own merchants only.     *)
LEMMA OwnMerchants ==
  ASSUME TypeOK, NEW h \in Handlers, Step(h), Fresh(h),
         NEW m \in Merchants, m \notin req[h].ids
  PROVE  status'[m] = status[m] /\ creator'[m] = creator[m]
<1>0. RowsTypeOK /\ HandlersTypeOK
  BY DEF TypeOK
<1>1. CASE Approve(h)
  <2>1. First(todo[h]) \in CountersOf(req[h].ids)
    BY <1>0, <1>1, FirstFact DEF Approve, HandlersTypeOK, Fresh
  <2> QED BY <1>0, <1>1, <2>1 DEF Approve, Set, CountersOf, RowsTypeOK
<1>2. CASE Submit(h) \/ StaleSave(h)
  <2>1. req[h] \in Requests
    BY <1>0, <1>2 DEF Submit, StaleSave, HandlersTypeOK
  <2>2. DOMAIN req[h].status = req[h].ids /\ DOMAIN req[h].creator = req[h].ids
    BY <2>1, RequestFact
  <2> QED BY <1>0, <1>2, <2>2 DEF Submit, StaleSave, Set, Overlay, RowsTypeOK
<1>3. CASE Save(h) \/ Resave(h) \/ Decide(h) \/ Mark(h) \/ Reset(h)
  BY <1>0, <1>3 DEF Save, Resave, SaveDraft, Decide, Mark, Reset, Set, RowsTypeOK
<1>4. CASE SaveAlias(h) \/ Audit(h) \/ Register(h) \/ Apply(h)
  BY <1>4 DEF SaveAlias, Audit, Register, Apply, rows
<1> QED BY <1>1, <1>2, <1>3, <1>4 DEF Step

LEMMA FreshFrame ==
  ASSUME NEW h \in Handlers, Fresh(h), UNCHANGED <<pc[h], req[h], todo[h]>>,
         \A m \in req[h].ids : status'[m] = status[m] /\ creator'[m] = creator[m]
  PROVE  Fresh(h)'
BY DEF Fresh, CountersOf

(* An idle handler has nothing to be fresh about.                           *)
LEMMA FreshFinish ==
  ASSUME HandlersTypeOK, NEW h \in Handlers, Finish(h)
  PROVE  Fresh(h)'
BY DEF HandlersTypeOK, Fresh, Finish, Goto

LEMMA LoadFresh ==
  ASSUME AloneInv, NEW h \in Handlers, ArriveAlone(h)
  PROVE  Disjoint' /\ Fresh(h)'
<1>1. PICK o \in Operations, u \in Users, ms \in SUBSET Merchants :
        Load(h, o, u, ms) /\ \A g \in Handlers : req[g].ids \cap ms = {}
  BY DEF ArriveAlone
<1>2. /\ req'[h].ids = ms /\ req'[h].user = u
      /\ req'[h].status = [m \in ms |-> status[m]]
      /\ req'[h].creator = [m \in ms |-> creator[m]]
      /\ \A g \in Handlers : g # h => req'[g] = req[g]
      /\ pc'[h] = FirstWrite(o)
      /\ UNCHANGED <<status, creator>>
  BY <1>1 DEF Load, Goto, AloneInv, TypeOK, HandlersTypeOK, rows
<1>3. Disjoint'
  BY <1>1, <1>2 DEF Disjoint, AloneInv
<1>4. CASE o \in {"approve", "reject", "revert"}
  <2>1. \A m \in ms : status[m] = "review" /\ creator[m] # u
    BY <1>1, <1>4 DEF Load, Accepts, Reviewable
  <2>2. pc'[h] \in {"mark", "decide"}
    BY <1>2, <1>4 DEF FirstWrite
  <2> QED BY <1>2, <1>3, <2>1, <2>2 DEF Fresh
<1>5. CASE o \notin {"approve", "reject", "revert"}
  <2>1. PICK m \in ms : ms = {m} /\ Editable(o, u, m)
    BY <1>1, <1>5 DEF Load, Accepts
  <2> QED BY <1>1, <1>2, <1>3, <1>5, <2>1 DEF Editable, FirstWrite, Fresh, Operations
<1> QED BY <1>3, <1>4, <1>5

LEMMA StepFresh ==
  ASSUME AloneInv, NEW h \in Handlers, Step(h)
  PROVE  Fresh(h)'
<1>. DEFINE r == req[h]
<1>0. RowsTypeOK /\ HandlersTypeOK /\ Fresh(h)
  BY DEF AloneInv, TypeOK
<1>1. pc[h] # "idle"
  BY DEF Step, Submit, Save, SaveAlias, Resave, StaleSave, Decide, Mark, Audit, Register,
         Apply, Approve, Reset
<1>2. r.ids \subseteq Merchants
  BY <1>0, <1>1, RequestFact DEF HandlersTypeOK
<1>3. CASE Finish(h)
  BY <1>0, <1>3, FreshFinish
<1>4. CASE Save(h)
  <2>1. pc'[h] = "alias" /\ UNCHANGED req
    BY <1>0, <1>4 DEF Save, Goto, HandlersTypeOK
  <2>2. \A m \in r.ids : status'[m] = "draft"
    BY <1>2, <1>4 DEF Save, SaveDraft, Set
  <2> QED BY <1>0, <1>4, <2>1, <2>2 DEF Fresh, Save
<1>5. CASE SaveAlias(h) /\ ~Finish(h)
  <2>1. pc'[h] = "resave" /\ UNCHANGED <<req, status>>
    BY <1>0, <1>5 DEF SaveAlias, Goto, HandlersTypeOK
  <2> QED BY <1>0, <1>5, <2>1 DEF Fresh, SaveAlias
<1>6. CASE Mark(h)
  <2>1. pc'[h] = "audit" /\ UNCHANGED req
    BY <1>0, <1>6 DEF Mark, Goto, HandlersTypeOK
  <2>2. \A m \in r.ids : status'[m] = "waiting"
    BY <1>2, <1>6 DEF Mark, Set
  <2> QED BY <2>1, <2>2 DEF Fresh
<1>7. CASE Audit(h)
  <2>1. pc'[h] = "register" /\ UNCHANGED <<req, status>>
    BY <1>0, <1>7 DEF Audit, Goto, HandlersTypeOK, rows
  <2> QED BY <1>0, <1>7, <2>1 DEF Fresh, Audit
<1>8. CASE Register(h)
  <2>1. /\ UNCHANGED <<req, status>>
        /\ \/ pc'[h] = "reset"
           \/ pc'[h] = "apply" /\ todo'[h] = CountersOf(r.ids)
    BY <1>0, <1>8 DEF Register, Goto, HandlersTypeOK
  <2> QED BY <1>0, <1>8, <2>1 DEF Fresh, Register, CountersOf
<1>9. CASE Apply(h)
  <2>1. UNCHANGED <<req, status, todo>> /\ pc'[h] \in {"approve", "reset"}
    BY <1>0, <1>9 DEF Apply, Goto, HandlersTypeOK
  <2> QED BY <1>0, <1>9, <2>1 DEF Fresh, Apply, CountersOf
<1>10. CASE Approve(h) /\ ~Finish(h)
  <2>1. UNCHANGED req /\ pc'[h] = "apply" /\ todo'[h] \subseteq todo[h]
    BY <1>0, <1>10 DEF Approve, Goto, HandlersTypeOK
  <2>2. \A m \in r.ids : status'[m] \in {"waiting", "approved"}
    BY <1>0, <1>2, <1>10 DEF Approve, Set, Fresh
  <2> QED BY <1>0, <1>10, <2>1, <2>2 DEF Fresh, Approve, CountersOf
<1> QED
  BY <1>3, <1>4, <1>5, <1>6, <1>7, <1>8, <1>9, <1>10
  DEF Step, Submit, SaveAlias, Resave, StaleSave, Decide, Approve, Reset

LEMMA FaultFresh ==
  ASSUME AloneInv, NEW h \in Handlers, QueryFails(h)
  PROVE  Fresh(h)'
<1>0. HandlersTypeOK /\ Fresh(h)
  BY DEF AloneInv, TypeOK
<1>1. CASE Finish(h)
  BY <1>0, <1>1, FreshFinish
<1>2. CASE pc[h] = "approve" /\ Goto(h, "reset") /\ UNCHANGED <<req, todo>>
  <2>1. pc'[h] = "reset" /\ UNCHANGED <<req, status>>
    BY <1>0, <1>2 DEF Goto, HandlersTypeOK, QueryFails, rows
  <2> QED BY <1>0, <1>2, <2>1 DEF Fresh
<1> QED BY <1>1, <1>2 DEF QueryFails

(* A request on fewer merchants, or on the same, keeps requests apart.      *)
LEMMA DisjointFrame ==
  ASSUME Disjoint, \A h \in Handlers : req'[h].ids \subseteq req[h].ids
  PROVE  Disjoint'
BY DEF Disjoint

LEMMA RequestsShrink ==
  ASSUME HandlersTypeOK, NEW h \in Handlers, Step(h) \/ QueryFails(h)
  PROVE  \A g \in Handlers : req'[g].ids \subseteq req[g].ids
<1>1. CASE Finish(h)
  BY <1>1 DEF HandlersTypeOK, Finish, NoRequest
<1>2. CASE UNCHANGED req
  BY <1>2
<1> QED
  BY <1>1, <1>2 DEF Step, Submit, Save, SaveAlias, Resave, StaleSave, Decide, Mark, Audit,
     Register, Apply, Approve, Reset, QueryFails

LEMMA AloneStep == AloneInv /\ [AloneNext]_vars => AloneInv'
<1>. SUFFICES ASSUME AloneInv, [AloneNext]_vars PROVE AloneInv'
  OBVIOUS
<1>1. TypeOK' /\ TypeOK /\ HandlersTypeOK /\ RowsTypeOK
  BY AloneIsNext, TypeNext DEF AloneInv, TypeOK
<1>2. CASE UNCHANGED vars
  <2>1. Disjoint'
    BY <1>2, DisjointFrame DEF AloneInv, vars
  <2> QED BY <1>1, <1>2, <2>1, FreshFrame DEF AloneInv, vars, rows
<1>3. CASE Crash
  <2>1. Disjoint'
    BY <1>3 DEF Crash, Disjoint, NoRequest
  <2>2. \A h \in Handlers : Fresh(h)'
    BY <1>3 DEF Crash, Fresh
  <2> QED BY <1>1, <2>1, <2>2 DEF AloneInv
<1>4. ASSUME NEW h \in Handlers, ArriveAlone(h) PROVE AloneInv'
  <2>1. Disjoint' /\ Fresh(h)'
    BY <1>4, LoadFresh
  <2>2. UNCHANGED <<status, creator>> /\ Arrive(h)
    BY <1>4 DEF ArriveAlone, Arrive, Load, rows
  <2>3. \A g \in Handlers : g # h => Fresh(g)'
    BY <1>1, <2>2, OthersStay, FreshFrame DEF AloneInv
  <2> QED BY <1>1, <2>1, <2>3 DEF AloneInv
<1>5. ASSUME NEW h \in Handlers, Step(h) \/ QueryFails(h) PROVE AloneInv'
  <2>1. Disjoint'
    BY <1>1, <1>5, RequestsShrink, DisjointFrame DEF AloneInv
  <2>2. Fresh(h)'
    BY <1>5, StepFresh, FaultFresh
  <2>3. \A m \in Merchants \ req[h].ids : status'[m] = status[m] /\ creator'[m] = creator[m]
    BY <1>1, <1>5, OwnMerchants DEF AloneInv, QueryFails, rows
  <2>4. ASSUME NEW g \in Handlers, g # h PROVE Fresh(g)'
    <3>1. req[g].ids \subseteq Merchants \ req[h].ids
      BY <1>1, <2>4, RequestFact DEF AloneInv, Disjoint, HandlersTypeOK, NoRequest
    <3> QED BY <1>1, <1>5, <2>3, <2>4, <3>1, OthersStay, FreshFrame DEF AloneInv
  <2> QED BY <1>1, <2>1, <2>2, <2>4 DEF AloneInv
<1> QED BY <1>2, <1>3, <1>4, <1>5 DEF AloneNext, Proceed

-----------------------------------------------------------------------------
(* Every step is one of the lifecycle's, or leaves the record alone.        *)
LEMMA LifecycleStep ==
  ASSUME AloneInv, NEW h \in Handlers, Step(h)
  PROVE  [Life!LNext]_(Life!lifevars)
<1>. DEFINE r == req[h]
<1>0. RowsTypeOK /\ HandlersTypeOK /\ Fresh(h)
  BY DEF AloneInv, TypeOK
<1>1. r \in Requests
  BY <1>0 DEF HandlersTypeOK, Step, Submit, Save, SaveAlias, Resave, StaleSave, Decide, Mark,
         Audit, Register, Apply, Approve, Reset
<1>2. /\ r.user \in Users /\ r.ids \subseteq Merchants
      /\ r.status \in [r.ids -> Statuses] /\ r.creator \in [r.ids -> Users]
  BY <1>1, RequestFact
<1>. HIDE DEF r
<1>3. CASE Submit(h)
  <2>1. PICK m \in Merchants :
          r.ids = {m} /\ status[m] = "draft" /\ creator[m] = r.creator[m]
    BY <1>0, <1>3 DEF Fresh, Submit, r
  <2>2. Overlay(creator, r.creator) = creator
    BY <1>0, <1>2, <2>1 DEF Overlay, RowsTypeOK
  <2>3. Life!SubmitForReview(m)
    BY <1>3, <2>1, <2>2 DEF Submit, Life!SubmitForReview, Set, Life!Set, r
  <2> QED BY <2>3 DEF Life!LNext
<1>4. CASE Save(h) \/ Resave(h)
  <2>1. PICK m \in Merchants : r.ids = {m} /\ status[m] \in {"draft", "reverted"}
    BY <1>0, <1>4 DEF Fresh, Save, Resave, r
  <2>2. Life!Edit(m, r.user)
    BY <1>4, <2>1 DEF Save, Resave, SaveDraft, Life!Edit, Set, Life!Set, r
  <2> QED BY <1>2, <2>2 DEF Life!LNext
<1>5. CASE StaleSave(h)
  <2>1. PICK m \in Merchants : r.ids = {m} /\ status[m] = r.status[m]
    BY <1>0, <1>5 DEF Fresh, StaleSave, r
  <2>2. UNCHANGED status
    BY <1>0, <1>2, <1>5, <2>1 DEF StaleSave, Overlay, RowsTypeOK, r
  <2>3. CASE r.op = "contact"
    <3>1. Life!TakeOver(m, r.user)
      BY <1>5, <2>1, <2>2, <2>3 DEF StaleSave, Life!TakeOver, Set, Life!Set, r
    <3> QED BY <1>2, <3>1 DEF Life!LNext
  <2>4. CASE r.op # "contact"
    BY <1>5, <2>2, <2>4 DEF StaleSave, Life!lifevars, r
  <2> QED BY <2>3, <2>4
<1>6. CASE Decide(h) \/ Mark(h)
  <2>1. \A m \in r.ids : status[m] = "review" /\ creator[m] # r.user
    BY <1>0, <1>6 DEF Fresh, Decide, Mark, r
  <2>2. \E v \in {"waiting", "rejected", "reverted"} : Life!Check(r.ids, r.user, v)
    BY <1>6, <2>1 DEF Decide, Mark, Life!Check, Set, Life!Set, r
  <2> QED BY <1>2, <2>2 DEF Life!LNext
<1>7. CASE SaveAlias(h) \/ Audit(h) \/ Register(h) \/ Apply(h)
  BY <1>7 DEF SaveAlias, Audit, Register, Apply, rows, Life!lifevars
<1>8. CASE Approve(h)
  <2>. DEFINE m == MerchantOf[First(todo[h])]
  <2>1. m \in Merchants /\ status[m] \in {"waiting", "approved"}
    BY <1>0, <1>2, <1>8, FirstFact DEF Approve, Fresh, HandlersTypeOK, CountersOf, r
  <2>2. Life!AliasesIssued(m)
    BY <1>8, <2>1 DEF Approve, Life!AliasesIssued, Set, Life!Set
  <2>. HIDE DEF m
  <2> QED BY <2>1, <2>2 DEF Life!LNext
<1>9. CASE Reset(h)
  <2>1. Life!FallBack(r.ids)
    BY <1>0, <1>9 DEF Reset, Fresh, Life!FallBack, Set, Life!Set, r
  <2> QED BY <1>2, <2>1 DEF Life!LNext
<1> QED BY <1>3, <1>4, <1>5, <1>6, <1>7, <1>8, <1>9 DEF Step

LEMMA LifecycleNext == AloneInv /\ [AloneNext]_vars => [Life!LNext]_(Life!lifevars)
<1>. SUFFICES ASSUME AloneInv, [AloneNext]_vars PROVE [Life!LNext]_(Life!lifevars)
  OBVIOUS
<1>1. CASE UNCHANGED rows
  BY <1>1 DEF rows, Life!lifevars
<1>2. CASE \E h \in Handlers : Step(h)
  BY <1>2, LifecycleStep
<1> QED
  BY <1>1, <1>2 DEF AloneNext, ArriveAlone, Load, Proceed, QueryFails, Crash, vars

(* While no two requests are at work on the same merchant, merchants live   *)
(* as the onboarding guide says.                                            *)
THEOREM LifecycleKept == AloneSpec => KeepsLifecycle
<1>1. Init => Life!LInit
  BY DEF Init, Life!LInit
<1> QED BY <1>1, AloneInit, AloneStep, LifecycleNext, PTL DEF AloneSpec, KeepsLifecycle, Life!LSpec

(* And then a verdict is given on a record under review by a user who is    *)
(* not recorded as its maker.                                               *)
THEOREM AnotherDecides == AloneSpec => DecidedByAnother
<1>. DEFINE Decided ==
       \A m \in Merchants :
         status'[m] # status[m] /\ status'[m] \in {"waiting", "rejected", "reverted"}
           => status[m] = "review" /\ checker'[m] # creator[m]
<1>1. AloneInv /\ [Life!LNext]_(Life!lifevars) => Decided
  BY DEF AloneInv, TypeOK, RowsTypeOK, Life!LNext, Life!lifevars, Life!Edit, Life!TakeOver,
         Life!SubmitForReview, Life!Check, Life!AliasesIssued, Life!FallBack, Life!Set
<1>2. AloneInv /\ [AloneNext]_vars => [Decided]_vars
  BY <1>1, LifecycleNext
<1>. HIDE DEF Decided
<1>3. AloneSpec => [][Decided]_vars
  BY <1>2, AloneInit, AloneStep, PTL DEF AloneSpec
<1> QED BY <1>3 DEF Decided, DecidedByAnother

(* And no request revives a rejected merchant.                              *)
THEOREM RejectionHolds == AloneSpec => RejectedIsFinal
<1>. DEFINE Kept ==
       \A m \in Merchants : status[m] = "rejected" => status'[m] = "rejected"
<1>1. AloneInv /\ [Life!LNext]_(Life!lifevars) => Kept
  BY DEF AloneInv, TypeOK, RowsTypeOK, Life!LNext, Life!lifevars, Life!Edit, Life!TakeOver,
         Life!SubmitForReview, Life!Check, Life!AliasesIssued, Life!FallBack, Life!Set
<1>2. AloneInv /\ [AloneNext]_vars => [Kept]_vars
  BY <1>1, LifecycleNext
<1>. HIDE DEF Kept
<1>3. AloneSpec => [][Kept]_vars
  BY <1>2, AloneInit, AloneStep, PTL DEF AloneSpec
<1> QED BY <1>3 DEF Kept, RejectedIsFinal

-----------------------------------------------------------------------------
(* ApprovedIsComplete, while no two requests are at work on the same         *)
(* merchant and neither a query fails nor the backend stops.  An approval    *)
(* approves a merchant with its first counter already: that the others      *)
(* follow is kept by what it has left to apply, todo.                       *)

Complete(h) ==
  LET r == req[h] IN
  /\ pc[h] = "idle" => r.ids = {}
  /\ pc[h] \in {"audit", "register"} => \A m \in r.ids : status[m] = "waiting"
  /\ pc[h] = "stalesave" =>
       \A m \in r.ids : status[m] = "approved" => CountersOf({m}) \subseteq issued
  /\ pc[h] \in {"apply", "approve"} => CountersOf(r.ids) \subseteq issued \cup todo[h]
  /\ pc[h] = "approve" => First(todo[h]) \in issued

CompleteInv == AloneInv /\ ApprovedIsComplete /\ \A h \in Handlers : Complete(h)

LEMMA CompleteInit == Init => CompleteInv
<1>1. Init => ApprovedIsComplete
  BY DEF Init, ApprovedIsComplete
<1>2. Init => \A h \in Handlers : Complete(h)
  BY DEF Init, Complete, NoRequest
<1> QED BY <1>1, <1>2, AloneInit DEF CompleteInv

(* A counter loses its QR code to the draft that its merchant's edit saves.  *)
LEMMA IssuedShrinks ==
  ASSUME AloneInv, NEW h \in Handlers, Step(h), NEW c \in issued, c \notin issued'
  PROVE  c \in CountersOf(req[h].ids) /\ pc[h] = "alias" /\ UNCHANGED status
<1>1. SaveAlias(h)
  BY DEF Step, Submit, Save, SaveDraft, Resave, StaleSave, Decide, Mark, Audit, Register,
         Apply, Approve, Reset, rows
<1>2. req[h] \in Requests /\ req[h].ids \subseteq Merchants /\ req[h].ids # {}
  BY <1>1, RequestFact DEF SaveAlias, AloneInv, TypeOK, HandlersTypeOK
<1>3. CountersOf(req[h].ids) # {} /\ CountersOf(req[h].ids) \subseteq Counters
  BY <1>2, ConstantsAssumption DEF CountersOf
<1>4. First(CountersOf(req[h].ids)) \in CountersOf(req[h].ids)
  BY <1>3, FirstFact
<1> QED BY <1>1, <1>4 DEF SaveAlias

(* A merchant no request is at work on keeps its QR codes and its status.    *)
LEMMA OthersComplete ==
  ASSUME AloneInv, NEW h \in Handlers, Step(h), NEW m \in Merchants, m \notin req[h].ids
  PROVE  status'[m] = status[m] /\ \A c \in CountersOf({m}) : c \in issued => c \in issued'
<1>1. status'[m] = status[m]
  BY OwnMerchants DEF AloneInv
<1>2. \A c \in CountersOf({m}) : c \notin CountersOf(req[h].ids)
  BY DEF CountersOf
<1> QED BY <1>1, <1>2, IssuedShrinks

(* What holds of a handler survives the steps of the others.                 *)
LEMMA CompleteFrame ==
  ASSUME TypeOK, NEW h \in Handlers, Complete(h), UNCHANGED <<pc[h], req[h], todo[h]>>,
         \A m \in req[h].ids : status'[m] = status[m],
         \A m \in req[h].ids : \A c \in CountersOf({m}) : c \in issued => c \in issued',
         pc[h] = "approve" => todo[h] \subseteq CountersOf(req[h].ids)
  PROVE  Complete(h)'
<1>1. \A c \in CountersOf(req[h].ids) : c \in issued => c \in issued'
  BY DEF CountersOf
<1>2. pc[h] = "approve" => First(todo[h]) \in todo[h]
  BY FirstFact DEF TypeOK, HandlersTypeOK
<1>3. /\ pc[h] = "approve" => First(todo'[h]) \in issued'
      /\ pc[h] \in {"apply", "approve"} => CountersOf(req'[h].ids) \subseteq issued' \cup todo'[h]
  BY <1>1, <1>2 DEF Complete
<1>4. ASSUME pc[h] = "stalesave", NEW m \in req[h].ids, status[m] = "approved"
      PROVE  CountersOf({m}) \subseteq issued'
  BY <1>4 DEF Complete
<1> QED BY <1>3, <1>4 DEF Complete, CountersOf

(* The step of a handler leaves what it is about to do complete.             *)
LEMMA StepComplete ==
  ASSUME CompleteInv, NEW h \in Handlers, Step(h)
  PROVE  Complete(h)'
<1>. DEFINE r == req[h]
<1>0. TypeOK /\ RowsTypeOK /\ HandlersTypeOK /\ Fresh(h) /\ Complete(h)
  BY DEF CompleteInv, AloneInv, TypeOK
<1>1. r.ids \subseteq Merchants
  BY <1>0, RequestFact
  DEF HandlersTypeOK, Step, Submit, Save, SaveAlias, Resave, StaleSave, Decide, Mark, Audit,
      Register, Apply, Approve, Reset
<1>2. CASE pc'[h] \in {"alias", "resave", "reset"}
  BY <1>2 DEF Complete
<1>3. CASE Mark(h)
  <2>1. UNCHANGED req /\ pc'[h] = "audit"
    BY <1>0, <1>3 DEF Mark, Goto, HandlersTypeOK
  <2>2. \A m \in r.ids : status'[m] = "waiting"
    BY <1>1, <1>3 DEF Mark, Set
  <2> QED BY <2>1, <2>2 DEF Complete
<1>4. CASE Audit(h)
  <2>1. UNCHANGED <<req, status>> /\ pc'[h] = "register"
    BY <1>0, <1>4 DEF Audit, Goto, HandlersTypeOK, rows
  <2> QED BY <1>0, <1>4, <2>1 DEF Complete, Audit
<1>5. CASE Register(h)
  <2>1. /\ UNCHANGED req
        /\ pc'[h] = "reset" \/ (pc'[h] = "apply" /\ todo'[h] = CountersOf(r.ids))
    BY <1>0, <1>5 DEF Register, Goto, HandlersTypeOK
  <2> QED BY <1>2, <2>1 DEF Complete, CountersOf
<1>6. CASE Apply(h)
  <2>1. UNCHANGED <<req, todo>> /\ pc'[h] \in {"approve", "reset"}
    BY <1>0, <1>6 DEF Apply, Goto, HandlersTypeOK
  <2>2. pc'[h] = "approve" => issued' = issued \cup {First(todo[h])}
    BY <1>0, <1>6 DEF Apply, Goto, HandlersTypeOK
  <2>3. CountersOf(r.ids) \subseteq issued \cup todo[h]
    BY <1>0, <1>6 DEF Apply, Complete
  <2> QED BY <1>2, <2>1, <2>2, <2>3 DEF Complete, CountersOf
<1>7. CASE Approve(h) /\ ~Finish(h)
  <2>1. UNCHANGED <<req, issued>> /\ pc'[h] = "apply" /\ todo'[h] = todo[h] \ {First(todo[h])}
    BY <1>0, <1>7 DEF Approve, Goto, HandlersTypeOK
  <2>2. CountersOf(r.ids) \subseteq issued \cup todo[h] /\ First(todo[h]) \in issued
    BY <1>0, <1>7 DEF Approve, Complete
  <2> QED BY <2>1, <2>2 DEF Complete, CountersOf
<1>8. CASE Finish(h)
  BY <1>0, <1>8 DEF Complete, Finish, Goto, HandlersTypeOK, NoRequest
<1>9. CASE Save(h)
  BY <1>0, <1>2, <1>9 DEF Save, Goto, HandlersTypeOK
<1>10. CASE SaveAlias(h) /\ ~Finish(h)
  BY <1>0, <1>2, <1>10 DEF SaveAlias, Goto, HandlersTypeOK
<1> QED
  BY <1>3, <1>4, <1>5, <1>6, <1>7, <1>8, <1>9, <1>10
  DEF Step, Submit, SaveAlias, Resave, StaleSave, Decide, Approve, Reset

(* The merchants a request leaves approved are complete: it is the last step  *)
(* of an approval, or the save of a contact, owner or location.             *)
LEMMA FinishComplete ==
  ASSUME CompleteInv, NEW h \in Handlers, Step(h), NEW m \in req[h].ids,
         m \notin req'[h].ids, status'[m] = "approved"
  PROVE  CountersOf({m}) \subseteq issued'
<1>. DEFINE r == req[h]
<1>0. TypeOK /\ RowsTypeOK /\ HandlersTypeOK /\ Fresh(h) /\ Complete(h)
  BY DEF CompleteInv, AloneInv, TypeOK
<1>1. r \in Requests /\ r.ids \subseteq Merchants /\ m \in Merchants
  BY <1>0, RequestFact
  DEF HandlersTypeOK, Step, Submit, Save, SaveAlias, Resave, StaleSave, Decide, Mark, Audit,
      Register, Apply, Approve, Reset
<1>2. CASE Approve(h)
  <2>1. todo[h] = {First(todo[h])} /\ UNCHANGED issued
    BY <1>0, <1>2 DEF Approve
  <2>2. CountersOf(r.ids) \subseteq issued
    BY <1>0, <1>2, <2>1 DEF Approve, Complete
  <2> QED BY <2>1, <2>2 DEF CountersOf
<1>3. CASE StaleSave(h)
  <2>1. status[m] = r.status[m] /\ DOMAIN r.status = r.ids
    BY <1>0, <1>1, <1>3, RequestFact DEF StaleSave, Fresh
  <2>2. status[m] = "approved" /\ UNCHANGED issued
    BY <1>1, <1>3, <2>1 DEF StaleSave, Overlay
  <2> QED BY <1>0, <1>3, <2>2 DEF StaleSave, Complete
<1>4. CASE Submit(h) \/ Save(h) \/ Resave(h) \/ Decide(h) \/ Mark(h) \/ Reset(h)
  BY <1>1, <1>4 DEF Submit, Save, SaveDraft, Resave, Decide, Mark, Reset, Set
<1>5. CASE SaveAlias(h)
  BY <1>0, <1>5 DEF SaveAlias, Fresh
<1>6. CASE Audit(h) \/ Register(h) \/ Apply(h)
  BY <1>6 DEF Audit, Register, Apply
<1> QED BY <1>2, <1>3, <1>4, <1>5, <1>6 DEF Step

(* A request is taken up with what is complete of its merchants.             *)
LEMMA LoadComplete ==
  ASSUME CompleteInv, NEW h \in Handlers, ArriveAlone(h)
  PROVE  Complete(h)'
<1>1. PICK o \in Operations, u \in Users, ms \in SUBSET Merchants :
        Load(h, o, u, ms) /\ \A g \in Handlers : req[g].ids \cap ms = {}
  BY DEF ArriveAlone
<1>2. /\ req'[h].ids = ms /\ pc'[h] = FirstWrite(o)
      /\ UNCHANGED <<status, issued>>
  BY <1>1 DEF Load, Goto, CompleteInv, AloneInv, TypeOK, HandlersTypeOK, rows
<1>3. FirstWrite(o) \notin {"idle", "audit", "register", "apply", "approve"}
  BY DEF FirstWrite
<1>4. \A m \in ms : status[m] = "approved" => CountersOf({m}) \subseteq issued
  BY <1>1 DEF CompleteInv, ApprovedIsComplete
<1> QED BY <1>2, <1>3, <1>4 DEF Complete, CountersOf

LEMMA CompleteStep ==
  ASSUME Faults = {}
  PROVE  CompleteInv /\ [AloneNext]_vars => CompleteInv'
<1>. SUFFICES ASSUME CompleteInv, [AloneNext]_vars PROVE CompleteInv'
  OBVIOUS
<1>1. AloneInv' /\ AloneInv /\ TypeOK /\ HandlersTypeOK
  BY AloneStep DEF CompleteInv, AloneInv, TypeOK
<1>2. CASE UNCHANGED vars
  BY <1>1, <1>2 DEF CompleteInv, ApprovedIsComplete, Complete, CountersOf, vars, rows
<1>3. ASSUME NEW h \in Handlers, ArriveAlone(h) PROVE CompleteInv'
  <2>1. UNCHANGED <<status, issued>> /\ Arrive(h) /\ \A g \in Handlers : g # h => req'[g] = req[g]
    BY <1>1, <1>3 DEF ArriveAlone, Arrive, Load, rows, HandlersTypeOK
  <2>2. Complete(h)'
    BY <1>3, LoadComplete
  <2>3. \A g \in Handlers : g # h => Complete(g)'
    BY <1>1, <2>1, OthersStay, CompleteFrame DEF CompleteInv, AloneInv, Fresh
  <2>4. req[h].ids = {}
    BY <1>3 DEF ArriveAlone, Load, CompleteInv, Complete
  <2>5. ApprovedIsComplete'
    <3>1. ASSUME NEW m \in Merchants, \A g \in Handlers : m \notin req'[g].ids
          PROVE  \A g \in Handlers : m \notin req[g].ids
      BY <2>1, <2>4, <3>1
    <3> QED BY <2>1, <3>1 DEF CompleteInv, ApprovedIsComplete, CountersOf
  <2> QED BY <1>1, <2>2, <2>3, <2>5 DEF CompleteInv
<1>4. ASSUME NEW h \in Handlers, Step(h) PROVE CompleteInv'
  <2>1. Complete(h)'
    BY <1>4, StepComplete
  <2>2. ASSUME NEW g \in Handlers, g # h PROVE Complete(g)'
    <3>1. \A m \in req[g].ids : m \in Merchants /\ m \notin req[h].ids
      BY <1>1, <2>2, RequestFact DEF AloneInv, Disjoint, HandlersTypeOK, NoRequest
    <3>2. \A m \in req[g].ids :
            status'[m] = status[m] /\ \A c \in CountersOf({m}) : c \in issued => c \in issued'
      BY <1>1, <1>4, <3>1, OthersComplete
    <3>3. UNCHANGED <<pc[g], req[g], todo[g]>>
      BY <1>1, <1>4, <2>2, OthersStay
    <3>4. Complete(g) /\ (pc[g] = "approve" => todo[g] \subseteq CountersOf(req[g].ids))
      BY DEF CompleteInv, AloneInv, Fresh
    <3> QED BY <1>1, <3>2, <3>3, <3>4, CompleteFrame
  <2>3. ApprovedIsComplete'
    <3> SUFFICES ASSUME NEW m \in Merchants, status'[m] = "approved",
                        \A g \in Handlers : m \notin req'[g].ids
                 PROVE  CountersOf({m}) \subseteq issued'
      BY DEF ApprovedIsComplete, CountersOf
    <3>1. CASE m \in req[h].ids
      BY <1>4, <3>1, FinishComplete
    <3>2. CASE m \notin req[h].ids
      <4>1. \A g \in Handlers : m \notin req[g].ids
        BY <1>1, <1>4, <3>2, OthersStay
      <4>2. status[m] = "approved" /\ \A c \in CountersOf({m}) : c \in issued => c \in issued'
        BY <1>1, <1>4, <3>2, OthersComplete
      <4> QED BY <4>1, <4>2 DEF CompleteInv, ApprovedIsComplete
    <3> QED BY <3>1, <3>2
  <2> QED BY <1>1, <2>1, <2>2, <2>3 DEF CompleteInv
<1> QED BY <1>2, <1>3, <1>4 DEF AloneNext, Proceed, Crash, QueryFails

(* An approved merchant that no request is at work on has the QR codes of    *)
(* all its counters: a failure at any of them undoes the approval.           *)
THEOREM ApprovedAlwaysComplete ==
  ASSUME Faults = {}
  PROVE  AloneSpec => []ApprovedIsComplete
<1>1. CompleteInv => ApprovedIsComplete
  BY DEF CompleteInv
<1> QED BY <1>1, CompleteInit, CompleteStep, PTL DEF AloneSpec
=============================================================================
