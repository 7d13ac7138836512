-------------------------- MODULE BulkImportProofs --------------------------
(***************************************************************************)
(* Theorems about BulkImport, for every set of attempts, keys and workbooks. *)
(* Those about the keys do not open what makes a workbook valid; the last    *)
(* one does, to follow the rows of a sheet to the merchants made of them.    *)
(***************************************************************************)
EXTENDS BulkImport, FiniteSetTheorems, TLAPS

Statuses == {"none", "ok", "reused", "conflict", "error"}

RequestTypeOK == key \in [Attempts -> Keys] /\ batch \in [Attempts -> Books]
PlaceTypeOK == pc \in [Attempts -> Stages]
TodoTypeOK == /\ todo = [u \in Attempts |-> todo[u]]
              /\ \A u \in Attempts : todo[u] \subseteq AliasesOf(batch[u])
RefusedTypeOK == refused \in [Attempts -> BOOLEAN]
ReplyTypeOK == /\ reply = [u \in Attempts |-> reply[u]]
               /\ \A u \in Attempts : reply[u].status \in Statuses
               /\ \A u \in Attempts : reply[u].status # "none" => pc[u] = "done"
TablesTypeOK == answers \subseteq Import /\ merchants = UNION {Range(r.data) : r \in answers}

TypeInv == /\ RequestTypeOK /\ PlaceTypeOK /\ TodoTypeOK /\ RefusedTypeOK
           /\ ReplyTypeOK /\ TablesTypeOK /\ overlapped \subseteq Attempts

LEMMA TypeParts == TypeInv => TypeOK
BY DEF TypeInv, TypeOK, RequestTypeOK, PlaceTypeOK, TodoTypeOK, RefusedTypeOK, ReplyTypeOK,
   TablesTypeOK, Statuses

LEMMA TypeInit == Init => TypeInv
<1> SUFFICES ASSUME Init PROVE TypeInv
  OBVIOUS
<1>1. PlaceTypeOK /\ RefusedTypeOK /\ RequestTypeOK /\ TodoTypeOK
  BY DEF Init, PlaceTypeOK, RefusedTypeOK, RequestTypeOK, TodoTypeOK, Stages
<1>2. ReplyTypeOK /\ TablesTypeOK /\ overlapped \subseteq Attempts
  BY DEF Init, ReplyTypeOK, TablesTypeOK, NoReply, Statuses, Import
<1> QED BY <1>1, <1>2 DEF TypeInv

LEMMA GotoFact ==
  ASSUME TypeInv, NEW u \in Attempts, NEW label \in Stages, Goto(u, label),
         pc[u] # "done", UNCHANGED reply
  PROVE  PlaceTypeOK' /\ ReplyTypeOK' /\ pc'[u] = label
         /\ \A v \in Attempts \ {u} : pc'[v] = pc[v]
BY DEF TypeInv, PlaceTypeOK, ReplyTypeOK, Goto

LEMMA AnswerFact ==
  ASSUME TypeInv, NEW u \in Attempts, NEW status \in Statuses, NEW d, Answer(u, status, d)
  PROVE  /\ PlaceTypeOK' /\ ReplyTypeOK' /\ pc'[u] = "done"
         /\ reply'[u] = [status |-> status, data |-> d]
         /\ \A v \in Attempts \ {u} : pc'[v] = pc[v] /\ reply'[v] = reply[v]
<1>1. pc' = [pc EXCEPT ![u] = "done"] /\ "done" \in Stages
  BY DEF Answer, Goto, Stages
<1>2. PlaceTypeOK' /\ pc'[u] = "done" /\ \A v \in Attempts \ {u} : pc'[v] = pc[v]
  BY <1>1 DEF TypeInv, PlaceTypeOK
<1>3. /\ reply' = [v \in Attempts |-> reply'[v]]
      /\ reply'[u] = [status |-> status, data |-> d]
      /\ \A v \in Attempts \ {u} : reply'[v] = reply[v]
  BY DEF Answer, TypeInv, ReplyTypeOK
<1>4. \A v \in Attempts : reply'[v].status \in Statuses
  BY <1>3 DEF TypeInv, ReplyTypeOK
<1>5. \A v \in Attempts : reply'[v].status # "none" => pc'[v] = "done"
  BY <1>2, <1>3 DEF TypeInv, ReplyTypeOK
<1>6. ReplyTypeOK'
  BY <1>3, <1>4, <1>5, Zenon DEF ReplyTypeOK
<1> QED BY <1>2, <1>3, <1>6

LEMMA RepeatFact ==
  ASSUME NEW u \in Attempts, NEW r, Repeat(u, r)
  PROVE  \E status \in {"ok", "reused"} : \E d : Answer(u, status, d)
BY DEF Repeat

(* A step of attempt u: where it goes, what it answers, and what it leaves.   *)
Moves(u) ==
  \/ \E label \in Stages \ {"idle", "done"} : Goto(u, label) /\ UNCHANGED reply
  \/ \E status \in Statuses \ {"none"} : \E d : Answer(u, status, d)

LEMMA StepMoves ==
  ASSUME NEW u \in Attempts, TypeInv, Step(u)
  PROVE  /\ pc[u] # "done" /\ UNCHANGED <<key, batch>>
         /\ \/ Moves(u)
            \/ \E a \in todo[u] : CheckAlias(u, a)
<1> USE DEF Moves, Stages, Statuses
<1>1. CASE Send(u)
  BY <1>1 DEF Send
<1>2. CASE LookUp(u)
  <2>1. CASE \E r \in ImportsUnder(key[u]) : Repeat(u, r)
    BY <1>2, <2>1, RepeatFact DEF LookUp, request
  <2>2. CASE Goto(u, "leis") /\ UNCHANGED reply
    BY <1>2, <2>2 DEF LookUp, request
  <2> QED BY <1>2, <2>1, <2>2 DEF LookUp
<1>3. CASE CheckLeis(u)
  BY <1>3 DEF CheckLeis, request
<1>4. CASE Checked(u)
  BY <1>4 DEF Checked, request
<1>5. CASE Create(u)
  BY <1>5 DEF Create, request
<1>6. CASE RollBack(u)
  BY <1>6 DEF RollBack, request
<1>7. CASE Reread(u)
  BY <1>7, RepeatFact DEF Reread, request
<1>8. CASE Explain(u)
  BY <1>8 DEF Explain, request
<1>9. CASE Fail(u)
  BY <1>9 DEF Fail, request
<1>10. ASSUME NEW a \in todo[u], CheckAlias(u, a) PROVE pc[u] # "done" /\ UNCHANGED <<key, batch>>
  BY <1>10 DEF CheckAlias, request
<1> QED BY <1>1, <1>2, <1>3, <1>4, <1>5, <1>6, <1>7, <1>8, <1>9, <1>10 DEF Step

LEMMA MovesFact ==
  ASSUME TypeInv, NEW u \in Attempts, Moves(u), pc[u] # "done"
  PROVE  /\ PlaceTypeOK' /\ ReplyTypeOK' /\ pc'[u] # "idle"
         /\ \A v \in Attempts \ {u} : pc'[v] = pc[v]
<1>1. ASSUME NEW label \in Stages \ {"idle", "done"}, Goto(u, label), UNCHANGED reply
      PROVE  /\ PlaceTypeOK' /\ ReplyTypeOK' /\ pc'[u] # "idle"
             /\ \A v \in Attempts \ {u} : pc'[v] = pc[v]
  BY <1>1, GotoFact
<1>2. ASSUME NEW status \in Statuses \ {"none"}, NEW d, Answer(u, status, d)
      PROVE  /\ PlaceTypeOK' /\ ReplyTypeOK' /\ pc'[u] # "idle"
             /\ \A v \in Attempts \ {u} : pc'[v] = pc[v]
  BY <1>2, AnswerFact
<1> QED BY <1>1, <1>2 DEF Moves

LEMMA TypeStep ==
  ASSUME TypeInv, NEW u \in Attempts, Step(u)
  PROVE  TypeInv'
<1>1. pc[u] # "done" /\ RequestTypeOK' /\ UNCHANGED <<key, batch>>
  BY StepMoves DEF TypeInv, RequestTypeOK
<1>2. PlaceTypeOK' /\ ReplyTypeOK'
  <2>1. ASSUME NEW a \in todo[u], CheckAlias(u, a) PROVE PlaceTypeOK' /\ ReplyTypeOK'
    BY <2>1 DEF CheckAlias, TypeInv, PlaceTypeOK, ReplyTypeOK
  <2> QED BY <1>1, <2>1, StepMoves, MovesFact
<1>3. TodoTypeOK'
  <2>1. CASE UNCHANGED todo
    BY <1>1, <2>1 DEF TypeInv, TodoTypeOK
  <2>2. ASSUME NEW x, x \subseteq AliasesOf(batch[u]), todo' = [todo EXCEPT ![u] = x]
        PROVE  TodoTypeOK'
    <3>1. todo' = [v \in Attempts |-> todo'[v]] /\ todo'[u] = x
          /\ \A v \in Attempts \ {u} : todo'[v] = todo[v]
      BY <2>2 DEF TypeInv, TodoTypeOK
    <3> QED BY <1>1, <2>2, <3>1 DEF TypeInv, TodoTypeOK
  <2>3. CASE CheckLeis(u)
    <3>1. PICK bad \in SUBSET Range(batch[u].merchants) :
            todo' = [todo EXCEPT ![u] =
                       UNION {Range(Named(m, CountersOf(batch[u], m.ref))) :
                                m \in Range(batch[u].merchants) \ bad} \ {Blank}]
      BY <2>3 DEF CheckLeis
    <3>2. UNION {Range(Named(m, CountersOf(batch[u], m.ref))) :
                   m \in Range(batch[u].merchants) \ bad} \ {Blank} \subseteq AliasesOf(batch[u])
      BY DEF AliasesOf
    <3> QED BY <2>2, <3>1, <3>2
  <2>4. ASSUME NEW a \in todo[u], CheckAlias(u, a) PROVE TodoTypeOK'
    <3>1. todo' = [todo EXCEPT ![u] = todo[u] \ {a}]
      BY <2>4 DEF CheckAlias
    <3>2. todo[u] \ {a} \subseteq AliasesOf(batch[u])
      BY DEF TypeInv, TodoTypeOK
    <3> QED BY <2>2, <3>1, <3>2
  <2> QED
    BY <2>1, <2>3, <2>4 DEF Step, Send, LookUp, Checked, Create, RollBack, Reread, Explain, Fail
<1>4. RefusedTypeOK'
  <2>1. CASE UNCHANGED refused
    BY <2>1 DEF TypeInv, RefusedTypeOK
  <2>2. CASE CheckLeis(u)
    <3>1. PICK bad : refused' = [refused EXCEPT ![u] = bad # {}]
      BY <2>2 DEF CheckLeis
    <3>2. (bad # {}) \in BOOLEAN
      BY Zenon
    <3> QED BY <3>1, <3>2, Zenon DEF TypeInv, RefusedTypeOK
  <2>3. ASSUME NEW a \in todo[u], CheckAlias(u, a) PROVE RefusedTypeOK'
    <3>1. refused' = [refused EXCEPT ![u] = refused[u] \/ a \in aliases]
      BY <2>3 DEF CheckAlias
    <3>2. (refused[u] \/ a \in aliases) \in BOOLEAN
      BY Zenon
    <3> QED BY <3>1, <3>2, Zenon DEF TypeInv, RefusedTypeOK
  <2> QED
    BY <2>1, <2>2, <2>3 DEF Step, Send, LookUp, Checked, Create, RollBack, Reread, Explain, Fail
<1>5. TablesTypeOK'
  <2>1. CASE UNCHANGED <<answers, merchants>>
    BY <2>1 DEF TypeInv, TablesTypeOK
  <2>2. CASE Create(u)
    <3> DEFINE r == [key |-> key[u], batch |-> batch[u], data |-> Result(key[u], batch[u])]
    <3>1. r \in Import /\ r.data = Result(key[u], batch[u])
      BY DEF Import, TypeInv, RequestTypeOK
    <3>2. /\ answers' = answers \cup {r}
          /\ merchants' = merchants \cup Range(Result(key[u], batch[u]))
      BY <2>2 DEF Create
    <3> HIDE DEF r
    <3> QED BY <3>1, <3>2 DEF TypeInv, TablesTypeOK
  <2> QED
    BY <2>1, <2>2 DEF Step, Send, LookUp, CheckLeis, Checked, CheckAlias, RollBack, Reread,
       Explain, Fail, tables
<1>6. overlapped' \subseteq Attempts
  <2>1. CASE UNCHANGED overlapped
    BY <2>1 DEF TypeInv
  <2>2. CASE Send(u)
    BY <2>2 DEF Send, AtWork, TypeInv
  <2> QED
    BY <2>1, <2>2 DEF Step, LookUp, CheckLeis, Checked, CheckAlias, Create, RollBack, Reread,
       Explain, Fail, request
<1> QED BY <1>1, <1>2, <1>3, <1>4, <1>5, <1>6 DEF TypeInv

LEMMA TypeNext == TypeInv /\ [Next]_vars => TypeInv'
<1> SUFFICES ASSUME TypeInv, [Next]_vars PROVE TypeInv'
  OBVIOUS
<1>1. CASE UNCHANGED <<key, batch, pc, todo, refused, reply, answers, merchants, overlapped>>
  BY <1>1 DEF TypeInv, RequestTypeOK, PlaceTypeOK, TodoTypeOK, RefusedTypeOK, ReplyTypeOK,
     TablesTypeOK
<1> QED BY <1>1, TypeStep DEF Next, Elsewhere, request, vars

-----------------------------------------------------------------------------
(* An attempt no other one of its key overlapped works alone under its key,   *)
(* and once it has found no import there is none until it writes one.       *)
Working(u) == pc[u] \notin {"idle", "done"}
Alone(u) ==
  u \notin overlapped /\ Working(u) =>
    /\ \A v \in Attempts : Working(v) /\ key[v] = key[u] => v = u
    /\ pc[u] \in {"leis", "aliases", "create", "explain"} => ImportsUnder(key[u]) = {}

KeyInv ==
  /\ \A r \in answers : Valid(r.batch)
  /\ \A u \in Attempts : Working(u) => Valid(batch[u])
  /\ \A u \in Attempts : Alone(u)

LEMMA KeyInit == Init => KeyInv
BY DEF Init, KeyInv, Alone, Working

(* A step of u leaves another attempt alone that does not overlap it.        *)
LEMMA OthersAlone ==
  ASSUME TypeInv, KeyInv, NEW u \in Attempts, NEW v \in Attempts \ {u},
         UNCHANGED key, \A w \in Attempts \ {u} : pc'[w] = pc[w],
         overlapped \subseteq overlapped',
         v \notin overlapped' /\ Working(v) /\ key[u] = key[v] => ~Working(u)',
         key[u] # key[v] \/ ~Working(u) => ImportsUnder(key[v])' = ImportsUnder(key[v])
  PROVE  Alone(v)'
<1> SUFFICES ASSUME v \notin overlapped', Working(v)'
             PROVE  /\ \A w \in Attempts : Working(w)' /\ key[w] = key[v] => w = v
                    /\ pc'[v] \in {"leis", "aliases", "create", "explain"} =>
                         ImportsUnder(key[v])' = {}
  BY DEF Alone, ImportsUnder
<1>1. v \notin overlapped /\ Working(v) /\ pc'[v] = pc[v]
  BY DEF Working
<1>2. /\ \A w \in Attempts : Working(w) /\ key[w] = key[v] => w = v
      /\ pc[v] \in {"leis", "aliases", "create", "explain"} => ImportsUnder(key[v]) = {}
  BY <1>1 DEF KeyInv, Alone
<1>3. \A w \in Attempts : Working(w)' /\ key[w] = key[v] => w = v
  BY <1>1, <1>2 DEF Working
<1>4. key[u] # key[v] \/ ~Working(u)
  BY <1>2
<1> QED BY <1>1, <1>2, <1>3, <1>4

LEMMA ImportsKept ==
  ASSUME UNCHANGED answers, NEW k
  PROVE  ImportsUnder(k)' = ImportsUnder(k)
BY DEF ImportsUnder

LEMMA KeyStep ==
  ASSUME TypeInv, KeyInv, NEW u \in Attempts, Step(u)
  PROVE  KeyInv'
<1>0. pc[u] # "done" /\ UNCHANGED <<key, batch>>
  BY StepMoves
<1>1. \A v \in Attempts \ {u} : pc'[v] = pc[v]
  <2>1. ASSUME NEW a \in todo[u], CheckAlias(u, a) PROVE \A v \in Attempts \ {u} : pc'[v] = pc[v]
    BY <2>1 DEF CheckAlias
  <2> QED BY <1>0, <2>1, StepMoves, MovesFact
<1>2. Working(u)' => Valid(batch[u])
  <2>1. CASE Send(u)
    <3>1. CASE Valid(batch[u])
      BY <3>1
    <3>2. CASE ~Valid(batch[u])
      <4>1. Answer(u, "conflict", <<>>) /\ "conflict" \in Statuses
        BY <2>1, <3>2 DEF Send, Statuses
      <4> QED BY <4>1, AnswerFact DEF Working
    <3> QED BY <3>1, <3>2
  <2>2. CASE Working(u)
    BY <2>2 DEF KeyInv
  <2>3. Working(u) \/ Send(u)
    BY DEF Working, Step, LookUp, CheckLeis, Checked, CheckAlias, Create, RollBack, Reread,
       Explain, Fail
  <2> QED BY <2>1, <2>2, <2>3
<1>3. \A v \in Attempts : Working(v)' => Valid(batch'[v])
  BY <1>0, <1>1, <1>2 DEF KeyInv, Working
<1>4. CASE Send(u)
  <2>1. UNCHANGED answers /\ pc[u] = "idle" /\ overlapped \subseteq overlapped'
    BY <1>4 DEF Send, tables
  <2>2. Working(u)' => /\ pc'[u] = "lookup"
                       /\ AtWork(key[u]) # {} => AtWork(key[u]) \cup {u} \subseteq overlapped'
    <3>1. CASE Valid(batch[u])
      <4>1. Goto(u, "lookup") /\ "lookup" \in Stages /\ UNCHANGED reply
            /\ overlapped' = IF AtWork(key[u]) = {} THEN overlapped
                             ELSE overlapped \cup AtWork(key[u]) \cup {u}
        BY <1>4, <3>1 DEF Send, Stages
      <4> QED BY <2>1, <4>1, GotoFact
    <3>2. CASE ~Valid(batch[u])
      BY <1>2, <3>2
    <3> QED BY <3>1, <3>2
  <2>3. ASSUME NEW v \in Attempts PROVE Alone(v)'
    <3>1. CASE v = u
      <4>1. u \notin overlapped' /\ Working(u)' => \A w \in Attempts : Working(w) => key[w] # key[u]
        BY <2>2 DEF AtWork, Working
      <4>2. ASSUME Working(u)' PROVE pc'[u] = "lookup"
        BY <2>2, <4>2
      <4> QED BY <1>0, <1>1, <3>1, <4>1, <4>2 DEF Alone, Working
    <3>2. CASE v # u
      <4>1. v \notin overlapped' /\ Working(v) /\ key[u] = key[v] => ~Working(u)'
        BY <2>2 DEF AtWork, Working
      <4>2. ImportsUnder(key[v])' = ImportsUnder(key[v])
        BY <1>0, <2>1 DEF ImportsUnder
      <4> QED BY <1>0, <1>1, <2>1, <3>2, <4>1, <4>2, OthersAlone
    <3> QED BY <3>1, <3>2
  <2> QED BY <1>3, <2>1, <2>3 DEF KeyInv
<1>5. CASE ~Send(u)
  <2>1. Working(u) /\ UNCHANGED overlapped
    BY <1>5 DEF Working, Step, LookUp, CheckLeis, Checked, CheckAlias, Create, RollBack, Reread,
       Explain, Fail, request
  <2>2. /\ \A r \in answers' \ answers : r.key = key[u] /\ r.batch = batch[u]
        /\ answers \subseteq answers'
    BY <1>5 DEF Step, LookUp, CheckLeis, Checked, CheckAlias, Create, RollBack, Reread,
       Explain, Fail, tables
  <2>3. \A r \in answers' : Valid(r.batch)
    BY <2>1, <2>2 DEF KeyInv
  <2>4. Alone(u)'
    <3>1. CASE UNCHANGED answers
      <4>1. ImportsUnder(key[u])' = ImportsUnder(key[u])
        BY <1>0, <3>1 DEF ImportsUnder
      <4>2. ASSUME NEW status \in Statuses, NEW d, Answer(u, status, d) PROVE pc'[u] = "done"
        BY <4>2, AnswerFact
      <4>3. ASSUME NEW r, Repeat(u, r) PROVE pc'[u] = "done"
        BY <4>2, <4>3, RepeatFact DEF Statuses
      <4>4. ASSUME pc'[u] \in {"leis", "aliases", "create", "explain"},
                   pc[u] \notin {"leis", "aliases", "create", "explain"}
            PROVE  ImportsUnder(key[u]) = {}
        <5>1. CASE LookUp(u)
          BY <4>3, <4>4, <5>1 DEF LookUp
        <5>2. CASE Reread(u)
          BY <4>3, <4>4, <5>2 DEF Reread
        <5>3. CASE Fail(u)
          BY <4>2, <4>4, <5>3 DEF Fail, Statuses
        <5> QED
          BY <1>5, <4>4, <5>1, <5>2, <5>3 DEF Step, CheckLeis, Checked, CheckAlias, Create,
             RollBack, Explain
      <4> QED BY <1>0, <1>1, <2>1, <4>1, <4>4 DEF KeyInv, Alone, Working
    <3>2. CASE Create(u)
      <4>1. pc'[u] = "done"
        BY <3>2, AnswerFact DEF Create, Statuses
      <4> QED BY <4>1 DEF Alone, Working
    <3> QED BY <1>5, <3>1, <3>2 DEF Step, LookUp, CheckLeis, Checked, CheckAlias, RollBack, Reread,
       Explain, Fail, tables
  <2>5. ASSUME NEW v \in Attempts \ {u} PROVE Alone(v)'
    <3>1. key[u] # key[v] => ImportsUnder(key[v])' = ImportsUnder(key[v])
      BY <1>0, <2>2 DEF ImportsUnder
    <3>2. v \notin overlapped' /\ Working(v) => key[u] # key[v]
      BY <2>1 DEF KeyInv, Alone
    <3> QED BY <1>0, <1>1, <2>1, <3>1, <3>2, OthersAlone
  <2> QED BY <1>3, <2>3, <2>4, <2>5 DEF KeyInv
<1> QED BY <1>4, <1>5

Inv == TypeInv /\ KeyInv

LEMMA InvAlways == Spec => []Inv
<1>1. Init => Inv
  BY TypeInit, KeyInit DEF Inv
<1>2. Inv /\ [Next]_vars => Inv'
  <2> SUFFICES ASSUME Inv, [Next]_vars PROVE KeyInv'
    BY TypeNext DEF Inv
  <2>1. CASE UNCHANGED <<key, batch, pc, answers, overlapped>>
    BY <2>1 DEF Inv, KeyInv, Alone, Working, ImportsUnder
  <2> QED BY <2>1, KeyStep DEF Inv, Next, Elsewhere, request, vars
<1> QED BY <1>1, <1>2, PTL DEF Spec

-----------------------------------------------------------------------------
(* What an attempt does is something KeyedAnswers allows.                    *)
LEMMA PromiseRepeat ==
  ASSUME NEW u \in Attempts, reply[u].status = "none", NEW r \in ImportsUnder(key[u]),
         Repeat(u, r), UNCHANGED <<key, batch, answers>>
  PROVE  Promise!KNext
<1>1. r \in Promise!AnswersOf(key[u])
  BY DEF ImportsUnder, Promise!AnswersOf
<1>2. CASE r.batch = batch[u]
  BY <1>1, <1>2 DEF Repeat, Answer, Promise!KNext, Promise!Replay, Promise!Tell
<1>3. CASE r.batch # batch[u]
  BY <1>1, <1>3 DEF Repeat, Answer, Promise!KNext, Promise!Refuse, Promise!Tell
<1> QED BY <1>2, <1>3

LEMMA PromiseGiveUp ==
  ASSUME NEW u \in Attempts, reply[u].status = "none", NEW status \in {"conflict", "error"},
         Answer(u, status, <<>>), UNCHANGED <<key, batch, answers>>
  PROVE  Promise!KNext
BY DEF Answer, Promise!KNext, Promise!GiveUp, Promise!Tell

LEMMA PromiseDecide ==
  ASSUME NEW u \in Attempts, reply[u].status = "none", Create(u)
  PROVE  Promise!KNext
<1> DEFINE r == [key |-> key[u], batch |-> batch[u], data |-> Result(key[u], batch[u])]
<1>1. r.key = key[u] /\ r.batch = batch[u] /\ r.data = Result(key[u], batch[u])
  OBVIOUS
<1>2. answers' = answers \cup {r} /\ UNCHANGED <<key, batch>>
  BY DEF Create, request
<1>3. Promise!Tell(u, "ok", r.data)
  BY <1>2 DEF Create, Answer, Promise!Tell
<1>4. Promise!AnswersOf(key[u]) = {}
  BY DEF Create, KeyTaken, ImportsUnder, Promise!AnswersOf
<1>5. r \in answers'
  BY <1>2
<1> HIDE DEF r
<1>6. Promise!Decide(u)
  BY <1>1, <1>2, <1>3, <1>4, <1>5 DEF Promise!Decide
<1> QED BY <1>6 DEF Promise!KNext

LEMMA PromiseStep ==
  ASSUME Inv, [Next]_vars
  PROVE  [Promise!KNext]_(Promise!absvars)
<1>1. CASE UNCHANGED <<key, batch, reply, answers>>
  BY <1>1 DEF Promise!absvars
<1>2. ASSUME NEW u \in Attempts, Step(u) PROVE [Promise!KNext]_(Promise!absvars)
  <2>1. reply[u].status = "none" /\ UNCHANGED <<key, batch>>
    BY <1>2, StepMoves DEF Inv, TypeInv, ReplyTypeOK
  <2>2. CASE Create(u)
    BY <2>1, <2>2, PromiseDecide
  <2>3. CASE UNCHANGED answers /\ \E r \in ImportsUnder(key[u]) : Repeat(u, r)
    BY <2>1, <2>3, PromiseRepeat
  <2>4. CASE UNCHANGED answers /\ \E status \in {"conflict", "error"} : Answer(u, status, <<>>)
    BY <2>1, <2>4, PromiseGiveUp
  <2> QED
    BY <1>1, <1>2, <2>1, <2>2, <2>3, <2>4 DEF Step, Send, LookUp, CheckLeis, CheckAlias, Checked,
       RollBack, Reread, Explain, Fail, tables
<1> QED BY <1>1, <1>2 DEF Next, Elsewhere, request, vars

LEMMA RefusalStep ==
  ASSUME Inv, [Next]_vars, NEW u \in Attempts,
         reply[u].status = "none", reply'[u].status = "conflict", u \notin overlapped,
         NEW r \in ImportsUnder(key[u])
  PROVE  r.batch # batch[u]
<1>1. PICK v \in Attempts : Step(v)
  BY DEF Next, Elsewhere, vars
<1>2. v = u
  <2> SUFFICES ASSUME v # u PROVE FALSE
    OBVIOUS
  <2>1. CASE UNCHANGED reply
    BY <2>1
  <2>2. ASSUME NEW status \in Statuses, NEW d, Answer(v, status, d) PROVE reply'[u] = reply[u]
    BY <2>2, AnswerFact DEF Inv
  <2>3. Moves(v) \/ UNCHANGED reply
    BY <1>1, StepMoves DEF Inv, CheckAlias
  <2> QED BY <2>1, <2>2, <2>3 DEF Moves
<1>3. ASSUME NEW status \in Statuses, NEW d, Answer(u, status, d) PROVE status = "conflict"
  <2>1. reply'[u] = [status |-> status, data |-> d]
    BY <1>3, AnswerFact DEF Inv
  <2> QED BY <2>1
<1>4. ASSUME NEW q \in ImportsUnder(key[u]), Repeat(u, q) PROVE FALSE
  BY <1>3, <1>4 DEF Repeat, Statuses
<1>5. r \in answers /\ Valid(r.batch) /\ ImportsUnder(key[u]) # {}
  BY DEF Inv, KeyInv, ImportsUnder
<1>6. CASE Send(u)
  BY <1>5, <1>6 DEF Send
<1>7. CASE Checked(u)
  BY <1>5, <1>7 DEF Checked, Inv, KeyInv, Alone, Working
<1>8. CASE Explain(u)
  BY <1>5, <1>8 DEF Explain, Inv, KeyInv, Alone, Working
<1>9. CASE Create(u)
  BY <1>3, <1>9 DEF Create, Statuses
<1>10. CASE Fail(u)
  BY <1>3, <1>10 DEF Fail, Statuses
<1> QED
  BY <1>1, <1>2, <1>4, <1>6, <1>7, <1>8, <1>9, <1>10 DEF Step, LookUp, CheckLeis, CheckAlias,
     RollBack, Reread

-----------------------------------------------------------------------------
(* Attempts, their answers and the imported merchants keep their types, and   *)
(* the merchants are those of the imports that are recorded: a transaction  *)
(* that fails leaves none behind.                                           *)
THEOREM BulkTypeCorrect == Spec => []TypeOK
<1>1. Inv => TypeOK
  BY TypeParts DEF Inv
<1> QED BY <1>1, InvAlways, PTL

(* However uploads overlap, fail and are repeated, a key imports one workbook *)
(* once and answers with that import for good (bulkMerchantOnboarding.ts,   *)
(* importBulkMerchants).                                                    *)
THEOREM BulkKeepsPromise == Spec => KeepsPromise
<1>1. Init => Promise!KInit
  BY DEF Init, Promise!KInit, NoReply
<1>2. Inv /\ [Next]_vars => [Promise!KNext]_(Promise!absvars)
  BY PromiseStep
<1> QED BY <1>1, <1>2, InvAlways, PTL DEF Spec, KeepsPromise, Promise!KSpec

(* "No merchants were created" is said of a key and a workbook only when they *)
(* created none, unless attempts under the key overlapped.                  *)
THEOREM BulkRefusalsTrue == Spec => RefusalIsTrue
<1>1. Inv /\ [Next]_vars =>
        [\A u \in Attempts :
           reply[u].status = "none" /\ reply'[u].status = "conflict" /\ u \notin overlapped =>
             \A r \in ImportsUnder(key[u]) : r.batch # batch[u]]_vars
  BY RefusalStep
<1> QED BY <1>1, InvAlways, PTL DEF Spec, RefusalIsTrue

-----------------------------------------------------------------------------
(* The sheets.  The k-th row of a set of rows is there, since the place of a   *)
(* row, the number of those up to it, meets every number once.               *)
Upto(S, i) == {j \in S : j <= i}

LEMMA NthFact ==
  ASSUME NEW S, S \subseteq Nat, IsFiniteSet(S)
  PROVE  /\ \A k \in 1..Cardinality(S) : Nth(S, k) \in S /\ Cardinality(Upto(S, Nth(S, k))) = k
         /\ \A i \in S : \E k \in 1..Cardinality(S) : Nth(S, k) = i
<1> DEFINE n == Cardinality(S)
           place == [i \in S |-> Cardinality(Upto(S, i))]
<1>1. ASSUME NEW i \in S PROVE IsFiniteSet(Upto(S, i)) /\ place[i] \in 1..n
  <2>1. Upto(S, i) \in SUBSET S /\ i \in Upto(S, i)
    BY DEF Upto
  <2>2. IsFiniteSet(Upto(S, i)) /\ Cardinality(Upto(S, i)) <= n
    BY <2>1, FS_Subset
  <2>3. Cardinality(Upto(S, i)) \in Nat /\ n \in Nat /\ Cardinality(Upto(S, i)) # 0
    BY <2>1, <2>2, FS_CardinalityType, FS_EmptySet
  <2> QED BY <2>2, <2>3
<1>2. ASSUME NEW i \in S, NEW j \in S, i < j PROVE place[i] < place[j]
  <2>0. \A x \in S : x \in Nat
    OBVIOUS
  <2>1. Upto(S, i) \in SUBSET Upto(S, j) /\ j \in Upto(S, j) \ Upto(S, i)
    <3>1. \A x \in S : x <= i => x <= j
      BY <1>2, <2>0
    <3>2. j <= j /\ ~(j <= i)
      BY <1>2, <2>0
    <3> QED BY <3>1, <3>2 DEF Upto
  <2>2. Cardinality(Upto(S, i)) <= Cardinality(Upto(S, j))
        /\ Cardinality(Upto(S, i)) # Cardinality(Upto(S, j))
    BY <1>1, <2>1, FS_Subset
  <2> QED BY <1>1, <2>2
<1>3. place \in [S -> 1..n] /\ \A i, j \in S : place[i] = place[j] => i = j
  <2>1. place \in [S -> 1..n] /\ \A i \in S : place[i] \in Nat /\ i \in Nat
    BY <1>1
  <2> HIDE DEF place
  <2> QED BY <1>2, <2>1
<1>4. n \in Nat /\ IsFiniteSet(1..n) /\ Cardinality(1..n) = n
  BY FS_CardinalityType, FS_Interval
<1>p. \A i \in S : place[i] = Cardinality(Upto(S, i))
  OBVIOUS
<1> HIDE DEF place
<1>5. \A k \in 1..n : \E i \in S : place[i] = k
  <2>1. place \in Injection(S, 1..n)
    BY <1>3 DEF Injection, IsInjective
  <2>2. place \in Surjection(S, 1..n)
    BY <1>4, <2>1, FS_Injection
  <2> QED BY <2>2 DEF Surjection
<1>6. ASSUME NEW k \in 1..n PROVE Nth(S, k) \in S /\ place[Nth(S, k)] = k
  <2>1. \E i \in S : Cardinality({j \in S : j <= i}) = k
    BY <1>5, <1>p DEF Upto
  <2>2. Nth(S, k) \in S /\ Cardinality(Upto(S, Nth(S, k))) = k
    BY <2>1 DEF Nth, Upto
  <2> QED BY <1>p, <2>2
<1>7. ASSUME NEW i \in S PROVE \E k \in 1..n : Nth(S, k) = i
  <2>1. place[i] \in 1..n /\ Nth(S, place[i]) \in S /\ place[Nth(S, place[i])] = place[i]
    BY <1>3, <1>6
  <2> QED BY <1>3, <2>1
<1> QED BY <1>6, <1>7, <1>p

LEMMA SheetFact ==
  ASSUME NEW b \in Books, NEW sheet \in Sheets
  PROVE  /\ Len(b[sheet]) \in Nat /\ DOMAIN b[sheet] = 1..Len(b[sheet])
         /\ IsFiniteSet(DOMAIN b[sheet]) /\ Cardinality(DOMAIN b[sheet]) = Len(b[sheet])
         /\ IsFiniteSet(Range(b[sheet]))
<1> DEFINE s == b[sheet]
           n == Len(s)
<1>1. s \in Seq(Range(s))
  BY WorkbookAssumption DEF Workbook
<1>2. n \in Nat /\ DOMAIN s = 1..n /\ s \in [1..n -> Range(s)]
  BY <1>1
<1> HIDE DEF n
<1>3. IsFiniteSet(1..n) /\ Cardinality(1..n) = n
  BY <1>2, FS_Interval
<1> HIDE DEF s
<1>4. s \in Surjection(1..n, Range(s))
  BY <1>2 DEF Surjection, Range
<1>5. IsFiniteSet(Range(s))
  BY <1>3, <1>4, FS_Surjection
<1> QED BY <1>2, <1>3, <1>5 DEF s, n

(* The counters of a merchant are its rows, each once.                       *)
Row(b, ref, k) == Nth(RowsOf(b, ref), k)

LEMMA CountersFact ==
  ASSUME NEW b \in Books, NEW ref
  PROVE  LET cs == CountersOf(b, ref) IN
         /\ Len(cs) \in Nat /\ DOMAIN cs = 1..Len(cs) /\ Len(cs) <= Len(b.counters)
         /\ \A k \in DOMAIN cs : /\ Row(b, ref, k) \in RowsOf(b, ref)
                                 /\ cs[k] = b.counters[Row(b, ref, k)]
         /\ \A i \in RowsOf(b, ref) : \E k \in DOMAIN cs : Row(b, ref, k) = i
         /\ \A k, l \in DOMAIN cs : Row(b, ref, k) = Row(b, ref, l) => k = l
<1> DEFINE S == RowsOf(b, ref)
           n == Cardinality(S)
           cs == CountersOf(b, ref)
<1>0. "counters" \in Sheets
  BY DEF Sheets
<1>1. /\ Len(b.counters) \in Nat /\ DOMAIN b.counters = 1..Len(b.counters)
      /\ IsFiniteSet(DOMAIN b.counters) /\ Cardinality(DOMAIN b.counters) = Len(b.counters)
  BY <1>0, SheetFact
<1>2. S \in SUBSET (DOMAIN b.counters) /\ S \subseteq Nat
  BY <1>1 DEF RowsOf
<1>3. IsFiniteSet(S) /\ n <= Len(b.counters)
  BY <1>1, <1>2, FS_Subset
<1>4. n \in Nat
  BY <1>3, FS_CardinalityType
<1>5. cs = [k \in 1..n |-> b.counters[Row(b, ref, k)]]
  BY DEF CountersOf, Row
<1> HIDE DEF n, cs
<1>6. Len(cs) = n /\ DOMAIN cs = 1..n /\ \A k \in 1..n : cs[k] = b.counters[Row(b, ref, k)]
  BY <1>4, <1>5
<1>7. /\ \A k \in 1..n : Row(b, ref, k) \in S /\ Cardinality(Upto(S, Row(b, ref, k))) = k
      /\ \A i \in S : \E k \in 1..n : Row(b, ref, k) = i
  BY <1>2, <1>3, NthFact DEF Row, n
<1>8. \A k, l \in 1..n : Row(b, ref, k) = Row(b, ref, l) => k = l
  BY <1>7
<1>9. /\ Len(cs) \in Nat /\ DOMAIN cs = 1..Len(cs) /\ Len(cs) <= Len(b.counters)
      /\ \A k \in DOMAIN cs : /\ Row(b, ref, k) \in S
                              /\ cs[k] = b.counters[Row(b, ref, k)]
      /\ \A i \in S : \E k \in DOMAIN cs : Row(b, ref, k) = i
      /\ \A k, l \in DOMAIN cs : Row(b, ref, k) = Row(b, ref, l) => k = l
  BY <1>3, <1>4, <1>6, <1>7, <1>8
<1> QED BY <1>9 DEF cs

-----------------------------------------------------------------------------
(* A merchant that a valid workbook creates can be worked with: it has the    *)
(* rows that name it, and its counters at a place are among those counted.   *)
LEMMA NamedThere ==
  ASSUME NEW b \in Books, NEW sheet \in Sheets, NEW ref \in Range(b[sheet])
  PROVE  Cardinality({i \in DOMAIN b[sheet] : b[sheet][i] = ref}) > 0
<1> DEFINE S == {i \in DOMAIN b[sheet] : b[sheet][i] = ref}
<1>1. IsFiniteSet(DOMAIN b[sheet]) /\ S \in SUBSET (DOMAIN b[sheet])
  BY SheetFact
<1>2. S # {}
  BY DEF Range
<1>3. IsFiniteSet(S)
  BY <1>1, FS_Subset
<1> HIDE DEF S
<1>4. Cardinality(S) \in Nat /\ Cardinality(S) # 0
  BY <1>2, <1>3, FS_CardinalityType, FS_EmptySet
<1>5. Cardinality(S) > 0
  BY <1>4
<1> QED BY <1>5 DEF S

(* What Created makes of a row.                                              *)
MadeOf(w, b, m) ==
  LET cs == CountersOf(b, m.ref) IN
  /\ w.ref = m.ref /\ w.next = Len(cs) + 1
  /\ w.locations = {l.ref : l \in {r \in Range(b.locations) : r.merchant = m.ref}}
  /\ w.owners = Cardinality({i \in DOMAIN b.owners : b.owners[i] = m.ref})
  /\ w.contacts = Cardinality({i \in DOMAIN b.contacts : b.contacts[i] = m.ref})
  /\ DOMAIN w.counters = DOMAIN cs /\ Len(w.counters) = Len(cs)
  /\ \A i \in DOMAIN cs : /\ w.counters[i].location = cs[i].location
                          /\ w.counters[i].alias = EffectiveAlias(m, cs, i)

LEMMA CreatedFact ==
  ASSUME NEW b \in Books, NEW m
  PROVE  MadeOf(Created(b, m), b, m)
<1> DEFINE cs == CountersOf(b, m.ref)
           named == [i \in DOMAIN cs |-> [location |-> cs[i].location,
                                          alias |-> EffectiveAlias(m, cs, i)]]
<1>1. /\ Created(b, m).counters = named /\ Created(b, m).ref = m.ref
      /\ Created(b, m).next = Len(cs) + 1
      /\ Created(b, m).locations = {l.ref : l \in {r \in Range(b.locations) : r.merchant = m.ref}}
      /\ Created(b, m).owners = Cardinality({i \in DOMAIN b.owners : b.owners[i] = m.ref})
      /\ Created(b, m).contacts = Cardinality({i \in DOMAIN b.contacts : b.contacts[i] = m.ref})
  BY DEF Created
<1>2. /\ DOMAIN named = DOMAIN cs
      /\ \A i \in DOMAIN cs : /\ named[i].location = cs[i].location
                              /\ named[i].alias = EffectiveAlias(m, cs, i)
  OBVIOUS
<1>3. Len(named) = Len(cs)
  <2>1. Len(cs) \in Nat /\ DOMAIN cs = 1..Len(cs)
    BY CountersFact
  <2> HIDE DEF cs
  <2> QED BY <2>1
<1> HIDE DEF cs, named
<1> QED BY <1>1, <1>2, <1>3 DEF MadeOf, cs

LEMMA CreatedWorkable ==
  ASSUME NEW b \in Books, Valid(b), NEW m \in Range(b.merchants)
  PROVE  Workable(Created(b, m))
<1> DEFINE cs == CountersOf(b, m.ref)
           w  == Created(b, m)
<1>1. /\ w.ref = m.ref /\ w.next = Len(cs) + 1
      /\ w.locations = {l.ref : l \in {r \in Range(b.locations) : r.merchant = m.ref}}
      /\ w.owners = Cardinality({i \in DOMAIN b.owners : b.owners[i] = m.ref})
      /\ w.contacts = Cardinality({i \in DOMAIN b.contacts : b.contacts[i] = m.ref})
      /\ DOMAIN w.counters = DOMAIN cs /\ Len(w.counters) = Len(cs)
      /\ \A i \in DOMAIN cs : w.counters[i].location = cs[i].location
  <2>1. MadeOf(w, b, m)
    BY CreatedFact
  <2> HIDE DEF w
  <2> QED BY <2>1 DEF MadeOf
<1>2. /\ Len(cs) \in Nat /\ DOMAIN cs = 1..Len(cs)
      /\ \A k \in DOMAIN cs : /\ Row(b, m.ref, k) \in RowsOf(b, m.ref)
                              /\ cs[k] = b.counters[Row(b, m.ref, k)]
      /\ \A i \in RowsOf(b, m.ref) : \E k \in DOMAIN cs : Row(b, m.ref, k) = i
      /\ \A k, l \in DOMAIN cs : Row(b, m.ref, k) = Row(b, m.ref, l) => k = l
  BY CountersFact
<1> HIDE DEF cs, w
<1>3. m.ref \in References(b)
  BY DEF References
<1>4. w.owners > 0 /\ w.contacts > 0
  <2>1. m.ref \in Range(b.owners) /\ m.ref \in Range(b.contacts)
    BY <1>3 DEF Valid
  <2>2. "owners" \in Sheets /\ "contacts" \in Sheets
    BY DEF Sheets
  <2> QED BY <1>1, <2>1, <2>2, NamedThere
<1>5. w.locations # {}
  <2>1. PICK l \in Range(b.locations) : l.merchant = m.ref
    BY <1>3 DEF Valid
  <2> QED BY <1>1, <2>1
<1>6. ASSUME NEW k \in DOMAIN cs
      PROVE  w.counters[k].location \in w.locations
  <2> DEFINE c == b.counters[Row(b, m.ref, k)]
  <2>1. c \in Range(b.counters) /\ c.merchant = m.ref /\ w.counters[k].location = c.location
    BY <1>1, <1>2, <1>6 DEF RowsOf, Range
  <2> HIDE DEF c
  <2>2. PICK i \in DOMAIN b.locations : <<b.locations[i].merchant, b.locations[i].ref>> = <<c.merchant, c.location>>
    BY <2>1 DEF Valid, KnownPlace, Place, Places, Range
  <2>3. b.locations[i] \in Range(b.locations)
        /\ b.locations[i].merchant = c.merchant /\ b.locations[i].ref = c.location
    BY <2>2 DEF Range
  <2> QED BY <1>1, <2>1, <2>3
<1>7. ASSUME NEW p \in w.locations
      PROVE  /\ \E k \in DOMAIN cs : w.counters[k].location = p
             /\ Cardinality({i \in DOMAIN w.counters : w.counters[i].location = p}) <= MaxCounters
  <2> DEFINE q == <<m.ref, p>>
             Q == {i \in DOMAIN b.counters : Place(b.counters[i]) = q}
             At == {i \in DOMAIN w.counters : w.counters[i].location = p}
             row == [k \in At |-> Row(b, m.ref, k)]
  <2>1. q \in Range(Places(b))
    <3>1. PICK l \in Range(b.locations) : l.merchant = m.ref /\ l.ref = p
      BY <1>1, <1>7
    <3>2. PICK i \in DOMAIN b.locations : l = b.locations[i]
      BY DEF Range
    <3>3. i \in DOMAIN Places(b) /\ Places(b)[i] = q
      BY <3>1, <3>2 DEF Places
    <3> QED BY <3>3 DEF Range
  <2>2. Cardinality(Q) \in 1..MaxCounters
    BY <2>1 DEF Valid
  <2>3. IsFiniteSet(Q)
    <3>1. "counters" \in Sheets
      BY DEF Sheets
    <3>2. IsFiniteSet(DOMAIN b.counters) /\ Q \in SUBSET (DOMAIN b.counters)
      BY <3>1, SheetFact
    <3> QED BY <3>2, FS_Subset
  <2>4. Q # {}
    BY <2>2, FS_EmptySet
  <2>5. \A i \in Q : i \in RowsOf(b, m.ref) /\ b.counters[i].location = p
    BY DEF RowsOf, Place
  <2>6. \A k \in At : row[k] \in Q
    BY <1>1, <1>2 DEF RowsOf, Place
  <2>7. \A k, l \in At : row[k] = row[l] => k = l
    BY <1>1, <1>2
  <2>8. row \in Injection(At, Q)
    <3>1. row \in [At -> Q]
      BY <2>6
    <3> HIDE DEF row
    <3> QED BY <2>7, <3>1 DEF Injection, IsInjective
  <2>9. IsFiniteSet(At) /\ Cardinality(At) <= Cardinality(Q)
    BY <2>3, <2>8, FS_Injection
  <2>10. Cardinality(At) \in Nat /\ MaxCounters \in Nat
    BY <2>9, FS_CardinalityType, BulkAssumption
  <2>11. Cardinality(At) <= MaxCounters
    BY <2>2, <2>9, <2>10
  <2>12. \E k \in DOMAIN cs : w.counters[k].location = p
    BY <1>1, <1>2, <2>4, <2>5
  <2> QED BY <2>11, <2>12
<1>8. {w.counters[i].location : i \in DOMAIN w.counters} = w.locations
  <2>1. \A k \in DOMAIN w.counters : w.counters[k].location \in w.locations
    BY <1>1, <1>6
  <2>2. \A p \in w.locations : \E k \in DOMAIN w.counters : w.counters[k].location = p
    BY <1>1, <1>7
  <2> QED BY <2>1, <2>2
<1>9. w.next = Len(w.counters) + 1
  BY <1>1
<1>10. Workable(w)
  BY <1>4, <1>5, <1>7, <1>8, <1>9 DEF Workable
<1> QED BY <1>10 DEF w

(* No two counters of a valid workbook have one alias.                       *)
LEMMA AliasUsedOnce ==
  ASSUME NEW b \in Books, Valid(b),
         NEW m \in Range(b.merchants), NEW i \in DOMAIN CountersOf(b, m.ref),
         NEW o \in Range(b.merchants), NEW j \in DOMAIN CountersOf(b, o.ref),
         EffectiveAlias(m, CountersOf(b, m.ref), i) # Blank,
         Lower(EffectiveAlias(m, CountersOf(b, m.ref), i))
           = Lower(EffectiveAlias(o, CountersOf(b, o.ref), j))
  PROVE  m = o /\ i = j
<1> DEFINE NamesOf(x) == Named(x, CountersOf(b, x.ref))
           a == EffectiveAlias(m, CountersOf(b, m.ref), i)
           c == EffectiveAlias(o, CountersOf(b, o.ref), j)
           x == Lower(a)
           U == {u \in Range(b.merchants) \X (1..Len(b.counters)) :
                   u[2] <= Len(NamesOf(u[1])) /\ NamesOf(u[1])[u[2]] = x}
<1>1. ASSUME NEW y \in Range(b.merchants), NEW k \in DOMAIN CountersOf(b, y.ref)
      PROVE  /\ Lower(EffectiveAlias(y, CountersOf(b, y.ref), k)) = Blank
                  <=> EffectiveAlias(y, CountersOf(b, y.ref), k) = Blank
             /\ k \in 1..Len(b.counters) /\ k <= Len(NamesOf(y)) /\ k \in DOMAIN NamesOf(y)
             /\ NamesOf(y)[k] = Lower(EffectiveAlias(y, CountersOf(b, y.ref), k))
  <2> DEFINE cs == CountersOf(b, y.ref)
  <2>1. /\ Len(cs) \in Nat /\ DOMAIN cs = 1..Len(cs) /\ Len(cs) <= Len(b.counters)
        /\ Row(b, y.ref, k) \in RowsOf(b, y.ref) /\ cs[k] = b.counters[Row(b, y.ref, k)]
    BY CountersFact
  <2>2. Len(b.counters) \in Nat
    <3>1. "counters" \in Sheets
      BY DEF Sheets
    <3> QED BY <3>1, SheetFact
  <2>k. k \in DOMAIN cs
    OBVIOUS
  <2>n. NamesOf(y) = Named(y, cs)
    OBVIOUS
  <2> HIDE DEF cs
  <2>3. cs[k] \in Range(b.counters)
    BY <2>1 DEF RowsOf, Range
  <2>4. EffectiveAlias(y, cs, k) \in {y.alias, cs[k].alias}
    BY DEF EffectiveAlias
  <2>5. Lower(EffectiveAlias(y, cs, k)) = Blank <=> EffectiveAlias(y, cs, k) = Blank
    BY <2>3, <2>4, LowerAssumption
  <2>6. /\ DOMAIN Named(y, cs) = 1..Len(cs)
        /\ Named(y, cs)[k] = Lower(EffectiveAlias(y, cs, k))
    BY <2>1, <2>5, <2>k DEF Named
  <2>7. Len(Named(y, cs)) = Len(cs)
    BY <2>1, <2>6
  <2>8. k \in 1..Len(b.counters) /\ k <= Len(cs)
    BY <2>1, <2>2, <2>k
  <2> QED BY <2>1, <2>5, <2>6, <2>7, <2>8, <2>k, <2>n DEF cs
<1>2. x # Blank /\ x = Lower(c)
  BY <1>1
<1>3. <<m, i>> \in U /\ <<o, j>> \in U
  BY <1>1, <1>2
<1>4. x \in Range(NamesOf(m)) \ {Blank}
  BY <1>1, <1>2 DEF Range
<1>5. Cardinality(U) = 1
  <2>1. AliasesDiffer(b)
    BY DEF Valid
  <2> QED BY <1>4, <2>1 DEF AliasesDiffer
<1>6. IsFiniteSet(U)
  <2>1. "counters" \in Sheets /\ "merchants" \in Sheets
    BY DEF Sheets
  <2>2. IsFiniteSet(Range(b.merchants)) /\ IsFiniteSet(1..Len(b.counters))
    BY <2>1, SheetFact
  <2>3. IsFiniteSet(Range(b.merchants) \X (1..Len(b.counters)))
    BY <2>2, FS_Product
  <2>4. U \in SUBSET (Range(b.merchants) \X (1..Len(b.counters)))
    OBVIOUS
  <2> HIDE DEF U
  <2> QED BY <2>3, <2>4, FS_Subset
<1> HIDE DEF U
<1>7. \E z : U = {z}
  BY <1>5, <1>6, FS_Singleton
<1>8. <<m, i>> = <<o, j>>
  BY <1>3, <1>7
<1> QED BY <1>8

-----------------------------------------------------------------------------
(* A key has one import.                                                     *)
OneImport == \A r, q \in answers : r.key = q.key => r = q

LEMMA OneImportStep ==
  ASSUME OneImport, [Next]_vars
  PROVE  OneImport'
<1>1. CASE UNCHANGED answers
  BY <1>1 DEF OneImport
<1>2. ASSUME NEW u \in Attempts, Create(u) PROVE OneImport'
  <2> DEFINE r == [key |-> key[u], batch |-> batch[u], data |-> Result(key[u], batch[u])]
  <2>1. answers' = answers \cup {r} /\ r.key = key[u]
    BY <1>2 DEF Create
  <2>2. \A q \in answers : q.key # key[u]
    BY <1>2 DEF Create, KeyTaken, ImportsUnder
  <2> HIDE DEF r
  <2> QED BY <2>1, <2>2 DEF OneImport
<1> QED BY <1>1, <1>2 DEF Next, Step, Send, LookUp, CheckLeis, Checked, CheckAlias, RollBack, Reread,
       Explain, Fail, Elsewhere, tables, vars

(* An imported merchant was created from a row of a valid workbook, the only   *)
(* one of its key.                                                          *)
LEMMA MerchantFact ==
  ASSUME Inv, NEW r \in merchants
  PROVE  \E q \in answers : /\ q.batch \in Books /\ Valid(q.batch) /\ r.key = q.key
                            /\ \E m \in Range(q.batch.merchants) : r.merchant = Created(q.batch, m)
<1>1. PICK q \in answers : r \in Range(q.data)
  BY DEF Inv, TypeInv, TablesTypeOK
<1>2. q \in Import /\ Valid(q.batch)
  BY DEF Inv, TypeInv, TablesTypeOK, KeyInv
<1>3. q.batch \in Books /\ q.data = Result(q.key, q.batch)
  BY <1>2 DEF Import
<1>4. PICK i \in DOMAIN q.batch.merchants :
        r = [key |-> q.key, merchant |-> Created(q.batch, q.batch.merchants[i])]
  BY <1>1, <1>3 DEF Result, Range
<1>5. q.batch.merchants[i] \in Range(q.batch.merchants)
  BY DEF Range
<1> QED BY <1>2, <1>3, <1>4, <1>5

LEMMA ImportComplete ==
  ASSUME Inv, OneImport
  PROVE  ImportedIsComplete
<1>1. ASSUME NEW u \in Attempts, pc[u] = "create" PROVE ~Missing(batch[u])
  BY <1>1 DEF Inv, KeyInv, Working, Valid, KnownPlace, Missing
<1>2. ASSUME NEW r \in merchants PROVE Workable(r.merchant)
  BY MerchantFact, CreatedWorkable
<1>3. ASSUME NEW r \in merchants, NEW q \in merchants, r.key = q.key,
             NEW i \in DOMAIN r.merchant.counters, NEW j \in DOMAIN q.merchant.counters,
             r.merchant.counters[i].alias # Blank,
             Lower(r.merchant.counters[i].alias) = Lower(q.merchant.counters[j].alias)
      PROVE  r.merchant.ref = q.merchant.ref /\ i = j
  <2>1. PICK e \in answers : /\ e.batch \in Books /\ Valid(e.batch) /\ r.key = e.key
                             /\ \E m \in Range(e.batch.merchants) : r.merchant = Created(e.batch, m)
    BY MerchantFact
  <2>2. PICK f \in answers : /\ f.batch \in Books /\ Valid(f.batch) /\ q.key = f.key
                             /\ \E m \in Range(f.batch.merchants) : q.merchant = Created(f.batch, m)
    BY MerchantFact
  <2>3. e = f
    BY <1>3, <2>1, <2>2 DEF OneImport
  <2>4. PICK m \in Range(e.batch.merchants) : r.merchant = Created(e.batch, m)
    BY <2>1
  <2>5. PICK o \in Range(e.batch.merchants) : q.merchant = Created(e.batch, o)
    BY <2>2, <2>3
  <2>6. /\ r.merchant.ref = m.ref /\ q.merchant.ref = o.ref
        /\ i \in DOMAIN CountersOf(e.batch, m.ref) /\ j \in DOMAIN CountersOf(e.batch, o.ref)
        /\ r.merchant.counters[i].alias = EffectiveAlias(m, CountersOf(e.batch, m.ref), i)
        /\ q.merchant.counters[j].alias = EffectiveAlias(o, CountersOf(e.batch, o.ref), j)
    <3>1. MadeOf(r.merchant, e.batch, m) /\ MadeOf(q.merchant, e.batch, o)
      BY <2>1, <2>4, <2>5, CreatedFact
    <3> QED BY <3>1 DEF MadeOf
  <2>7. /\ EffectiveAlias(m, CountersOf(e.batch, m.ref), i) # Blank
        /\ Lower(EffectiveAlias(m, CountersOf(e.batch, m.ref), i))
             = Lower(EffectiveAlias(o, CountersOf(e.batch, o.ref), j))
    BY <1>3, <2>6
  <2>8. m = o /\ i = j
    BY <2>1, <2>6, <2>7, AliasUsedOnce
  <2> QED BY <2>6, <2>8
<1> QED BY <1>1, <1>2, <1>3 DEF ImportedIsComplete

(* An imported merchant has an owner, a contact, and locations of its own with *)
(* counters within the limit, and no two counters of an import share an alias *)
(* (validateMerchantWorkbook, createMerchants).                              *)
THEOREM ImportedAlwaysComplete == Spec => []ImportedIsComplete
<1>1. Init => OneImport
  BY DEF Init, OneImport
<1>2. OneImport /\ [Next]_vars => OneImport'
  BY OneImportStep
<1>3. Inv /\ OneImport => ImportedIsComplete
  BY ImportComplete
<1> QED BY <1>1, <1>2, <1>3, InvAlways, PTL DEF Spec
=============================================================================
