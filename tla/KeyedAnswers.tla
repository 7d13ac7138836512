---------------------------- MODULE KeyedAnswers ----------------------------
(***************************************************************************)
(* What executeIdempotently (registry-oracle/src/services/idempotency.ts)  *)
(* promises its callers, without a word of how: an Idempotency-Key gets    *)
(* one answer, to one request, for ever.  A caller that asks that request  *)
(* is given this answer or an error; a caller that asks another request    *)
(* under the key is refused, and is refused only then.                     *)
(***************************************************************************)
CONSTANTS Callers, Keys

VARIABLES
  answers,   \* the answers given so far, records with fields key, batch, data
  key,       \* the key and
  batch,     \* the request of each caller
  reply      \* what each caller has been told

absvars == <<answers, key, batch, reply>>

AnswersOf(k) == {r \in answers : r.key = k}

KInit ==
  /\ answers = {}
  /\ reply = [c \in Callers |-> [status |-> "none", data |-> <<>>]]

Tell(c, status, d) ==
  /\ reply[c].status = "none"
  /\ reply' = [reply EXCEPT ![c] = [status |-> status, data |-> d]]
  /\ UNCHANGED <<key, batch>>

(* The answer to a key is fixed by the first caller that gets one.          *)
Decide(c) ==
  /\ AnswersOf(key[c]) = {}
  /\ \E r \in answers' :
       /\ answers' = answers \cup {r}
       /\ r.key = key[c]
       /\ r.batch = batch[c]
       /\ Tell(c, "ok", r.data)

Replay(c) ==
  /\ \E r \in AnswersOf(key[c]) : r.batch = batch[c] /\ Tell(c, "ok", r.data)
  /\ UNCHANGED answers

Refuse(c) ==
  /\ \E r \in AnswersOf(key[c]) : r.batch # batch[c]
  /\ Tell(c, "reused", <<>>)
  /\ UNCHANGED answers

(* Registration failed, or was not possible: nothing is remembered of it.   *)
GiveUp(c) ==
  /\ Tell(c, "conflict", <<>>) \/ Tell(c, "error", <<>>)
  /\ UNCHANGED answers

KNext == \E c \in Callers : Decide(c) \/ Replay(c) \/ Refuse(c) \/ GiveUp(c)

KSpec == KInit /\ [][KNext]_absvars
=============================================================================
