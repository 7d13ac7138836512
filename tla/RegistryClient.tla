--------------------------- MODULE RegistryClient ---------------------------
(***************************************************************************)
(* The Acquirer Backend's side of a registration: requestRegistry and      *)
(* registerMerchantsWithRegistry (acquirer-backend/src/services/           *)
(* registryOracleClient.ts), composed with the handlers of RegistryOracle. *)
(*                                                                         *)
(* A call sends up to MaxTries requests under one Idempotency-Key.  The    *)
(* n-th request of call c is run <<c, n>> of the handler.  axios gives a   *)
(* request up when its timeout expires; the handler knows nothing of that  *)
(* and goes on, beside the request that retries it.                        *)
(***************************************************************************)
EXTENDS RegistryOracle

CONSTANTS
  Calls,
  KeyOf,        \* the Idempotency-Key of each call
  MaxTries,     \* REGISTRY_HTTP_RETRIES + 1
  MaxLosses     \* bound: timeouts, failing database calls and restarts in a behaviour

VARIABLES
  try,        \* requests each call has sent
  outcome,    \* what the call returned or threw
  result,     \* the rows a successful call returned
  losses      \* timeouts, failures and restarts so far

clientvars == <<try, outcome, result, losses>>
allvars == <<vars, clientvars>>

ASSUME ClientAssumption ==
  /\ Attempts = Calls \X (1..MaxTries)
  /\ KeyOf \in [Calls -> Keys]
  /\ \A c, d \in Calls : KeyOf[c] = KeyOf[d] => c = d
  /\ MaxTries \in Nat \ {0}
  /\ MaxLosses \in Nat

Run(c) == <<c, try[c]>>     \* the request the call waits for

ClientTypeOK ==
  /\ try \in [Calls -> 0..MaxTries]
  /\ outcome \in [Calls -> {"idle", "waiting", "retrying", "ok", "conflict", "failed"}]
  /\ result \in [Calls -> Seq(Row)]
  /\ losses \in 0..MaxLosses

(* A key is a fresh uuid or the hash of the caller's own key: here each     *)
(* call has one, and all its requests have its body.                       *)
ClientInit ==
  /\ Init
  /\ \A c \in Calls : \A n \in 1..MaxTries :
       key[<<c, n>>] = KeyOf[c] /\ batch[<<c, n>>] = batch[<<c, 1>>]
  /\ try = [c \in Calls |-> 0]
  /\ outcome = [c \in Calls |-> "idle"]
  /\ result = [c \in Calls |-> <<>>]
  /\ losses = 0

Finish(c, o, d) ==
  /\ outcome' = [outcome EXCEPT ![c] = o]
  /\ result' = [result EXCEPT ![c] = d]

Send(c) ==
  /\ outcome[c] \in {"idle", "retrying"}
  /\ try' = [try EXCEPT ![c] = @ + 1]
  /\ outcome' = [outcome EXCEPT ![c] = "waiting"]
  /\ Arrive(<<c, try[c] + 1>>)
  /\ UNCHANGED <<result, losses>>

(* Faulty: no error is retried.                                             *)
FaultyRetryOrThrow(c) ==
  /\ outcome' = [outcome EXCEPT ![c] = "failed"]
  /\ UNCHANGED result

(* A retryable error: the next attempt, or the error is thrown.             *)
RetryOrThrow(c) ==
  /\ outcome' = [outcome EXCEPT ![c] = IF try[c] < MaxTries THEN "retrying" ELSE "failed"]
  /\ UNCHANGED result

(* The response arrives: 5xx is retried, 409 is thrown at once.             *)
Receive(c) ==
  /\ outcome[c] = "waiting"
  /\ \/ reply[Run(c)].status = "ok" /\ Finish(c, "ok", reply[Run(c)].data)
     \/ reply[Run(c)].status \in {"conflict", "reused"} /\ Finish(c, "conflict", <<>>)
     \/ reply[Run(c)].status = "error" /\ RetryOrThrow(c)
  /\ UNCHANGED <<vars, try, losses>>

(* REGISTRY_HTTP_TIMEOUT_MS expires, or the response is lost on its way.    *)
TimeOut(c) ==
  /\ outcome[c] = "waiting"
  /\ losses < MaxLosses
  /\ losses' = losses + 1
  /\ RetryOrThrow(c)
  /\ UNCHANGED <<vars, try>>

(* The oracle stopped while it ran the request: the connection breaks.      *)
ConnectionLost(c) ==
  /\ outcome[c] = "waiting"
  /\ pc[Run(c)] = "dead"
  /\ RetryOrThrow(c)
  /\ UNCHANGED <<vars, try, losses>>

ServerStep == /\ \E a \in Attempts : Handle(a)
              /\ UNCHANGED clientvars

ServerFault == /\ losses < MaxLosses
               /\ losses' = losses + 1
               /\ Crash \/ \E a \in Attempts : Fail(a)
               /\ UNCHANGED <<try, outcome, result>>

Participants == /\ \E f \in Fsps, al \in ParticipantAliases : AddParticipant(f, al)
                /\ UNCHANGED clientvars

ClientStep(c) == Send(c) \/ Receive(c) \/ ConnectionLost(c)

ClientNext ==
  \/ \E c \in Calls : ClientStep(c) \/ TimeOut(c)
  \/ ServerStep \/ ServerFault \/ Participants

(* Both services run on an event loop that gets to every continuation, and  *)
(* their database calls return or throw; nothing obliges a timeout or a     *)
(* fault to happen.                                                        *)
ClientFairness ==
  /\ \A a \in Attempts : WF_allvars(Handle(a) /\ UNCHANGED clientvars)
  /\ \A c \in Calls : WF_allvars(ClientStep(c))

ClientSpec == ClientInit /\ [][ClientNext]_allvars
FairClientSpec == ClientSpec /\ ClientFairness

-----------------------------------------------------------------------------
(* A call that succeeds, on whichever attempt, returned the rows of its own  *)
(* counters that the oracle has recorded for its key, and they are the ids   *)
(* under which these counters are registered now.                           *)
SuccessIsRegistered ==
  \A c \in Calls : outcome[c] = "ok" =>
    LET b == batch[<<c, 1>>] IN
    /\ \E r \in records : r.key = KeyOf[c] /\ r.batch = b /\ r.data = result[c]
    /\ \A i \in DOMAIN b :
         \E s \in registry : s.id = result[c][i].id /\ s.counter = b[i].counter

(* However a call was retried, its own requests never registered one of its  *)
(* counters twice: a row that answers one of them answers all of them.      *)
RetriesAgree ==
  \A c \in Calls : \A m, n \in 1..MaxTries :
    data[<<c, m>>] # <<>> /\ data[<<c, n>>] # <<>> =>
      \A i \in DOMAIN data[<<c, m>>] : data[<<c, m>>][i].id = data[<<c, n>>][i].id

(* Nobody else, no other counter of its body included, wants an alias of c,  *)
(* and its LEIs belong to one merchant, which no other call registers.      *)
Uncontested(c) ==
  LET b == batch[<<c, 1>>] IN
  \A i \in DOMAIN b :
    /\ PreferredAlias(b[i]) \notin ParticipantAliases
    /\ \A j \in DOMAIN b :
         /\ PreferredAlias(b[j]) = PreferredAlias(b[i]) => j = i
         /\ b[j].lei = b[i].lei /\ b[i].lei # NoLei =>
              MerchantOf[b[j].counter] = MerchantOf[b[i].counter] /\ b[j].fsp = b[i].fsp
    /\ \A d \in Calls \ {c} : \A j \in DOMAIN batch[<<d, 1>>] :
         LET n == batch[<<d, 1>>][j] IN
         /\ PreferredAlias(n) # PreferredAlias(b[i])
         /\ n.counter # b[i].counter
         /\ n.lei = b[i].lei => b[i].lei = NoLei

(* A registration is not refused for a conflict with itself: when nobody     *)
(* else wants its aliases or its LEI, a retry meets the rows its own first   *)
(* attempt left and takes them for its own.                                 *)
NeverConflictsWithItself ==
  \A c \in Calls : Uncontested(c) => outcome[c] # "conflict"

(* Two retries hide one lost response, failing query or restart: a call that *)
(* nobody contests ends with success.                                       *)
LossIsMasked ==
  \A c \in Calls : Uncontested(c) => <>(outcome[c] = "ok")
=============================================================================
