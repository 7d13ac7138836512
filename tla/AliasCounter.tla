---------------------------- MODULE AliasCounter ----------------------------
(***************************************************************************)
(* What POST /participants promises of the aliases it makes up for a DFSP   *)
(* that names none: they are numbers, each is free and given once, and the  *)
(* ones that are passed over are taken, or a merchant has given them up.    *)
(***************************************************************************)
EXTENDS Naturals

CONSTANT Numbers      \* those that are used as aliases, from 1 on

VARIABLES
  taken,      \* the numbers that are aliases of somebody
  given,      \* those that were made up
  freed       \* those that were given up

CInit == taken = {} /\ given = {} /\ freed = {}

(* A number that is free, and that nothing below it could be given instead.   *)
NextNumber(n) ==
  /\ n \notin taken \cup given
  /\ \A k \in Numbers : k < n => k \in taken \cup freed

(* A participant without an alias of its own.                               *)
Give(n) ==
  /\ NextNumber(n)
  /\ taken' = taken \cup {n}
  /\ given' = given \cup {n}
  /\ UNCHANGED freed

(* A participant or a merchant with an alias that happens to be a number.   *)
Take(n) ==
  /\ n \notin taken
  /\ taken' = taken \cup {n}
  /\ UNCHANGED <<given, freed>>

(* A merchant gets another alias, maybe another number; what was made up for *)
(* a participant stays with it.                                             *)
Rename(n, others) ==
  /\ n \in taken \ given
  /\ others \cap taken = {}
  /\ taken' = (taken \ {n}) \cup others
  /\ freed' = freed \cup {n}
  /\ UNCHANGED given

CNext ==
  \E n \in Numbers :
    Give(n) \/ Take(n) \/ Rename(n, {}) \/ \E m \in Numbers : Rename(n, {m})

CSpec == CInit /\ [][CNext]_<<taken, given, freed>>
=============================================================================
