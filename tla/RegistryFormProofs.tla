------------------------- MODULE RegistryFormProofs -------------------------
(***************************************************************************)
(* Theorems about RegistryForm, for every number of tabs, merchants, calls  *)
(* and openings of the form; and about StartUp and AddressForm, for every   *)
(* file of places, every table of names and any number of stops.            *)
(*                                                                         *)
(* The invariant of RegistryForm has four parts, each resting on those      *)
(* before it: types (TypeInv); parts that a copy or a call names are there   *)
(* (PartsInv); the forms before the one that is shown have brought their    *)
(* parts about (CompleteInv), unless a request was left behind or two tabs   *)
(* had the form open; and while nothing else happened the copy that decides *)
(* between creating and updating is true when it is used (SettledInv).      *)
(*                                                                         *)
(* That of StartUp says what each table holds after so many steps of its    *)
(* stage (StartInv); that of AddressForm, which lists and addresses tables,  *)
(* browser and requests may then hold (AddressInv), and which of them were   *)
(* compared with the LEI the merchant has (AgreeInv).                       *)
(***************************************************************************)
EXTENDS RegistryForm, AddressForm, FiniteSetTheorems, TLAPS

Merchant == [status : {"Draft", "Review", "Reverted"}, parts : [Parts -> 0..MaxParts]]

TablesOK ==
  /\ \E n \in 0..MaxMerchants : merchants \in [1..n -> Merchant]
  /\ stored \in {None} \cup Known /\ opened \in 0..MaxOpened
  /\ edited \in [Openings -> SUBSET Known] /\ upset \subseteq Upset
  /\ \A o \in Openings : o > opened => edited[o] = {}

TabOK(t) ==
  /\ step[t] = 0 <=> opening[t] = 0
  /\ opening[t] <= opened
  /\ review[t] => step[t] = 4 /\ id[t] # None
  /\ id[t] # None => step[t] \in 1..4

PagesOK ==
  /\ step \in [Tabs -> Nat] /\ review \in [Tabs -> BOOLEAN]
  /\ opening \in [Tabs -> 0..MaxOpened] /\ id \in [Tabs -> {None} \cup Known]
  /\ cache \in [Tabs -> [Ids -> Copy]]
  /\ fetching \subseteq {t \in Tabs : id[t] # None}
  /\ \A t \in Tabs : TabOK(t)

(* A call is for a merchant that is there, unless it has one to create; and   *)
(* the form that sent it is the one its tab shows as long as it is there.     *)
CallOK(c) ==
  /\ c \in Call /\ c.opening <= opened
  /\ c.form = 5 => ~c.new
  /\ c.merchant \in Known \/ (c.form = 1 /\ c.new /\ ~c.done)
  /\ c.at = "here" =>
       /\ opening[c.tab] = c.opening
       /\ step[c.tab] = IF c.form = 5 THEN 4 ELSE c.form
       /\ (c.form = 1 /\ c.new) \/ c.merchant = id[c.tab]

CallsOK ==
  /\ \A c \in calls : CallOK(c)
  /\ \A c, d \in calls : c.at = "here" /\ d.at = "here" /\ c.tab = d.tab => c = d
  /\ IsFiniteSet(calls) /\ Cardinality(calls) <= MaxCalls
  /\ \A t \in Tabs : step[t] + Cardinality(Pending(t)) <= 4 + MaxCalls

TypeInv == TablesOK /\ PagesOK /\ CallsOK

Has(m, p) == m \in Known /\ merchants[m].parts[p] > 0

(* A copy names no part that is not there, and a call changes none; and what   *)
(* was done was done.                                                       *)
PartsInv ==
  /\ \A t \in Tabs, m \in Ids : \A p \in cache[t][m].parts : Has(m, p)
  /\ \A c \in calls : c.form \in Parts /\ (~c.new \/ c.done) => Has(c.merchant, c.form)

(* Of the tabs one has the form open, and it is about the stored merchant.     *)
OneOpen == \A s, t \in Tabs : step[s] > 0 /\ step[t] > 0 => s = t

Reached(t) ==
  step[t] > 0 =>
    /\ step[t] \in 1..4 /\ id[t] = stored
    /\ step[t] > 1 => stored # None
    /\ \A p \in Parts : p < step[t] \/ review[t] => Has(stored, p)

Facing ==
  /\ OneOpen
  /\ \A t \in Tabs : Reached(t)
  /\ \A c \in calls : c.at \in {"here", "gone"}

Orderly ==
  /\ Facing
  /\ \A c \in calls : c.form = 5 => \A p \in Parts : Has(c.merchant, p)
  /\ \A m \in Known : merchants[m].status = "Review" => \A p \in Parts : Has(m, p)

Calm == upset \cap {"rushed", "shared"} = {}

CompleteInv == Calm => Orderly

(* What an opening of the form has changed: the stored merchant, which stays    *)
(* a draft until it is submitted, or the one it has just created.             *)
Changed(t) ==
  LET e == edited[opening[t]] IN
  /\ \/ e = {} /\ step[t] = 1
     \/ \E c \in calls : c.form = 1 /\ c.new /\ c.done
     \/ stored # None /\ e = {stored}
  /\ stored \in e =>
       merchants[stored].status = "Draft" \/ \E c \in calls : c.form = 5 /\ c.done

(* The copy of the form that is shown.                                       *)
CopyTrue(t) ==
  id[t] # None /\ t \notin fetching =>
    /\ step[t] = 1 /\ id[t] \in edited[opening[t]] => cache[t][id[t]].editable
    /\ \/ cache[t][id[t]].parts = CopyOf(id[t]).parts
       \/ \E c \in calls : c.form \in Parts /\ c.done

CallTrue(c) ==
  /\ c.at = "here"
  /\ c.form = 1 /\ ~c.new => c.tab \notin fetching /\ cache[c.tab][c.merchant].editable
  /\ c.form = 1 /\ c.new /\ ~c.done => edited[c.opening] = {}
  /\ c.form = 1 /\ c.done => /\ edited[c.opening] = {c.merchant}
                             /\ merchants[c.merchant].status = "Draft"
  /\ c.form \in Parts /\ c.new /\ ~c.done => merchants[c.merchant].parts[c.form] = 0

Settled ==
  /\ \A t \in Tabs : step[t] > 0 => Changed(t) /\ CopyTrue(t)
  /\ \A c \in calls : CallTrue(c)
  /\ \A o \in Openings : \A m, n \in edited[o] : m = n
  /\ \A m \in Known, p \in Parts : merchants[m].parts[p] <= 1

SettledInv == upset = {} => Settled

Inv == TypeInv /\ PartsInv /\ CompleteInv /\ SettledInv

-----------------------------------------------------------------------------
LEMMA ImageFact ==
  ASSUME NEW S, IsFiniteSet(S), NEW f, f = [x \in S |-> f[x]], NEW T, T = {f[x] : x \in S}
  PROVE  IsFiniteSet(T) /\ Cardinality(T) <= Cardinality(S)
<1>1. f \in Surjection(S, T)
  BY DEF Surjection
<1> QED BY <1>1, FS_Surjection

LEMMA KnownFact ==
  ASSUME TablesOK
  PROVE  /\ \E n \in 0..MaxMerchants : Known = 1..n /\ Cardinality(Known) = n
         /\ Known \subseteq Ids /\ None \notin Known /\ IsFiniteSet(Known)
         /\ \A m \in Known : merchants[m] \in Merchant
         /\ merchants = [m \in Known |-> merchants[m]]
<1>1. PICK n \in 0..MaxMerchants : merchants \in [1..n -> Merchant]
  BY DEF TablesOK
<1>2. Known = 1..n /\ \A m \in 1..n : merchants[m] \in Merchant
  BY <1>1 DEF Known
<1>3. IsFiniteSet(1..n) /\ Cardinality(1..n) = n
  BY FS_Interval, FormAssumption
<1> QED BY <1>1, <1>2, <1>3, FormAssumption DEF Ids, None, Known

LEMMA CallFact ==
  ASSUME NEW c \in Call
  PROVE  /\ c.tab \in Tabs /\ c.opening \in Openings /\ c.form \in 1..5 /\ c.new \in BOOLEAN
         /\ c.merchant \in {None} \cup Ids /\ c.at \in {"here", "left", "gone"}
         /\ c.done \in BOOLEAN
         /\ c = [tab |-> c.tab, opening |-> c.opening, form |-> c.form, new |-> c.new,
                 merchant |-> c.merchant, at |-> c.at, done |-> c.done]
BY DEF Call

LEMMA CallMoved ==
  ASSUME NEW c \in Call, NEW x \in {"here", "left", "gone"}
  PROVE  [c EXCEPT !.at = x] \in Call
BY DEF Call

(* Calls as they are after the page changed: the same, less those of the tab   *)
(* that are still at their form.                                            *)
SameCall(c, d) ==
  /\ d.tab = c.tab /\ d.opening = c.opening /\ d.form = c.form /\ d.new = c.new
  /\ d.merchant = c.merchant /\ d.done = c.done
Moved(c, d) == c \in calls /\ d \in Call /\ SameCall(c, d) /\ (d.at = c.at \/ d.at # "here")
MovedFrom(t, d) ==
  \E c \in calls : /\ Moved(c, d) /\ (c.tab # t => d = c)
                   /\ d.at = "here" => d = c /\ c.tab # t

(* What is left of the calls when tab t mounts a page.                       *)
Remains(t, R) ==
  /\ \A d \in R : \E c \in calls : /\ Moved(c, d) /\ (c.tab # t => d = c)
                                   /\ d.at = "here" => d = c
  /\ IsFiniteSet(R) /\ Cardinality(R) <= Cardinality(calls)

Of(t, S) == {c \in S : c.tab = t}

LEMMA CountFact ==
  ASSUME CallsOK
  PROVE  Cardinality(calls) \in Nat /\ IsFiniteSet(calls) /\ Cardinality(calls) <= MaxCalls
BY FS_CardinalityType DEF CallsOK

LEMMA RemainsAll ==
  ASSUME CallsOK, NEW t \in Tabs
  PROVE  Remains(t, calls)
BY CountFact DEF CallsOK, CallOK, Remains, Moved, SameCall

LEMMA RemainsLess ==
  ASSUME CallsOK, NEW c \in calls, NEW t \in Tabs
  PROVE  /\ Remains(t, calls \ {c}) /\ Cardinality(calls \ {c}) = Cardinality(calls) - 1
         /\ Cardinality(Of(c.tab, calls \ {c})) = Cardinality(Pending(c.tab)) - 1
<1>2. IsFiniteSet(Pending(c.tab)) /\ c \in Pending(c.tab)
  BY CountFact, FS_Subset DEF Pending
<1>3. Of(c.tab, calls \ {c}) = Pending(c.tab) \ {c}
  BY DEF Of, Pending
<1>4. Cardinality(Of(c.tab, calls \ {c})) = Cardinality(Pending(c.tab)) - 1
  BY <1>2, <1>3, FS_RemoveElement
<1>1. IsFiniteSet(calls \ {c}) /\ Cardinality(calls \ {c}) = Cardinality(calls) - 1
  BY CountFact, FS_RemoveElement
<1> QED BY <1>1, <1>4, CountFact DEF CallsOK, CallOK, Remains, Moved, SameCall

LEMMA RemainsGone ==
  ASSUME CallsOK, NEW t \in Tabs
  PROVE  Remains(t, {[c EXCEPT !.at = IF c.tab = t THEN "gone" ELSE @] : c \in calls})
<1> DEFINE f == [c \in calls |-> [c EXCEPT !.at = IF c.tab = t THEN "gone" ELSE @]]
           R == {f[c] : c \in calls}
<1>1. IsFiniteSet(R) /\ Cardinality(R) <= Cardinality(calls)
  <2>1. f = [c \in calls |-> f[c]]
    OBVIOUS
  <2> HIDE DEF f
  <2> QED BY <2>1, CountFact, ImageFact
<1>2. ASSUME NEW c \in calls 
      PROVE  Moved(c, f[c]) /\ (c.tab # t => f[c] = c) /\ (f[c].at = "here" => f[c] = c)
  <2>1. c \in Call
    BY DEF CallsOK, CallOK
  <2>2. f[c] = IF c.tab = t THEN [c EXCEPT !.at = "gone"] ELSE c
    BY <2>1 DEF Call
  <2>3. CASE c.tab = t
    <3>1. f[c] \in Call /\ f[c].at = "gone" /\ SameCall(c, f[c])
      BY <2>1, <2>2, <2>3 DEF Call, SameCall
    <3> QED BY <2>3, <3>1 DEF Moved
  <2>4. CASE c.tab # t
    BY <2>1, <2>2, <2>4 DEF Moved, SameCall
  <2> QED BY <2>3, <2>4
<1>3. Remains(t, R)
  <2>1. \A d \in R : \E c \in calls : d = f[c]
    OBVIOUS
  <2> HIDE DEF f, R
  <2>2. \A d \in R : \E c \in calls :
          d = f[c] /\ Moved(c, d) /\ (c.tab # t => d = c) /\ (d.at = "here" => d = c)
    BY <1>2, <2>1
  <2> QED BY <1>1, <2>2 DEF Remains
<1> QED BY <1>3

-----------------------------------------------------------------------------
(* Mounting: the page of one tab, and the calls.                             *)
LEMMA MountCalls ==
  ASSUME CallsOK, NEW t \in Tabs, NEW n, NEW m, NEW o, NEW R, Remains(t, R), Mount(t, n, m, o, R)
  PROVE  /\ \A d \in calls' : MovedFrom(t, d)
         /\ IsFiniteSet(calls') /\ Cardinality(calls') <= Cardinality(R)
         /\ Cardinality(Of(t, calls')) <= Cardinality(Of(t, R))
<1> DEFINE f == [c \in R |-> [c EXCEPT !.at = IF c.tab = t /\ @ = "here" THEN "left" ELSE @]]
<1>1. calls' = {f[c] : c \in R}
  BY DEF Mount
<1>2. IsFiniteSet(calls') /\ Cardinality(calls') <= Cardinality(R)
  <2>1. f = [c \in R |-> f[c]]
    OBVIOUS
  <2> HIDE DEF f
  <2> QED BY <1>1, <2>1, ImageFact DEF Remains
<1>3. ASSUME NEW d \in R PROVE MovedFrom(t, f[d])
  <2>1. PICK c \in calls : Moved(c, d) /\ (c.tab # t => d = c) /\ (d.at = "here" => d = c)
    BY DEF Remains
  <2>2. d \in Call
    BY <2>1 DEF Moved
  <2>3. f[d] = IF d.tab = t /\ d.at = "here" THEN [d EXCEPT !.at = "left"] ELSE d
    BY <2>2 DEF Call
  <2>4. CASE d.tab = t /\ d.at = "here"
    <3>1. f[d] \in Call /\ f[d].at = "left" /\ SameCall(d, f[d])
      BY <2>2, <2>3, <2>4 DEF Call, SameCall
    <3>2. Moved(c, f[d])
      BY <2>1, <3>1 DEF Moved, SameCall
    <3> QED BY <2>1, <2>4, <3>1, <3>2 DEF MovedFrom, Moved, SameCall
  <2>5. CASE ~(d.tab = t /\ d.at = "here")
    <3>1. f[d] = d
      BY <2>3, <2>5
    <3> QED BY <2>1, <2>5, <3>1 DEF MovedFrom
  <2> QED BY <2>4, <2>5
<1>4. Cardinality(Of(t, calls')) <= Cardinality(Of(t, R))
  <2> DEFINE g == [c \in Of(t, R) |-> f[c]]
  <2>1. g = [c \in Of(t, R) |-> g[c]]
    OBVIOUS
  <2>2. IsFiniteSet(Of(t, R))
    BY FS_Subset DEF Of, Remains
  <2>a. \A d \in R : d \in Call
    BY DEF Remains, Moved
  <2>3. \A d \in R : f[d].tab = d.tab
    BY <2>a DEF Call
  <2>4. Of(t, calls') = {g[c] : c \in Of(t, R)}
    <3>1. \A c \in Of(t, R) : g[c] = f[c] /\ f[c].tab = t /\ f[c] \in calls'
      BY <1>1, <2>3 DEF Of
    <3>2. ASSUME NEW d \in calls', d.tab = t PROVE \E c \in Of(t, R) : d = f[c]
      <4>1. PICK c \in R : d = f[c]
        BY <1>1
      <4>2. c \in Of(t, R)
        BY <2>3, <3>2, <4>1 DEF Of
      <4> QED BY <4>1, <4>2
    <3> HIDE DEF f, g
    <3> QED BY <3>1, <3>2 DEF Of
  <2> HIDE DEF g
  <2> QED BY <2>1, <2>2, <2>4, ImageFact
<1> QED BY <1>1, <1>2, <1>3, <1>4

(* The page of the tab, and those of the others, after a form was mounted.     *)
Mounted(t, n, m, o) ==
  /\ step' \in [Tabs -> Nat] /\ review' \in [Tabs -> BOOLEAN]
  /\ opening' = [x \in Tabs |-> opening'[x]] /\ id' = [x \in Tabs |-> id'[x]]
  /\ step'[t] = n /\ review'[t] = FALSE
  /\ opening'[t] = IF n = 0 THEN 0 ELSE o
  /\ id'[t] = IF n \in 1..4 THEN m ELSE None
  /\ t \in fetching' <=> n \in 1..4 /\ m # None
  /\ \A x \in Tabs \ {t} :
       /\ step'[x] = step[x] /\ review'[x] = review[x]
       /\ opening'[x] = opening[x] /\ id'[x] = id[x]
       /\ x \in fetching' <=> x \in fetching
  /\ fetching' \subseteq Tabs

LEMMA MountPages ==
  ASSUME PagesOK, NEW t \in Tabs, NEW n \in Nat, NEW m, NEW o, NEW R, Mount(t, n, m, o, R)
  PROVE  Mounted(t, n, m, o)
BY DEF PagesOK, Mount, Mounted

LEMMA MountType ==
  ASSUME TypeInv, NEW t \in Tabs, NEW n \in Nat, NEW m, NEW o, NEW R, Remains(t, R),
         Mount(t, n, m, o, R), m \in {None} \cup Known, n > 0 => o \in 1..opened',
         UNCHANGED <<merchants, edited>>, stored' \in {None} \cup Known,
         opened' \in 0..MaxOpened, opened <= opened', upset' \subseteq Upset,
         cache' \in [Tabs -> [Ids -> Copy]],
         n <= 4 \/ n + Cardinality(Of(t, R)) <= 4 + MaxCalls
  PROVE  TypeInv'
<1>1. TablesOK /\ PagesOK /\ CallsOK
  BY DEF TypeInv
<1>2. Known' = Known
  BY DEF Known
<1>a. opened \in Nat /\ opened' \in Nat /\ MaxOpened \in Nat /\ opened' <= MaxOpened
  BY <1>1, FormAssumption DEF TablesOK
<1>0. Mounted(t, n, m, o)
  BY <1>1, MountPages
<1>3. TablesOK'
  <2>1. \A x \in Openings : x > opened' => edited'[x] = {}
    BY <1>1, <1>a DEF TablesOK, Openings
  <2>2. \E k \in 0..MaxMerchants : merchants' \in [1..k -> Merchant]
    BY <1>1 DEF TablesOK
  <2>3. edited' \in [Openings -> SUBSET Known']
    BY <1>1, <1>2 DEF TablesOK
  <2> QED BY <1>2, <2>1, <2>2, <2>3 DEF TablesOK
<1>4. PagesOK'
  <2>0. o \in 0..MaxOpened \/ n = 0
    BY <1>a
  <2>a. \A x \in Tabs : opening'[x] \in 0..MaxOpened /\ id'[x] \in {None} \cup Known
    BY <1>0, <1>1, <1>a, <2>0 DEF PagesOK, Mounted
  <2>1. /\ opening' \in [Tabs -> 0..MaxOpened] /\ id' \in [Tabs -> {None} \cup Known']
    BY <1>0, <1>2, <2>a DEF Mounted
  <2>2. fetching' \subseteq {x \in Tabs : id'[x] # None}
    BY <1>0, <1>1 DEF PagesOK, Mounted
  <2>3. ASSUME NEW x \in Tabs PROVE TabOK(x)'
    <3>1. CASE x = t
      BY <1>0, <1>a, <3>1 DEF Mounted, TabOK, None
    <3>2. CASE x # t
      <4>1. /\ step'[x] = step[x] /\ opening'[x] = opening[x] /\ id'[x] = id[x]
            /\ review'[x] = review[x]
        BY <1>0, <3>2 DEF Mounted
      <4>2. opening[x] \in Nat /\ TabOK(x)
        BY <1>1, <1>a DEF PagesOK
      <4> QED BY <1>a, <4>1, <4>2 DEF TabOK
    <3> QED BY <3>1, <3>2
  <2> QED BY <1>0, <2>1, <2>2, <2>3 DEF PagesOK, Mounted
<1>5. /\ \A d \in calls' : MovedFrom(t, d)
      /\ IsFiniteSet(calls') /\ Cardinality(calls') <= Cardinality(R)
      /\ Cardinality(Of(t, calls')) <= Cardinality(Of(t, R))
  BY <1>1, MountCalls
<1>6. ASSUME NEW d \in calls' PROVE CallOK(d)'
  <2>1. PICK c \in calls : Moved(c, d) /\ (d.at = "here" => d = c /\ c.tab # t)
    BY <1>5 DEF MovedFrom
  <2>2. CallOK(c) /\ c \in Call /\ d \in Call /\ SameCall(c, d)
    BY <1>1, <2>1 DEF CallsOK, CallOK, Moved
  <2>a. d.tab \in Tabs /\ d.opening \in Nat
    BY <2>2, FormAssumption DEF Call, Openings
  <2>3. d.opening <= opened'
    <3>1. d.opening <= opened
      BY <2>2 DEF CallOK, SameCall
    <3> QED BY <1>a, <2>a, <3>1
  <2>4. d.at = "here" => /\ opening'[d.tab] = opening[d.tab] /\ step'[d.tab] = step[d.tab]
                         /\ id'[d.tab] = id[d.tab]
    BY <1>0, <2>1, <2>a DEF Mounted
  <2> QED BY <1>2, <2>1, <2>2, <2>3, <2>4 DEF CallOK, SameCall
<1>7. ASSUME NEW d \in calls', NEW e \in calls', d.at = "here", e.at = "here", d.tab = e.tab
      PROVE  d = e
  <2>1. d \in calls /\ e \in calls
    BY <1>5, <1>7 DEF MovedFrom
  <2> QED BY <1>1, <1>7, <2>1 DEF CallsOK
<1>8. /\ Cardinality(calls') \in Nat /\ Cardinality(R) \in Nat /\ Cardinality(calls) \in Nat
      /\ Cardinality(R) <= Cardinality(calls) /\ Cardinality(calls) <= MaxCalls
  BY <1>1, <1>5, CountFact, FS_CardinalityType DEF Remains
<1>9. Cardinality(calls') <= MaxCalls
  BY <1>5, <1>8, FormAssumption
<1>10. ASSUME NEW x \in Tabs PROVE step'[x] + Cardinality(Pending(x)') <= 4 + MaxCalls
  <2>1. step[x] \in Nat /\ step[x] + Cardinality(Pending(x)) <= 4 + MaxCalls
    BY <1>1 DEF PagesOK, CallsOK
  <2>2. Pending(x)' = Of(x, calls')
    BY DEF Pending, Of
  <2>3. IsFiniteSet(Pending(x)) /\ Pending(x)' \subseteq calls' /\ IsFiniteSet(Pending(x)')
        /\ IsFiniteSet(Of(t, R))
    BY <1>1, <1>5, CountFact, FS_Subset DEF Pending, Of, Remains
  <2>4. /\ Cardinality(Pending(x)) \in Nat /\ Cardinality(Pending(x)') \in Nat
        /\ Cardinality(Of(t, R)) \in Nat /\ Cardinality(Pending(x)') <= Cardinality(calls')
    BY <1>5, <2>3, FS_CardinalityType, FS_Subset
  <2>5. CASE x = t
    <3>1. step'[x] = n /\ Cardinality(Pending(x)') <= Cardinality(Of(t, R))
      BY <1>0, <1>5, <2>2, <2>5 DEF Mounted
    <3> QED BY <1>8, <1>9, <2>4, <3>1, FormAssumption
  <2>6. CASE x # t
    <3>1. step'[x] = step[x]
      BY <1>0, <2>6 DEF Mounted
    <3>2. Pending(x)' \subseteq Pending(x)
      BY <1>5, <2>6 DEF Pending, MovedFrom, Moved, SameCall
    <3>3. Cardinality(Pending(x)') <= Cardinality(Pending(x))
      BY <2>3, <3>2, FS_Subset
    <3> QED BY <2>1, <2>4, <3>1, <3>3, FormAssumption
  <2> QED BY <2>5, <2>6
<1>11. CallsOK'
  BY <1>5, <1>6, <1>7, <1>9, <1>10 DEF CallsOK
<1> QED BY <1>3, <1>4, <1>11 DEF TypeInv

LEMMA TypeInit == Init => TypeInv
<1> SUFFICES ASSUME Init PROVE TypeInv
  OBVIOUS
<1>1. TablesOK
  <2>1. merchants \in [1..0 -> Merchant]
    BY DEF Init
  <2>2. \E n \in 0..MaxMerchants : merchants \in [1..n -> Merchant]
    BY <2>1, FormAssumption
  <2>3. stored = None /\ opened \in 0..MaxOpened /\ upset \subseteq Upset
    BY FormAssumption DEF Init
  <2>4. edited = [o \in Openings |-> {}]
    BY DEF Init
  <2> QED BY <2>2, <2>3, <2>4 DEF TablesOK
<1>2. PagesOK
  BY FormAssumption DEF Init, PagesOK, TabOK, None, NoCopy, Copy, Known
<1>3. CallsOK
  <2>1. \A t \in Tabs : Pending(t) = {}
    BY DEF Init, Pending
  <2>2. \A t \in Tabs : step[t] = 0 /\ Cardinality(Pending(t)) = 0
    BY <2>1, FS_EmptySet DEF Init
  <2>3. \A t \in Tabs : step[t] + Cardinality(Pending(t)) <= 4 + MaxCalls
    BY <2>2, FormAssumption
  <2>4. calls = {} /\ Cardinality(calls) = 0 /\ IsFiniteSet(calls)
    BY FS_EmptySet DEF Init
  <2> QED BY <2>3, <2>4, FormAssumption DEF CallsOK
<1> QED BY <1>1, <1>2, <1>3 DEF TypeInv

-----------------------------------------------------------------------------
(* The other actions.                                                       *)
LEMMA TablesGrow ==
  ASSUME TablesOK, \E n \in 0..MaxMerchants : merchants' \in [1..n -> Merchant],
         Known \subseteq Known', stored' \in {None} \cup Known, upset' \subseteq Upset,
         UNCHANGED <<opened, edited>>
  PROVE  TablesOK'
BY DEF TablesOK

LEMMA PagesKept ==
  ASSUME PagesOK, Known \subseteq Known', UNCHANGED <<page, cache, opened>>
  PROVE  PagesOK'
<1>1. /\ step' = step /\ review' = review /\ opening' = opening /\ id' = id
      /\ fetching' = fetching /\ cache' = cache /\ opened' = opened
  BY DEF page
<1>2. \A t \in Tabs : TabOK(t)'
  BY <1>1 DEF PagesOK, TabOK
<1> QED BY <1>1, <1>2 DEF PagesOK

LEMMA CallKept ==
  ASSUME NEW c, CallOK(c), Known \subseteq Known', UNCHANGED <<step, opening, id, opened>>
  PROVE  CallOK(c)'
BY DEF CallOK

LEMMA CallsLess ==
  ASSUME TypeInv, Known \subseteq Known', UNCHANGED <<step, opening, id, opened>>,
         calls' \subseteq calls
  PROVE  CallsOK'
<1>1. CallsOK /\ PagesOK
  BY DEF TypeInv
<1>2. \A c \in calls' : CallOK(c)'
  BY <1>1, CallKept DEF CallsOK
<1>3. IsFiniteSet(calls') /\ Cardinality(calls') <= Cardinality(calls)
  BY <1>1, CountFact, FS_Subset
<1>4. Cardinality(calls') <= MaxCalls
  BY <1>1, <1>3, CountFact, FS_CardinalityType, FormAssumption
<1>5. ASSUME NEW t \in Tabs PROVE step'[t] + Cardinality(Pending(t)') <= 4 + MaxCalls
  <2>1. Pending(t)' \subseteq Pending(t) /\ IsFiniteSet(Pending(t))
    BY <1>1, CountFact, FS_Subset DEF Pending
  <2>2. /\ Cardinality(Pending(t)') <= Cardinality(Pending(t))
        /\ Cardinality(Pending(t)') \in Nat /\ Cardinality(Pending(t)) \in Nat
    BY <2>1, FS_Subset, FS_CardinalityType
  <2>3. step[t] \in Nat /\ step[t] + Cardinality(Pending(t)) <= 4 + MaxCalls /\ step' = step
    BY <1>1 DEF PagesOK, CallsOK
  <2> QED BY <2>2, <2>3, FormAssumption
<1>6. \A c, d \in calls' : c.at = "here" /\ d.at = "here" /\ c.tab = d.tab => c = d
  BY <1>1 DEF CallsOK
<1> QED BY <1>2, <1>3, <1>4, <1>5, <1>6 DEF CallsOK

LEMMA AnswerType ==
  ASSUME TypeInv, calls' \subseteq calls, stored' \in {None} \cup Known,
         upset' \subseteq Upset, UNCHANGED <<merchants, opened, page, cache, edited>>
  PROVE  TypeInv'
<1>1. Known' = Known
  BY DEF Known
<1>2. TablesOK'
  BY <1>1, TablesGrow DEF TypeInv, TablesOK
<1>3. PagesOK'
  BY <1>1, PagesKept DEF TypeInv
<1>4. CallsOK'
  BY <1>1, CallsLess DEF page
<1> QED BY <1>2, <1>3, <1>4 DEF TypeInv

LEMMA CloseType ==
  ASSUME TypeInv, NEW t \in Tabs, Close(t)
  PROVE  TypeInv'
<1>1. Known' = Known
  BY DEF Known, Close
<1>2. TablesOK'
  BY <1>1, TablesGrow DEF TypeInv, TablesOK, Close, history
<1>3. PagesOK'
  <2>1. \A x \in Tabs : TabOK(x)'
    BY DEF TypeInv, PagesOK, Close, TabOK, history
  <2> QED BY <1>1, <2>1 DEF TypeInv, PagesOK, Close
<1>4. CallsOK'
  BY <1>1, CallsLess DEF Close
<1> QED BY <1>2, <1>3, <1>4 DEF TypeInv

LEMMA CopyFact ==
  ASSUME NEW m
  PROVE  CopyOf(m) \in Copy
BY DEF CopyOf, Copy, Editable

LEMMA FetchedType ==
  ASSUME TypeInv, NEW t \in Tabs, Fetched(t)
  PROVE  TypeInv'
<1>1. Known' = Known
  BY DEF Known, Fetched
<1>2. TablesOK'
  BY <1>1, TablesGrow DEF TypeInv, TablesOK, Fetched, history
<1>3. PagesOK'
  <2>1. \A x \in Tabs : TabOK(x)'
    BY DEF TypeInv, PagesOK, Fetched, TabOK
  <2>2. id[t] \in Ids /\ CopyOf(id[t]) \in Copy
    BY CopyFact, KnownFact DEF TypeInv, PagesOK, Fetched
  <2>3. cache' \in [Tabs -> [Ids -> Copy]]
    BY <2>2 DEF TypeInv, PagesOK, Fetched
  <2> QED BY <1>1, <2>1, <2>3 DEF TypeInv, PagesOK, Fetched
<1>4. CallsOK'
  BY <1>1, CallsLess DEF Fetched
<1> QED BY <1>2, <1>3, <1>4 DEF TypeInv

LEMMA ReviewsType ==
  ASSUME TypeInv, NEW c \in calls, Reviews(c)
  PROVE  TypeInv'
<1>0. CallOK(c) /\ c.tab \in Tabs
  BY CallFact DEF TypeInv, CallsOK, CallOK
<1>1. Known' = Known
  BY DEF Known, Reviews
<1>2. TablesOK'
  BY <1>1, TablesGrow DEF TypeInv, TablesOK, Reviews, history
<1>3. PagesOK'
  <2>1. c.at = "here" => step[c.tab] = 4 /\ id[c.tab] # None
    BY <1>0, KnownFact DEF CallOK, Reviews, TypeInv
  <2>2. ASSUME NEW x \in Tabs PROVE TabOK(x)'
    <3>1. review[x] \in BOOLEAN /\ review[c.tab] \in BOOLEAN
      BY <1>0 DEF TypeInv, PagesOK
    <3>2. review'[x] = IF x = c.tab THEN review[x] \/ c.at = "here" ELSE review[x]
      BY <1>0, <3>1 DEF TypeInv, PagesOK, Reviews
    <3> QED BY <2>1, <3>1, <3>2 DEF TypeInv, PagesOK, Reviews, TabOK
  <2>3. review' \in [Tabs -> BOOLEAN]
    BY <1>0 DEF TypeInv, PagesOK, Reviews
  <2>4. fetching' \subseteq {t \in Tabs : id'[t] # None}
    BY <1>0 DEF TypeInv, PagesOK, Reviews
  <2> QED BY <1>1, <2>2, <2>3, <2>4 DEF TypeInv, PagesOK, Reviews
<1>4. CallsOK'
  BY <1>1, CallsLess DEF Reviews
<1> QED BY <1>2, <1>3, <1>4 DEF TypeInv

(* A form or the review sends a request.                                     *)
LEMMA SendType ==
  ASSUME TypeInv, NEW t \in Tabs, NEW f \in 1..5, NEW new \in BOOLEAN, NEW m,
         Send(t, f, new, m), step[t] = (IF f = 5 THEN 4 ELSE f), f = 5 => ~new,
         m \in Known \/ (f = 1 /\ new /\ m = None), (f = 1 /\ new) \/ m = id[t],
         upset' \subseteq Upset,
         UNCHANGED <<merchants, stored, opened, page, cache, edited>>
  PROVE  TypeInv'
<1> DEFINE d == Request(t, f, new, m)
<1>0. TablesOK /\ PagesOK /\ CallsOK
  BY DEF TypeInv
<1>1. Known' = Known
  BY DEF Known
<1>2. TablesOK'
  BY <1>0, <1>1, TablesGrow DEF TablesOK
<1>3. PagesOK'
  BY <1>0, <1>1, PagesKept
<1>4. calls' = calls \cup {d} /\ Cardinality(calls) < MaxCalls
  BY DEF Send, Room
<1>5. /\ d.tab = t /\ d.opening = opening[t] /\ d.form = f /\ d.new = new
      /\ d.merchant = m /\ d.at = "here" /\ d.done = FALSE
  BY DEF Request
<1>6. step[t] \in 1..4 /\ opening[t] \in Openings /\ opening[t] <= opened
  BY <1>0, FormAssumption DEF PagesOK, TabOK, Openings
<1>7. d \in Call
  BY <1>6, <1>0, KnownFact DEF Request, Call, None
<1> HIDE DEF d
<1>8. ASSUME NEW c \in calls' PROVE CallOK(c)'
  <2>1. CASE c \in calls
    BY <1>0, <1>1, <2>1, CallKept DEF CallsOK, page
  <2>2. CASE c = d
    BY <1>1, <1>5, <1>6, <1>7, <2>2 DEF CallOK, page
  <2> QED BY <1>4, <2>1, <2>2
<1>9. \A c, e \in calls' : c.at = "here" /\ e.at = "here" /\ c.tab = e.tab => c = e
  <2>1. \A c \in calls : c.tab = t => c.at # "here"
    BY DEF Send, Pending
  <2> QED BY <1>0, <1>4, <1>5, <2>1 DEF CallsOK
<1>10. /\ Cardinality(calls) \in Nat /\ IsFiniteSet(calls) /\ IsFiniteSet(calls')
       /\ Cardinality(calls') <= MaxCalls
  <2>1. Cardinality(calls) \in Nat /\ IsFiniteSet(calls)
    BY <1>0, CountFact
  <2>2. IsFiniteSet(calls') /\ Cardinality(calls') \in {Cardinality(calls), Cardinality(calls) + 1}
    BY <1>4, <2>1, FS_AddElement
  <2> QED BY <1>4, <2>1, <2>2, FormAssumption
<1>11. ASSUME NEW x \in Tabs PROVE step'[x] + Cardinality(Pending(x)') <= 4 + MaxCalls
  <2>1. step' = step /\ step[x] \in Nat /\ step[x] + Cardinality(Pending(x)) <= 4 + MaxCalls
    BY <1>0 DEF PagesOK, CallsOK, page
  <2>2. CASE x # t
    <3>1. Pending(x)' = Pending(x)
      BY <1>4, <1>5, <2>2 DEF Pending
    <3> QED BY <2>1, <3>1
  <2>3. CASE x = t
    <3>1. Cardinality(Pending(x)') <= Cardinality(calls') /\ IsFiniteSet(Pending(x)')
      BY <1>10, FS_Subset DEF Pending
    <3>2. Cardinality(Pending(x)') \in Nat /\ Cardinality(calls') \in Nat
      BY <1>10, <3>1, FS_CardinalityType
    <3> QED BY <1>6, <1>10, <2>1, <2>3, <3>1, <3>2, FormAssumption
  <2> QED BY <2>2, <2>3
<1>12. CallsOK'
  BY <1>8, <1>9, <1>10, <1>11 DEF CallsOK
<1> QED BY <1>2, <1>3, <1>12 DEF TypeInv

(* What a form finds there it has a merchant for.                             *)
LEMMA ThereFact ==
  ASSUME TypeInv, NEW t \in Tabs
  PROVE  IsThere(t) \in BOOLEAN /\ (IsThere(t) => id[t] \in Known)
<1>1. id[t] \in {None} \cup Known /\ cache \in [Tabs -> [Ids -> Copy]]
  BY DEF TypeInv, PagesOK
<1>2. id[t] \in Known => id[t] # None /\ id[t] \in Ids
  BY KnownFact DEF TypeInv
<1>3. Draft(t).editable \in BOOLEAN /\ (id[t] = None => Draft(t) = NoCopy)
  BY <1>1, <1>2 DEF Draft, NoCopy, Copy
<1>4. NoCopy.editable = FALSE /\ NoCopy.parts = {}
  BY DEF NoCopy
<1>5. CASE step[t] = 1
  <2>1. IsThere(t) = Draft(t).editable
    BY <1>5 DEF IsThere
  <2> QED BY <1>1, <1>3, <1>4, <2>1
<1>6. CASE step[t] # 1
  <2>1. IsThere(t) = (step[t] \in Draft(t).parts)
    BY <1>6 DEF IsThere
  <2>2. IsThere(t) \in BOOLEAN
    BY <2>1
  <2>3. ~(step[t] \in Draft(t).parts) \/ id[t] # None
    BY <1>3, <1>4
  <2> QED BY <1>1, <2>1, <2>2, <2>3
<1> QED BY <1>5, <1>6

LEMMA SaveType ==
  ASSUME TypeInv, NEW t \in Tabs, Save(t)
  PROVE  TypeInv'
<1> DEFINE m == IF step[t] = 1 /\ ~IsThere(t) THEN None ELSE id[t]
<1>1. id[t] \in {None} \cup Known /\ None \notin Known
  BY KnownFact DEF TypeInv, PagesOK
<1>2. m \in Known \/ (step[t] = 1 /\ ~IsThere(t) /\ m = None)
  BY <1>1, ThereFact DEF Save
<1>3. (step[t] = 1 /\ ~IsThere(t)) \/ m = id[t]
  OBVIOUS
<1>4. upset' \subseteq Upset
  BY DEF TypeInv, TablesOK, Save, Upset
<1>5. Send(t, step[t], ~IsThere(t), m) /\ step[t] \in 1..4
  BY DEF Save
<1>6. UNCHANGED <<merchants, stored, opened, page, cache, edited>>
  BY DEF Save
<1>7. step[t] \in 1..5 /\ step[t] = (IF step[t] = 5 THEN 4 ELSE step[t]) /\ step[t] # 5
      /\ (~IsThere(t)) \in BOOLEAN
  BY <1>5, ThereFact
<1> HIDE DEF m
<1> QED BY <1>2, <1>3, <1>4, <1>5, <1>6, <1>7, SendType

LEMMA SubmitType ==
  ASSUME TypeInv, NEW t \in Tabs, Submit(t)
  PROVE  TypeInv'
<1>1. step[t] = 4 /\ id[t] \in Known
  BY DEF TypeInv, PagesOK, TabOK, Submit
<1>2. upset' \subseteq Upset
  BY DEF TypeInv, TablesOK, Submit, history
<1>3. Send(t, 5, FALSE, id[t]) /\ UNCHANGED <<merchants, stored, opened, page, cache, edited>>
  BY DEF Submit, history
<1>4. 5 \in 1..5 /\ FALSE \in BOOLEAN /\ step[t] = (IF 5 = 5 THEN 4 ELSE 5) /\ (5 = 5 => ~FALSE)
  BY <1>1
<1> QED BY <1>1, <1>2, <1>3, <1>4, SendType, Zenon

(* The backend does what call c asks for, to merchant m.                      *)
DoneCall(c, m) == [c EXCEPT !.done = TRUE, !.merchant = m]

LEMMA DoneFact ==
  ASSUME NEW c \in Call, NEW m \in Ids
  PROVE  LET d == DoneCall(c, m) IN
         /\ d \in Call /\ d.tab = c.tab /\ d.opening = c.opening /\ d.form = c.form
         /\ d.new = c.new /\ d.at = c.at /\ d.done = TRUE /\ d.merchant = m
BY DEF Call, DoneCall

LEMMA Replaced ==
  ASSUME NEW S, IsFiniteSet(S), NEW c \in S, NEW d
  PROVE  /\ IsFiniteSet((S \ {c}) \cup {d}) /\ Cardinality((S \ {c}) \cup {d}) \in Nat
         /\ Cardinality(S) \in Nat /\ Cardinality((S \ {c}) \cup {d}) <= Cardinality(S)
<1>1. IsFiniteSet(S \ {c}) /\ Cardinality(S \ {c}) = Cardinality(S) - 1
  BY FS_RemoveElement
<1>2. /\ IsFiniteSet((S \ {c}) \cup {d})
      /\ Cardinality((S \ {c}) \cup {d}) = Cardinality(S \ {c})
         \/ Cardinality((S \ {c}) \cup {d}) = Cardinality(S \ {c}) + 1
  BY <1>1, FS_AddElement
<1>3. /\ Cardinality(S) \in Nat /\ Cardinality(S \ {c}) \in Nat
      /\ Cardinality((S \ {c}) \cup {d}) \in Nat
  BY <1>1, <1>2, FS_CardinalityType
<1> QED BY <1>1, <1>2, <1>3

LEMMA DoesType ==
  ASSUME TypeInv, NEW c \in calls, NEW m, Does(c, m), m \in Known', m = c.merchant \/ c.new,
         Known \subseteq Known', Known' \subseteq Ids,
         \E n \in 0..MaxMerchants : merchants' \in [1..n -> Merchant],
         c.new /\ m # c.merchant => c.form = 1
  PROVE  TypeInv'
<1> DEFINE d == DoneCall(c, m)
<1>0. TablesOK /\ PagesOK /\ CallsOK /\ CallOK(c) /\ c \in Call
  BY DEF TypeInv, CallsOK, CallOK
<1>1. /\ d \in Call /\ d.tab = c.tab /\ d.opening = c.opening /\ d.form = c.form
      /\ d.new = c.new /\ d.at = c.at /\ d.done = TRUE /\ d.merchant = m
  BY <1>0, DoneFact
<1>2. calls' = (calls \ {c}) \cup {d}
  BY DEF Does, DoneCall
<1> HIDE DEF d
<1>3. TablesOK'
  <2>1. c.opening \in Openings /\ c.opening <= opened
    BY <1>0, CallFact DEF CallOK
  <2>2. edited' \in [Openings -> SUBSET Known']
    BY <1>0, <2>1 DEF TablesOK, Does
  <2>3. \A o \in Openings : o > opened => edited'[o] = {}
    BY <1>0, <2>1, FormAssumption DEF TablesOK, Does, Openings
  <2> QED BY <1>0, <2>2, <2>3 DEF TablesOK, Does
<1>4. PagesOK'
  BY <1>0, PagesKept DEF Does
<1>5. ASSUME NEW e \in calls' PROVE CallOK(e)'
  <2>1. CASE e \in calls
    BY <1>0, <2>1, CallKept DEF CallsOK, Does, page
  <2>2. CASE e = d
    BY <1>0, <1>1, <2>2 DEF CallOK, Does, page
  <2> QED BY <1>2, <2>1, <2>2
<1>6. \A e, f \in calls' : e.at = "here" /\ f.at = "here" /\ e.tab = f.tab => e = f
  BY <1>0, <1>1, <1>2 DEF CallsOK
<1>7. IsFiniteSet(calls') /\ Cardinality(calls') <= MaxCalls
  <2>1. /\ IsFiniteSet(calls') /\ Cardinality(calls') \in Nat /\ Cardinality(calls) \in Nat
        /\ Cardinality(calls') <= Cardinality(calls) /\ Cardinality(calls) <= MaxCalls
    BY <1>0, <1>2, CountFact, Replaced
  <2> QED BY <2>1, FormAssumption
<1>8. ASSUME NEW t \in Tabs PROVE step'[t] + Cardinality(Pending(t)') <= 4 + MaxCalls
  <2>1. step' = step /\ step[t] \in Nat /\ step[t] + Cardinality(Pending(t)) <= 4 + MaxCalls
    BY <1>0 DEF PagesOK, CallsOK, Does, page
  <2>2. CASE t # c.tab
    <3>1. Pending(t)' = Pending(t)
      BY <1>1, <1>2, <2>2 DEF Pending
    <3> QED BY <2>1, <3>1
  <2>3. CASE t = c.tab
    <3>1. Pending(t)' = (Pending(t) \ {c}) \cup {d} /\ c \in Pending(t)
      BY <1>1, <1>2, <2>3 DEF Pending
    <3>2. IsFiniteSet(Pending(t))
      BY <1>0, CountFact, FS_Subset DEF Pending
    <3>3. /\ Cardinality(Pending(t)') \in Nat /\ Cardinality(Pending(t)) \in Nat
          /\ Cardinality(Pending(t)') <= Cardinality(Pending(t))
      BY <3>1, <3>2, Replaced
    <3> QED BY <2>1, <3>3, FormAssumption
  <2> QED BY <2>2, <2>3
<1>9. CallsOK'
  BY <1>5, <1>6, <1>7, <1>8 DEF CallsOK
<1> QED BY <1>3, <1>4, <1>9 DEF TypeInv

LEMMA CreateFact ==
  ASSUME TypeInv, NEW c \in calls, Create(c)
  PROVE  LET m == Cardinality(Known) + 1 IN
         /\ m \in Ids \ Known /\ Known' = Known \cup {m}
         /\ \E n \in 0..MaxMerchants : merchants' \in [1..n -> Merchant]
         /\ merchants'[m] = Fresh /\ \A k \in Known : merchants'[k] = merchants[k]
         /\ Does(c, m)
<1> DEFINE m == Cardinality(Known) + 1
<1>1. PICK n \in 0..MaxMerchants : Known = 1..n /\ Cardinality(Known) = n
  BY KnownFact DEF TypeInv
<1>2. /\ m \in Ids /\ Does(c, m)
      /\ merchants' = [k \in Known \cup {m} |-> IF k = m THEN Fresh ELSE merchants[k]]
  BY DEF Create
<1>3. m = n + 1 /\ m \notin Known /\ Known \cup {m} = 1..m /\ m \in 0..MaxMerchants
  BY <1>1, <1>2, FormAssumption DEF Ids
<1>4. Fresh \in Merchant
  BY FormAssumption DEF Fresh, Merchant
<1>5. \A k \in Known : merchants[k] \in Merchant
  BY KnownFact DEF TypeInv
<1> HIDE DEF m
<1>6. merchants' \in [1..m -> Merchant] /\ Known' = Known \cup {m}
  BY <1>2, <1>3, <1>4, <1>5 DEF Known
<1>7. merchants'[m] = Fresh /\ \A k \in Known : merchants'[k] = merchants[k]
  BY <1>2, <1>3
<1>8. \E k \in 0..MaxMerchants : merchants' \in [1..k -> Merchant]
  BY <1>3, <1>6
<1> QED BY <1>2, <1>3, <1>6, <1>7, <1>8 DEF m

(* The record of one merchant is replaced.                                   *)
Rewrites(m, r) ==
  /\ m \in Known /\ Known' = Known /\ r \in Merchant /\ merchants'[m] = r
  /\ \A k \in Known : k # m => merchants'[k] = merchants[k]
  /\ \E n \in 0..MaxMerchants : merchants' \in [1..n -> Merchant]

LEMMA RewriteFact ==
  ASSUME TypeInv, NEW m \in Known, NEW r \in Merchant,
         merchants' = [merchants EXCEPT ![m] = r]
  PROVE  Rewrites(m, r)
<1>1. PICK n \in 0..MaxMerchants : merchants \in [1..n -> Merchant]
  BY DEF TypeInv, TablesOK
<1>2. Known = 1..n
  BY <1>1 DEF Known
<1>3. merchants' \in [1..n -> Merchant]
  BY <1>1
<1>4. Known' = Known
  BY <1>2, <1>3 DEF Known
<1>5. merchants'[m] = r /\ \A k \in Known : k # m => merchants'[k] = merchants[k]
  BY <1>1, <1>2
<1> QED BY <1>3, <1>4, <1>5 DEF Rewrites

LEMMA StatusFact ==
  ASSUME TypeInv, NEW m \in Known, NEW x \in {"Draft", "Review", "Reverted"},
         merchants' = [merchants EXCEPT ![m].status = x]
  PROVE  Rewrites(m, merchants'[m]) /\ merchants'[m].status = x
         /\ merchants'[m].parts = merchants[m].parts
<1> DEFINE r == [merchants[m] EXCEPT !.status = x]
<1>1. merchants[m] \in Merchant
  BY KnownFact DEF TypeInv
<1>2. r \in Merchant /\ r.status = x /\ r.parts = merchants[m].parts
  BY <1>1 DEF Merchant
<1>3. merchants' = [merchants EXCEPT ![m] = r]
  OBVIOUS
<1> HIDE DEF r
<1>4. Rewrites(m, r)
  BY <1>2, <1>3, RewriteFact
<1> QED BY <1>2, <1>4 DEF Rewrites

LEMMA PartFact ==
  ASSUME TypeInv, NEW m \in Known, NEW p \in Parts, merchants[m].parts[p] < MaxParts,
         merchants' = [merchants EXCEPT ![m].parts[p] = @ + 1]
  PROVE  /\ Rewrites(m, merchants'[m]) /\ merchants'[m].status = merchants[m].status
         /\ merchants'[m].parts[p] = merchants[m].parts[p] + 1
         /\ \A q \in Parts : q # p => merchants'[m].parts[q] = merchants[m].parts[q]
<1> DEFINE r == [merchants[m] EXCEPT !.parts[p] = @ + 1]
<1>1. merchants[m] \in Merchant
  BY KnownFact DEF TypeInv
<1>2. merchants[m].parts \in [Parts -> 0..MaxParts]
  BY <1>1 DEF Merchant
<1>3. merchants[m].parts[p] + 1 \in 0..MaxParts
  BY <1>2, FormAssumption
<1>4. /\ r \in Merchant /\ r.status = merchants[m].status
      /\ r.parts = [merchants[m].parts EXCEPT ![p] = @ + 1]
  BY <1>1, <1>2, <1>3 DEF Merchant
<1>5. /\ r.parts[p] = merchants[m].parts[p] + 1
      /\ \A q \in Parts : q # p => r.parts[q] = merchants[m].parts[q]
  BY <1>2, <1>4
<1>6. merchants' = [merchants EXCEPT ![m] = r]
  OBVIOUS
<1> HIDE DEF r
<1>7. Rewrites(m, r)
  BY <1>4, <1>6, RewriteFact
<1> QED BY <1>4, <1>5, <1>7 DEF Rewrites

(* What the backend does to the merchant of a call that creates none.         *)
Serves(c) == Update(c) \/ AddPart(c) \/ ChangePart(c) \/ ReadyToReview(c)
ServedTo(m, c) ==
  /\ Rewrites(m, merchants'[m]) /\ Does(c, m) /\ ~c.done
  /\ \/ /\ c.form = 1 /\ ~c.new /\ merchants[m].status \in Editable
        /\ merchants'[m].status = "Draft" /\ merchants'[m].parts = merchants[m].parts
     \/ /\ c.form \in Parts /\ c.new /\ merchants'[m].status = merchants[m].status
        /\ merchants'[m].parts[c.form] = merchants[m].parts[c.form] + 1
        /\ \A q \in Parts : q # c.form => merchants'[m].parts[q] = merchants[m].parts[q]
     \/ /\ c.form \in Parts /\ ~c.new /\ merchants'[m] = merchants[m]
     \/ /\ c.form = 5 /\ merchants[m].status = "Draft"
        /\ merchants'[m].status = "Review" /\ merchants'[m].parts = merchants[m].parts

LEMMA ServeFact ==
  ASSUME TypeInv, NEW c \in calls, Serves(c)
  PROVE  c.merchant \in Known /\ ServedTo(c.merchant, c)
<1>1. CallOK(c)
  BY DEF TypeInv, CallsOK
<1>2. c.merchant \in Known
  <2>1. c.form = 5 => ~c.new
    BY <1>1 DEF CallOK
  <2>2. ~c.done /\ ~(c.form = 1 /\ c.new)
    BY DEF Serves, Update, AddPart, ChangePart, ReadyToReview, Parts
  <2> QED BY <1>1, <2>2 DEF CallOK
<1>3. CASE Update(c)
  BY <1>2, <1>3, StatusFact DEF Update, ServedTo
<1>4. CASE AddPart(c)
  BY <1>2, <1>4, PartFact DEF AddPart, ServedTo
<1>5. CASE ChangePart(c)
  <2>1. merchants' = merchants /\ Known' = Known
    BY <1>5 DEF ChangePart, Known
  <2>2. Rewrites(c.merchant, merchants'[c.merchant])
    BY <1>2, <2>1, KnownFact DEF Rewrites, TypeInv, TablesOK
  <2>3. ~c.done /\ c.form \in Parts /\ ~c.new /\ Does(c, c.merchant)
    BY <1>5 DEF ChangePart
  <2>4. merchants'[c.merchant] = merchants[c.merchant]
    BY <2>1
  <2> QED BY <1>2, <2>2, <2>3, <2>4 DEF ServedTo
<1>6. CASE ReadyToReview(c)
  BY <1>2, <1>6, StatusFact DEF ReadyToReview, ServedTo
<1> QED BY <1>2, <1>3, <1>4, <1>5, <1>6 DEF Serves

LEMMA ServeType ==
  ASSUME TypeInv, NEW c \in calls, Serve(c)
  PROVE  TypeInv'
<1>1. CASE Create(c)
  <2> DEFINE m == Cardinality(Known) + 1
  <2>1. /\ m \in Ids \ Known /\ Known' = Known \cup {m} /\ Does(c, m)
        /\ \E n \in 0..MaxMerchants : merchants' \in [1..n -> Merchant]
    BY <1>1, CreateFact
  <2>2. c.new /\ c.form = 1 /\ Known \subseteq Ids
    BY <1>1, KnownFact DEF Create, TypeInv
  <2> HIDE DEF m
  <2>3. Known' \subseteq Ids /\ m \in Known' /\ Known \subseteq Known'
    BY <2>1, <2>2
  <2> QED BY <2>1, <2>2, <2>3, DoesType
<1>2. CASE Serves(c)
  <2>1. c.merchant \in Known /\ ServedTo(c.merchant, c)
    BY <1>2, ServeFact
  <2>2. /\ Does(c, c.merchant) /\ Known' = Known
        /\ \E n \in 0..MaxMerchants : merchants' \in [1..n -> Merchant]
    BY <2>1 DEF ServedTo, Rewrites
  <2>3. Known \subseteq Ids
    BY KnownFact DEF TypeInv
  <2> QED BY <2>1, <2>2, <2>3, DoesType
<1> QED BY <1>1, <1>2 DEF Serve, Serves

LEMMA RevertType ==
  ASSUME TypeInv, NEW m \in Known, Revert(m)
  PROVE  TypeInv'
<1>1. Rewrites(m, merchants'[m])
  BY StatusFact DEF Revert
<1>2. Known' = Known /\ UNCHANGED <<stored, opened, page, cache, calls, edited, upset>>
  BY <1>1 DEF Rewrites, Revert, history
<1>3. TablesOK'
  BY <1>1, <1>2, TablesGrow DEF TypeInv, TablesOK, Rewrites
<1>4. PagesOK'
  BY <1>2, PagesKept DEF TypeInv
<1>5. CallsOK'
  BY <1>2, CallsLess DEF page
<1> QED BY <1>3, <1>4, <1>5 DEF TypeInv

-----------------------------------------------------------------------------
(* Actions that mount another form, or leave the forms.                      *)
LEMMA OpenType ==
  ASSUME TypeInv, NEW t \in Tabs, NEW m \in {None} \cup Known, Open(t, m)
  PROVE  TypeInv'
<1>0. TablesOK /\ PagesOK /\ CallsOK /\ Known' = Known
  BY DEF TypeInv, Open, Known
<1>1. opened \in Nat /\ opened' \in 0..MaxOpened /\ opened <= opened'
      /\ opened + 1 \in 1..opened'
  BY <1>0, FormAssumption DEF TablesOK, Open
<1>2. upset' \subseteq Upset
  BY <1>0 DEF TablesOK, Open, Rushing, Sharing, Upset
<1>3. Mount(t, 1, m, opened + 1, calls) /\ stored' = m /\ UNCHANGED <<merchants, cache, edited>>
  BY DEF Open
<1>4. Remains(t, calls) /\ cache' \in [Tabs -> [Ids -> Copy]]
  BY <1>0, <1>3, RemainsAll DEF PagesOK
<1>5. 1 \in Nat /\ 1 <= 4
  OBVIOUS
<1> QED BY <1>0, <1>1, <1>2, <1>3, <1>4, <1>5, MountType

LEMMA ReloadType ==
  ASSUME TypeInv, NEW t \in Tabs, Reload(t)
  PROVE  TypeInv'
<1> DEFINE R == {[c EXCEPT !.at = IF c.tab = t THEN "gone" ELSE @] : c \in calls}
<1>0. TablesOK /\ PagesOK /\ CallsOK /\ Known' = Known
  BY DEF TypeInv, Reload, Known
<1>1. opened' = opened /\ opened \in 0..MaxOpened /\ opened <= opened'
  BY <1>0, FormAssumption DEF TablesOK, Reload
<1>2. opening[t] \in 1..opened'
  BY <1>0, <1>1, FormAssumption DEF PagesOK, TabOK, Reload
<1>3. upset' \subseteq Upset
  BY <1>0 DEF TablesOK, Reload, Sharing, Upset
<1>4. Mount(t, 1, stored, opening[t], R) /\ UNCHANGED <<merchants, stored, edited>>
  BY DEF Reload
<1>5. cache' \in [Tabs -> [Ids -> Copy]]
  BY <1>0 DEF PagesOK, Reload, NoCopy, Copy
<1>6. Remains(t, R)
  BY <1>0, RemainsGone
<1>7. 1 \in Nat /\ 1 <= 4 /\ stored \in {None} \cup Known
  BY <1>0 DEF TablesOK
<1> HIDE DEF R
<1> QED BY <1>0, <1>1, <1>2, <1>3, <1>4, <1>5, <1>6, <1>7, MountType

LEMMA BackType ==
  ASSUME TypeInv, NEW t \in Tabs, Back(t)
  PROVE  TypeInv'
<1>0. TablesOK /\ PagesOK /\ CallsOK /\ Known' = Known
  BY DEF TypeInv, Back, Known
<1>1. opened' = opened /\ opened \in 0..MaxOpened /\ opened <= opened'
  BY <1>0, FormAssumption DEF TablesOK, Back
<1>2. opening[t] \in 1..opened'
  BY <1>0, <1>1, FormAssumption DEF PagesOK, TabOK, Back
<1>3. upset' \subseteq Upset
  BY <1>0 DEF TablesOK, Back, Rushing, Upset
<1>4. Mount(t, step[t] - 1, stored, opening[t], calls)
      /\ UNCHANGED <<merchants, stored, cache, edited>>
  BY DEF Back
<1>5. cache' \in [Tabs -> [Ids -> Copy]] /\ stored \in {None} \cup Known
  BY <1>0, <1>4 DEF PagesOK, TablesOK
<1>6. Remains(t, calls)
  BY <1>0, RemainsAll
<1>7. step[t] - 1 \in Nat /\ step[t] \in Nat
  BY <1>0 DEF Back, PagesOK
<1>8. step[t] - 1 + Cardinality(Of(t, calls)) <= 4 + MaxCalls
  <2>1. step[t] + Cardinality(Pending(t)) <= 4 + MaxCalls /\ Of(t, calls) = Pending(t)
    BY <1>0 DEF CallsOK, Of, Pending
  <2>2. Cardinality(Pending(t)) \in Nat
    BY <1>0, CountFact, FS_Subset, FS_CardinalityType DEF Pending
  <2> QED BY <1>7, <2>1, <2>2, FormAssumption
<1> DEFINE n == step[t] - 1
<1> HIDE DEF n
<1>9. n \in Nat /\ Mount(t, n, stored, opening[t], calls)
      /\ n + Cardinality(Of(t, calls)) <= 4 + MaxCalls
  BY <1>4, <1>7, <1>8 DEF n
<1> QED BY <1>0, <1>1, <1>2, <1>3, <1>4, <1>5, <1>6, <1>9, MountType

LEMMA LeaveType ==
  ASSUME TypeInv, NEW t \in Tabs, Leave(t)
  PROVE  TypeInv'
<1>0. TablesOK /\ PagesOK /\ CallsOK /\ Known' = Known
  BY DEF TypeInv, Leave, Known
<1>1. opened' = opened /\ opened \in 0..MaxOpened /\ opened <= opened'
  BY <1>0, FormAssumption DEF TablesOK, Leave
<1>3. upset' \subseteq Upset
  BY <1>0 DEF TablesOK, Leave, Rushing, Upset
<1>4. Mount(t, 0, None, 0, calls) /\ UNCHANGED <<merchants, stored, cache, edited>>
  BY DEF Leave
<1>5. cache' \in [Tabs -> [Ids -> Copy]] /\ stored' \in {None} \cup Known
  BY <1>0, <1>4 DEF PagesOK, TablesOK
<1>6. Remains(t, calls)
  BY <1>0, RemainsAll
<1>7. 0 \in Nat /\ 0 <= 4 /\ ~(0 > 0)
  OBVIOUS
<1> QED BY <1>0, <1>1, <1>3, <1>4, <1>5, <1>6, <1>7, MountType

LEMMA SubmittedType ==
  ASSUME TypeInv, NEW c \in calls, Submitted(c)
  PROVE  TypeInv'
<1>0. TablesOK /\ PagesOK /\ CallsOK /\ Known' = Known /\ c.tab \in Tabs
  BY CallFact DEF TypeInv, Submitted, Known, CallsOK, CallOK
<1>1. opened' = opened /\ opened \in 0..MaxOpened /\ opened <= opened'
  BY <1>0, FormAssumption DEF TablesOK, Submitted
<1>3. upset' \subseteq Upset
  BY <1>0 DEF TablesOK, Submitted, Sharing, Upset
<1>4. Mount(c.tab, 0, None, 0, calls \ {c}) /\ UNCHANGED <<merchants, cache, edited>>
      /\ stored' = None
  BY DEF Submitted
<1>5. cache' \in [Tabs -> [Ids -> Copy]]
  BY <1>0, <1>4 DEF PagesOK
<1>6. Remains(c.tab, calls \ {c})
  BY <1>0, RemainsLess
<1>7. 0 \in Nat /\ 0 <= 4 /\ ~(0 > 0)
  OBVIOUS
<1> QED BY <1>0, <1>1, <1>3, <1>4, <1>5, <1>6, <1>7, MountType

LEMMA ProceedsType ==
  ASSUME TypeInv, NEW c \in calls, Proceeds(c)
  PROVE  TypeInv'
<1>0. /\ TablesOK /\ PagesOK /\ CallsOK /\ Known' = Known /\ CallOK(c) /\ c \in Call
      /\ c.tab \in Tabs
  BY CallFact DEF TypeInv, Proceeds, Known, CallsOK, CallOK
<1>1. opened' = opened /\ opened \in 0..MaxOpened /\ opened <= opened'
  BY <1>0, FormAssumption DEF TablesOK, Proceeds
<1>2. stored' \in {None} \cup Known
  BY <1>0 DEF Proceeds, Stores, TablesOK, CallOK
<1>3. upset' \subseteq Upset
  BY <1>0 DEF TablesOK, Proceeds, Sharing, Upset
<1>4. UNCHANGED <<merchants, cache, edited>> /\ cache' \in [Tabs -> [Ids -> Copy]]
  BY <1>0 DEF Proceeds, PagesOK
<1>5. CASE ~Showing(c)
  <2>1. calls' = calls \ {c} /\ UNCHANGED page
    BY <1>5 DEF Proceeds
  <2> QED BY <1>0, <1>1, <1>2, <1>3, <1>4, <2>1, AnswerType
<1>6. CASE Showing(c)
  <2> DEFINE n == step[c.tab] + 1
  <2>1. Mount(c.tab, n, stored', c.opening, calls \ {c})
    BY <1>6 DEF Proceeds
  <2>2. step[c.tab] \in Nat /\ n \in Nat
    BY <1>0 DEF PagesOK
  <2>3. c.opening \in 1..opened'
    BY <1>0, <1>1, CallFact, FormAssumption DEF CallOK, Openings
  <2>4. Remains(c.tab, calls \ {c})
        /\ Cardinality(Of(c.tab, calls \ {c})) = Cardinality(Pending(c.tab)) - 1
    BY <1>0, RemainsLess
  <2>5. n + Cardinality(Of(c.tab, calls \ {c})) <= 4 + MaxCalls
    <3>1. step[c.tab] + Cardinality(Pending(c.tab)) <= 4 + MaxCalls
      BY <1>0 DEF CallsOK
    <3>2. Cardinality(Pending(c.tab)) \in Nat
      BY <1>0, CountFact, FS_Subset, FS_CardinalityType DEF Pending
    <3> QED BY <2>2, <2>4, <3>1, <3>2, FormAssumption
  <2> HIDE DEF n
  <2>6. stored' \in {None} \cup Known'
    BY <1>0, <1>2
  <2> QED BY <1>0, <1>1, <1>2, <1>3, <1>4, <2>1, <2>2, <2>3, <2>4, <2>5, MountType
<1> QED BY <1>5, <1>6

LEMMA FailsType ==
  ASSUME TypeInv, NEW c \in calls, Fails(c)
  PROVE  TypeInv'
<1>1. stored' \in {None} \cup Known /\ upset' \subseteq Upset /\ calls' \subseteq calls
  BY DEF TypeInv, TablesOK, Fails, Upset
<1>2. UNCHANGED <<merchants, opened, page, cache, edited>>
  BY DEF Fails
<1> QED BY <1>1, <1>2, AnswerType

LEMMA TypeStep == TypeInv /\ [Next]_vars => TypeInv'
<1> SUFFICES ASSUME TypeInv, [Next]_vars PROVE TypeInv'
  OBVIOUS
<1>1. CASE UNCHANGED vars
  BY <1>1, AnswerType DEF vars, history, TypeInv, TablesOK
<1>2. ASSUME NEW t \in Tabs, User(t) PROVE TypeInv'
  <2>1. ASSUME AddNew(t) \/ Proceed(t) PROVE TypeInv'
    BY <2>1, OpenType DEF AddNew, Proceed
  <2> QED BY <1>2, <2>1, ReloadType, BackType, LeaveType, SaveType, SubmitType, CloseType,
             FetchedType DEF User
<1>3. ASSUME NEW c \in calls, Serve(c) \/ Receive(c) PROVE TypeInv'
  BY <1>3, ServeType, ProceedsType, ReviewsType, SubmittedType, FailsType DEF Receive
<1>4. ASSUME NEW m \in Known, Revert(m) PROVE TypeInv'
  BY <1>4, RevertType
<1> QED BY <1>1, <1>2, <1>3, <1>4 DEF Next

LEMMA TypeFact ==
  ASSUME TypeInv
  PROVE  TypeOK
<1>0. TablesOK /\ PagesOK /\ CallsOK
  BY DEF TypeInv
<1>1. ASSUME NEW t \in Tabs PROVE step[t] \in 0..(4 + MaxCalls)
  <2>1. step[t] + Cardinality(Pending(t)) <= 4 + MaxCalls /\ step[t] \in Nat
    BY <1>0 DEF CallsOK, PagesOK
  <2>2. Cardinality(Pending(t)) \in Nat
    BY <1>0, CountFact, FS_Subset, FS_CardinalityType DEF Pending
  <2> QED BY <2>1, <2>2, FormAssumption
<1>2. ASSUME NEW t \in Tabs PROVE Cardinality({c \in Pending(t) : c.at = "here"}) <= 1
  <2> DEFINE H == {c \in Pending(t) : c.at = "here"}
  <2>1. \A c, d \in H : c = d
    BY <1>0 DEF CallsOK, Pending
  <2>2. H = {} \/ \E c : H = {c}
    BY <2>1
  <2> HIDE DEF H
  <2>3. Cardinality(H) \in {0, 1}
    BY <2>2, FS_EmptySet, FS_Singleton
  <2> QED BY <2>3 DEF H
<1>3. step \in [Tabs -> 0..(4 + MaxCalls)]
  BY <1>0, <1>1 DEF PagesOK
<1>4. calls \subseteq Call
  BY <1>0 DEF CallsOK, CallOK
<1>5. \E n \in 0..MaxMerchants :
        merchants \in [1..n -> [status : {"Draft", "Review", "Reverted"},
                                parts : [Parts -> 0..MaxParts]]]
  BY <1>0 DEF TablesOK, Merchant
<1> QED BY <1>0, <1>2, <1>3, <1>4, <1>5 DEF TypeOK, TablesOK, PagesOK, TabOK

-----------------------------------------------------------------------------
(* Parts are added and never taken away.                                     *)
LEMMA HasStays ==
  ASSUME TypeInv, [Next]_vars, NEW m, NEW p \in Parts, Has(m, p)
  PROVE  Has(m, p)'
<1>0. \A k \in Known, q \in Parts : merchants[k].parts[q] \in Nat
  BY KnownFact, FormAssumption DEF TypeInv, Merchant
<1>1. CASE UNCHANGED merchants
  BY <1>1 DEF Has, Known
<1>2. ASSUME NEW c \in calls, Create(c) PROVE Has(m, p)'
  <2>1. Known \subseteq Known' /\ \A k \in Known : merchants'[k] = merchants[k]
    BY <1>2, CreateFact
  <2> QED BY <2>1 DEF Has
<1>3. ASSUME NEW c \in calls, Serves(c) PROVE Has(m, p)'
  <2>1. c.merchant \in Known /\ ServedTo(c.merchant, c)
    BY <1>3, ServeFact
  <2>2. Known' = Known /\ \A k \in Known : k # c.merchant => merchants'[k] = merchants[k]
    BY <2>1 DEF ServedTo, Rewrites
  <2>3. merchants[c.merchant].parts[p] > 0 => merchants'[c.merchant].parts[p] > 0
    <3>1. \/ merchants'[c.merchant].parts[p] = merchants[c.merchant].parts[p]
          \/ merchants'[c.merchant].parts[p] = merchants[c.merchant].parts[p] + 1
      BY <2>1 DEF ServedTo
    <3>2. merchants[c.merchant].parts[p] \in Nat
      BY <1>0, <2>1
    <3> QED BY <3>1, <3>2
  <2>4. CASE m = c.merchant
    BY <2>1, <2>2, <2>3, <2>4 DEF Has
  <2>5. CASE m # c.merchant
    BY <2>2, <2>5 DEF Has
  <2> QED BY <2>4, <2>5
<1>4. ASSUME NEW k \in Known, Revert(k) PROVE Has(m, p)'
  <2>1. Rewrites(k, merchants'[k]) /\ merchants'[k].parts = merchants[k].parts
    BY <1>4, StatusFact DEF Revert
  <2> QED BY <2>1 DEF Rewrites, Has
<1>5. ASSUME NEW t \in Tabs, User(t) PROVE UNCHANGED merchants
  BY <1>5 DEF User, AddNew, Proceed, Open, Reload, Back, Leave, Save, Submit, Close, Fetched
<1>6. ASSUME NEW c \in calls, Receive(c) PROVE UNCHANGED merchants
  BY <1>6 DEF Receive, Proceeds, Reviews, Submitted, Fails
<1> QED BY <1>1, <1>2, <1>3, <1>4, <1>5, <1>6 DEF Next, Serve, Serves, vars

(* Where a call comes from.                                                  *)
Saved(t) ==
  Request(t, step[t], ~IsThere(t), IF step[t] = 1 /\ ~IsThere(t) THEN None ELSE id[t])
ComesFrom(d) ==
  \/ \E c \in calls : Moved(c, d)
  \/ \E t \in Tabs : Save(t) /\ d = Saved(t)
  \/ \E t \in Tabs : Submit(t) /\ d = Request(t, 5, FALSE, id[t])
  \/ \E c \in calls : Create(c) /\ d = DoneCall(c, Cardinality(Known) + 1)
  \/ \E c \in calls : Serves(c) /\ d = DoneCall(c, c.merchant)

LEMMA SameMoved ==
  ASSUME CallsOK, NEW d \in calls
  PROVE  ComesFrom(d)
<1>1. Moved(d, d)
  BY DEF CallsOK, CallOK, Moved, SameCall
<1> QED BY <1>1 DEF ComesFrom

LEMMA MountMoved ==
  ASSUME CallsOK, NEW t \in Tabs, NEW n, NEW m, NEW o, NEW R, Remains(t, R),
         Mount(t, n, m, o, R), NEW d \in calls'
  PROVE  ComesFrom(d)
<1>1. MovedFrom(t, d)
  BY MountCalls
<1> QED BY <1>1 DEF MovedFrom, ComesFrom

LEMMA CallsStep ==
  ASSUME TypeInv, [Next]_vars, NEW d \in calls'
  PROVE  ComesFrom(d)
<1>0. CallsOK
  BY DEF TypeInv
<1>1. ASSUME calls' \subseteq calls PROVE ComesFrom(d)
  BY <1>0, <1>1, SameMoved
<1>2. ASSUME NEW t \in Tabs, AddNew(t) \/ Proceed(t) PROVE ComesFrom(d)
  <2>1. PICK m : Mount(t, 1, m, opened + 1, calls)
    BY <1>2 DEF AddNew, Proceed, Open
  <2> QED BY <1>0, <2>1, RemainsAll, MountMoved
<1>3. ASSUME NEW t \in Tabs, Reload(t) PROVE ComesFrom(d)
  <2> DEFINE R == {[c EXCEPT !.at = IF c.tab = t THEN "gone" ELSE @] : c \in calls}
  <2>1. Mount(t, 1, stored, opening[t], R) /\ Remains(t, R)
    BY <1>0, <1>3, RemainsGone DEF Reload
  <2> HIDE DEF R
  <2> QED BY <1>0, <2>1, MountMoved
<1>4. ASSUME NEW t \in Tabs, Back(t) PROVE ComesFrom(d)
  <2>1. Mount(t, step[t] - 1, stored, opening[t], calls)
    BY <1>4 DEF Back
  <2> QED BY <1>0, <2>1, RemainsAll, MountMoved
<1>5. ASSUME NEW t \in Tabs, Leave(t) PROVE ComesFrom(d)
  <2>1. Mount(t, 0, None, 0, calls)
    BY <1>5 DEF Leave
  <2> QED BY <1>0, <2>1, RemainsAll, MountMoved
<1>6. ASSUME NEW t \in Tabs, Save(t) PROVE ComesFrom(d)
  <2>1. d \in calls \/ d = Saved(t)
    BY <1>6 DEF Save, Send, Saved
  <2> QED BY <1>0, <1>6, <2>1, SameMoved DEF ComesFrom
<1>7. ASSUME NEW t \in Tabs, Submit(t) PROVE ComesFrom(d)
  <2>1. d \in calls \/ d = Request(t, 5, FALSE, id[t])
    BY <1>7 DEF Submit, Send
  <2> QED BY <1>0, <1>7, <2>1, SameMoved DEF ComesFrom
<1>8. ASSUME NEW t \in Tabs, Close(t) \/ Fetched(t) PROVE ComesFrom(d)
  BY <1>1, <1>8 DEF Close, Fetched
<1>9. ASSUME NEW c \in calls, Create(c) PROVE ComesFrom(d)
  <2>1. d \in calls \/ d = DoneCall(c, Cardinality(Known) + 1)
    BY <1>9 DEF Create, Does, DoneCall
  <2> QED BY <1>0, <1>9, <2>1, SameMoved DEF ComesFrom
<1>10. ASSUME NEW c \in calls, Serves(c) PROVE ComesFrom(d)
  <2>1. Does(c, c.merchant)
    BY <1>10, ServeFact DEF ServedTo
  <2>2. d \in calls \/ d = DoneCall(c, c.merchant)
    BY <2>1 DEF Does, DoneCall
  <2> QED BY <1>0, <1>10, <2>2, SameMoved DEF ComesFrom
<1>11. ASSUME NEW c \in calls, Proceeds(c) PROVE ComesFrom(d)
  <2>1. c.tab \in Tabs /\ Remains(c.tab, calls \ {c})
    BY <1>0, CallFact, RemainsLess DEF CallsOK, CallOK
  <2>2. CASE calls' = calls \ {c}
    BY <1>1, <2>2
  <2>3. CASE Mount(c.tab, step[c.tab] + 1, stored', c.opening, calls \ {c})
    BY <1>0, <2>1, <2>3, MountMoved
  <2> QED BY <1>11, <2>2, <2>3 DEF Proceeds
<1>12. ASSUME NEW c \in calls, Submitted(c) PROVE ComesFrom(d)
  <2>1. c.tab \in Tabs /\ Remains(c.tab, calls \ {c})
    BY <1>0, CallFact, RemainsLess DEF CallsOK, CallOK
  <2>2. Mount(c.tab, 0, None, 0, calls \ {c})
    BY <1>12 DEF Submitted
  <2> QED BY <1>0, <2>1, <2>2, MountMoved
<1>13. ASSUME NEW c \in calls, Reviews(c) \/ Fails(c) PROVE ComesFrom(d)
  BY <1>1, <1>13 DEF Reviews, Fails
<1>14. ASSUME NEW m \in Known, Revert(m) PROVE ComesFrom(d)
  BY <1>1, <1>14 DEF Revert
<1>15. CASE UNCHANGED vars
  BY <1>1, <1>15 DEF vars
<1>16. ASSUME NEW t \in Tabs, User(t) PROVE ComesFrom(d)
  BY <1>2, <1>3, <1>4, <1>5, <1>6, <1>7, <1>8, <1>16 DEF User
<1>17. ASSUME NEW c \in calls, Serve(c) \/ Receive(c) PROVE ComesFrom(d)
  BY <1>9, <1>10, <1>11, <1>12, <1>13, <1>17 DEF Serve, Serves, Receive
<1> QED BY <1>14, <1>15, <1>16, <1>17 DEF Next

LEMMA PartsStep == TypeInv /\ PartsInv /\ [Next]_vars => PartsInv'
<1> SUFFICES ASSUME TypeInv, PartsInv, [Next]_vars PROVE PartsInv'
  OBVIOUS
<1>1. ASSUME NEW t \in Tabs, NEW m \in Ids, NEW p \in cache'[t][m].parts PROVE Has(m, p)'
  <2>0. /\ cache \in [Tabs -> [Ids -> Copy]] /\ cache' \in [Tabs -> [Ids -> Copy]]
        /\ p \in Parts
    BY <1>1, TypeStep DEF TypeInv, PagesOK, Copy
  <2>1. CASE p \in cache[t][m].parts
    BY <2>0, <2>1, HasStays DEF PartsInv
  <2>2. ASSUME NEW s \in Tabs, Fetched(s) PROVE p \in cache[t][m].parts \/ Has(m, p)'
    <3>1. CASE t = s /\ m = id[s]
      <4>1. cache'[t][m] = CopyOf(m) /\ merchants' = merchants
        BY <2>0, <2>2, <3>1 DEF Fetched
      <4>2. m \in Known
        BY <2>2, <3>1 DEF TypeInv, PagesOK, Fetched
      <4> QED BY <1>1, <4>1, <4>2 DEF CopyOf, Has, Known
    <3>2. CASE ~(t = s /\ m = id[s])
      BY <1>1, <2>0, <2>2, <3>2 DEF Fetched
    <3> QED BY <3>1, <3>2
  <2>3. ASSUME NEW s \in Tabs, Reload(s) PROVE p \in cache[t][m].parts
    BY <1>1, <2>0, <2>3 DEF Reload, NoCopy
  <2>4. CASE UNCHANGED cache
    BY <1>1, <2>1, <2>4
  <2>5. ASSUME NEW s \in Tabs, User(s) PROVE Fetched(s) \/ Reload(s) \/ UNCHANGED cache
    BY <2>5 DEF User, AddNew, Proceed, Open, Back, Leave, Save, Submit, Close
  <2>6. ASSUME NEW c \in calls, Serve(c) \/ Receive(c) PROVE UNCHANGED cache
    BY <2>6 DEF Serve, Create, Update, AddPart, ChangePart, ReadyToReview, Does,
                Receive, Proceeds, Reviews, Submitted, Fails
  <2>7. ASSUME NEW k \in Known, Revert(k) PROVE UNCHANGED cache
    BY <2>7 DEF Revert
  <2> QED BY <2>1, <2>2, <2>3, <2>4, <2>5, <2>6, <2>7 DEF Next, vars
<1>2. ASSUME NEW d \in calls', d.form \in Parts, ~d.new \/ d.done
      PROVE  Has(d.merchant, d.form)'
  <2>1. ComesFrom(d)
    BY CallsStep
  <2>2. ASSUME NEW c \in calls, Moved(c, d) PROVE Has(d.merchant, d.form)'
    <3>1. Has(d.merchant, d.form)
      BY <1>2, <2>2 DEF Moved, SameCall, PartsInv
    <3> QED BY <1>2, <3>1, HasStays
  <2>3. ASSUME NEW t \in Tabs, Save(t), d = Saved(t) PROVE Has(d.merchant, d.form)'
    <3>1. d.form = step[t] /\ d.done = FALSE /\ d.new = ~IsThere(t)
          /\ (step[t] # 1 => d.merchant = id[t])
      BY <2>3 DEF Saved, Request
    <3>2. step[t] # 1 /\ IsThere(t) /\ d.merchant = id[t]
      <4>1. step[t] # 1 /\ ~d.new
        BY <1>2, <3>1 DEF Parts
      <4>2. ~(~IsThere(t))
        BY <3>1, <4>1, Zenon
      <4> QED BY <3>1, <4>1, <4>2, Zenon
    <3>3. id[t] \in Known /\ id[t] \in Ids /\ id[t] # None
      BY <3>2, ThereFact, KnownFact DEF TypeInv
    <3>4. step[t] \in cache[t][id[t]].parts
      BY <3>2, <3>3 DEF IsThere, Draft
    <3>5. Has(d.merchant, d.form)
      BY <3>1, <3>2, <3>3, <3>4 DEF PartsInv
    <3> QED BY <1>2, <3>5, HasStays
  <2>4. ASSUME NEW t \in Tabs, d = Request(t, 5, FALSE, id[t]) PROVE FALSE
    BY <1>2, <2>4 DEF Request, Parts
  <2>5. ASSUME NEW c \in calls, Create(c), d = DoneCall(c, Cardinality(Known) + 1) PROVE FALSE
    <3>1. c \in Call /\ Cardinality(Known) + 1 \in Ids /\ c.form = 1
      BY <2>5 DEF TypeInv, CallsOK, CallOK, Create
    <3>2. d.form = 1
      BY <2>5, <3>1, DoneFact
    <3> QED BY <1>2, <3>2 DEF Parts
  <2>6. ASSUME NEW c \in calls, Serves(c), d = DoneCall(c, c.merchant)
        PROVE  Has(d.merchant, d.form)'
    <3>1. c.merchant \in Known /\ ServedTo(c.merchant, c) /\ c \in Call
      BY <2>6, ServeFact DEF TypeInv, CallsOK, CallOK
    <3>2. d.merchant = c.merchant /\ d.form = c.form /\ c.merchant \in Ids
      BY <2>6, <3>1, DoneFact, KnownFact DEF TypeInv
    <3>3. CASE c.new
      <4>1. /\ merchants'[c.merchant].parts[c.form] = merchants[c.merchant].parts[c.form] + 1
            /\ Known' = Known
        BY <1>2, <3>1, <3>2, <3>3 DEF ServedTo, Rewrites, Parts
      <4>2. merchants[c.merchant].parts[c.form] \in Nat
        BY <1>2, <3>1, <3>2, KnownFact, FormAssumption DEF TypeInv, Merchant
      <4> QED BY <3>1, <3>2, <4>1, <4>2 DEF Has
    <3>4. CASE ~c.new
      BY <1>2, <3>2, <3>4, HasStays DEF PartsInv
    <3> QED BY <3>3, <3>4
  <2> QED BY <2>1, <2>2, <2>3, <2>4, <2>5, <2>6 DEF ComesFrom
<1> QED BY <1>1, <1>2 DEF PartsInv

-----------------------------------------------------------------------------
(* The order of the forms.                                                   *)
LEMMA StayFacing ==
  ASSUME TypeInv, [Next]_vars, Facing, UNCHANGED <<step, id, stored>>,
         \A t \in Tabs : review'[t] => review[t] \/ \A p \in Parts : Has(stored, p)',
         \A d \in calls' : d.at \in {"here", "gone"}
  PROVE  Facing'
<1>1. OneOpen'
  BY DEF Facing, OneOpen
<1>2. ASSUME NEW t \in Tabs PROVE Reached(t)'
  <2>1. Reached(t) /\ step'[t] = step[t] /\ id'[t] = id[t] /\ stored' = stored
    BY DEF Facing
  <2>2. ASSUME NEW p \in Parts, p < step[t] \/ review'[t], step[t] > 0 PROVE Has(stored, p)'
    BY <2>1, <2>2, HasStays DEF Reached
  <2> QED BY <2>1, <2>2 DEF Reached
<1> QED BY <1>1, <1>2 DEF Facing

LEMMA MountFacing ==
  ASSUME TypeInv, NEW t \in Tabs, NEW n \in 0..4, NEW m, NEW o, NEW R, Remains(t, R),
         Mount(t, n, m, o, R), UNCHANGED merchants,
         \A s \in Tabs : s # t => step[s] = 0,
         n > 0 => m = stored', n > 1 => stored' # None,
         \A p \in Parts : p < n => Has(stored', p),
         \A c \in R : c.at \in {"here", "gone"} /\ (c.tab = t => c.at # "here")
  PROVE  Facing'
<1>1. Mounted(t, n, m, o)
  BY MountPages DEF TypeInv
<1>2. OneOpen'
  BY <1>1 DEF Mounted, OneOpen
<1>3. ASSUME NEW s \in Tabs PROVE Reached(s)'
  <2>1. CASE s # t
    <3>1. step'[s] = 0
      BY <1>1, <2>1 DEF Mounted
    <3> QED BY <3>1 DEF Reached
  <2>2. CASE s = t
    <3>1. step'[s] = n /\ review'[s] = FALSE /\ (n > 0 => id'[s] = stored')
      BY <1>1, <2>2 DEF Mounted
    <3>2. \A p \in Parts : p < n => Has(stored, p)'
      BY DEF Has, Known
    <3> QED BY <3>1, <3>2 DEF Reached
  <2> QED BY <2>1, <2>2
<1>4. ASSUME NEW d \in calls' PROVE d.at \in {"here", "gone"}
  <2>1. PICK c \in R : d = [c EXCEPT !.at = IF c.tab = t /\ @ = "here" THEN "left" ELSE @]
    BY DEF Mount
  <2>2. c \in Call
    BY DEF Remains, Moved
  <2> QED BY <2>1, <2>2 DEF Call
<1> QED BY <1>2, <1>3, <1>4 DEF Facing

(* The open form, when its tab has no call, or the call it waits for.         *)
LEMMA IdleFact ==
  ASSUME NEW t \in Tabs, Pending(t) = {}
  PROVE  \A c \in calls : c.tab # t
BY DEF Pending

LEMMA OpenFacing ==
  ASSUME TypeInv, Facing, Calm', NEW t \in Tabs, NEW m, Open(t, m)
  PROVE  Facing'
<1>1. Pending(t) = {} /\ \A s \in Tabs : s # t => ~(step[s] > 0)
  BY DEF Calm, Open, Rushing, Sharing
<1>2. \A s \in Tabs : s # t => step[s] = 0
  BY <1>1 DEF TypeInv, PagesOK
<1>3. Mount(t, 1, m, opened + 1, calls) /\ stored' = m /\ UNCHANGED merchants
  BY DEF Open
<1>4. Remains(t, calls)
  BY RemainsAll DEF TypeInv
<1>5. \A c \in calls : c.at \in {"here", "gone"} /\ (c.tab = t => c.at # "here")
  BY <1>1, IdleFact DEF Facing
<1>6. 1 \in 0..4 /\ \A p \in Parts : ~(p < 1)
  BY DEF Parts
<1> QED BY <1>2, <1>3, <1>4, <1>5, <1>6, MountFacing

LEMMA ReloadFacing ==
  ASSUME TypeInv, Facing, Calm', NEW t \in Tabs, Reload(t)
  PROVE  Facing'
<1> DEFINE R == {[c EXCEPT !.at = IF c.tab = t THEN "gone" ELSE @] : c \in calls}
<1>1. \A s \in Tabs : s # t => ~(step[s] > 0)
  BY DEF Calm, Reload, Sharing
<1>2. \A s \in Tabs : s # t => step[s] = 0
  BY <1>1 DEF TypeInv, PagesOK
<1>3. Mount(t, 1, stored, opening[t], R) /\ stored' = stored /\ UNCHANGED merchants
  BY DEF Reload
<1>4. Remains(t, R)
  BY RemainsGone DEF TypeInv
<1>5. ASSUME NEW d \in R PROVE d.at \in {"here", "gone"} /\ (d.tab = t => d.at # "here")
  <2>1. PICK c \in calls : d = [c EXCEPT !.at = IF c.tab = t THEN "gone" ELSE @]
    OBVIOUS
  <2>2. c \in Call /\ c.at \in {"here", "gone"}
    BY DEF TypeInv, CallsOK, CallOK, Facing
  <2> QED BY <2>1, <2>2 DEF Call
<1>6. 1 \in 0..4 /\ \A p \in Parts : ~(p < 1)
  BY DEF Parts
<1> HIDE DEF R
<1> QED BY <1>2, <1>3, <1>4, <1>5, <1>6, MountFacing

LEMMA BackFacing ==
  ASSUME TypeInv, Facing, Calm', NEW t \in Tabs, Back(t)
  PROVE  Facing'
<1> DEFINE n == step[t] - 1
<1>1. Pending(t) = {} /\ step[t] > 0 /\ step[t] \in Nat
  BY DEF Calm, Back, Rushing, TypeInv, PagesOK
<1>2. \A s \in Tabs : s # t => step[s] = 0
  BY <1>1 DEF TypeInv, PagesOK, Facing, OneOpen
<1>3. Mount(t, n, stored, opening[t], calls) /\ stored' = stored /\ UNCHANGED merchants
  BY DEF Back
<1>4. Remains(t, calls)
  BY RemainsAll DEF TypeInv
<1>5. \A c \in calls : c.at \in {"here", "gone"} /\ (c.tab = t => c.at # "here")
  BY <1>1, IdleFact DEF Facing
<1>6. /\ n \in 0..4 /\ (n > 1 => stored' # None)
      /\ \A p \in Parts : p < n => Has(stored', p)
  <2>1. Reached(t)
    BY DEF Facing
  <2> QED BY <1>1, <1>3, <2>1 DEF Reached, Parts
<1> HIDE DEF n
<1> QED BY <1>2, <1>3, <1>4, <1>5, <1>6, MountFacing

LEMMA LeaveFacing ==
  ASSUME TypeInv, Facing, Calm', NEW t \in Tabs, Leave(t)
  PROVE  Facing'
<1>1. Pending(t) = {} /\ step[t] > 0
  <2>1. step[t] \in Nat
    BY DEF TypeInv, PagesOK
  <2> QED BY <2>1 DEF Calm, Leave, Rushing
<1>2. \A s \in Tabs : s # t => step[s] = 0
  BY <1>1 DEF TypeInv, PagesOK, Facing, OneOpen
<1>3. Mount(t, 0, None, 0, calls) /\ UNCHANGED merchants
  BY DEF Leave
<1>4. Remains(t, calls)
  BY RemainsAll DEF TypeInv
<1>5. \A c \in calls : c.at \in {"here", "gone"} /\ (c.tab = t => c.at # "here")
  BY <1>1, IdleFact DEF Facing
<1>6. 0 \in 0..4 /\ ~(0 > 0) /\ ~(0 > 1) /\ \A p \in Parts : ~(p < 0)
  BY DEF Parts
<1> QED BY <1>2, <1>3, <1>4, <1>5, <1>6, MountFacing

(* The tab of a call shows the form that sent it, for the stored merchant.     *)
LEMMA HereFact ==
  ASSUME TypeInv, Facing, NEW c \in calls, c.at # "gone"
  PROVE  /\ c.at = "here" /\ c \in Call /\ c.tab \in Tabs /\ CallOK(c) /\ Reached(c.tab)
         /\ step[c.tab] = (IF c.form = 5 THEN 4 ELSE c.form) /\ step[c.tab] > 0
         /\ opening[c.tab] = c.opening /\ id[c.tab] = stored
         /\ (c.form = 1 /\ c.new) \/ c.merchant = stored
         /\ c.form # 1 => stored # None
         /\ \A s \in Tabs : s # c.tab => step[s] = 0
         /\ \A e \in calls : e.tab = c.tab /\ e.at # "gone" => e = c
<1>1. c.at = "here" /\ CallOK(c) /\ c \in Call /\ c.tab \in Tabs
  BY CallFact DEF TypeInv, CallsOK, CallOK, Facing
<1>2. /\ step[c.tab] = (IF c.form = 5 THEN 4 ELSE c.form) /\ c.form \in 1..5
      /\ opening[c.tab] = c.opening /\ ((c.form = 1 /\ c.new) \/ c.merchant = id[c.tab])
  BY <1>1, CallFact DEF CallOK
<1>3. step[c.tab] > 0 /\ (c.form # 1 => step[c.tab] > 1)
  BY <1>2
<1>4. Reached(c.tab)
  BY <1>1 DEF Facing
<1>5. \A s \in Tabs : s # c.tab => step[s] = 0
  BY <1>1, <1>3 DEF Facing, OneOpen, TypeInv, PagesOK
<1>6. \A e \in calls : e.tab = c.tab /\ e.at # "gone" => e = c
  BY <1>1 DEF Facing, TypeInv, CallsOK
<1> QED BY <1>1, <1>2, <1>3, <1>4, <1>5, <1>6 DEF Reached

LEMMA LeftFact ==
  ASSUME TypeInv, Facing, NEW c \in calls, c.at # "gone"
  PROVE  \A e \in calls \ {c} : e.at \in {"here", "gone"} /\ (e.tab = c.tab => e.at # "here")
BY HereFact DEF Facing

LEMMA ProceedsFacing ==
  ASSUME TypeInv, PartsInv, Facing, NEW c \in calls, Proceeds(c)
  PROVE  Facing'
<1>1. /\ c.at # "gone" /\ c.form \in 1..3 /\ c.done /\ stored' = Stores(c)
      /\ UNCHANGED merchants
  BY DEF Proceeds
<1>2. /\ c.at = "here" /\ c.tab \in Tabs /\ CallOK(c) /\ Reached(c.tab)
      /\ step[c.tab] = c.form /\ opening[c.tab] = c.opening /\ id[c.tab] = stored
      /\ (c.form = 1 /\ c.new) \/ c.merchant = stored
      /\ \A s \in Tabs : s # c.tab => step[s] = 0
  BY <1>1, HereFact
<1> DEFINE n == step[c.tab] + 1
<1>3. Mount(c.tab, n, stored', c.opening, calls \ {c})
  BY <1>1, <1>2 DEF Proceeds, Showing
<1>4. Remains(c.tab, calls \ {c})
  BY <1>2, RemainsLess DEF TypeInv
<1>5. \A e \in calls \ {c} : e.at \in {"here", "gone"} /\ (e.tab = c.tab => e.at # "here")
  BY <1>1, LeftFact
<1>6. n \in 0..4
  BY <1>1, <1>2
<1>7. stored' = c.merchant /\ stored' \in Known /\ stored' # None
  <2>1. c.merchant \in Known
    BY <1>1, <1>2 DEF CallOK
  <2>2. stored' = c.merchant
    BY <1>1, <1>2 DEF Stores
  <2> QED BY <2>1, <2>2, KnownFact DEF TypeInv
<1>8. ASSUME NEW p \in Parts, p < n PROVE Has(stored', p)
  <2>1. CASE p = c.form
    BY <1>1, <1>7, <2>1 DEF PartsInv
  <2>2. CASE p # c.form
    <3>1. p < step[c.tab] /\ step[c.tab] > 1
      BY <1>1, <1>2, <1>8, <2>2 DEF Parts
    <3>2. Has(stored, p)
      BY <1>1, <1>2, <3>1 DEF Reached
    <3>3. c.form # 1
      BY <1>2, <3>1
    <3> QED BY <1>2, <1>7, <3>2, <3>3
  <2> QED BY <2>1, <2>2
<1> HIDE DEF n
<1> QED BY <1>1, <1>2, <1>3, <1>4, <1>5, <1>6, <1>7, <1>8, MountFacing

LEMMA SubmittedFacing ==
  ASSUME TypeInv, Facing, NEW c \in calls, Submitted(c)
  PROVE  Facing'
<1>1. c.at # "gone" /\ Mount(c.tab, 0, None, 0, calls \ {c}) /\ UNCHANGED merchants
  BY DEF Submitted
<1>2. c.tab \in Tabs /\ \A s \in Tabs : s # c.tab => step[s] = 0
  BY <1>1, HereFact
<1>3. Remains(c.tab, calls \ {c})
  BY <1>2, RemainsLess DEF TypeInv
<1>4. \A e \in calls \ {c} : e.at \in {"here", "gone"} /\ (e.tab = c.tab => e.at # "here")
  BY <1>1, LeftFact
<1>5. 0 \in 0..4 /\ ~(0 > 0) /\ ~(0 > 1) /\ \A p \in Parts : ~(p < 0)
  BY DEF Parts
<1> QED BY <1>1, <1>2, <1>3, <1>4, <1>5, MountFacing

LEMMA ReviewsFacing ==
  ASSUME TypeInv, PartsInv, Facing, [Next]_vars, NEW c \in calls, Reviews(c)
  PROVE  Facing'
<1>1. /\ c.at # "gone" /\ c.form = 4 /\ c.done /\ UNCHANGED <<step, id, stored>>
      /\ calls' \subseteq calls
  BY DEF Reviews
<1>2. /\ c.tab \in Tabs /\ Reached(c.tab) /\ step[c.tab] = 4 /\ c.merchant = stored
      /\ step[c.tab] > 0
  BY <1>1, HereFact
<1>3. ASSUME NEW p \in Parts PROVE Has(stored, p)'
  <2>1. CASE p = 4
    <3>1. Has(stored, p)
      BY <1>1, <1>2, <2>1 DEF PartsInv, Parts
    <3> QED BY <1>1, <3>1, HasStays
  <2>2. CASE p # 4
    <3>1. p < step[c.tab]
      BY <1>2, <2>2 DEF Parts
    <3>2. Has(stored, p)
      BY <1>2, <3>1 DEF Reached
    <3> QED BY <1>1, <3>2, HasStays
  <2> QED BY <2>1, <2>2
<1>4. \A d \in calls' : d.at \in {"here", "gone"}
  BY <1>1 DEF Facing
<1> QED BY <1>1, <1>3, <1>4, StayFacing

LEMMA ServeFacing ==
  ASSUME TypeInv, Facing, [Next]_vars, NEW c \in calls, Serve(c)
  PROVE  Facing'
<1>1. PICK m \in Ids : Does(c, m)
  <2>1. CASE Create(c)
    BY <2>1, CreateFact
  <2>2. CASE Serves(c)
    BY <2>2, ServeFact, KnownFact DEF ServedTo, TypeInv
  <2> QED BY <2>1, <2>2 DEF Serve, Serves
<1>2. UNCHANGED <<step, id, stored, review>>
  BY <1>1 DEF Does, page
<1>3. c \in Call /\ calls' = (calls \ {c}) \cup {DoneCall(c, m)}
  BY <1>1 DEF TypeInv, CallsOK, CallOK, Does, DoneCall
<1>4. \A d \in calls' : d.at \in {"here", "gone"}
  <2>1. DoneCall(c, m).at = c.at
    BY <1>3, DoneFact
  <2> QED BY <1>3, <2>1 DEF Facing
<1> QED BY <1>2, <1>4, StayFacing

LEMMA FacingStep ==
  ASSUME TypeInv, PartsInv, Calm', Facing, [Next]_vars
  PROVE  Facing'
<1>1. ASSUME UNCHANGED <<step, id, stored, review>>, calls' \subseteq calls PROVE Facing'
  BY <1>1, StayFacing DEF Facing
<1>2. ASSUME NEW t \in Tabs, User(t) PROVE Facing'
  <2>1. ASSUME AddNew(t) \/ Proceed(t) PROVE Facing'
    BY <2>1, OpenFacing DEF AddNew, Proceed
  <2>2. ASSUME NEW f, NEW new, NEW m, Send(t, f, new, m),
               UNCHANGED <<step, id, stored, review>>
        PROVE  Facing'
    <3>1. \A d \in calls' : d.at \in {"here", "gone"}
      BY <2>2 DEF Send, Request, Facing
    <3> QED BY <2>2, <3>1, StayFacing
  <2>3. CASE Save(t)
    BY <2>2, <2>3 DEF Save, page
  <2>4. CASE Submit(t)
    BY <2>2, <2>4 DEF Submit, page
  <2>5. CASE Close(t)
    <3>1. /\ UNCHANGED <<step, id, stored>> /\ calls' \subseteq calls
          /\ \A s \in Tabs : review'[s] => review[s]
      BY <2>5 DEF Close, TypeInv, PagesOK
    <3> QED BY <3>1, StayFacing DEF Facing
  <2>6. CASE Fetched(t)
    BY <1>1, <2>6 DEF Fetched
  <2> QED BY <1>2, <2>1, <2>3, <2>4, <2>5, <2>6, ReloadFacing, BackFacing, LeaveFacing DEF User
<1>3. ASSUME NEW c \in calls, Receive(c) PROVE Facing'
  <2>1. CASE Fails(c)
    BY <1>1, <2>1 DEF Fails, page
  <2> QED BY <1>3, <2>1, ProceedsFacing, ReviewsFacing, SubmittedFacing DEF Receive
<1>4. ASSUME NEW m \in Known, Revert(m) PROVE Facing'
  BY <1>1, <1>4 DEF Revert, page
<1>5. CASE UNCHANGED vars
  BY <1>1, <1>5 DEF vars, page
<1> QED BY <1>2, <1>3, <1>4, <1>5, ServeFacing DEF Next

LEMMA UpsetGrows == [Next]_vars => upset \subseteq upset'
<1> SUFFICES ASSUME [Next]_vars PROVE upset \subseteq upset'
  OBVIOUS
<1>1. ASSUME NEW t \in Tabs, User(t) PROVE upset \subseteq upset'
  BY <1>1 DEF User, AddNew, Proceed, Open, Reload, Back, Leave, Save, Submit, Close, Fetched,
              history
<1>2. ASSUME NEW c \in calls, Serve(c) \/ Receive(c) PROVE upset \subseteq upset'
  BY <1>2 DEF Serve, Create, Update, AddPart, ChangePart, ReadyToReview, Does,
              Receive, Proceeds, Reviews, Submitted, Fails, history
<1>3. ASSUME NEW m \in Known, Revert(m) PROVE upset \subseteq upset'
  BY <1>3 DEF Revert, history
<1> QED BY <1>1, <1>2, <1>3 DEF Next, vars, history

LEMMA CompleteStep == TypeInv /\ PartsInv /\ CompleteInv /\ [Next]_vars => CompleteInv'
<1> SUFFICES ASSUME TypeInv, PartsInv, CompleteInv, [Next]_vars, Calm' PROVE Orderly'
  BY DEF CompleteInv
<1>1. Orderly
  BY UpsetGrows DEF Calm, CompleteInv
<1>2. Facing'
  BY <1>1, FacingStep DEF Orderly
<1>3. ASSUME NEW d \in calls', d.form = 5, NEW p \in Parts PROVE Has(d.merchant, p)'
  <2>1. Has(d.merchant, p)
    <3>1. ComesFrom(d)
      BY CallsStep
    <3>2. ASSUME NEW c \in calls, Moved(c, d) PROVE Has(d.merchant, p)
      BY <1>1, <1>3, <3>2 DEF Moved, SameCall, Orderly
    <3>3. ASSUME NEW t \in Tabs, Save(t), d = Saved(t) PROVE FALSE
      BY <1>3, <3>3 DEF Saved, Request, Save
    <3>4. ASSUME NEW t \in Tabs, Submit(t), d = Request(t, 5, FALSE, id[t])
          PROVE  Has(d.merchant, p)
      <4>1. d.merchant = id[t] /\ review[t]
        BY <3>4 DEF Request, Submit
      <4>2. step[t] = 4 /\ Reached(t)
        BY <1>1, <4>1 DEF TypeInv, PagesOK, TabOK, Orderly, Facing
      <4> QED BY <4>1, <4>2 DEF Reached
    <3>5. ASSUME NEW c \in calls, Create(c), d = DoneCall(c, Cardinality(Known) + 1) PROVE FALSE
      <4>1. c \in Call /\ Cardinality(Known) + 1 \in Ids /\ c.form = 1
        BY <3>5 DEF TypeInv, CallsOK, CallOK, Create
      <4>2. d.form = 1
        BY <3>5, <4>1, DoneFact
      <4> QED BY <1>3, <4>2
    <3>6. ASSUME NEW c \in calls, Serves(c), d = DoneCall(c, c.merchant)
          PROVE  Has(d.merchant, p)
      <4>1. c.merchant \in Known /\ c.merchant \in Ids /\ c \in Call
        BY <3>6, ServeFact, KnownFact DEF TypeInv, CallsOK, CallOK
      <4>2. d.form = c.form /\ d.merchant = c.merchant
        BY <3>6, <4>1, DoneFact
      <4> QED BY <1>1, <1>3, <4>2 DEF Orderly
    <3> QED BY <3>1, <3>2, <3>3, <3>4, <3>5, <3>6 DEF ComesFrom
  <2> QED BY <2>1, HasStays
<1>4. ASSUME NEW m \in Known', merchants'[m].status = "Review", NEW p \in Parts
      PROVE  Has(m, p)'
  <2>1. ASSUME m \in Known, merchants[m].status = "Review" PROVE Has(m, p)'
    BY <1>1, <2>1, HasStays DEF Orderly
  <2>2. CASE UNCHANGED merchants
    BY <1>4, <2>1, <2>2 DEF Known
  <2>3. ASSUME NEW c \in calls, Create(c) PROVE m \in Known /\ merchants[m].status = "Review"
    BY <1>4, <2>3, CreateFact DEF Fresh
  <2>4. ASSUME NEW c \in calls, Serves(c) PROVE Has(m, p)'
    <3>1. c.merchant \in Known /\ ServedTo(c.merchant, c)
      BY <2>4, ServeFact
    <3>2. CASE m # c.merchant
      BY <1>4, <2>1, <3>1, <3>2 DEF ServedTo, Rewrites
    <3>3. CASE m = c.merchant
      <4>1. merchants[m].status = "Review" \/ c.form = 5
        BY <1>4, <3>1, <3>3 DEF ServedTo
      <4>2. CASE c.form = 5
        BY <1>1, <3>3, <4>2, HasStays DEF Orderly
      <4> QED BY <2>1, <3>1, <3>3, <4>1, <4>2
    <3> QED BY <3>2, <3>3
  <2>5. ASSUME NEW k \in Known, Revert(k) PROVE Has(m, p)'
    <3>1. Rewrites(k, merchants'[k]) /\ merchants'[k].status = "Reverted"
      BY <2>5, StatusFact DEF Revert
    <3> QED BY <1>4, <2>1, <3>1 DEF Rewrites
  <2>6. ASSUME NEW t \in Tabs, User(t) PROVE UNCHANGED merchants
    BY <2>6 DEF User, AddNew, Proceed, Open, Reload, Back, Leave, Save, Submit, Close, Fetched
  <2>7. ASSUME NEW c \in calls, Receive(c) PROVE UNCHANGED merchants
    BY <2>7 DEF Receive, Proceeds, Reviews, Submitted, Fails
  <2> QED BY <2>1, <2>2, <2>3, <2>4, <2>5, <2>6, <2>7 DEF Next, Serve, Serves, vars
<1> QED BY <1>2, <1>3, <1>4 DEF Orderly

-----------------------------------------------------------------------------
(* While nothing else happened.                                              *)
LEMMA OneCall ==
  ASSUME TypeInv, Facing, Settled, NEW c \in calls
  PROVE  calls = {c} /\ c.at # "gone" /\ CallTrue(c)
<1>1. \A e \in calls : CallTrue(e) /\ e.at # "gone" /\ e.tab \in Tabs
  BY CallFact DEF Settled, CallTrue, TypeInv, CallsOK, CallOK
<1>2. ASSUME NEW e \in calls PROVE e = c
  <2>1. step[e.tab] > 0 /\ \A s \in Tabs : s # c.tab => step[s] = 0
    BY <1>1, HereFact
  <2>2. e.tab = c.tab
    BY <1>1, <2>1
  <2> QED BY <1>1, <2>2, HereFact
<1> QED BY <1>1, <1>2

LEMMA NoCall ==
  ASSUME TypeInv, Facing, Settled, NEW t \in Tabs, \A s \in Tabs : s # t => step[s] = 0,
         \A c \in calls : c.tab # t \/ c.at # "here"
  PROVE  calls = {}
<1> SUFFICES ASSUME NEW c \in calls PROVE FALSE
  OBVIOUS
<1>1. c.at # "gone"
  BY OneCall
<1>2. c.tab \in Tabs /\ step[c.tab] > 0 /\ c.at = "here"
  BY <1>1, HereFact
<1> QED BY <1>2

LEMMA MountSettled ==
  ASSUME TypeInv, Settled, NEW t \in Tabs, NEW n \in 0..4, NEW m, NEW o,
         Mount(t, n, m, o, {}), UNCHANGED <<merchants, edited>>,
         \A s \in Tabs : s # t => step[s] = 0, n > 0 => m = stored',
         n > 0 => (edited[o] = {} /\ n = 1) \/ (stored' # None /\ edited[o] = {stored'}),
         n > 0 /\ stored' \in edited[o] => merchants[stored'].status = "Draft"
  PROVE  Settled'
<1>1. Mounted(t, n, m, o)
  BY MountPages DEF TypeInv
<1>2. calls' = {}
  BY DEF Mount
<1>3. ASSUME NEW s \in Tabs, step'[s] > 0 PROVE Changed(s)' /\ CopyTrue(s)'
  <2>1. s = t /\ step'[s] = n /\ n > 0
    BY <1>1, <1>3 DEF Mounted
  <2>2. n \in 1..4 /\ id'[s] = m /\ opening'[s] = o
    BY <1>1, <2>1 DEF Mounted
  <2>3. Changed(s)'
    BY <2>1, <2>2 DEF Changed
  <2>4. id'[s] # None => s \in fetching'
    BY <1>1, <2>1, <2>2 DEF Mounted
  <2> QED BY <2>3, <2>4 DEF CopyTrue
<1>4. \A m2 \in Known', p \in Parts : merchants'[m2].parts[p] <= 1
  BY DEF Settled, Known
<1>5. \A o2 \in Openings : \A m1, m2 \in edited'[o2] : m1 = m2
  BY DEF Settled
<1> QED BY <1>2, <1>3, <1>4, <1>5 DEF Settled

LEMMA OpenSettled ==
  ASSUME TypeInv, Facing, Settled, upset' = {}, NEW t \in Tabs, NEW m \in {None} \cup Known,
         Open(t, m)
  PROVE  Settled'
<1>1. Pending(t) = {} /\ \A s \in Tabs : s # t => ~(step[s] > 0)
  BY DEF Open, Rushing, Sharing
<1>2. \A s \in Tabs : s # t => step[s] = 0
  BY <1>1 DEF TypeInv, PagesOK
<1>3. calls = {}
  BY <1>1, <1>2, IdleFact, NoCall
<1>4. Mount(t, 1, m, opened + 1, {}) /\ stored' = m /\ UNCHANGED <<merchants, edited>>
  BY <1>3 DEF Open
<1>5. edited[opened + 1] = {}
  <2>1. opened + 1 \in Openings /\ opened + 1 > opened
    BY FormAssumption DEF TypeInv, TablesOK, Open, Openings
  <2> QED BY <2>1 DEF TypeInv, TablesOK
<1>6. 1 \in 0..4
  OBVIOUS
<1> QED BY <1>2, <1>4, <1>5, <1>6, MountSettled

(* What the open form has changed when nothing is under way.                  *)
LEMMA ChangedIdle ==
  ASSUME Settled, NEW t \in Tabs, step[t] > 0, calls = {}
  PROVE  LET e == edited[opening[t]] IN
         /\ (e = {} /\ step[t] = 1) \/ (stored # None /\ e = {stored})
         /\ stored \in e => merchants[stored].status = "Draft"
BY DEF Settled, Changed

LEMMA ReloadSettled ==
  ASSUME TypeInv, Facing, Settled, upset' = {}, NEW t \in Tabs, Reload(t)
  PROVE  Settled'
<1>1. Pending(t) = {} /\ step[t] > 0 /\ \A s \in Tabs : s # t => ~(step[s] > 0)
  BY DEF Reload, Sharing
<1>2. \A s \in Tabs : s # t => step[s] = 0
  BY <1>1 DEF TypeInv, PagesOK
<1>3. calls = {}
  BY <1>1, <1>2, IdleFact, NoCall
<1>4. Mount(t, 1, stored, opening[t], {}) /\ UNCHANGED <<stored, merchants, edited>>
  BY <1>3 DEF Reload
<1>5. 1 \in 0..4
  OBVIOUS
<1> QED BY <1>1, <1>2, <1>3, <1>4, <1>5, ChangedIdle, MountSettled

LEMMA BackSettled ==
  ASSUME TypeInv, Facing, Settled, upset' = {}, NEW t \in Tabs, Back(t)
  PROVE  Settled'
<1> DEFINE n == step[t] - 1
<1>1. Pending(t) = {} /\ step[t] > 0 /\ step[t] \in Nat
  BY DEF Back, Rushing, TypeInv, PagesOK
<1>2. \A s \in Tabs : s # t => step[s] = 0
  BY <1>1 DEF TypeInv, PagesOK, Facing, OneOpen
<1>3. calls = {}
  BY <1>1, <1>2, IdleFact, NoCall
<1>4. Mount(t, n, stored, opening[t], {}) /\ UNCHANGED <<stored, merchants, edited>>
  BY <1>3 DEF Back
<1>5. step[t] \in 1..4
  BY <1>1 DEF Facing, Reached
<1>6. n \in 0..4 /\ (n > 0 => step[t] # 1)
  BY <1>5
<1> HIDE DEF n
<1> QED BY <1>1, <1>2, <1>3, <1>4, <1>6, ChangedIdle, MountSettled

LEMMA LeaveSettled ==
  ASSUME TypeInv, Facing, Settled, upset' = {}, NEW t \in Tabs, Leave(t)
  PROVE  Settled'
<1>1. Pending(t) = {} /\ step[t] > 0
  <2>1. step[t] \in Nat
    BY DEF TypeInv, PagesOK
  <2> QED BY <2>1 DEF Leave, Rushing
<1>2. \A s \in Tabs : s # t => step[s] = 0
  BY <1>1 DEF TypeInv, PagesOK, Facing, OneOpen
<1>3. calls = {}
  BY <1>1, <1>2, IdleFact, NoCall
<1>4. Mount(t, 0, None, 0, {}) /\ UNCHANGED <<merchants, edited>>
  BY <1>3 DEF Leave
<1>5. 0 \in 0..4 /\ ~(0 > 0)
  OBVIOUS
<1> QED BY <1>2, <1>4, <1>5, MountSettled

LEMMA SubmittedSettled ==
  ASSUME TypeInv, Facing, Settled, NEW c \in calls, Submitted(c)
  PROVE  Settled'
<1>1. calls \ {c} = {} /\ c.at # "gone"
  BY OneCall
<1>2. c.tab \in Tabs /\ \A s \in Tabs : s # c.tab => step[s] = 0
  BY <1>1, HereFact
<1>3. Mount(c.tab, 0, None, 0, {}) /\ UNCHANGED <<merchants, edited>>
  BY <1>1 DEF Submitted
<1>4. 0 \in 0..4 /\ ~(0 > 0)
  OBVIOUS
<1> QED BY <1>2, <1>3, <1>4, MountSettled

LEMMA ProceedsSettled ==
  ASSUME TypeInv, Facing, Settled, NEW c \in calls, Proceeds(c)
  PROVE  Settled'
<1>1. calls = {c} /\ c.at # "gone" /\ CallTrue(c)
  BY OneCall
<1>2. c.form \in 1..3 /\ c.done /\ stored' = Stores(c) /\ UNCHANGED <<merchants, edited>>
  BY DEF Proceeds
<1>3. /\ c.at = "here" /\ c.tab \in Tabs /\ CallOK(c) /\ step[c.tab] = c.form
      /\ opening[c.tab] = c.opening /\ id[c.tab] = stored /\ step[c.tab] > 0
      /\ (c.form = 1 /\ c.new) \/ c.merchant = stored
      /\ \A s \in Tabs : s # c.tab => step[s] = 0
  BY <1>1, <1>2, HereFact
<1> DEFINE n == step[c.tab] + 1
<1>4. Mount(c.tab, n, stored', c.opening, {})
  <2>1. calls \ {c} = {}
    BY <1>1
  <2> QED BY <1>2, <1>3, <2>1 DEF Proceeds, Showing
<1>5. n \in 0..4
  BY <1>2, <1>3
<1>6. stored' = c.merchant /\ stored' # None
  <2>1. c.merchant \in Known /\ stored' = c.merchant
    BY <1>2, <1>3 DEF CallOK, Stores
  <2> QED BY <2>1, KnownFact DEF TypeInv
<1>7. edited[c.opening] = {stored'} /\ merchants[stored'].status = "Draft"
  <2>1. CASE c.form = 1
    BY <1>1, <1>2, <1>6, <2>1 DEF CallTrue
  <2>2. CASE c.form # 1
    <3>1. stored' = stored /\ Changed(c.tab) /\ step[c.tab] # 1
      BY <1>3, <1>6, <2>2 DEF Settled
    <3>2. \A e \in calls : e.form # 1 /\ e.form # 5
      BY <1>1, <1>2, <2>2
    <3> QED BY <1>3, <3>1, <3>2 DEF Changed
  <2> QED BY <2>1, <2>2
<1> HIDE DEF n
<1> QED BY <1>2, <1>3, <1>4, <1>5, <1>6, <1>7, MountSettled

LEMMA SentSettled ==
  ASSUME Settled, calls = {}, NEW d, calls' = {d}, CallTrue(d)', d.done = FALSE,
         UNCHANGED <<merchants, stored, page, cache, edited>>
  PROVE  Settled'
<1>1. ASSUME NEW t \in Tabs, step'[t] > 0 PROVE Changed(t)' /\ CopyTrue(t)'
  <2>1. /\ step' = step /\ opening' = opening /\ id' = id /\ fetching' = fetching
        /\ cache' = cache /\ edited' = edited /\ stored' = stored /\ merchants' = merchants
    BY DEF page
  <2>2. Changed(t) /\ CopyTrue(t)
    BY <1>1, <2>1 DEF Settled
  <2>3. Changed(t)'
    BY <2>1, <2>2 DEF Changed
  <2>4. CopyTrue(t)'
    BY <2>1, <2>2 DEF CopyTrue, CopyOf
  <2> QED BY <2>3, <2>4
<1>2. \A m \in Known', p \in Parts : merchants'[m].parts[p] <= 1
  BY DEF Settled, Known
<1>3. \A o \in Openings : \A m, n \in edited'[o] : m = n
  BY DEF Settled
<1> QED BY <1>1, <1>2, <1>3 DEF Settled

LEMMA SaveSettled ==
  ASSUME TypeInv, Facing, Settled, upset' = {}, NEW t \in Tabs, Save(t)
  PROVE  Settled'
<1> DEFINE m == IF step[t] = 1 /\ ~IsThere(t) THEN None ELSE id[t]
<1>0. PICK d : d = Request(t, step[t], ~IsThere(t), m)
  OBVIOUS
<1>1. /\ step[t] \in 1..4 /\ (step[t] > 1 => id[t] # None) /\ t \notin fetching
      /\ \A c \in calls : c.tab = t => c.at # "here"
      /\ UNCHANGED <<merchants, stored, page, cache, edited>>
  BY DEF Save, Send, Pending
<1>2. \A s \in Tabs : s # t => step[s] = 0
  BY <1>1 DEF TypeInv, PagesOK, Facing, OneOpen
<1>3. calls = {}
  BY <1>1, <1>2, NoCall
<1>4. calls' = {d}
  BY <1>0, <1>3 DEF Save, Send
<1>5. /\ d.tab = t /\ d.opening = opening[t] /\ d.form = step[t] /\ d.new = ~IsThere(t)
      /\ d.merchant = m /\ d.at = "here" /\ d.done = FALSE
  BY <1>0 DEF Request
<1>6. /\ edited[opening[t]] = {} \/ (stored # None /\ edited[opening[t]] = {stored})
      /\ CopyTrue(t) /\ Reached(t)
  BY <1>1, <1>3, ChangedIdle DEF Settled, Facing
<1>7. id[t] # None => id[t] \in Known
  BY DEF TypeInv, PagesOK
<1>8. IsThere(t) \in BOOLEAN /\ (IsThere(t) => id[t] # None)
  BY ThereFact, KnownFact DEF TypeInv
<1>9. CASE step[t] = 1
  <2>1. IsThere(t) => cache[t][id[t]].editable
    BY <1>8, <1>9 DEF IsThere, Draft
  <2>2. ~IsThere(t) => edited[opening[t]] = {}
    <3> SUFFICES ASSUME ~IsThere(t), stored # None, edited[opening[t]] = {stored} PROVE FALSE
      BY <1>6
    <3>1. id[t] = stored
      BY <1>6, <1>9 DEF Reached
    <3>2. cache[t][id[t]].editable
      BY <1>1, <1>6, <1>9, <3>1 DEF CopyTrue
    <3>3. IsThere(t) = Draft(t).editable /\ Draft(t) = cache[t][id[t]]
      BY <1>9, <3>1 DEF IsThere, Draft
    <3> QED BY <3>2, <3>3
  <2>3. d.form = 1 /\ d.form \notin Parts
    BY <1>5, <1>9 DEF Parts
  <2>4. ~d.new => d.merchant = id[t]
    BY <1>5
  <2>5. ~d.new => IsThere(t)
    BY <1>5, <1>8
  <2>6. d.new => ~IsThere(t)
    BY <1>5
  <2> HIDE DEF m
  <2>7. CallTrue(d)'
    BY <1>1, <1>5, <2>1, <2>2, <2>3, <2>4, <2>5, <2>6 DEF CallTrue, page
  <2> QED BY <1>1, <1>3, <1>4, <1>5, <2>7, SentSettled
<1>10. CASE step[t] # 1
  <2>1. id[t] \in Known /\ id[t] # None /\ step[t] \in Parts /\ id[t] \in Ids
    BY <1>1, <1>7, <1>10, KnownFact DEF Parts, TypeInv
  <2>2. d.merchant = id[t] /\ d.form # 1
    BY <1>5, <1>10
  <2>3. cache[t][id[t]].parts = CopyOf(id[t]).parts
    BY <1>1, <1>3, <1>6, <2>1 DEF CopyTrue
  <2>4. d.new => merchants[id[t]].parts[step[t]] = 0
    <3> SUFFICES ASSUME ~IsThere(t) PROVE merchants[id[t]].parts[step[t]] = 0
      BY <1>5
    <3>1. step[t] \notin cache[t][id[t]].parts
      BY <1>10, <2>1 DEF IsThere, Draft
    <3>2. ~(merchants[id[t]].parts[step[t]] > 0)
      BY <2>1, <2>3, <3>1 DEF CopyOf
    <3>3. merchants[id[t]].parts[step[t]] \in Nat
      BY <2>1, KnownFact, FormAssumption DEF TypeInv, Merchant
    <3> QED BY <3>2, <3>3
  <2> HIDE DEF m
  <2>5. CallTrue(d)'
    BY <1>1, <1>5, <2>2, <2>4 DEF CallTrue
  <2> QED BY <1>1, <1>3, <1>4, <1>5, <2>5, SentSettled
<1> QED BY <1>9, <1>10

LEMMA SubmitSettled ==
  ASSUME TypeInv, Facing, Settled, NEW t \in Tabs, Submit(t)
  PROVE  Settled'
<1>0. PICK d : d = Request(t, 5, FALSE, id[t])
  OBVIOUS
<1>1. /\ review[t] /\ \A c \in calls : c.tab = t => c.at # "here"
      /\ UNCHANGED <<merchants, stored, page, cache, edited>>
  BY DEF Submit, Send, Pending, history
<1>2. \A s \in Tabs : s # t => step[s] = 0
  BY <1>1 DEF TypeInv, PagesOK, TabOK, Facing, OneOpen
<1>3. calls = {}
  BY <1>1, <1>2, NoCall
<1>4. calls' = {d}
  BY <1>0, <1>3 DEF Submit, Send
<1>5. d.form = 5 /\ d.at = "here" /\ d.done = FALSE
  BY <1>0 DEF Request
<1>6. CallTrue(d)'
  BY <1>5 DEF CallTrue, Parts
<1> QED BY <1>1, <1>3, <1>4, <1>5, <1>6, SentSettled

(* Nothing changes but which answers are under way, and what is waited for.    *)
LEMMA LessSettled ==
  ASSUME Settled, calls' \subseteq calls, fetching \subseteq fetching', fetching' \subseteq Tabs,
         UNCHANGED <<merchants, stored, step, opening, id, cache, edited>>,
         \A c \in calls \ calls' :
           ~c.done \/ (c.form = 4 /\ \A t \in Tabs : step[t] > 0 /\ id[t] # None => t \in fetching'),
         \A c \in calls' : fetching' = fetching
  PROVE  Settled'
<1>1. ASSUME NEW t \in Tabs, step'[t] > 0 PROVE Changed(t)' /\ CopyTrue(t)'
  <2>1. Changed(t) /\ CopyTrue(t)
    BY <1>1 DEF Settled
  <2>2. \A c \in calls : c.done /\ (c.form = 1 \/ c.form = 5) => c \in calls'
    OBVIOUS
  <2>3. Changed(t)'
    BY <2>1, <2>2 DEF Changed
  <2>4. CopyTrue(t)'
    <3> SUFFICES ASSUME id'[t] # None, t \notin fetching' PROVE CopyTrue(t)'
      BY DEF CopyTrue
    <3>1. \A c \in calls : c.done => c \in calls'
      BY <1>1
    <3>2. CopyOf(id[t])' = CopyOf(id[t])
      BY DEF CopyOf
    <3> QED BY <2>1, <3>1, <3>2 DEF CopyTrue
  <2> QED BY <2>3, <2>4
<1>2. ASSUME NEW c \in calls' PROVE CallTrue(c)'
  BY <1>2 DEF Settled, CallTrue
<1>3. \A m \in Known', p \in Parts : merchants'[m].parts[p] <= 1
  BY DEF Settled, Known
<1>4. \A o \in Openings : \A m, n \in edited'[o] : m = n
  BY DEF Settled
<1> QED BY <1>1, <1>2, <1>3, <1>4 DEF Settled

LEMMA ReviewsSettled ==
  ASSUME TypeInv, Facing, Settled, NEW c \in calls, Reviews(c)
  PROVE  Settled'
<1>1. calls = {c} /\ c.at # "gone"
  BY OneCall
<1>2. /\ c.form = 4 /\ calls' = {} /\ UNCHANGED <<merchants, stored, step, opening, id, cache, edited>>
      /\ fetching' = IF id[c.tab] = None THEN fetching ELSE fetching \cup {c.tab}
  BY <1>1 DEF Reviews, history
<1>3. c.tab \in Tabs /\ \A s \in Tabs : s # c.tab => step[s] = 0
  BY <1>1, HereFact
<1>4. fetching \subseteq Tabs
  BY DEF TypeInv, PagesOK
<1>5. \A t \in Tabs : step[t] > 0 /\ id[t] # None => t \in fetching'
  BY <1>2, <1>3
<1>6. fetching \subseteq fetching' /\ fetching' \subseteq Tabs
  BY <1>2, <1>3, <1>4
<1> QED BY <1>1, <1>2, <1>5, <1>6, LessSettled

LEMMA FailsSettled ==
  ASSUME TypeInv, Settled, upset' = {}, NEW c \in calls, Fails(c)
  PROVE  Settled'
<1>1. /\ ~c.done /\ calls' = calls \ {c}
      /\ UNCHANGED <<merchants, stored, step, opening, id, fetching, cache, edited>>
  BY DEF Fails, page
<1>2. fetching \subseteq Tabs
  BY DEF TypeInv, PagesOK
<1> QED BY <1>1, <1>2, LessSettled

LEMMA CloseSettled ==
  ASSUME TypeInv, Settled, NEW t \in Tabs, Close(t)
  PROVE  Settled'
<1>1. UNCHANGED <<merchants, stored, step, opening, id, fetching, cache, calls, edited>>
  BY DEF Close, history
<1>2. fetching \subseteq Tabs
  BY DEF TypeInv, PagesOK
<1> QED BY <1>1, <1>2, LessSettled

LEMMA FetchedSettled ==
  ASSUME TypeInv, Facing, Settled, NEW t \in Tabs, Fetched(t)
  PROVE  Settled'
<1>1. /\ t \in fetching /\ fetching' = fetching \ {t}
      /\ UNCHANGED <<merchants, stored, step, opening, id, calls, edited>>
  BY DEF Fetched, history
<1>2. id[t] \in Known /\ id[t] \in Ids
  BY <1>1, KnownFact DEF TypeInv, PagesOK
<1>3. /\ cache'[t][id[t]] = CopyOf(id[t])
      /\ \A s \in Tabs : s # t => cache'[s] = cache[s]
  BY <1>2 DEF Fetched, TypeInv, PagesOK
<1>4. ASSUME NEW s \in Tabs, step'[s] > 0 PROVE Changed(s)' /\ CopyTrue(s)'
  <2>1. Changed(s) /\ CopyTrue(s)
    BY <1>1, <1>4 DEF Settled
  <2>2. Changed(s)'
    BY <1>1, <2>1 DEF Changed
  <2>3. CASE s # t
    <3>1. CopyOf(id[s])' = CopyOf(id[s]) /\ (s \in fetching' <=> s \in fetching)
      BY <1>1, <2>3 DEF CopyOf
    <3>2. cache'[s] = cache[s]
      BY <1>3, <2>3
    <3>3. /\ id'[s] = id[s] /\ step'[s] = step[s] /\ edited'[opening'[s]] = edited[opening[s]]
          /\ calls' = calls /\ CopyOf(id[s])'.parts = CopyOf(id[s]).parts
          /\ cache'[s][id'[s]] = cache[s][id[s]]
      BY <1>1, <3>1, <3>2
    <3> QED BY <2>1, <2>2, <3>1, <3>3 DEF CopyTrue
  <2>4. CASE s = t
    <3>1. CopyOf(id[t])' = CopyOf(id[t])
      BY <1>1 DEF CopyOf
    <3>2. ASSUME step[t] = 1, id[t] \in edited[opening[t]] PROVE CopyOf(id[t]).editable
      <4>1. id[t] = stored
        BY <1>1, <1>4, <2>4 DEF Facing, Reached
      <4>2. ASSUME NEW c \in calls, c.form = 5 PROVE FALSE
        <5>1. c.at # "gone"
          BY OneCall
        <5>2. c.tab \in Tabs /\ step[c.tab] = 4 /\ \A x \in Tabs : x # c.tab => step[x] = 0
          BY <4>2, <5>1, HereFact
        <5> QED BY <3>2, <5>2
      <4>3. merchants[id[t]].status = "Draft"
        BY <2>1, <2>4, <3>2, <4>1, <4>2 DEF Changed
      <4> QED BY <4>3 DEF CopyOf, Editable
    <3>3. /\ id'[t] = id[t] /\ step'[t] = step[t] /\ edited'[opening'[t]] = edited[opening[t]]
          /\ CopyOf(id[t])'.parts = CopyOf(id[t]).parts /\ cache'[t][id'[t]] = CopyOf(id[t])
      BY <1>1, <1>3, <3>1
    <3> QED BY <2>2, <2>4, <3>2, <3>3 DEF CopyTrue
  <2> QED BY <2>2, <2>3, <2>4
<1>5. ASSUME NEW c \in calls' PROVE CallTrue(c)'
  <2>1. CallTrue(c)
    BY <1>1 DEF Settled
  <2>2. c.tab \in Tabs
    BY <1>1, CallFact DEF TypeInv, CallsOK, CallOK
  <2>3. c.form = 1 /\ ~c.new => c.tab # t /\ c.tab \notin fetching' /\ cache'[c.tab] = cache[c.tab]
    BY <1>1, <1>3, <2>1, <2>2 DEF CallTrue
  <2> QED BY <1>1, <2>1, <2>3 DEF CallTrue
<1>6. \A m \in Known', p \in Parts : merchants'[m].parts[p] <= 1
  BY <1>1 DEF Settled, Known
<1>7. \A o \in Openings : \A m, n \in edited'[o] : m = n
  BY <1>1 DEF Settled
<1> QED BY <1>4, <1>5, <1>6, <1>7 DEF Settled

(* The backend has done what the one call asks for.                           *)
LEMMA DoneSettled ==
  ASSUME TypeInv, Facing, Settled, NEW c \in calls, ~c.done, NEW m \in Ids, Does(c, m),
         edited[c.opening] \subseteq {m}, c.new \/ m = c.merchant,
         (c.form = 1 /\ c.new) \/ (stored # None /\ m = stored),
         stored = m => merchants'[m].status = "Draft" \/ c.form = 5,
         c.form = 1 => merchants'[m].status = "Draft",
         id[c.tab] = m /\ step[c.tab] = 1 => c.form = 1 /\ ~c.new,
         id[c.tab] # None => CopyOf(id[c.tab])'.parts = CopyOf(id[c.tab]).parts \/ c.form \in Parts,
         \A k \in Known', p \in Parts : merchants'[k].parts[p] <= 1
  PROVE  Settled'
<1>1. calls = {c} /\ c.at # "gone" /\ CallTrue(c)
  BY OneCall
<1>2. /\ c \in Call /\ c.tab \in Tabs /\ opening[c.tab] = c.opening /\ step[c.tab] > 0
      /\ \A s \in Tabs : s # c.tab => step[s] = 0
      /\ (c.form = 1 /\ c.new) \/ c.merchant = stored
  BY <1>1, HereFact
<1>3. PICK d : d = DoneCall(c, m)
  OBVIOUS
<1>4. /\ d \in Call /\ d.tab = c.tab /\ d.opening = c.opening /\ d.form = c.form
      /\ d.new = c.new /\ d.at = c.at /\ d.done = TRUE /\ d.merchant = m
  BY <1>2, <1>3, DoneFact
<1>5. calls' = {d}
  BY <1>1, <1>3 DEF Does, DoneCall
<1>6. /\ stored' = stored /\ step' = step /\ opening' = opening /\ id' = id
      /\ fetching' = fetching /\ cache' = cache
  BY DEF Does, page
<1>7. /\ edited'[c.opening] = {m} /\ c.opening \in Openings
      /\ \A o \in Openings : o # c.opening => edited'[o] = edited[o]
  <2>1. c.opening \in Openings
    BY <1>2, CallFact
  <2>2. /\ edited'[c.opening] = edited[c.opening] \cup {m}
        /\ \A o \in Openings : o # c.opening => edited'[o] = edited[o]
    BY <2>1 DEF Does, TypeInv, TablesOK
  <2> QED BY <2>1, <2>2
<1>8. ASSUME NEW t \in Tabs, step'[t] > 0 PROVE Changed(t)' /\ CopyTrue(t)'
  <2>1. t = c.tab /\ opening'[t] = c.opening /\ edited'[opening'[t]] = {m}
    BY <1>2, <1>6, <1>7, <1>8
  <2>2. Changed(t)'
    <3>1. \/ \E e \in calls' : e.form = 1 /\ e.new /\ e.done
          \/ stored' # None /\ edited'[opening'[t]] = {stored'}
      BY <1>4, <1>5, <1>6, <2>1
    <3>2. stored' \in edited'[opening'[t]] =>
            merchants'[stored'].status = "Draft" \/ \E e \in calls' : e.form = 5 /\ e.done
      BY <1>4, <1>5, <1>6, <2>1
    <3> QED BY <3>1, <3>2 DEF Changed
  <2>3. CopyTrue(t)'
    <3> SUFFICES ASSUME id[t] # None, t \notin fetching PROVE CopyTrue(t)'
      BY <1>6 DEF CopyTrue
    <3>1. CopyTrue(t)
      BY <1>6, <1>8 DEF Settled
    <3>2. step[t] = 1 /\ id[t] = m => cache[t][id[t]].editable
      BY <1>1, <2>1 DEF CallTrue
    <3>3. \/ cache[t][id[t]].parts = CopyOf(id[t])'.parts
          \/ \E e \in calls' : e.form \in Parts /\ e.done
      <4>1. CASE c.form \in Parts
        BY <1>4, <1>5, <4>1
      <4>2. CASE c.form \notin Parts
        <5>1. cache[t][id[t]].parts = CopyOf(id[t]).parts
          BY <1>1, <3>1, <4>2 DEF CopyTrue
        <5> QED BY <2>1, <4>2, <5>1
      <4> QED BY <4>1, <4>2
    <3> QED BY <1>6, <2>1, <3>2, <3>3 DEF CopyTrue
  <2> QED BY <2>2, <2>3
<1>9. CallTrue(d)'
  BY <1>1, <1>4, <1>6, <1>7 DEF CallTrue
<1>10. \A o \in Openings : \A k, n \in edited'[o] : k = n
  BY <1>7 DEF Settled
<1> QED BY <1>5, <1>8, <1>9, <1>10 DEF Settled

LEMMA CreateSettled ==
  ASSUME TypeInv, Facing, Settled, NEW c \in calls, Create(c)
  PROVE  Settled'
<1>1. PICK m \in Ids \ Known :
        /\ Known' = Known \cup {m} /\ merchants'[m] = Fresh /\ Does(c, m)
        /\ \A k \in Known : merchants'[k] = merchants[k]
  BY CreateFact
<1>2. ~c.done /\ c.form = 1 /\ c.new
  BY DEF Create
<1>3. calls = {c} /\ c.at # "gone" /\ CallTrue(c)
  BY OneCall
<1>4. c.tab \in Tabs
  BY <1>3, HereFact
<1>5. edited[c.opening] = {}
  BY <1>2, <1>3 DEF CallTrue
<1>6. m # None /\ stored # m /\ id[c.tab] # m /\ (id[c.tab] # None => id[c.tab] \in Known)
  BY <1>1, <1>4 DEF TypeInv, TablesOK, PagesOK, Ids, None
<1>7. id[c.tab] # None => CopyOf(id[c.tab])'.parts = CopyOf(id[c.tab]).parts
  <2> SUFFICES ASSUME id[c.tab] # None PROVE CopyOf(id[c.tab])'.parts = CopyOf(id[c.tab]).parts
    OBVIOUS
  <2>1. id' = id /\ merchants'[id[c.tab]] = merchants[id[c.tab]]
    BY <1>1, <1>6 DEF Does, page
  <2> QED BY <2>1 DEF CopyOf
<1>8. merchants'[m].status = "Draft" /\ \A p \in Parts : merchants'[m].parts[p] = 0
  BY <1>1 DEF Fresh
<1>9. \A k \in Known', p \in Parts : merchants'[k].parts[p] <= 1
  BY <1>1, <1>8 DEF Settled
<1> QED BY <1>1, <1>2, <1>5, <1>6, <1>7, <1>8, <1>9, DoneSettled

LEMMA ServesSettled ==
  ASSUME TypeInv, Facing, Settled, NEW c \in calls, Serves(c)
  PROVE  Settled'
<1> DEFINE m == c.merchant
<1>1. m \in Known /\ m \in Ids /\ m # None /\ ServedTo(m, c)
  BY ServeFact, KnownFact DEF TypeInv
<1>2. /\ ~c.done /\ Does(c, m) /\ Rewrites(m, merchants'[m])
      /\ c.form \in 1..5 /\ ~(c.form = 1 /\ c.new)
  BY <1>1, CallFact DEF ServedTo, TypeInv, CallsOK, CallOK, Parts
<1>3. calls = {c} /\ c.at # "gone" /\ CallTrue(c)
  BY OneCall
<1>4. /\ c.tab \in Tabs /\ opening[c.tab] = c.opening /\ step[c.tab] > 0 /\ m = stored
      /\ step[c.tab] = (IF c.form = 5 THEN 4 ELSE c.form) /\ id[c.tab] = m
  BY <1>2, <1>3, HereFact
<1>5. Changed(c.tab)
  BY <1>4 DEF Settled
<1>6. edited[c.opening] \subseteq {m}
  BY <1>2, <1>3, <1>4, <1>5 DEF Changed
<1>7. c.form # 1 => m \in edited[c.opening]
  <2> SUFFICES ASSUME c.form # 1 PROVE m \in edited[c.opening]
    OBVIOUS
  <2>1. step[c.tab] # 1
    BY <1>2, <1>4
  <2> QED BY <1>2, <1>3, <1>4, <1>5, <2>1 DEF Changed
<1>8. merchants'[m].status = "Draft" \/ c.form = 5
  <2>1. CASE c.form = 1 \/ c.form = 5
    BY <1>1, <2>1 DEF ServedTo, Parts
  <2>2. CASE c.form # 1 /\ c.form # 5
    <3>1. merchants[m].status = "Draft"
      BY <1>2, <1>3, <1>4, <1>5, <1>7, <2>2 DEF Changed
    <3>2. merchants'[m].status = merchants[m].status
      BY <1>1, <2>2 DEF ServedTo
    <3> QED BY <3>1, <3>2
  <2> QED BY <2>1, <2>2
<1>9. CopyOf(m)'.parts = CopyOf(m).parts \/ c.form \in Parts
  <2>1. m' = m /\ id' = id
    BY <1>2 DEF Does, page
  <2>2. c.form \notin Parts => merchants'[m].parts = merchants[m].parts
    BY <1>1 DEF ServedTo
  <2> QED BY <2>2 DEF CopyOf
<1>10. ASSUME NEW k \in Known', NEW p \in Parts PROVE merchants'[k].parts[p] <= 1
  <2>1. k \in Known /\ merchants[k].parts[p] <= 1
    BY <1>2, <1>10 DEF Rewrites, Settled
  <2>2. CASE k # m
    BY <1>2, <2>1, <2>2 DEF Rewrites
  <2>3. CASE k = m
    <3>1. CASE c.form = p /\ c.new
      <4>1. merchants[m].parts[p] = 0
        BY <1>2, <1>3, <3>1 DEF CallTrue
      <4>2. merchants'[m].parts[p] = merchants[m].parts[p] + 1
        BY <1>1, <1>2, <3>1 DEF ServedTo, Parts
      <4> QED BY <2>3, <4>1, <4>2
    <3>2. CASE ~(c.form = p /\ c.new)
      <4>1. merchants'[m].parts[p] = merchants[m].parts[p]
        BY <1>1, <3>2 DEF ServedTo
      <4> QED BY <2>1, <2>3, <4>1
    <3> QED BY <3>1, <3>2
  <2> QED BY <2>2, <2>3
<1>11. id[c.tab] = m /\ step[c.tab] = 1 => c.form = 1 /\ ~c.new
  BY <1>2, <1>4
<1>12. id[c.tab] # None => CopyOf(id[c.tab])'.parts = CopyOf(id[c.tab]).parts \/ c.form \in Parts
  <2>1. id' = id
    BY <1>2 DEF Does, page
  <2> QED BY <1>4, <1>9, <2>1 DEF CopyOf
<1> QED BY <1>1, <1>2, <1>4, <1>6, <1>8, <1>10, <1>11, <1>12, DoneSettled

LEMMA RevertSettled ==
  ASSUME TypeInv, Settled, NEW m \in Known, Revert(m)
  PROVE  Settled'
<1>1. /\ Rewrites(m, merchants'[m]) /\ merchants[m].status = "Review"
      /\ merchants'[m].parts = merchants[m].parts
      /\ UNCHANGED <<stored, step, opening, id, fetching, cache, calls, edited>>
  BY StatusFact DEF Revert, page, history
<1>2. /\ Known' = Known /\ \A k \in Known : merchants'[k].parts = merchants[k].parts
      /\ \A k \in Known : merchants[k].status = "Draft" => merchants'[k].status = "Draft"
  BY <1>1 DEF Rewrites
<1>3. ASSUME NEW t \in Tabs, step'[t] > 0 PROVE Changed(t)' /\ CopyTrue(t)'
  <2>1. Changed(t) /\ CopyTrue(t)
    BY <1>1, <1>3 DEF Settled
  <2>2. stored \in edited[opening[t]] => stored \in Known
    <3>1. stored # None => stored \in Known
      BY DEF TypeInv, TablesOK
    <3>2. opening[t] \in Openings
      BY <1>1, <1>3, FormAssumption DEF TypeInv, PagesOK, TabOK, Openings
    <3> QED BY <3>1, <3>2 DEF TypeInv, TablesOK
  <2>3. Changed(t)'
    BY <1>1, <1>2, <2>1, <2>2 DEF Changed
  <2>4. id[t] # None => CopyOf(id[t])'.parts = CopyOf(id[t]).parts
    BY <1>1, <1>2 DEF CopyOf, TypeInv, PagesOK
  <2>5. CopyTrue(t)'
    BY <1>1, <2>1, <2>4 DEF CopyTrue
  <2> QED BY <2>3, <2>5
<1>4. ASSUME NEW c \in calls' PROVE CallTrue(c)'
  <2>1. CallTrue(c) /\ CallOK(c)
    BY <1>1 DEF Settled, TypeInv, CallsOK
  <2>2. c.form \in Parts => c.merchant \in Known
    BY <2>1 DEF CallOK, Parts
  <2>3. c.form = 1 /\ c.done => c.merchant \in Known
    BY <2>1 DEF CallOK
  <2> QED BY <1>1, <1>2, <2>1, <2>2, <2>3 DEF CallTrue
<1>5. \A k \in Known', p \in Parts : merchants'[k].parts[p] <= 1
  BY <1>2 DEF Settled
<1>6. \A o \in Openings : \A k, n \in edited'[o] : k = n
  BY <1>1 DEF Settled
<1> QED BY <1>3, <1>4, <1>5, <1>6 DEF Settled

LEMMA SettledStep ==
  TypeInv /\ PartsInv /\ CompleteInv /\ SettledInv /\ [Next]_vars => SettledInv'
<1> SUFFICES ASSUME TypeInv, CompleteInv, SettledInv, [Next]_vars, upset' = {} PROVE Settled'
  BY DEF SettledInv
<1>1. upset = {} /\ Calm
  BY UpsetGrows DEF Calm
<1>2. Facing /\ Settled
  BY <1>1 DEF CompleteInv, SettledInv, Orderly
<1>3. ASSUME NEW t \in Tabs, User(t) PROVE Settled'
  <2>1. ASSUME AddNew(t) \/ Proceed(t) PROVE Settled'
    BY <1>2, <2>1, OpenSettled DEF AddNew, Proceed
  <2> QED BY <1>2, <1>3, <2>1, ReloadSettled, BackSettled, LeaveSettled, SaveSettled,
             SubmitSettled, CloseSettled, FetchedSettled DEF User
<1>4. ASSUME NEW c \in calls, Serve(c) PROVE Settled'
  BY <1>2, <1>4, CreateSettled, ServesSettled DEF Serve, Serves
<1>5. ASSUME NEW c \in calls, Receive(c) PROVE Settled'
  BY <1>2, <1>5, ProceedsSettled, ReviewsSettled, SubmittedSettled, FailsSettled DEF Receive
<1>6. ASSUME NEW m \in Known, Revert(m) PROVE Settled'
  BY <1>2, <1>6, RevertSettled
<1>7. CASE UNCHANGED vars
  <2>1. fetching \subseteq Tabs
    BY DEF TypeInv, PagesOK
  <2> QED BY <1>2, <1>7, <2>1, LessSettled DEF vars, page, history
<1> QED BY <1>3, <1>4, <1>5, <1>6, <1>7 DEF Next

LEMMA InvInit == Init => Inv
<1> SUFFICES ASSUME Init PROVE Inv
  OBVIOUS
<1>1. TypeInv
  BY TypeInit
<1>2. PartsInv
  BY DEF Init, PartsInv, NoCopy
<1>3. Orderly
  BY DEF Init, Orderly, Facing, OneOpen, Reached, Known
<1>4. Settled
  BY DEF Init, Settled, Known
<1> QED BY <1>1, <1>2, <1>3, <1>4 DEF Inv, CompleteInv, SettledInv

LEMMA InvAlways == Spec => []Inv
<1>1. Inv /\ [Next]_vars => Inv'
  BY TypeStep, PartsStep, CompleteStep, SettledStep DEF Inv
<1> QED BY <1>1, InvInit, PTL DEF Spec

-----------------------------------------------------------------------------
(* The state of backend, browser and tabs has its types; of the requests of a  *)
(* tab at most one is that of the form it shows.                            *)
THEOREM TypesAlwaysHold == Spec => []TypeOK
<1>1. Inv => TypeOK
  BY TypeFact DEF Inv
<1> QED BY <1>1, InvAlways, PTL

(* No merchant comes to review without a location, an owner and a contact     *)
(* person, whatever fails, is reloaded or reopened, unless a form is left     *)
(* while it is sending, or two tabs have the form open (CompleteInv).         *)
THEOREM SubmittedAlwaysComplete == Spec => []SubmittedIsComplete
<1>1. Inv => SubmittedIsComplete
  <2> SUFFICES ASSUME TypeInv, CompleteInv, Calm, NEW m \in Known,
                      merchants[m].status = "Review", NEW p \in Parts
               PROVE  merchants[m].parts[p] > 0
    BY DEF Inv, SubmittedIsComplete, Calm
  <2> QED BY DEF CompleteInv, Orderly, Has
<1> QED BY <1>1, InvAlways, PTL

(* An opening of the form changes one merchant at most, while nothing else     *)
(* happens (SettledInv).                                                     *)
THEOREM AlwaysStaysWithItsMerchant == Spec => []StaysWithItsMerchant
<1>1. Inv => StaysWithItsMerchant
  <2> SUFFICES ASSUME SettledInv, upset = {}, NEW o \in Openings
               PROVE  Cardinality(edited[o]) <= 1
    BY DEF Inv, StaysWithItsMerchant
  <2>1. \A m, n \in edited[o] : m = n
    BY DEF SettledInv, Settled
  <2>2. edited[o] = {} \/ \E m : edited[o] = {m}
    BY <2>1
  <2>3. Cardinality(edited[o]) \in {0, 1}
    BY <2>2, FS_EmptySet, FS_Singleton
  <2> QED BY <2>3
<1> QED BY <1>1, InvAlways, PTL

(* No merchant gets a second location, owner or contact person while nothing   *)
(* else happens (SettledInv).                                                *)
THEOREM NothingEverDoubled == Spec => []NothingIsDoubled
<1>1. Inv => NothingIsDoubled
  BY DEF Inv, SettledInv, Settled, NothingIsDoubled
<1> QED BY <1>1, InvAlways, PTL

-----------------------------------------------------------------------------
(* The start of the backend.  Every table holds the rows of its stage up to  *)
(* the one this start has reached, and after the stage all of them.          *)
Process ==
  /\ run \in {"down", "connect", "seed", "failed", "ready"} /\ stage \in 1..12
  /\ at \in Nat /\ (run = "seed" => at \in 1..Steps(Stages[stage]))

(* The steps of a stage that this start has done.                            *)
Done(k) ==
  IF run = "ready" \/ (run = "seed" /\ stage > k) THEN Steps(Stages[k])
  ELSE IF run = "seed" /\ stage = k THEN at - 1 ELSE 0

LEMMA ShipsFact ==
  ASSUME NEW s, Ships(s)
  PROVE  Len(s) \in Nat /\ Len(s) # 0 /\ DOMAIN s = 1..Len(s) /\ s \in Seq(Range(s))
BY DEF Ships

LEMMA UsersFact ==
  /\ Len(Users) \in Nat /\ DOMAIN Users = 1..Len(Users)
  /\ Users # <<>> => Ships(Users)
  /\ Users = <<>> => Len(Users) = 0 /\ Range(Users) = {}
<1>1. Users \in Seq(Range(Users))
  BY StartUpAssumption
<1>2. DOMAIN <<>> = {} /\ Len(<<>>) = 0
  OBVIOUS
<1> QED BY <1>1, <1>2 DEF Ships, Range

LEMMA StageFact ==
  /\ Stages[1] = "categories" /\ Stages[2] = "currencies" /\ Stages[3] = "dfsps"
  /\ Stages[4] = "permissions" /\ Stages[5] = "find" /\ Stages[6] = "roles"
  /\ Stages[7] = "backfill" /\ Stages[8] = "users" /\ Stages[9] = "state"
  /\ Stages[10] = "admin" /\ Stages[11] = "clear" /\ Stages[12] = "places"
  /\ Len(Stages) = 12
BY DEF Stages

LEMMA StepsFact ==
  /\ Steps(Stages[1]) = 1 /\ Steps(Stages[2]) = Len(Currencies) /\ Steps(Stages[3]) = Len(Dfsps)
  /\ Steps(Stages[4]) = Len(Permissions) /\ Steps(Stages[5]) = 1 /\ Steps(Stages[6]) = Len(Roles)
  /\ Steps(Stages[7]) = 1 /\ Steps(Stages[9]) = 1
  /\ Steps(Stages[8]) = (IF Users = <<>> THEN 1 ELSE Len(Users))
  /\ Steps(Stages[10]) = 1 /\ Steps(Stages[11]) = 1 /\ Steps(Stages[12]) = 3 * Len(File)
  /\ \A k \in 1..12 : Steps(Stages[k]) \in Nat /\ Steps(Stages[k]) # 0
<1>1. /\ Steps(Stages[1]) = 1 /\ Steps(Stages[2]) = Len(Currencies) /\ Steps(Stages[3]) = Len(Dfsps)
      /\ Steps(Stages[4]) = Len(Permissions) /\ Steps(Stages[5]) = 1 /\ Steps(Stages[6]) = Len(Roles)
      /\ Steps(Stages[7]) = 1 /\ Steps(Stages[9]) = 1
      /\ Steps(Stages[8]) = (IF Users = <<>> THEN 1 ELSE Len(Users))
      /\ Steps(Stages[10]) = 1 /\ Steps(Stages[11]) = 1 /\ Steps(Stages[12]) = 3 * Len(File)
  BY StageFact DEF Steps
<1>2. /\ Len(Currencies) \in Nat \ {0} /\ Len(Dfsps) \in Nat \ {0} /\ Len(Permissions) \in Nat \ {0}
      /\ Len(Roles) \in Nat \ {0} /\ Len(File) \in Nat \ {0}
      /\ Len(Users) \in Nat /\ (Users # <<>> => Len(Users) # 0)
  BY StartUpAssumption, ShipsFact, UsersFact
<1>3. ASSUME NEW k \in 1..12 PROVE Steps(Stages[k]) \in Nat /\ Steps(Stages[k]) # 0
  <2>1. \/ k = 1 \/ k = 2 \/ k = 3 \/ k = 4 \/ k = 5 \/ k = 6
        \/ k = 7 \/ k = 8 \/ k = 9 \/ k = 10 \/ k = 11 \/ k = 12
    OBVIOUS
  <2>2. 3 * Len(File) \in Nat /\ 3 * Len(File) # 0 /\ 1 \in Nat /\ 1 # 0
    BY <1>2
  <2> QED BY <1>1, <1>2, <2>1, <2>2
<1> QED BY <1>1, <1>3

LEMMA NextStageFact ==
  ASSUME Process, run = "seed", NextStage
  PROVE  /\ Process'
         /\ \A k \in 1..12 : Done(k)' = IF k = stage THEN Steps(Stages[k]) ELSE Done(k)
<1>1. CASE stage < 12
  <2>1. stage' = stage + 1 /\ run' = "seed" /\ at' = 1
    BY <1>1, StageFact DEF NextStage
  <2>2. stage + 1 \in 1..12 /\ stage \in Nat /\ at \in Nat
    BY <1>1 DEF Process
  <2>3. Steps(Stages[stage + 1]) \in Nat /\ Steps(Stages[stage + 1]) # 0
    BY <2>2, StepsFact
  <2>4. 1 \in 1..Steps(Stages[stage']) /\ stage' \in 1..12
    BY <2>1, <2>2, <2>3
  <2> QED BY <1>1, <2>1, <2>2, <2>4 DEF Process, Done
<1>2. CASE stage = 12
  <2>1. stage' = 12 /\ run' = "ready" /\ at' = 1
    BY <1>2, StageFact DEF NextStage
  <2> QED BY <1>2, <2>1 DEF Process, Done
<1> QED BY <1>1, <1>2 DEF Process

LEMMA AdvanceFact ==
  ASSUME Process, run = "seed", Advance
  PROVE  /\ Process'
         /\ \A k \in 1..12 : Done(k)' = IF k = stage THEN at ELSE Done(k)
<1>0. /\ stage \in 1..12 /\ at \in 1..Steps(Stages[stage])
      /\ Steps(Stages[stage]) \in Nat
  BY StepsFact DEF Process
<1>1. CASE at < Steps(Stages[stage])
  <2>1. at' = at + 1 /\ run' = "seed" /\ stage' = stage
    BY <1>1 DEF Advance
  <2>2. at + 1 \in 1..Steps(Stages[stage])
    BY <1>0, <1>1
  <2> QED BY <1>0, <2>1, <2>2 DEF Process, Done
<1>2. CASE ~(at < Steps(Stages[stage]))
  <2>1. NextStage /\ at = Steps(Stages[stage])
    BY <1>0, <1>2 DEF Advance
  <2> QED BY <2>1, NextStageFact
<1> QED BY <1>1, <1>2

-----------------------------------------------------------------------------
(* What each stage has written so far.                                       *)
Holds(table, rows, n) ==
  table \subseteq Range(rows) /\ \A i \in DOMAIN rows : i <= n => rows[i] \in table

CodesOK ==
  /\ categories \subseteq Categories /\ (Done(1) = 1 => categories = Categories)
  /\ Holds(currencies, Currencies, Done(2))
  /\ Holds(dfsps, Dfsps, Done(3))
  /\ Holds(permissions, Permissions, Done(4))
  /\ Holds(users, Users, Done(8))
  /\ Done(7) = 1 => pending = {}

(* Roles are given the permissions that were found, which are all there are.  *)
RolesOK ==
  /\ Done(5) = 1 => found = Range(Permissions)
  /\ Holds(DOMAIN roles, Roles, Done(6))
  /\ \A r \in DOMAIN roles : roles[r] = Granted[r]

HubOK ==
  /\ onboarding \in {"none", "open", "complete"} /\ admin \in {"none", "active", "blocked"}
  /\ onboarding = "complete" => admin = "blocked"
  /\ Done(9) = 1 => onboarding # "none"
  /\ Done(10) = 1 => admin # "none"

(* A subdivision is of the first country that lists one of its name; the      *)
(* districts are those of the entries read since they were cleared.          *)
CountriesOK ==
  /\ countries \subseteq Countries
  /\ \A i \in DOMAIN File : 3 * i - 2 <= Done(12) => File[i].country \in countries

SubdivisionsOK ==
  /\ \A r \in subdivisions : r[1] \in Subdivisions /\ r = <<r[1], File[First(r[1])].country>>
  /\ \A i \in DOMAIN File : 3 * i - 1 <= Done(12) => \E r \in subdivisions : r[1] = File[i].sub

Lists(i, d) == File[i].sub = d[1] /\ d[2] \in File[i].districts
Read(d, n) == {i \in DOMAIN File : 3 * i <= n /\ Lists(i, d)}
DistrictsOK ==
  /\ districts \in [DistrictNames -> Nat]
  /\ \A d \in DistrictNames : districts[d] > 0 => \E i \in DOMAIN File : Lists(i, d)
  /\ Done(11) = 1 => \A d \in DistrictNames : districts[d] = Cardinality(Read(d, Done(12)))

StartInv == Process /\ CodesOK /\ RolesOK /\ HubOK /\ CountriesOK /\ SubdivisionsOK /\ DistrictsOK

LEMMA DoneCount ==
  ASSUME Process, NEW k \in 1..12
  PROVE  Done(k) \in Nat
<1>1. Steps(Stages[k]) \in Nat
  BY StepsFact
<1>2. at \in Nat /\ (run = "seed" => at >= 1)
  BY StepsFact DEF Process
<1> QED BY <1>1, <1>2 DEF Done

(* Outside the seeding nothing is done; one that is over has done everything. *)
LEMMA IdleCount ==
  ASSUME NEW k \in 1..12, run \in {"down", "connect", "failed"}
  PROVE  Done(k) = 0
BY DEF Done

LEMMA FirstFact ==
  ASSUME NEW i \in DOMAIN File, \A j \in 1..(i - 1) : File[j].sub # File[i].sub
  PROVE  First(File[i].sub) = i
<1>1. DOMAIN File = 1..Len(File) /\ Len(File) \in Nat
  BY StartUpAssumption, ShipsFact
<1>2. \E k \in DOMAIN File : File[k].sub = File[i].sub /\ \A j \in 1..(k - 1) : File[j].sub # File[i].sub
  OBVIOUS
<1>3. /\ First(File[i].sub) \in DOMAIN File
      /\ File[First(File[i].sub)].sub = File[i].sub
      /\ \A j \in 1..(First(File[i].sub) - 1) : File[j].sub # File[i].sub
  BY <1>2 DEF First
<1> DEFINE k == First(File[i].sub)
<1> HIDE DEF k
<1>4. k \in 1..Len(File) /\ i \in 1..Len(File) /\ ~(k < i) /\ ~(i < k)
  <2>1. k \in 1..Len(File) /\ i \in 1..Len(File)
    BY <1>1, <1>3 DEF k
  <2>2. k < i => k \in 1..(i - 1)
    BY <2>1, <1>1
  <2>3. i < k => i \in 1..(k - 1)
    BY <2>1, <1>1
  <2> QED BY <2>1, <2>2, <2>3, <1>3 DEF k
<1> QED BY <1>4 DEF k

LEMMA EntryFact ==
  ASSUME NEW n \in 1..(3 * Len(File))
  PROVE  LET i == (n + 2) \div 3 IN
         /\ i \in DOMAIN File
         /\ n % 3 = 1 => n = 3 * i - 2
         /\ n % 3 = 2 => n = 3 * i - 1
         /\ n % 3 = 0 => n = 3 * i
         /\ n % 3 \in {0, 1, 2}
<1>1. DOMAIN File = 1..Len(File) /\ Len(File) \in Nat
  BY StartUpAssumption, ShipsFact
<1> QED BY <1>1

LEMMA InFact ==
  ASSUME Process, NEW s, In(s)
  PROVE  /\ run = "seed" /\ at \in Nat /\ at \in 1..Steps(Stages[stage])
         /\ s = "categories" => stage = 1
         /\ s = "currencies" => stage = 2
         /\ s = "dfsps" => stage = 3
         /\ s = "permissions" => stage = 4
         /\ s = "find" => stage = 5
         /\ s = "roles" => stage = 6
         /\ s = "backfill" => stage = 7
         /\ s = "users" => stage = 8
         /\ s = "state" => stage = 9
         /\ s = "admin" => stage = 10
         /\ s = "clear" => stage = 11
         /\ s = "places" => stage = 12
<1>1. run = "seed" /\ at \in Nat /\ at \in 1..Steps(Stages[stage]) /\ Stages[stage] = s
  BY DEF Process, In
<1>2. \/ stage = 1 \/ stage = 2 \/ stage = 3 \/ stage = 4 \/ stage = 5 \/ stage = 6
      \/ stage = 7 \/ stage = 8 \/ stage = 9 \/ stage = 10 \/ stage = 11 \/ stage = 12
  BY DEF Process
<1> QED BY <1>1, <1>2, StageFact

(* A step moves the count of its own stage only.                             *)
Moves(k, n) ==
  /\ Process'
  /\ Done(k)' = n /\ \A j \in 1..12 : j # k => Done(j)' = Done(j)

LEMMA SeedMoves ==
  ASSUME Process, NEW s, In(s), Advance, NEW k \in 1..12, stage = k
  PROVE  Moves(k, at) /\ at >= 1 /\ Done(k) = at - 1
         /\ \A j \in 1..12 : j < k => Done(j) = Steps(Stages[j])
<1>1. run = "seed" /\ at \in 1..Steps(Stages[k]) /\ at \in Nat
  BY InFact DEF Process
<1>2. Done(k) = at - 1
  BY <1>1 DEF Done
<1>3. \A j \in 1..12 : j < k => Done(j) = Steps(Stages[j])
  BY <1>1 DEF Done
<1>4. Process' /\ \A j \in 1..12 : Done(j)' = IF j = k THEN at ELSE Done(j)
  BY <1>1, AdvanceFact
<1>5. Done(k)' = at /\ \A j \in 1..12 : j # k => Done(j)' = Done(j)
  BY <1>4
<1>6. Moves(k, at)
  BY <1>4, <1>5 DEF Moves
<1> QED BY <1>1, <1>2, <1>3, <1>6

LEMMA CodesKept ==
  ASSUME CodesOK, NEW k \in {5, 6, 9, 10, 11, 12}, NEW n, Moves(k, n), 
         UNCHANGED <<categories, currencies, dfsps, permissions, users, pending>>
  PROVE  CodesOK'
<1>1. /\ Done(1)' = Done(1) /\ Done(2)' = Done(2) /\ Done(3)' = Done(3)
      /\ Done(4)' = Done(4) /\ Done(7)' = Done(7) /\ Done(8)' = Done(8)
  BY DEF Moves
<1> QED BY <1>1 DEF CodesOK, Holds

LEMMA RolesKept ==
  ASSUME RolesOK, NEW k \in 1..12, k \notin {5, 6}, NEW n, Moves(k, n), UNCHANGED <<found, roles>>
  PROVE  RolesOK'
<1>1. Done(5)' = Done(5) /\ Done(6)' = Done(6)
  BY DEF Moves
<1> QED BY <1>1 DEF RolesOK, Holds

LEMMA HubKept ==
  ASSUME HubOK, NEW k \in 1..12, k \notin {9, 10}, NEW n, Moves(k, n), UNCHANGED hub
  PROVE  HubOK'
<1>1. Done(9)' = Done(9) /\ Done(10)' = Done(10)
  BY DEF Moves
<1> QED BY <1>1 DEF HubOK, hub

PlacesOK == CountriesOK /\ SubdivisionsOK /\ DistrictsOK

LEMMA PlacesKept ==
  ASSUME PlacesOK, NEW k \in 1..12, k \notin {11, 12}, NEW n, Moves(k, n), UNCHANGED places
  PROVE  PlacesOK'
<1>1. Done(11)' = Done(11) /\ Done(12)' = Done(12)
  BY DEF Moves
<1> QED BY <1>1 DEF PlacesOK, CountriesOK, SubdivisionsOK, DistrictsOK, places, Read, Lists

LEMMA Written ==
  ASSUME NEW rows, NEW T, NEW i \in 1..Len(rows), DOMAIN rows = 1..Len(rows), Len(rows) \in Nat,
         Holds(T, rows, i - 1)
  PROVE  Holds(T \cup {rows[i]}, rows, i)
<1>1. \A j \in 1..Len(rows) : j <= i => j <= i - 1 \/ j = i
  OBVIOUS
<1>2. rows[i] \in Range(rows)
  BY DEF Range
<1> QED BY <1>1, <1>2 DEF Holds

LEMMA AllHeld ==
  ASSUME NEW rows, NEW T, Ships(rows), Holds(T, rows, Len(rows))
  PROVE  T = Range(rows)
<1>1. \A i \in DOMAIN rows : i <= Len(rows)
  BY ShipsFact
<1> QED BY <1>1 DEF Holds, Range

(* The count of rows tells that all are there.                               *)
LEMMA AllOfThem ==
  ASSUME NEW rows, NEW T, Ships(rows), T \subseteq Range(rows), Cardinality(T) >= Len(rows)
  PROVE  T = Range(rows)
<1>1. Len(rows) \in Nat /\ DOMAIN rows = 1..Len(rows)
  BY ShipsFact
<1>2. IsFiniteSet(1..Len(rows)) /\ Cardinality(1..Len(rows)) = Len(rows)
  <2> DEFINE n == Len(rows)
  <2>1. n \in Nat
    BY <1>1
  <2> HIDE DEF n
  <2>2. IsFiniteSet(1..n) /\ Cardinality(1..n) = n
    BY <2>1, FS_Interval
  <2> QED BY <2>2 DEF n
<1>3. rows \in Surjection(1..Len(rows), Range(rows))
  <2>1. rows \in Seq(Range(rows))
    BY DEF Ships
  <2>2. rows \in [1..Len(rows) -> Range(rows)]
    BY <2>1
  <2> QED BY <1>1, <2>2 DEF Surjection, Range
<1>4. IsFiniteSet(Range(rows)) /\ Cardinality(Range(rows)) <= Len(rows)
  BY <1>2, <1>3, FS_Surjection
<1>5. IsFiniteSet(T) /\ Cardinality(T) <= Cardinality(Range(rows))
      /\ (Cardinality(T) = Cardinality(Range(rows)) => T = Range(rows))
  BY <1>4, FS_Subset
<1>6. Cardinality(T) \in Nat /\ Cardinality(Range(rows)) \in Nat
  BY <1>4, <1>5, FS_CardinalityType
<1> QED BY <1>1, <1>4, <1>5, <1>6

LEMMA SaveCategoriesStep ==
  ASSUME StartInv, SeedCategoryCode
  PROVE  StartInv'
<1>1. stage = 1 /\ Moves(1, at)
  BY InFact, SeedMoves DEF SeedCategoryCode, StartInv
<1>2. /\ Done(2)' = Done(2) /\ Done(3)' = Done(3) /\ Done(4)' = Done(4)
      /\ Done(7)' = Done(7) /\ Done(8)' = Done(8)
  BY <1>1 DEF Moves
<1>3. CodesOK'
  BY <1>2 DEF StartInv, CodesOK, Holds, SeedCategoryCode
<1> QED BY <1>1, <1>3, RolesKept, HubKept, PlacesKept DEF StartInv, PlacesOK, SeedCategoryCode, Moves

LEMMA SaveCurrencyStep ==
  ASSUME StartInv, SeedCurrency
  PROVE  StartInv'
<1>1. Process /\ stage = 2 /\ run = "seed" /\ at \in 1..Len(Currencies)
  BY InFact, StepsFact DEF SeedCurrency, StartInv
<1>2. DOMAIN Currencies = 1..Len(Currencies) /\ Len(Currencies) \in Nat
  BY StartUpAssumption, ShipsFact
<1>3. PICK n : Moves(2, n) /\ Holds(currencies', Currencies, n)
  <2>1. CASE at = 1 /\ Cardinality(currencies) >= Len(Currencies) /\ NextStage /\ UNCHANGED currencies
    <3>1. Moves(2, Len(Currencies))
      BY <1>1, <2>1, NextStageFact, StepsFact DEF Moves
    <3>2. currencies \subseteq Range(Currencies)
      BY DEF StartInv, CodesOK, Holds
    <3>3. currencies = Range(Currencies)
      BY StartUpAssumption, <2>1, <3>2, AllOfThem
    <3>4. Holds(currencies', Currencies, Len(Currencies))
      BY <2>1, <3>3 DEF Holds, Range
    <3> QED BY <3>1, <3>4
  <2>2. CASE Advance /\ currencies' = currencies \cup {Currencies[at]}
    <3>1. Moves(2, at) /\ Done(2) = at - 1
      BY <1>1, <2>2, SeedMoves DEF SeedCurrency
    <3>2. Holds(currencies', Currencies, at)
      BY <1>1, <1>2, <2>2, <3>1, Written DEF StartInv, CodesOK
    <3> QED BY <3>1, <3>2
  <2> QED BY <2>1, <2>2 DEF SeedCurrency
<1>4. /\ Done(1)' = Done(1) /\ Done(3)' = Done(3) /\ Done(4)' = Done(4)
      /\ Done(7)' = Done(7) /\ Done(8)' = Done(8) /\ Done(2)' = n
  BY <1>3 DEF Moves
<1>5. CodesOK'
  <2>1. Holds(currencies, Currencies, Done(2))'
    BY <1>3, <1>4
  <2>2. /\ UNCHANGED <<categories, dfsps, permissions, users, pending>>
    BY DEF SeedCurrency
  <2> QED BY <1>4, <2>1, <2>2 DEF StartInv, CodesOK, Holds
<1> QED BY <1>3, <1>5, RolesKept, HubKept, PlacesKept DEF StartInv, PlacesOK, SeedCurrency, Moves

LEMMA SaveDfspStep ==
  ASSUME StartInv, SeedDFSP
  PROVE  StartInv'
<1>0. Process /\ stage = 3 /\ at \in 1..Steps(Stages[stage])
  BY InFact DEF SeedDFSP, StartInv
<1>1. Process /\ stage = 3 /\ at \in 1..Len(Dfsps) /\ Moves(3, at) /\ Done(3) = at - 1
  BY <1>0, SeedMoves, StepsFact DEF SeedDFSP
<1>2. /\ Done(1)' = Done(1) /\ Done(2)' = Done(2) /\ Done(3)' = at /\ Done(4)' = Done(4)
      /\ Done(7)' = Done(7) /\ Done(8)' = Done(8)
  BY <1>1 DEF Moves
<1>3. Holds(dfsps', Dfsps, at)
  BY <1>1, StartUpAssumption, ShipsFact, Written DEF StartInv, CodesOK, SeedDFSP
<1>4. CodesOK'
  BY <1>2, <1>3 DEF StartInv, CodesOK, Holds, SeedDFSP
<1> QED BY <1>1, <1>4, RolesKept, HubKept, PlacesKept DEF StartInv, PlacesOK, SeedDFSP, Moves

LEMMA SavePermissionStep ==
  ASSUME StartInv, SeedPermission
  PROVE  StartInv'
<1>0. Process /\ stage = 4 /\ at \in 1..Steps(Stages[stage])
  BY InFact DEF SeedPermission, StartInv
<1>1. Process /\ stage = 4 /\ at \in 1..Len(Permissions) /\ Moves(4, at) /\ Done(4) = at - 1
  BY <1>0, SeedMoves, StepsFact DEF SeedPermission
<1>2. /\ Done(1)' = Done(1) /\ Done(2)' = Done(2) /\ Done(3)' = Done(3) /\ Done(4)' = at
      /\ Done(7)' = Done(7) /\ Done(8)' = Done(8)
  BY <1>1 DEF Moves
<1>3. Holds(permissions', Permissions, at)
  BY <1>1, StartUpAssumption, ShipsFact, Written DEF StartInv, CodesOK, SeedPermission
<1>4. CodesOK'
  BY <1>2, <1>3 DEF StartInv, CodesOK, Holds, SeedPermission
<1> QED BY <1>1, <1>4, RolesKept, HubKept, PlacesKept DEF StartInv, PlacesOK, SeedPermission, Moves

LEMMA SaveUserStep ==
  ASSUME StartInv, SeedUser
  PROVE  StartInv'
<1>0. Process /\ stage = 8 /\ at \in 1..Steps(Stages[stage])
  BY InFact DEF SeedUser, StartInv
<1>1. Moves(8, at) /\ Done(8) = at - 1
  BY <1>0, SeedMoves DEF SeedUser
<1>2. /\ Done(1)' = Done(1) /\ Done(2)' = Done(2) /\ Done(3)' = Done(3) /\ Done(4)' = Done(4)
      /\ Done(7)' = Done(7) /\ Done(8)' = at
  BY <1>1 DEF Moves
<1>3. Holds(users', Users, at)
  <2>1. CASE Users = <<>>
    BY <2>1, UsersFact DEF StartInv, CodesOK, SeedUser, Holds
  <2>2. CASE Users # <<>>
    <3>1. at \in 1..Len(Users)
      BY <1>0, <2>2, StepsFact
    <3>2. users' = users \cup {Users[at]}
      BY <2>2 DEF SeedUser
    <3> QED BY <1>1, <3>1, <3>2, UsersFact, Written DEF StartInv, CodesOK
  <2> QED BY <2>1, <2>2
<1>4. CodesOK'
  BY <1>2, <1>3 DEF StartInv, CodesOK, Holds, SeedUser
<1> QED BY <1>1, <1>4, RolesKept, HubKept, PlacesKept DEF StartInv, PlacesOK, SeedUser, Moves

LEMMA BackfillStep ==
  ASSUME StartInv, Backfill
  PROVE  StartInv'
<1>1. stage = 7 /\ Moves(7, at)
  BY InFact, SeedMoves DEF Backfill, StartInv
<1>2. /\ Done(1)' = Done(1) /\ Done(2)' = Done(2) /\ Done(3)' = Done(3)
      /\ Done(4)' = Done(4) /\ Done(8)' = Done(8)
  BY <1>1 DEF Moves
<1>3. CodesOK'
  BY <1>2 DEF StartInv, CodesOK, Holds, Backfill
<1> QED BY <1>1, <1>3, RolesKept, HubKept, PlacesKept DEF StartInv, PlacesOK, Backfill, Moves

LEMMA FindStep ==
  ASSUME StartInv, FindPermissions
  PROVE  StartInv'
<1>1. Process /\ stage = 5 /\ Moves(5, at) /\ Done(4) = Len(Permissions)
  BY InFact, SeedMoves, StepsFact, 4 \in 1..12, 4 < 5 DEF FindPermissions, StartInv
<1>2. Done(6)' = Done(6)
  BY <1>1 DEF Moves
<1>3. permissions = Range(Permissions)
  BY <1>1, StartUpAssumption, ShipsFact, AllHeld DEF StartInv, CodesOK
<1>4. RolesOK'
  BY <1>2, <1>3 DEF StartInv, RolesOK, Holds, FindPermissions, codes
<1> QED BY <1>1, <1>4, CodesKept, HubKept, PlacesKept DEF StartInv, PlacesOK, FindPermissions, codes, Moves

LEMMA SaveRoleStep ==
  ASSUME StartInv, SeedRole
  PROVE  StartInv'
<1>0. Process /\ stage = 6 /\ at \in 1..Steps(Stages[stage])
  BY InFact DEF SeedRole, StartInv
<1>1. /\ Process /\ stage = 6 /\ at \in 1..Len(Roles) /\ Moves(6, at) /\ Done(6) = at - 1
      /\ Done(5) = 1
  BY <1>0, SeedMoves, StepsFact DEF SeedRole
<1>2. Done(5)' = Done(5) /\ Done(6)' = at
  BY <1>1 DEF Moves
<1>3. DOMAIN Roles = 1..Len(Roles) /\ Roles[at] \in Range(Roles)
  BY <1>1, StartUpAssumption, ShipsFact DEF Range
<1>4. found = Range(Permissions) /\ Granted[Roles[at]] \cap found = Granted[Roles[at]]
  BY <1>1, <1>3, StartUpAssumption DEF StartInv, RolesOK
<1>5. /\ DOMAIN roles' = DOMAIN roles \cup {Roles[at]}
      /\ \A r \in DOMAIN roles' : roles'[r] = Granted[r]
  BY <1>4 DEF StartInv, RolesOK, SeedRole
<1>6. Holds(DOMAIN roles', Roles, at)
  <2>1. Holds(DOMAIN roles, Roles, at - 1)
    BY <1>1 DEF StartInv, RolesOK
  <2>2. Len(Roles) \in Nat
    BY StartUpAssumption, ShipsFact
  <2> QED BY <1>1, <1>3, <1>5, <2>1, <2>2, Written
<1>7. RolesOK'
  BY <1>2, <1>4, <1>5, <1>6 DEF RolesOK, SeedRole
<1> QED BY <1>1, <1>7, CodesKept, HubKept, PlacesKept DEF StartInv, PlacesOK, SeedRole, Moves

LEMMA StateStep ==
  ASSUME StartInv, SeedState
  PROVE  StartInv'
<1>1. stage = 9 /\ Moves(9, at)
  BY InFact, SeedMoves DEF SeedState, StartInv
<1>2. Done(10)' = Done(10)
  BY <1>1 DEF Moves
<1>3. HubOK'
  BY <1>2 DEF StartInv, HubOK, SeedState
<1> QED BY <1>1, <1>3, CodesKept, RolesKept, PlacesKept DEF StartInv, PlacesOK, SeedState, codes, Moves

LEMMA AdminStep ==
  ASSUME StartInv, SeedAdmin
  PROVE  StartInv'
<1>0. Process /\ stage = 10 /\ run = "seed"
  BY InFact DEF SeedAdmin, StartInv
<1>1. Moves(10, at) /\ Done(6) = Len(Roles) /\ Done(9) = 1
  <2>1. /\ Moves(10, at)
        /\ \A j \in 1..12 : j < 10 => Done(j) = Steps(Stages[j])
    BY <1>0, SeedMoves DEF SeedAdmin
  <2> QED BY <2>1, StepsFact
<1>2. Done(9)' = Done(9)
  BY <1>1 DEF Moves
<1>3. AdminRole \in DOMAIN roles
  BY <1>1, StartUpAssumption, AllHeld DEF StartInv, RolesOK
<1>4. HubOK'
  BY <1>1, <1>2, <1>3 DEF StartInv, HubOK, SeedAdmin
<1> QED BY <1>1, <1>4, CodesKept, RolesKept, PlacesKept DEF StartInv, PlacesOK, SeedAdmin, codes, Moves

LEMMA OtherKept ==
  ASSUME StartInv, NEW k \in {11, 12}, NEW n, Moves(k, n), UNCHANGED <<found, codes, hub>>
  PROVE  Process' /\ CodesOK' /\ RolesOK' /\ HubOK'
BY CodesKept, RolesKept, HubKept DEF StartInv, codes, Moves

LEMMA ClearStep ==
  ASSUME StartInv, ClearDistricts
  PROVE  StartInv'
<1>1. Process /\ stage = 11 /\ Moves(11, at) /\ run = "seed"
  BY InFact, SeedMoves DEF ClearDistricts, StartInv
<1>2. Done(12)' = Done(12) /\ Done(12) = 0
  BY <1>1 DEF Moves, Done
<1>3. CountriesOK' /\ SubdivisionsOK'
  BY <1>2 DEF StartInv, CountriesOK, SubdivisionsOK, ClearDistricts
<1>4. DistrictsOK'
  <2>1. \A d \in DistrictNames : Read(d, 0) = {}
    <3>1. \A i \in DOMAIN File : ~(3 * i <= 0)
      BY StartUpAssumption, ShipsFact
    <3> QED BY <3>1 DEF Read
  <2>2. Cardinality({}) = 0
    BY FS_EmptySet
  <2>3. /\ districts' \in [DistrictNames -> Nat]
        /\ \A d \in DistrictNames : districts'[d] = 0
    BY DEF StartInv, DistrictsOK, ClearDistricts
  <2> QED BY <1>2, <2>1, <2>2, <2>3 DEF DistrictsOK
<1> QED BY <1>1, <1>3, <1>4, OtherKept DEF StartInv, ClearDistricts

LEMMA PlacesMove ==
  ASSUME StartInv, NEW s, In(s), s = "places", Advance
  PROVE  /\ Moves(12, at) /\ Done(12) = at - 1 /\ Done(12)' = at /\ Done(11)' = Done(11)
         /\ Done(11) = 1 /\ at \in 1..(3 * Len(File)) /\ at \in Nat
<1>1. Process /\ stage = 12 /\ at \in 1..Steps(Stages[stage]) /\ at \in Nat
  BY InFact DEF StartInv
<1>2. /\ Moves(12, at) /\ Done(12) = at - 1
      /\ \A j \in 1..12 : j < 12 => Done(j) = Steps(Stages[j])
  BY <1>1, SeedMoves
<1>3. Done(11) = 1
  BY <1>2, StepsFact
<1>4. Done(12)' = at /\ Done(11)' = Done(11)
  BY <1>2 DEF Moves
<1> QED BY <1>1, <1>2, <1>3, <1>4, StepsFact

LEMMA CountryStep ==
  ASSUME StartInv, SeedCountry
  PROVE  StartInv'
<1>1. /\ Moves(12, at) /\ Done(12) = at - 1 /\ Done(12)' = at /\ Done(11)' = Done(11)
      /\ at \in 1..(3 * Len(File)) /\ at \in Nat
  BY PlacesMove DEF SeedCountry
<1> DEFINE n == (at + 2) \div 3
<1>2. n \in DOMAIN File /\ at = 3 * n - 2
  BY <1>1, EntryFact DEF SeedCountry
<1>3. DOMAIN File = 1..Len(File) /\ Len(File) \in Nat
  BY StartUpAssumption, ShipsFact
<1>4. Entry(at) = File[n]
  BY DEF Entry
<1> HIDE DEF n
<1>5. CountriesOK'
  <2>1. countries' = countries \cup {File[n].country} /\ File[n] \in Range(File)
    BY <1>2, <1>4 DEF SeedCountry, Range
  <2>2. \A i \in DOMAIN File : 3 * i - 2 <= at => 3 * i - 2 <= at - 1 \/ i = n
    BY <1>1, <1>2, <1>3
  <2> QED BY <1>1, <2>1, <2>2 DEF StartInv, CountriesOK, Countries
<1>6. SubdivisionsOK'
  <2>1. \A i \in DOMAIN File : 3 * i - 1 <= at => 3 * i - 1 <= at - 1
    BY <1>1, <1>2, <1>3
  <2> QED BY <1>1, <2>1 DEF StartInv, SubdivisionsOK, SeedCountry
<1>7. DistrictsOK'
  <2>1. \A i \in DOMAIN File : 3 * i <= at <=> 3 * i <= at - 1
    BY <1>1, <1>2, <1>3
  <2>2. \A d : Read(d, at) = Read(d, at - 1)
    BY <2>1 DEF Read
  <2> QED BY <1>1, <2>2 DEF StartInv, DistrictsOK, SeedCountry
<1> QED BY <1>1, <1>5, <1>6, <1>7, OtherKept DEF StartInv, SeedCountry

LEMMA SubdivisionStep ==
  ASSUME StartInv, SeedSubdivision
  PROVE  StartInv'
<1>1. /\ Moves(12, at) /\ Done(12) = at - 1 /\ Done(12)' = at /\ Done(11)' = Done(11)
      /\ at \in 1..(3 * Len(File)) /\ at \in Nat
  BY PlacesMove DEF SeedSubdivision
<1> DEFINE n == (at + 2) \div 3
<1>2. n \in DOMAIN File /\ at = 3 * n - 1
  BY <1>1, EntryFact DEF SeedSubdivision
<1>3. DOMAIN File = 1..Len(File) /\ Len(File) \in Nat
  BY StartUpAssumption, ShipsFact
<1>4. Entry(at) = File[n]
  BY DEF Entry
<1> HIDE DEF n
<1>5. CountriesOK'
  <2>1. \A i \in DOMAIN File : 3 * i - 2 <= at => 3 * i - 2 <= at - 1
    BY <1>1, <1>2, <1>3
  <2> QED BY <1>1, <2>1 DEF StartInv, CountriesOK, SeedSubdivision
<1>6. SubdivisionsOK'
  <2>1. \A i \in DOMAIN File : 3 * i - 1 <= at => 3 * i - 1 <= at - 1 \/ i = n
    BY <1>1, <1>2, <1>3
  <2>2. CASE \E r \in subdivisions : r[1] = File[n].sub
    <3>1. subdivisions' = subdivisions
      BY <1>4, <2>2 DEF SeedSubdivision
    <3> QED BY <1>1, <2>1, <2>2, <3>1 DEF StartInv, SubdivisionsOK
  <2>3. CASE ~\E r \in subdivisions : r[1] = File[n].sub
    <3> DEFINE new == <<File[n].sub, File[n].country>>
    <3>1. subdivisions' = subdivisions \cup {new}
      BY <1>4, <2>3 DEF SeedSubdivision
    <3>2. \A j \in 1..(n - 1) : File[j].sub # File[n].sub
      <4>1. \A j \in 1..(n - 1) : j \in DOMAIN File /\ 3 * j - 1 <= at - 1
        BY <1>1, <1>2, <1>3
      <4> QED BY <1>1, <2>3, <4>1 DEF StartInv, SubdivisionsOK
    <3>3. First(File[n].sub) = n
      BY <1>2, <3>2, FirstFact
    <3>4. new[1] = File[n].sub /\ new = <<new[1], File[First(new[1])].country>>
      BY <3>3
    <3>5. new[1] \in Subdivisions
      BY <1>2, <3>4 DEF Subdivisions, Range
    <3> HIDE DEF new
    <3>6. /\ \A r \in subdivisions' : r[1] \in Subdivisions /\ r = <<r[1], File[First(r[1])].country>>
          /\ \A i \in DOMAIN File : 3 * i - 1 <= at => \E r \in subdivisions' : r[1] = File[i].sub
      <4>1. \A r \in subdivisions' : r \in subdivisions \/ r = new
        BY <3>1
      <4>2. subdivisions \subseteq subdivisions' /\ new \in subdivisions'
        BY <3>1
      <4>3. \A r \in subdivisions' : r[1] \in Subdivisions /\ r = <<r[1], File[First(r[1])].country>>
        BY <3>4, <3>5, <4>1 DEF StartInv, SubdivisionsOK
      <4>4. \A i \in DOMAIN File : 3 * i - 1 <= at => \E r \in subdivisions' : r[1] = File[i].sub
        BY <1>1, <2>1, <3>4, <4>2 DEF StartInv, SubdivisionsOK
      <4> QED BY <4>3, <4>4
    <3> QED BY <1>1, <3>6 DEF SubdivisionsOK
  <2> QED BY <2>2, <2>3
<1>7. DistrictsOK'
  <2>1. \A i \in DOMAIN File : 3 * i <= at <=> 3 * i <= at - 1
    BY <1>1, <1>2, <1>3
  <2>2. \A d : Read(d, at) = Read(d, at - 1)
    BY <2>1 DEF Read
  <2> QED BY <1>1, <2>2 DEF StartInv, DistrictsOK, SeedSubdivision
<1> QED BY <1>1, <1>5, <1>6, <1>7, OtherKept DEF StartInv, SeedSubdivision

LEMMA ReadFinite ==
  ASSUME NEW d, NEW n
  PROVE  IsFiniteSet(Read(d, n))
<1> DEFINE l == Len(File)
<1>1. DOMAIN File = 1..l /\ l \in Nat
  BY StartUpAssumption, ShipsFact
<1> HIDE DEF l
<1>2. IsFiniteSet(1..l)
  BY <1>1, FS_Interval
<1>3. Read(d, n) \in SUBSET (1..l)
  BY <1>1 DEF Read
<1> QED BY <1>2, <1>3, FS_Subset

LEMMA DistrictsStep ==
  ASSUME StartInv, SeedDistricts
  PROVE  StartInv'
<1>1. /\ Moves(12, at) /\ Done(12) = at - 1 /\ Done(12)' = at /\ Done(11)' = Done(11)
      /\ Done(11) = 1 /\ at \in 1..(3 * Len(File)) /\ at \in Nat
  BY PlacesMove DEF SeedDistricts
<1> DEFINE n == (at + 2) \div 3
<1>2. n \in DOMAIN File /\ at = 3 * n
  BY <1>1, EntryFact DEF SeedDistricts
<1>3. DOMAIN File = 1..Len(File) /\ Len(File) \in Nat
  BY StartUpAssumption, ShipsFact
<1>4. Entry(at) = File[n]
  BY DEF Entry
<1> HIDE DEF n
<1>5. CountriesOK'
  <2>1. \A i \in DOMAIN File : 3 * i - 2 <= at => 3 * i - 2 <= at - 1
    BY <1>1, <1>2, <1>3
  <2> QED BY <1>1, <2>1 DEF StartInv, CountriesOK, SeedDistricts
<1>6. SubdivisionsOK'
  <2>1. \A i \in DOMAIN File : 3 * i - 1 <= at => 3 * i - 1 <= at - 1
    BY <1>1, <1>2, <1>3
  <2> QED BY <1>1, <2>1 DEF StartInv, SubdivisionsOK, SeedDistricts
<1>7. DistrictsOK'
  <2>1. /\ districts \in [DistrictNames -> Nat]
        /\ districts' = [d \in DistrictNames |-> IF Lists(n, d) THEN districts[d] + 1 ELSE districts[d]]
    BY <1>4 DEF StartInv, DistrictsOK, SeedDistricts, Lists
  <2>2. ASSUME NEW d \in DistrictNames PROVE districts'[d] = Cardinality(Read(d, at))
    <3>1. districts[d] = Cardinality(Read(d, at - 1)) /\ districts[d] \in Nat
      BY <1>1, <2>1 DEF StartInv, DistrictsOK
    <3>2. \A i \in DOMAIN File : 3 * i <= at <=> (3 * i <= at - 1 \/ i = n)
      BY <1>1, <1>2, <1>3
    <3>3. n \notin Read(d, at - 1)
      BY <1>1, <1>2, <1>3 DEF Read
    <3>4. IsFiniteSet(Read(d, at - 1))
      BY ReadFinite
    <3>5. CASE Lists(n, d)
      <4>1. Read(d, at) = Read(d, at - 1) \cup {n}
        BY <1>2, <3>2, <3>5 DEF Read
      <4>2. Cardinality(Read(d, at - 1) \cup {n}) = Cardinality(Read(d, at - 1)) + 1
        BY <3>3, <3>4, FS_AddElement
      <4> QED BY <2>1, <3>1, <3>5, <4>1, <4>2
    <3>6. CASE ~Lists(n, d)
      <4>1. Read(d, at) = Read(d, at - 1)
        BY <3>2, <3>6 DEF Read
      <4> QED BY <2>1, <3>1, <3>6, <4>1
    <3> QED BY <3>5, <3>6
  <2>3. districts' \in [DistrictNames -> Nat]
    BY <2>1
  <2>4. \A d \in DistrictNames : districts'[d] > 0 => \E i \in DOMAIN File : Lists(i, d)
    BY <1>2, <2>1 DEF StartInv, DistrictsOK
  <2> QED BY <1>1, <2>2, <2>3, <2>4 DEF DistrictsOK
<1> QED BY <1>1, <1>5, <1>6, <1>7, OtherKept DEF StartInv, SeedDistricts

(* Nothing is done by a process that is not seeding, nor by one that begins.  *)
LEMMA IdleStep ==
  ASSUME StartInv, Process', \A k \in 1..12 : Done(k)' = 0,
         UNCHANGED <<codes, hub, places>>
  PROVE  StartInv'
<1>1. /\ Done(1)' = 0 /\ Done(2)' = 0 /\ Done(3)' = 0 /\ Done(4)' = 0 /\ Done(5)' = 0 /\ Done(6)' = 0
      /\ Done(7)' = 0 /\ Done(8)' = 0 /\ Done(9)' = 0 /\ Done(10)' = 0 /\ Done(11)' = 0 /\ Done(12)' = 0
  OBVIOUS
<1>2. ASSUME NEW table, NEW rows, NEW n, Holds(table, rows, n), DOMAIN rows = 1..Len(rows)
      PROVE  Holds(table, rows, 0)
  <2>1. \A i \in DOMAIN rows : ~(i <= 0)
    BY <1>2
  <2> QED BY <1>2, <2>1 DEF Holds
<1>3. CodesOK'
  <2>1. /\ Holds(currencies, Currencies, 0) /\ Holds(dfsps, Dfsps, 0)
        /\ Holds(permissions, Permissions, 0) /\ Holds(users, Users, 0)
    BY <1>2, StartUpAssumption, ShipsFact, UsersFact DEF StartInv, CodesOK
  <2>2. UNCHANGED <<categories, currencies, dfsps, permissions, users, pending>>
    BY DEF codes
  <2> QED BY <1>1, <2>1, <2>2 DEF StartInv, CodesOK, Holds
<1>4. RolesOK'
  <2>1. Holds(DOMAIN roles, Roles, 0)
    BY <1>2, StartUpAssumption DEF StartInv, RolesOK
  <2>2. UNCHANGED roles
    BY DEF codes
  <2> QED BY <1>1, <2>1, <2>2 DEF StartInv, RolesOK, Holds
<1>5. HubOK'
  BY <1>1 DEF StartInv, HubOK, hub
<1>6. \A i \in DOMAIN File : ~(3 * i - 2 <= 0) /\ ~(3 * i - 1 <= 0)
  <2>1. DOMAIN File = 1..Len(File) /\ Len(File) \in Nat
    BY StartUpAssumption, ShipsFact
  <2> QED BY <2>1
<1>7. CountriesOK' /\ SubdivisionsOK' /\ DistrictsOK'
  BY <1>1, <1>6 DEF StartInv, CountriesOK, SubdivisionsOK, DistrictsOK, places
<1> QED BY <1>3, <1>4, <1>5, <1>7 DEF StartInv

LEMMA ProcessSteps ==
  ASSUME StartInv, Start \/ Connect \/ Refuse \/ Retry \/ Fail \/ Crash,
         UNCHANGED <<codes, hub, places>>
  PROVE  StartInv'
<1>1. Process' /\ \A k \in 1..12 : Done(k)' = 0
  <2>1. CASE Connect
    <3>1. run' = "seed" /\ stage' = 1 /\ at' = 1
      BY <2>1 DEF Connect
    <3>2. 1 \in 1..Steps(Stages[1])
      BY StepsFact
    <3> QED BY <3>1, <3>2 DEF Process, Done
  <2>2. CASE Start \/ Refuse \/ Retry \/ Fail \/ Crash
    BY <2>2 DEF Start, Refuse, Retry, Fail, Crash, StartInv, Process, Done
  <2> QED BY <2>1, <2>2
<1> QED BY <1>1, IdleStep

LEMMA SameProcess ==
  ASSUME StartInv, UNCHANGED <<process, codes, places>>, HubOK'
  PROVE  StartInv'
<1>1. UNCHANGED <<run, stage, at, found>>
  BY DEF process
<1>2. \A k \in 1..12 : Done(k)' = Done(k)
  BY <1>1 DEF Done
<1>3. /\ Done(1)' = Done(1) /\ Done(2)' = Done(2) /\ Done(3)' = Done(3) /\ Done(4)' = Done(4)
      /\ Done(5)' = Done(5) /\ Done(6)' = Done(6) /\ Done(7)' = Done(7) /\ Done(8)' = Done(8)
      /\ Done(11)' = Done(11) /\ Done(12)' = Done(12)
  BY <1>2
<1>4. Process'
  BY <1>1 DEF StartInv, Process
<1>5. CodesOK' /\ RolesOK'
  BY <1>1, <1>3 DEF StartInv, CodesOK, RolesOK, Holds, codes
<1>6. CountriesOK' /\ SubdivisionsOK' /\ DistrictsOK'
  BY <1>3 DEF StartInv, CountriesOK, SubdivisionsOK, DistrictsOK, places, Read, Lists
<1> QED BY <1>4, <1>5, <1>6 DEF StartInv

LEMMA OnboardingStep ==
  ASSUME StartInv, CompleteOnboarding
  PROVE  StartInv'
<1>1. UNCHANGED <<run, stage, at>>
  BY DEF CompleteOnboarding, process
<1>2. \A k \in 1..12 : Done(k)' = Done(k)
  BY <1>1 DEF Done
<1>3. Done(9)' = Done(9) /\ Done(10)' = Done(10)
  BY <1>2
<1>4. HubOK'
  BY <1>3 DEF StartInv, HubOK, CompleteOnboarding
<1> QED BY <1>4, SameProcess DEF CompleteOnboarding

LEMMA StartInvStays ==
  ASSUME StartInv, UNCHANGED startVars
  PROVE  StartInv'
<1>1. UNCHANGED <<process, codes, hub, places>>
  BY DEF startVars
<1>2. UNCHANGED <<run, stage, at>>
  BY <1>1 DEF process
<1>3. \A k \in 1..12 : Done(k)' = Done(k)
  BY <1>2 DEF Done
<1>4. Done(9)' = Done(9) /\ Done(10)' = Done(10)
  BY <1>3
<1>5. HubOK'
  BY <1>1, <1>4 DEF StartInv, HubOK, hub
<1> QED BY <1>1, <1>5, SameProcess

LEMMA StartInvInit == StartUpInit => StartInv
<1> SUFFICES ASSUME StartUpInit PROVE StartInv
  OBVIOUS
<1>1. Process /\ \A k \in 1..12 : Done(k) = 0
  BY DEF StartUpInit, Process, Done
<1>2. /\ Done(1) = 0 /\ Done(2) = 0 /\ Done(3) = 0 /\ Done(4) = 0 /\ Done(5) = 0 /\ Done(6) = 0
      /\ Done(7) = 0 /\ Done(8) = 0 /\ Done(9) = 0 /\ Done(10) = 0 /\ Done(11) = 0 /\ Done(12) = 0
  BY <1>1
<1>3. ASSUME NEW rows, DOMAIN rows = 1..Len(rows) PROVE Holds({}, rows, 0)
  <2>1. \A i \in DOMAIN rows : ~(i <= 0)
    BY <1>3
  <2> QED BY <2>1 DEF Holds
<1>4. /\ Holds({}, Currencies, 0) /\ Holds({}, Dfsps, 0) /\ Holds({}, Permissions, 0)
      /\ Holds({}, Users, 0) /\ Holds({}, Roles, 0)
  BY <1>3, StartUpAssumption, ShipsFact, UsersFact
<1>5. CodesOK
  BY <1>2, <1>4 DEF StartUpInit, CodesOK
<1>6. RolesOK
  <2>1. DOMAIN roles = {}
    BY DEF StartUpInit
  <2> QED BY <1>2, <1>4, <2>1 DEF RolesOK
<1>7. HubOK
  BY <1>2 DEF StartUpInit, HubOK
<1>8. \A i \in DOMAIN File : ~(3 * i - 2 <= 0) /\ ~(3 * i - 1 <= 0)
  BY StartUpAssumption, ShipsFact
<1>9. CountriesOK /\ SubdivisionsOK /\ DistrictsOK
  BY <1>2, <1>8 DEF StartUpInit, CountriesOK, SubdivisionsOK, DistrictsOK
<1> QED BY <1>1, <1>5, <1>6, <1>7, <1>9 DEF StartInv

LEMMA StartInvNext == StartInv /\ [StartUpNext]_startVars => StartInv'
<1> SUFFICES ASSUME StartInv, [StartUpNext]_startVars PROVE StartInv'
  OBVIOUS
<1>1. CASE Seed
  BY <1>1, SaveCategoriesStep, SaveCurrencyStep, SaveDfspStep, SavePermissionStep, FindStep,
     SaveRoleStep, BackfillStep, SaveUserStep, StateStep, AdminStep, ClearStep, CountryStep,
     SubdivisionStep, DistrictsStep DEF Seed
<1>2. CASE (Start \/ Connect \/ Refuse \/ Retry \/ Fail \/ Crash) /\ UNCHANGED <<codes, hub, places>>
  BY <1>2, ProcessSteps
<1>3. CASE CompleteOnboarding
  BY <1>3, OnboardingStep
<1>4. CASE UNCHANGED startVars
  BY <1>4, StartInvStays
<1> QED BY <1>1, <1>2, <1>3, <1>4 DEF StartUpNext

LEMMA StartedIsComplete == StartInv => SeededIsComplete
<1> SUFFICES ASSUME StartInv, run = "ready" PROVE SeededIsComplete
  BY DEF SeededIsComplete
<1>1. \A k \in 1..12 : Done(k) = Steps(Stages[k])
  BY DEF Done
<1>2. /\ Done(1) = 1 /\ Done(2) = Len(Currencies) /\ Done(3) = Len(Dfsps) /\ Done(4) = Len(Permissions)
      /\ Done(6) = Len(Roles) /\ Done(7) = 1 /\ Done(9) = 1 /\ Done(10) = 1
      /\ Done(11) = 1 /\ Done(12) = 3 * Len(File)
  BY <1>1, StepsFact
<1>3. /\ categories = Categories /\ currencies = Range(Currencies) /\ dfsps = Range(Dfsps)
      /\ permissions = Range(Permissions) /\ pending = {}
  BY <1>2, StartUpAssumption, AllHeld DEF StartInv, CodesOK
<1>11. users = Range(Users)
  <2>1. CASE Users = <<>>
    BY <2>1, UsersFact DEF StartInv, CodesOK, Holds
  <2>2. CASE Users # <<>>
    <3>1. Done(8) = Len(Users)
      BY <1>1, <2>2, StepsFact
    <3> QED BY <2>2, <3>1, UsersFact, AllHeld DEF StartInv, CodesOK
  <2> QED BY <2>1, <2>2
<1>4. DOMAIN roles = Range(Roles) /\ \A r \in DOMAIN roles : roles[r] = Granted[r]
  BY <1>2, StartUpAssumption, AllHeld DEF StartInv, RolesOK
<1>5. admin # "none" /\ (onboarding = "complete" => admin = "blocked")
  BY <1>2 DEF StartInv, HubOK
<1>6. DOMAIN File = 1..Len(File) /\ Len(File) \in Nat
  BY StartUpAssumption, ShipsFact
<1>7. \A i \in DOMAIN File : 3 * i <= 3 * Len(File) /\ 3 * i - 1 <= 3 * Len(File) /\ 3 * i - 2 <= 3 * Len(File)
  BY <1>6
<1>8. countries = {e.country : e \in Range(File)}
  <2>1. \A e \in Range(File) : e.country \in countries
    BY <1>2, <1>7 DEF StartInv, CountriesOK, Range
  <2> QED BY <2>1 DEF StartInv, CountriesOK, Countries
<1>9. /\ {r[1] : r \in subdivisions} = {e.sub : e \in Range(File)}
      /\ \A r, q \in subdivisions : r[1] = q[1] => r = q
  <2>1. \A e \in Range(File) : \E r \in subdivisions : r[1] = e.sub
    BY <1>2, <1>7 DEF StartInv, SubdivisionsOK, Range
  <2>2. \A r \in subdivisions : r[1] \in Subdivisions
    BY DEF StartInv, SubdivisionsOK
  <2>3. \A r, q \in subdivisions : r[1] = q[1] => r = q
    BY DEF StartInv, SubdivisionsOK
  <2> QED BY <2>1, <2>2, <2>3 DEF Subdivisions
<1>10. \A d \in DOMAIN districts : districts[d] = Listed(d[1], d[2])
  <2>1. \A d : Read(d, 3 * Len(File)) = {i \in DOMAIN File : File[i].sub = d[1] /\ d[2] \in File[i].districts}
    BY <1>7 DEF Read, Lists
  <2> QED BY <1>2, <2>1 DEF StartInv, DistrictsOK, Listed
<1> QED BY <1>3, <1>4, <1>5, <1>8, <1>9, <1>10, <1>11 DEF SeededIsComplete

-----------------------------------------------------------------------------
(* Addresses.  Every address the browser or the backend holds belongs together *)
(* unless a draft filled in around it: lists are offered from tables in which *)
(* a subdivision has the first country of its name, and a district is listed. *)
Row == [addr : Address, mixed : BOOLEAN]
RowOK(l) == l \in Row /\ (~l.mixed => Coherent(l.addr))
RowOrNil(l) == l = Nil \/ RowOK(l)

OfferedOK ==
  /\ offered \in [countries : SUBSET Countries, subs : [Countries -> SUBSET Subdivisions],
                  dists : [Pairs -> SUBSET Districts]]
  /\ \A c \in Countries : \A s \in offered.subs[c] : File[First(s)].country = c
  /\ \A p \in Pairs : \A d \in offered.dists[p] : Listed(p[2], d) > 0

StepOK ==
  /\ form # Nil => RowOK(form)
  /\ draft # Nil => RowOrNil(draft.loc)
  /\ fetch = "served" => RowOrNil(answer.loc)

SavingOK ==
  call # Nil =>
    /\ call \in [pc : {"sent", "loaded", "verified"}, put : BOOLEAN, lei : Leis \cup {Nil},
                 addr : Address, mixed : BOOLEAN]
    /\ call.addr.country # Nil
    /\ ~call.mixed => Coherent(call.addr)

MerchantOK ==
  /\ locations \in Seq(Row) /\ \A i \in DOMAIN locations : RowOK(locations[i])
  /\ lei \in Leis \cup {Nil} /\ relabelled \in BOOLEAN

AddressInv == StartInv /\ OfferedOK /\ StepOK /\ SavingOK /\ MerchantOK

LEMMA ListedFact ==
  ASSUME NEW i \in DOMAIN File, NEW s, NEW d, File[i].sub = s, d \in File[i].districts
  PROVE  Listed(s, d) > 0
<1> DEFINE S == {k \in DOMAIN File : File[k].sub = s /\ d \in File[k].districts}
           n == Len(File)
<1>1. DOMAIN File = 1..n /\ n \in Nat
  BY StartUpAssumption, ShipsFact
<1>2. S \in SUBSET (1..n) /\ i \in S
  BY <1>1
<1>3. IsFiniteSet(S)
  <2> HIDE DEF n, S
  <2>1. IsFiniteSet(1..n)
    BY <1>1, FS_Interval
  <2> QED BY <1>2, <2>1, FS_Subset
<1>4. Cardinality(S) \in Nat /\ Cardinality(S) # 0
  <2> HIDE DEF S
  <2> QED BY <1>2, <1>3, FS_CardinalityType, FS_EmptySet
<1> QED BY <1>4 DEF Listed

LEMMA SubdivisionsFact ==
  ASSUME StartInv, NEW c \in Countries
  PROVE  /\ SubdivisionsOf(c) \subseteq Subdivisions
         /\ \A s \in SubdivisionsOf(c) : File[First(s)].country = c
BY DEF StartInv, SubdivisionsOK, SubdivisionsOf

LEMMA DistrictsFact ==
  ASSUME StartInv, NEW s
  PROVE  /\ DistrictsOf(s) \subseteq Districts
         /\ \A d \in DistrictsOf(s) : Listed(s, d) > 0
<1> SUFFICES ASSUME NEW d \in DistrictsOf(s)
             PROVE  d \in Districts /\ Listed(s, d) > 0
  OBVIOUS
<1>1. PICK e \in DistrictNames : e[1] = s /\ e[2] = d /\ districts[e] > 0
  BY DEF DistrictsOf, StartInv, DistrictsOK
<1>2. PICK i \in DOMAIN File : Lists(i, e)
  BY <1>1 DEF StartInv, DistrictsOK
<1>3. File[i].sub = s /\ d \in File[i].districts
  BY <1>1, <1>2 DEF Lists
<1> QED BY <1>3, ListedFact DEF Districts, Range

LEMMA EmptyFact == RowOK([addr |-> Empty, mixed |-> FALSE])
BY DEF RowOK, Row, Empty, Address, Coherent

LEMMA FilledFact ==
  ASSUME NEW f, RowOK(f), NEW row, RowOrNil(row)
  PROVE  RowOK(Filled(f, row))
<1>1. CASE row = Nil
  BY <1>1 DEF Filled
<1>2. CASE row # Nil
  <2> DEFINE Over(x, y) == IF x # Nil THEN x ELSE y
             v == [country |-> Over(row.addr.country, f.addr.country),
                   sub |-> Over(row.addr.sub, f.addr.sub), dist |-> Over(row.addr.dist, f.addr.dist)]
  <2>1. RowOK(row) /\ row.addr \in Address /\ f.addr \in Address /\ row.mixed \in BOOLEAN
    BY <1>2 DEF RowOrNil, RowOK, Row
  <2>2. v \in Address
    BY <2>1 DEF Address
  <2> DEFINE m == row.mixed \/ v # row.addr
  <2>3. Filled(f, row) = [addr |-> v, mixed |-> m]
    BY <1>2 DEF Filled
  <2>4. ~m => Coherent(v)
    BY <2>1 DEF RowOK
  <2>5. m \in BOOLEAN
    OBVIOUS
  <2> HIDE DEF v, m
  <2> QED BY <2>2, <2>3, <2>4, <2>5 DEF RowOK, Row
<1> QED BY <1>1, <1>2

LEMMA FetchSteps ==
  ASSUME AddressInv, FetchCountries \/ FetchSubdivisions \/ FetchDistricts, UNCHANGED startVars
  PROVE  AddressInv'
<1>0. StartInv'
  BY StartInvStays DEF AddressInv
<1>1. StepOK' /\ SavingOK' /\ MerchantOK'
  BY DEF AddressInv, StepOK, SavingOK, MerchantOK, FetchCountries, FetchSubdivisions, FetchDistricts, merchantVars
<1>2. OfferedOK'
  <2>1. CASE FetchCountries
    <3>1. countries \in SUBSET Countries
      BY DEF AddressInv, StartInv, CountriesOK
    <3> QED BY <2>1, <3>1 DEF AddressInv, OfferedOK, FetchCountries
  <2>2. CASE FetchSubdivisions
    <3>1. PICK c \in countries : offered' = [offered EXCEPT !.subs[c] = SubdivisionsOf(c)]
      BY <2>2 DEF FetchSubdivisions
    <3>2. c \in Countries
      BY DEF AddressInv, StartInv, CountriesOK
    <3>3. /\ SubdivisionsOf(c) \subseteq Subdivisions
          /\ \A s \in SubdivisionsOf(c) : File[First(s)].country = c
      BY <3>2, SubdivisionsFact DEF AddressInv
    <3>4. /\ offered' \in [countries : SUBSET Countries, subs : [Countries -> SUBSET Subdivisions],
                           dists : [Pairs -> SUBSET Districts]]
          /\ offered'.dists = offered.dists
          /\ \A k \in Countries : offered'.subs[k] = IF k = c THEN SubdivisionsOf(c) ELSE offered.subs[k]
      BY <3>1, <3>2, <3>3 DEF AddressInv, OfferedOK
    <3> QED BY <3>3, <3>4 DEF AddressInv, OfferedOK
  <2>3. CASE FetchDistricts
    <3> DEFINE p == <<form.addr.country, form.addr.sub>>
    <3>1. /\ offered' = [offered EXCEPT !.dists[p] = DistrictsOf(form.addr.sub)]
          /\ form.addr.country \in countries /\ form.addr.sub \in SubdivisionsOf(form.addr.country)
      BY <2>3 DEF FetchDistricts
    <3>2. form.addr.country \in Countries
      BY <3>1 DEF AddressInv, StartInv, CountriesOK
    <3>3. form.addr.sub \in Subdivisions
      BY <3>1, <3>2, SubdivisionsFact DEF AddressInv
    <3>4. p \in Pairs /\ p[2] = form.addr.sub
      BY <3>2, <3>3 DEF Pairs
    <3>5. /\ DistrictsOf(form.addr.sub) \subseteq Districts
          /\ \A d \in DistrictsOf(form.addr.sub) : Listed(form.addr.sub, d) > 0
      BY DistrictsFact DEF AddressInv
    <3> HIDE DEF p
    <3>6. /\ offered' \in [countries : SUBSET Countries, subs : [Countries -> SUBSET Subdivisions],
                           dists : [Pairs -> SUBSET Districts]]
          /\ offered'.subs = offered.subs
          /\ \A q \in Pairs : offered'.dists[q] = IF q = p THEN DistrictsOf(form.addr.sub) ELSE offered.dists[q]
      BY <3>1, <3>4, <3>5 DEF AddressInv, OfferedOK
    <3> QED BY <3>4, <3>5, <3>6 DEF AddressInv, OfferedOK
  <2> QED BY <2>1, <2>2, <2>3
<1> QED BY <1>0, <1>1, <1>2 DEF AddressInv

LEMMA FormSteps ==
  ASSUME AddressInv, OpenForm \/ LeaveForm \/ ServeDraft \/ DraftArrives \/ DraftFails,
         UNCHANGED startVars
  PROVE  AddressInv'
<1>0. StartInv'
  BY StartInvStays DEF AddressInv
<1>1. OfferedOK' /\ SavingOK' /\ MerchantOK'
  BY DEF AddressInv, OfferedOK, SavingOK, MerchantOK, OpenForm, LeaveForm, ServeDraft, DraftArrives,
     DraftFails, merchantVars
<1>2. StepOK'
  <2>1. CASE OpenForm
    <3>1. RowOrNil(IF draft = Nil THEN Nil ELSE draft.loc)
      BY DEF AddressInv, StepOK, RowOrNil
    <3>2. RowOK(form')
      BY <2>1, <3>1, EmptyFact, FilledFact DEF OpenForm
    <3>3. fetch' = "served" => fetch = "served"
      BY <2>1 DEF OpenForm, Fetching
    <3> QED BY <2>1, <3>2, <3>3 DEF AddressInv, StepOK, OpenForm, RowOrNil, RowOK
  <2>2. CASE LeaveForm
    BY <2>2 DEF AddressInv, StepOK, LeaveForm, RowOrNil, RowOK
  <2>3. CASE ServeDraft
    <3>1. RowOrNil(answer'.loc)
      <4>1. locations # <<>> => RowOK(locations[1])
        BY DEF AddressInv, MerchantOK
      <4> QED BY <2>3, <4>1 DEF ServeDraft, RowOrNil
    <3> QED BY <2>3, <3>1 DEF AddressInv, StepOK, ServeDraft, RowOrNil, RowOK
  <2>4. CASE DraftArrives
    <3>1. RowOrNil(answer.loc) /\ draft' = answer /\ fetch' = "idle"
      BY <2>4 DEF AddressInv, StepOK, DraftArrives
    <3>2. form' = form \/ (form # Nil /\ form' = Filled(form, answer.loc))
      BY <2>4 DEF DraftArrives
    <3>3. form' # Nil => RowOK(form')
      BY <3>1, <3>2, FilledFact DEF AddressInv, StepOK
    <3> QED BY <3>1, <3>3 DEF StepOK, RowOrNil, RowOK
  <2>5. CASE DraftFails
    BY <2>5 DEF AddressInv, StepOK, DraftFails, RowOrNil, RowOK
  <2> QED BY <2>1, <2>2, <2>3, <2>4, <2>5
<1> QED BY <1>0, <1>1, <1>2 DEF AddressInv

LEMMA ChooseSteps ==
  ASSUME AddressInv, UNCHANGED startVars,
         \/ \E c \in Countries : ChooseCountry(c)
         \/ \E s \in Subdivisions : ChooseSubdivision(s)
         \/ \E d \in Districts : ChooseDistrict(d)
  PROVE  AddressInv'
<1>0. StartInv'
  BY StartInvStays DEF AddressInv
<1>1. UNCHANGED <<offered, draft, fetch, answer, merchantVars>>
  BY DEF ChooseCountry, ChooseSubdivision, ChooseDistrict
<1>2. OfferedOK' /\ SavingOK' /\ MerchantOK'
  BY <1>1 DEF AddressInv, OfferedOK, SavingOK, MerchantOK, merchantVars
<1>3. form # Nil => form \in Row /\ form.addr \in Address /\ (~form.mixed => Coherent(form.addr))
  BY DEF AddressInv, StepOK, RowOK, Row
<1>4. RowOK(form')
  <2>1. ASSUME NEW c \in Countries, ChooseCountry(c) PROVE RowOK(form')
    <3>1. form # Nil /\ form' = [form EXCEPT !.addr = [country |-> c, sub |-> Nil, dist |-> Nil]]
      BY <2>1 DEF ChooseCountry
    <3>2. [country |-> c, sub |-> Nil, dist |-> Nil] \in Address
      BY DEF Address
    <3>3. Coherent([country |-> c, sub |-> Nil, dist |-> Nil])
      BY DEF Coherent
    <3> QED BY <1>3, <3>1, <3>2, <3>3 DEF RowOK, Row
  <2>2. ASSUME NEW s \in Subdivisions, ChooseSubdivision(s) PROVE RowOK(form')
    <3> DEFINE a == [form.addr EXCEPT !.sub = s, !.dist = Nil]
    <3>1. /\ form # Nil /\ form.addr.country # Nil /\ s \in offered.subs[form.addr.country]
          /\ form' = [form EXCEPT !.addr.sub = s, !.addr.dist = Nil]
      BY <2>2 DEF ChooseSubdivision
    <3>2. a \in Address /\ a.country = form.addr.country /\ a.sub = s /\ a.dist = Nil
      BY <1>3, <3>1 DEF Address
    <3>3. form.addr.country \in Countries
      BY <1>3, <3>1 DEF Address
    <3>4. File[First(s)].country = form.addr.country
      BY <3>1, <3>3 DEF AddressInv, OfferedOK
    <3>5. Coherent(a)
      BY <3>2, <3>4 DEF Coherent
    <3>6. form' = [addr |-> a, mixed |-> form.mixed] /\ form.mixed \in BOOLEAN
      BY <1>3, <3>1 DEF Row
    <3> HIDE DEF a
    <3> QED BY <3>2, <3>5, <3>6 DEF RowOK, Row
  <2>3. ASSUME NEW d \in Districts, ChooseDistrict(d) PROVE RowOK(form')
    <3> DEFINE a == [form.addr EXCEPT !.dist = d]
               p == <<form.addr.country, form.addr.sub>>
    <3>1. /\ form # Nil /\ form.addr.country # Nil /\ form.addr.sub # Nil
          /\ d \in offered.dists[p] /\ form' = [form EXCEPT !.addr.dist = d]
      BY <2>3 DEF ChooseDistrict
    <3>2. a \in Address /\ a.country = form.addr.country /\ a.sub = form.addr.sub /\ a.dist = d
      BY <1>3, <3>1 DEF Address
    <3>3. p \in Pairs /\ p[2] = form.addr.sub
      BY <1>3, <3>1 DEF Address, Pairs
    <3>4. Listed(form.addr.sub, d) > 0
      BY <3>1, <3>3 DEF AddressInv, OfferedOK
    <3>5. ~form.mixed => Coherent(a)
      BY <1>3, <3>1, <3>2, <3>4 DEF Coherent
    <3>6. form' = [addr |-> a, mixed |-> form.mixed] /\ form.mixed \in BOOLEAN
      BY <1>3, <3>1 DEF Row
    <3> HIDE DEF a
    <3> QED BY <3>2, <3>5, <3>6 DEF RowOK, Row
  <2> QED BY <2>1, <2>2, <2>3
<1>5. StepOK'
  BY <1>1, <1>4 DEF AddressInv, StepOK, RowOrNil, RowOK
<1> QED BY <1>0, <1>2, <1>5 DEF AddressInv

LEMMA SubmitStep ==
  ASSUME AddressInv, SubmitAddress, UNCHANGED startVars
  PROVE  AddressInv'
<1>0. StartInv'
  BY StartInvStays DEF AddressInv
<1>1. OfferedOK' /\ StepOK' /\ MerchantOK'
  BY DEF AddressInv, OfferedOK, StepOK, RowOrNil, RowOK, MerchantOK, SubmitAddress, formVars
<1>2. SavingOK'
  <2>1. RowOK(form)
    BY DEF AddressInv, StepOK, SubmitAddress
  <2>2. PICK put \in BOOLEAN :
          call' = [pc |-> "sent", put |-> put, lei |-> Nil, addr |-> form.addr, mixed |-> form.mixed]
    BY DEF SubmitAddress
  <2>3. form.addr.country # Nil
    BY DEF SubmitAddress
  <2> QED BY <2>1, <2>2, <2>3 DEF SavingOK, RowOK, Row
<1> QED BY <1>0, <1>1, <1>2 DEF AddressInv

LEMMA RequestSteps ==
  ASSUME AddressInv, LoadMerchant \/ Refused \/ Verified, UNCHANGED startVars
  PROVE  AddressInv'
<1>0. StartInv'
  BY StartInvStays DEF AddressInv
<1>1. OfferedOK' /\ StepOK'
  BY DEF AddressInv, OfferedOK, StepOK, RowOrNil, RowOK, LoadMerchant, Refused, Verified, formVars
<1>2. SavingOK' /\ MerchantOK'
  <2>1. CASE LoadMerchant
    BY <2>1 DEF AddressInv, SavingOK, MerchantOK, RowOK, LoadMerchant
  <2>2. CASE Refused
    BY <2>2 DEF AddressInv, SavingOK, MerchantOK, RowOK, Refused
  <2>3. CASE Verified
    <3>1. call # Nil /\ call.lei \in Leis \cup {Nil}
      BY <2>3 DEF AddressInv, SavingOK, Verified
    <3> QED BY <2>3, <3>1 DEF AddressInv, SavingOK, MerchantOK, RowOK, Verified
  <2> QED BY <2>1, <2>2, <2>3
<1> QED BY <1>0, <1>1, <1>2 DEF AddressInv

LEMMA RowsSaved ==
  ASSUME MerchantOK, NEW row, RowOK(row)
  PROVE  /\ Append(locations, row) \in Seq(Row)
         /\ \A i \in DOMAIN Append(locations, row) : RowOK(Append(locations, row)[i])
         /\ [locations EXCEPT ![1] = row] \in Seq(Row)
         /\ \A i \in DOMAIN [locations EXCEPT ![1] = row] : RowOK([locations EXCEPT ![1] = row][i])
<1>1. locations \in Seq(Row) /\ row \in Row /\ Len(locations) \in Nat
  BY DEF MerchantOK, RowOK
<1>2. /\ Append(locations, row) \in Seq(Row) /\ DOMAIN Append(locations, row) = 1..(Len(locations) + 1)
      /\ \A i \in 1..(Len(locations) + 1) :
           Append(locations, row)[i] = IF i = Len(locations) + 1 THEN row ELSE locations[i]
  BY <1>1
<1>3. \A i \in 1..(Len(locations) + 1) : i # Len(locations) + 1 => i \in DOMAIN locations
  BY <1>1
<1>4. \A i \in DOMAIN Append(locations, row) : RowOK(Append(locations, row)[i])
  BY <1>2, <1>3 DEF MerchantOK
<1>5. [locations EXCEPT ![1] = row] \in Seq(Row)
  <2> DEFINE n == Len(locations)
             t == [locations EXCEPT ![1] = row]
  <2>0. n \in Nat /\ locations \in [1..n -> Row]
    BY <1>1
  <2>1. t \in [1..n -> Row]
    BY <1>1, <2>0
  <2> HIDE DEF n, t
  <2>2. t \in Seq(Row)
    BY <2>0, <2>1
  <2> QED BY <2>2 DEF t
<1>6. \A i \in DOMAIN locations : RowOK([locations EXCEPT ![1] = row][i])
  BY <1>1 DEF MerchantOK
<1> QED BY <1>2, <1>4, <1>5, <1>6

LEMMA SaveStep ==
  ASSUME AddressInv, NEW answered \in BOOLEAN, SaveAddress(answered), UNCHANGED startVars
  PROVE  AddressInv'
<1>0. StartInv'
  BY StartInvStays DEF AddressInv
<1> DEFINE row == [addr |-> call.addr, mixed |-> call.mixed]
<1>1. RowOK(row)
  BY DEF AddressInv, SavingOK, RowOK, Row, SaveAddress
<1>2. locations' = Append(locations, row) \/ locations' = [locations EXCEPT ![1] = row]
  BY DEF SaveAddress
<1> HIDE DEF row
<1>3. MerchantOK'
  <2>1. locations' \in Seq(Row) /\ \A i \in DOMAIN locations' : RowOK(locations'[i])
    BY <1>1, <1>2, RowsSaved DEF AddressInv
  <2> QED BY <2>1 DEF AddressInv, MerchantOK, SaveAddress, RowOK
<1>4. StepOK'
  <2>1. /\ form' \in {Nil, form} /\ (fetch' = "served" => fetch = "served")
        /\ UNCHANGED <<draft, answer>>
    BY DEF SaveAddress, Fetching
  <2> QED BY <2>1 DEF AddressInv, StepOK, RowOrNil, RowOK
<1>5. OfferedOK' /\ SavingOK'
  BY DEF AddressInv, OfferedOK, SavingOK, SaveAddress
<1> QED BY <1>0, <1>3, <1>4, <1>5 DEF AddressInv

LEMMA ElsewhereSteps ==
  ASSUME AddressInv, UNCHANGED startVars,
         (\E a \in Addresses : SaveElsewhere(a)) \/ (\E l \in Leis \cup {Nil} : ChangeLei(l))
  PROVE  AddressInv'
<1>0. StartInv'
  BY StartInvStays DEF AddressInv
<1>1. OfferedOK' /\ StepOK' /\ SavingOK'
  BY DEF AddressInv, OfferedOK, StepOK, RowOrNil, RowOK, SavingOK, SaveElsewhere, ChangeLei, formVars
<1>2. MerchantOK'
  <2>1. ASSUME NEW a \in Addresses, SaveElsewhere(a) PROVE MerchantOK'
    <3> DEFINE row == [addr |-> a, mixed |-> FALSE]
    <3>1. RowOK(row)
      BY DEF RowOK, Row, Addresses
    <3>2. locations' = <<row>> \/ locations' = [locations EXCEPT ![1] = row]
      BY <2>1 DEF SaveElsewhere
    <3> HIDE DEF row
    <3>3. <<row>> \in Seq(Row) /\ \A i \in DOMAIN <<row>> : RowOK(<<row>>[i])
      BY <3>1 DEF RowOK
    <3>4. locations' \in Seq(Row) /\ \A i \in DOMAIN locations' : RowOK(locations'[i])
      BY <3>1, <3>2, <3>3, RowsSaved DEF AddressInv
    <3> QED BY <2>1, <3>4 DEF AddressInv, MerchantOK, SaveElsewhere, RowOK
  <2>2. ASSUME NEW l \in Leis \cup {Nil}, ChangeLei(l) PROVE MerchantOK'
    BY <2>2 DEF AddressInv, MerchantOK, RowOK, ChangeLei
  <2> QED BY <2>1, <2>2
<1> QED BY <1>0, <1>1, <1>2 DEF AddressInv

LEMMA BackendStep ==
  ASSUME AddressInv, Backend
  PROVE  AddressInv'
<1>1. StartInv'
  BY StartInvNext DEF AddressInv, Backend
<1>2. OfferedOK' /\ StepOK' /\ SavingOK' /\ MerchantOK'
  BY DEF AddressInv, OfferedOK, StepOK, RowOrNil, RowOK, SavingOK, MerchantOK, Backend, formVars
<1> QED BY <1>1, <1>2 DEF AddressInv

LEMMA AddressStays ==
  ASSUME AddressInv, UNCHANGED addressVars
  PROVE  AddressInv'
<1>1. StartInv'
  BY StartInvStays DEF AddressInv, addressVars
<1>2. OfferedOK' /\ StepOK' /\ SavingOK' /\ MerchantOK'
  BY DEF AddressInv, OfferedOK, StepOK, RowOrNil, RowOK, SavingOK, MerchantOK, addressVars, formVars,
     merchantVars
<1> QED BY <1>1, <1>2 DEF AddressInv

LEMMA AddressInvInit == AddressInit => AddressInv
<1> SUFFICES ASSUME AddressInit PROVE AddressInv
  OBVIOUS
<1>1. StartInv
  BY StartInvInit DEF AddressInit
<1>2. OfferedOK
  BY DEF AddressInit, OfferedOK
<1>3. StepOK /\ SavingOK /\ MerchantOK
  <2>1. <<>> \in Seq(Row) /\ DOMAIN <<>> = {}
    OBVIOUS
  <2> QED BY <2>1 DEF AddressInit, StepOK, SavingOK, MerchantOK
<1> QED BY <1>1, <1>2, <1>3 DEF AddressInv

LEMMA AddressInvNext == AddressInv /\ [AddressNext]_addressVars => AddressInv'
<1> SUFFICES ASSUME AddressInv, [AddressNext]_addressVars PROVE AddressInv'
  OBVIOUS
<1>1. CASE Backend
  BY <1>1, BackendStep
<1>2. CASE Form /\ UNCHANGED startVars
  BY <1>2, FetchSteps, FormSteps, ChooseSteps, SubmitStep DEF Form
<1>3. CASE Requests /\ UNCHANGED startVars
  BY <1>3, RequestSteps, SaveStep, ElsewhereSteps DEF Requests
<1>4. CASE UNCHANGED addressVars
  BY <1>4, AddressStays
<1> QED BY <1>1, <1>2, <1>3, <1>4 DEF AddressNext

LEMMA AddressInvariant == AddressSpec => []AddressInv
<1>1. AddressInv /\ [AddressNext]_addressVars => AddressInv'
  BY AddressInvNext
<1> QED BY <1>1, AddressInvInit, PTL DEF AddressSpec

(* However starts are cut off by failing queries and stops of the process, one *)
(* that finishes leaves every row the backend ships with, once.              *)
THEOREM SeededAlwaysComplete == AddressSpec => []SeededIsComplete
<1>1. AddressInv => SeededIsComplete
  BY StartedIsComplete DEF AddressInv
<1> QED BY <1>1, AddressInvariant, PTL

(* A stored address is one that countries.json holds together, whatever is     *)
(* seeded while the form offers it, unless a draft filled in around it.        *)
THEOREM StoredAlwaysCoherent == AddressSpec => []StoredIsCoherent
<1>1. AddressInv => StoredIsCoherent
  BY DEF AddressInv, MerchantOK, RowOK, StoredIsCoherent, Range
<1> QED BY <1>1, AddressInvariant, PTL

-----------------------------------------------------------------------------
(* The LEI.  A request is about the LEI it loaded: it is still the merchant's  *)
(* when the row is saved, unless the LEI was changed meanwhile, and what was   *)
(* verified agrees with it.                                                  *)
AgreeInv ==
  /\ call # Nil /\ call.pc = "verified" /\ call.lei # Nil => Agrees(call.addr, call.lei)
  /\ ~relabelled =>
       /\ call # Nil /\ call.pc # "sent" => call.lei = lei
       /\ lei # Nil => \A i \in DOMAIN locations : Agrees(locations[i].addr, lei)

LEMMA MatchAgrees ==
  ASSUME TablesAgree, NEW a \in Address, a.country # Nil, NEW l \in Leis, ValidLocation(a, l)
  PROVE  Agrees(a, l)
<1>1. PICK rest \in BOOLEAN : Matches(a, l, rest)
  BY DEF ValidLocation
<1>2. a.country \in Countries /\ a.sub \in Subdivisions \cup {Nil}
  BY DEF Address
<1>3. CodeOf[a.country] = Record[l].country
  BY <1>1, <1>2 DEF Matches, LegalAddress, TablesAgree
<1>4. ASSUME a.sub # Nil, Record[l].region # Nil
      PROVE  NameToCode(a.sub, Record[l].country) = Record[l].region
  BY <1>1, <1>2, <1>4 DEF Matches, LegalAddress, TablesAgree
<1> QED BY <1>3, <1>4 DEF Agrees

LEMMA AgreeInit == AddressInit => AgreeInv
<1>1. DOMAIN <<>> = {}
  OBVIOUS
<1> QED BY <1>1 DEF AddressInit, AgreeInv

LEMMA AgreeStays ==
  ASSUME AgreeInv, call' \in {Nil, call}, UNCHANGED <<locations, lei, relabelled>>
  PROVE  AgreeInv'
BY DEF AgreeInv, Agrees

LEMMA AgreeSaved ==
  ASSUME AddressInv, AgreeInv, NEW answered \in BOOLEAN, SaveAddress(answered)
  PROVE  AgreeInv'
<1> DEFINE row == [addr |-> call.addr, mixed |-> call.mixed]
<1>1. /\ call' = Nil /\ UNCHANGED <<lei, relabelled>>
      /\ locations' = Append(locations, row) \/ locations' = [locations EXCEPT ![1] = row]
  BY DEF SaveAddress
<1>2. ~relabelled /\ lei # Nil => Agrees(row.addr, lei)
  BY DEF AgreeInv, SaveAddress
<1>3. locations \in Seq(Row)
  BY DEF AddressInv, MerchantOK
<1>4. call.addr \in Address /\ call.mixed \in BOOLEAN
  BY DEF AddressInv, SavingOK, SaveAddress
<1>5. row \in Row
  BY <1>4 DEF Row
<1> HIDE DEF row
<1>6. \A i \in DOMAIN locations' : locations'[i] = row \/ (i \in DOMAIN locations /\ locations'[i] = locations[i])
  <2>1. CASE locations' = Append(locations, row)
    BY <1>3, <1>5, <2>1
  <2>2. CASE locations' = [locations EXCEPT ![1] = row]
    BY <2>2
  <2> QED BY <1>1, <2>1, <2>2
<1>7. ~relabelled /\ lei # Nil => \A i \in DOMAIN locations' : Agrees(locations'[i].addr, lei)
  BY <1>2, <1>6 DEF AgreeInv
<1> QED BY <1>1, <1>7 DEF AgreeInv, Agrees

LEMMA AgreeNext ==
  ASSUME TablesAgree, AddressInv, AgreeInv, [AddressNext]_addressVars
  PROVE  AgreeInv'
<1>1. CASE Backend \/ Refused \/ UNCHANGED addressVars
  BY <1>1, AgreeStays DEF Backend, Refused, addressVars, merchantVars
<1>2. CASE \/ FetchCountries \/ FetchSubdivisions \/ FetchDistricts
           \/ OpenForm \/ LeaveForm \/ ServeDraft \/ DraftArrives \/ DraftFails
           \/ \E c \in Countries : ChooseCountry(c)
           \/ \E s \in Subdivisions : ChooseSubdivision(s)
           \/ \E d \in Districts : ChooseDistrict(d)
  <2>1. UNCHANGED merchantVars
    BY <1>2 DEF FetchCountries, FetchSubdivisions, FetchDistricts, OpenForm, LeaveForm, ServeDraft,
       DraftArrives, DraftFails, ChooseCountry, ChooseSubdivision, ChooseDistrict
  <2> QED BY <2>1, AgreeStays DEF merchantVars
<1>3. CASE SubmitAddress
  <2>1. call'.pc = "sent" /\ UNCHANGED <<locations, lei, relabelled>>
    BY <1>3 DEF SubmitAddress
  <2> QED BY <2>1 DEF AgreeInv, Agrees
<1>4. CASE LoadMerchant
  <2>1. call'.pc = "loaded" /\ call'.lei = lei /\ UNCHANGED <<locations, lei, relabelled>>
    BY <1>4 DEF LoadMerchant, AddressInv, SavingOK
  <2> QED BY <2>1 DEF AgreeInv, Agrees
<1>5. CASE Verified
  <2>1. /\ call # Nil /\ call.pc = "loaded" /\ call'.pc = "verified" /\ call'.lei = call.lei
        /\ call'.addr = call.addr /\ call.addr \in Address /\ call.addr.country # Nil /\ call.lei \in Leis \cup {Nil}
        /\ UNCHANGED <<locations, relabelled>> /\ lei' \in {call.lei, lei}
    BY <1>5 DEF Verified, AddressInv, SavingOK
  <2>2. call.lei # Nil => Agrees(call.addr, call.lei)
    BY <1>5, <2>1, MatchAgrees DEF Verified
  <2>3. ~relabelled => lei' = lei /\ call.lei = lei
    BY <2>1 DEF AgreeInv
  <2> QED BY <2>1, <2>2, <2>3 DEF AgreeInv, Agrees
<1>6. CASE \E answered \in BOOLEAN : SaveAddress(answered)
  BY <1>6, AgreeSaved
<1>7. ASSUME NEW a \in Addresses, SaveElsewhere(a) PROVE AgreeInv'
  <2>1. a \in Address /\ a.country # Nil /\ lei \in Leis \cup {Nil}
    BY DEF Addresses, AddressInv, MerchantOK
  <2>2. lei # Nil => Agrees(a, lei)
    BY <1>7, <2>1, MatchAgrees DEF SaveElsewhere
  <2>3. \A i \in DOMAIN locations' : locations'[i].addr = a
                                    \/ (i \in DOMAIN locations /\ locations'[i] = locations[i])
    BY <1>7 DEF SaveElsewhere
  <2> QED BY <1>7, <2>2, <2>3 DEF AgreeInv, Agrees, SaveElsewhere
<1>8. ASSUME NEW l \in Leis \cup {Nil}, ChangeLei(l) PROVE AgreeInv'
  <2>1. UNCHANGED <<call, locations>>
    BY <1>8 DEF ChangeLei
  <2>2. ~relabelled' => locations = <<>> /\ call = Nil
    BY <1>8 DEF ChangeLei
  <2>3. DOMAIN <<>> = {}
    OBVIOUS
  <2> QED BY <2>1, <2>2, <2>3 DEF AgreeInv, Agrees
<1> QED BY <1>1, <1>2, <1>3, <1>4, <1>5, <1>6, <1>7, <1>8 DEF AddressNext, Form, Requests

(* Where the tables agree, a location agrees with the record of the          *)
(* merchant's LEI, unless the LEI was changed when there was a location       *)
(* already, or one on its way (validateLocation).                            *)
THEOREM LocationsAlwaysAgree == TablesAgree /\ AddressSpec => []LocationsAgree
<1>1. AgreeInv => LocationsAgree
  BY DEF AgreeInv, LocationsAgree, Range
<1>2. TablesAgree /\ AddressInv /\ AgreeInv /\ [AddressNext]_addressVars => AgreeInv'
  BY AgreeNext
<1>3. SUFFICES ASSUME TablesAgree PROVE AddressSpec => []LocationsAgree
  OBVIOUS
<1> QED BY <1>1, <1>2, <1>3, AgreeInit, AddressInvariant, PTL DEF AddressSpec
=============================================================================
