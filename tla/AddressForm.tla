---------------------------- MODULE AddressForm ----------------------------
(***************************************************************************)
(* The address of a merchant's location, from the place tables to the       *)
(* check against its LEI record: the step of the registration form that    *)
(* offers countries, subdivisions and districts, the requests that save it, *)
(* and the comparison with GLEIF's record when the merchant has an LEI.     *)
(* The backend may be seeding the tables, or stop, meanwhile; other users   *)
(* save the merchant's location and change its LEI.                         *)
(***************************************************************************)
EXTENDS StartUp

CONSTANTS
  Nil,
  Leis, Record,      \* [country, region] of the legal address of each LEI
  CodeOf,            \* code of each country of the file
  NameOf,            \* COUNTRY_CODE_MAP: name of each code
  RestNames,         \* names of each code at REST Countries
  IsoCode,           \* region of each <<code, name>> that iso-3166-2 lists
  Clean(_),          \* a name without the words and signs comparisons skip
  Contains(_, _),    \* one of two names is most of the other
  MaxElsewhere, MaxLocations

VARIABLES
  form,       \* the step as mounted: its address, and whether a draft filled in
              \* around what it held; or Nil
  offered,    \* cache of lists: countries, and by country, and by subdivision
  draft,      \* cache of the merchant: its first location, or Nil
  fetch, answer,  \* the fetch of the merchant: idle, sent or served, and its data
  call,       \* the request that saves the address, or Nil
  locations,  \* table merchant_locations: the merchant's, first to last
  lei,        \* of the merchant
  elsewhere,  \* changes by other users
  relabelled  \* history: the LEI changed when there was a location

formVars == <<form, offered, draft, fetch, answer>>
merchantVars == <<call, locations, lei, elsewhere, relabelled>>
addressVars == <<startVars, formVars, merchantVars>>

Countries == {e.country : e \in Range(File)}
Subdivisions == {e.sub : e \in Range(File)}
Pairs == Countries \X Subdivisions

Districts == UNION {e.districts : e \in Range(File)}
Address == [country : Countries \cup {Nil}, sub : Subdivisions \cup {Nil},
            dist : Districts \cup {Nil}]
Empty == [country |-> Nil, sub |-> Nil, dist |-> Nil]

-----------------------------------------------------------------------------
(* The lists the backend answers with.                                      *)
SubdivisionsOf(c) == {r[1] : r \in {q \in subdivisions : q[2] = c}}
DistrictsOf(s) == {d[2] : d \in {e \in DOMAIN districts : e[1] = s /\ districts[e] > 0}}

FetchCountries ==
  /\ connected /\ form # Nil
  /\ offered' = [offered EXCEPT !.countries = countries]
  /\ UNCHANGED <<form, draft, fetch, answer, merchantVars>>

FetchSubdivisions ==
  /\ connected /\ form # Nil
  /\ LET c == form.addr.country IN
     /\ c \in countries
     /\ offered' = [offered EXCEPT !.subs[c] = SubdivisionsOf(c)]
  /\ UNCHANGED <<form, draft, fetch, answer, merchantVars>>

FetchDistricts ==
  /\ connected /\ form # Nil
  /\ LET c == form.addr.country
         s == form.addr.sub IN
     /\ c \in countries /\ s \in SubdivisionsOf(c)
     /\ offered' = [offered EXCEPT !.dists[<<c, s>>] = DistrictsOf(s)]
  /\ UNCHANGED <<form, draft, fetch, answer, merchantVars>>

-----------------------------------------------------------------------------
(* The form.                                                                *)
(* Fields the draft leaves empty keep what the form held.                   *)
Filled(f, row) ==
  IF row = Nil THEN f
  ELSE LET Over(x, y) == IF x # Nil THEN x ELSE y
           v == [country |-> Over(row.addr.country, f.addr.country),
                 sub |-> Over(row.addr.sub, f.addr.sub), dist |-> Over(row.addr.dist, f.addr.dist)]
       IN [addr |-> v, mixed |-> row.mixed \/ v # row.addr]

Fetching == IF fetch = "idle" THEN "sent" ELSE fetch

OpenForm ==
  /\ form = Nil /\ call = Nil
  /\ form' = Filled([addr |-> Empty, mixed |-> FALSE],
                    IF draft = Nil THEN Nil ELSE draft.loc)
  /\ fetch' = Fetching
  /\ UNCHANGED <<offered, draft, answer, merchantVars>>

(* Back, or another page.                                                   *)
LeaveForm ==
  /\ form # Nil /\ call = Nil
  /\ form' = Nil
  /\ UNCHANGED <<offered, draft, fetch, answer, merchantVars>>

ServeDraft ==
  /\ connected /\ fetch = "sent"
  /\ fetch' = "served"
  /\ answer' = [loc |-> IF locations = <<>> THEN Nil ELSE locations[1]]
  /\ UNCHANGED <<form, offered, draft, merchantVars>>

(* The effect runs when the data is not what the cache held: the location,  *)
(* or another part of the merchant.                                         *)
DraftArrives ==
  /\ fetch = "served"
  /\ fetch' = "idle" /\ draft' = answer /\ answer' = Nil
  /\ \E changed \in BOOLEAN :
       /\ draft # answer => changed
       /\ form' = IF form = Nil \/ ~changed THEN form ELSE Filled(form, answer.loc)
  /\ UNCHANGED <<offered, merchantVars>>

DraftFails ==
  /\ fetch # "idle"
  /\ fetch' = "idle" /\ answer' = Nil
  /\ UNCHANGED <<form, offered, draft, merchantVars>>

(* Faulty: the fields below keep their values.                              *)
FaultyChooseCountry(c) ==
  /\ form # Nil /\ call = Nil
  /\ c \in offered.countries /\ c # form.addr.country
  /\ form' = [form EXCEPT !.addr.country = c]
  /\ UNCHANGED <<offered, draft, fetch, answer, merchantVars>>
ChooseCountry(c) ==
  /\ form # Nil /\ call = Nil
  /\ c \in offered.countries /\ c # form.addr.country
  /\ form' = [form EXCEPT !.addr = [country |-> c, sub |-> Nil, dist |-> Nil]]
  /\ UNCHANGED <<offered, draft, fetch, answer, merchantVars>>

ChooseSubdivision(s) ==
  /\ form # Nil /\ call = Nil
  /\ form.addr.country # Nil
  /\ s \in offered.subs[form.addr.country] /\ s # form.addr.sub
  /\ form' = [form EXCEPT !.addr.sub = s, !.addr.dist = Nil]
  /\ UNCHANGED <<offered, draft, fetch, answer, merchantVars>>

ChooseDistrict(d) ==
  /\ form # Nil /\ call = Nil
  /\ form.addr.country # Nil /\ form.addr.sub # Nil
  /\ d \in offered.dists[<<form.addr.country, form.addr.sub>>] /\ d # form.addr.dist
  /\ form' = [form EXCEPT !.addr.dist = d]
  /\ UNCHANGED <<offered, draft, fetch, answer, merchantVars>>

(* The spinner covers the form while the draft is fetched.                  *)
SubmitAddress ==
  /\ form # Nil /\ call = Nil /\ fetch = "idle"
  /\ form.addr.country # Nil
  /\ LET put == draft # Nil /\ draft.loc # Nil IN
     /\ ~put => Len(locations) < MaxLocations
     /\ call' = [pc |-> "sent", put |-> put, lei |-> Nil,
                 addr |-> form.addr, mixed |-> form.mixed]
  /\ UNCHANGED <<formVars, locations, lei, elsewhere, relabelled>>

-----------------------------------------------------------------------------
(* The comparison with GLEIF's record, of the fields the form offers lists   *)
(* for; `rest' says whether REST Countries answers.                         *)
ConvertCountryCodeToName(code) == IF code \in DOMAIN NameOf THEN NameOf[code] ELSE code

FetchCountryInfo(code, rest) == IF rest /\ code \in DOMAIN RestNames THEN RestNames[code] ELSE {}

CompareCountries(name, code, rest) ==
  name = ConvertCountryCodeToName(code) \/ name \in FetchCountryInfo(code, rest)

NameToCode(name, code) == IF <<code, name>> \in DOMAIN IsoCode THEN IsoCode[<<code, name>>] ELSE Nil

ReadAlike(name, region) ==
  Clean(name) = Clean(region) \/ Contains(Clean(name), Clean(region))

CompareSubdivisions(name, region, code) ==
  LET iso == NameToCode(name, code) IN
  \/ name = region
  \/ iso # Nil /\ iso = region
  \/ iso = Nil /\ ReadAlike(name, region)

LegalAddress(l) == Record[l]

(* Faulty: the subdivision is not compared.                                 *)
FaultyMatches(addr, l, rest) == CompareCountries(addr.country, LegalAddress(l).country, rest)
Matches(addr, l, rest) ==
  LET record == LegalAddress(l) IN
  /\ addr.sub # Nil /\ record.region # Nil
       => CompareSubdivisions(addr.sub, record.region, record.country)
  /\ CompareCountries(addr.country, record.country, rest)

ValidLocation(addr, l) == \E rest \in BOOLEAN : Matches(addr, l, rest)

LoadMerchant ==
  /\ connected /\ call # Nil /\ call.pc = "sent"
  /\ call' = [call EXCEPT !.pc = "loaded", !.lei = lei]
  /\ UNCHANGED <<formVars, locations, lei, elsewhere, relabelled>>

Refused ==
  /\ connected /\ call # Nil /\ call.pc = "loaded" /\ call.lei # Nil
  /\ call' = Nil     \* GLEIF does not answer, or the address differs
  /\ UNCHANGED <<formVars, locations, lei, elsewhere, relabelled>>

(* postMerchantLocation saves the merchant as it was loaded.                *)
Verified ==
  /\ connected /\ call # Nil /\ call.pc = "loaded"
  /\ call.lei # Nil => ValidLocation(call.addr, call.lei)
  /\ call' = [call EXCEPT !.pc = "verified"]
  /\ lei' = IF call.lei # Nil /\ ~call.put THEN call.lei ELSE lei
  /\ UNCHANGED <<formVars, locations, elsewhere, relabelled>>

(* After the answer the next step mounts and fetches the merchant anew.     *)
SaveAddress(answered) ==
  /\ connected /\ call # Nil /\ call.pc = "verified"
  /\ LET row == [addr |-> call.addr, mixed |-> call.mixed] IN
     locations' = IF call.put THEN [locations EXCEPT ![1] = row] ELSE Append(locations, row)
  /\ call' = Nil
  /\ IF answered THEN form' = Nil /\ fetch' = Fetching ELSE UNCHANGED <<form, fetch>>
  /\ UNCHANGED <<offered, draft, answer, lei, elsewhere, relabelled>>

-----------------------------------------------------------------------------
(* What belongs together, by the file: a subdivision belongs to the first   *)
(* country that lists one of its name.                                      *)
First(s) == CHOOSE i \in DOMAIN File : File[i].sub = s
                                       /\ \A j \in 1..(i - 1) : File[j].sub # s
Coherent(a) ==
  /\ a.sub # Nil => a.country = File[First(a.sub)].country
  /\ a.dist # Nil => a.sub # Nil /\ Listed(a.sub, a.dist) > 0

Addresses == {a \in Address : a.country # Nil /\ Coherent(a)}

(* Another user saves the first location, or the business step.             *)
SaveElsewhere(a) ==
  /\ connected /\ elsewhere < MaxElsewhere
  /\ lei # Nil => ValidLocation(a, lei)
  /\ locations' = IF locations = <<>> THEN <<[addr |-> a, mixed |-> FALSE]>>
               ELSE [locations EXCEPT ![1] = [addr |-> a, mixed |-> FALSE]]
  /\ elsewhere' = elsewhere + 1
  /\ UNCHANGED <<formVars, call, lei, relabelled>>

ChangeLei(l) ==
  /\ connected /\ elsewhere < MaxElsewhere
  /\ l # lei /\ lei' = l
  /\ elsewhere' = elsewhere + 1
  /\ relabelled' = (relabelled \/ locations # <<>> \/ call # Nil)
  /\ UNCHANGED <<formVars, call, locations>>

-----------------------------------------------------------------------------
AddressInit ==
  /\ StartUpInit
  /\ form = Nil /\ draft = Nil /\ fetch = "idle" /\ answer = Nil
  /\ offered = [countries |-> {}, subs |-> [c \in Countries |-> {}],
                dists |-> [p \in Pairs |-> {}]]
  /\ call = Nil /\ locations = <<>> /\ lei \in Leis \cup {Nil}
  /\ elsewhere = 0 /\ relabelled = FALSE

(* A request dies with the process.                                         *)
Backend == StartUpNext /\ call' = (IF run' = "down" THEN Nil ELSE call)
           /\ UNCHANGED <<formVars, locations, lei, elsewhere, relabelled>>

Form == \/ FetchCountries \/ FetchSubdivisions \/ FetchDistricts
        \/ OpenForm \/ LeaveForm \/ ServeDraft \/ DraftArrives \/ DraftFails
        \/ \E c \in Countries : ChooseCountry(c)
        \/ \E s \in Subdivisions : ChooseSubdivision(s)
        \/ \E d \in Districts : ChooseDistrict(d)
        \/ SubmitAddress
Requests == \/ LoadMerchant \/ Refused \/ Verified \/ \E answered \in BOOLEAN : SaveAddress(answered)
            \/ \E a \in Addresses : SaveElsewhere(a)
            \/ \E l \in Leis \cup {Nil} : ChangeLei(l)

(* The address of a location is one the file holds together, unless a draft *)
(* that arrived late filled in around what the form held.                   *)
StoredIsCoherent == \A l \in Range(locations) : ~l.mixed => Coherent(l.addr)

(* A location agrees with the record of the merchant's LEI, unless the LEI   *)
(* was changed when there was a location already, or one on its way.        *)
Agrees(a, l) ==
  /\ CodeOf[a.country] = Record[l].country
  /\ a.sub # Nil /\ Record[l].region # Nil
       => NameToCode(a.sub, CodeOf[a.country]) = Record[l].region
LocationsAgree ==
  lei # Nil /\ ~relabelled => \A l \in Range(locations) : Agrees(l.addr, lei)

(* What LocationsAgree asks of the tables: names are taken for equal to that *)
(* of a record's country, or to its region, only if they are names of it.   *)
(* (Subdivisions that iso-3166-2 does not list are compared by their words.)*)
TablesAgree ==
  \A l \in Leis :
    /\ \A c \in Countries, rest \in BOOLEAN :
         CompareCountries(c, Record[l].country, rest) => CodeOf[c] = Record[l].country
    /\ Record[l].region # Nil =>
         \A s \in Subdivisions : CompareSubdivisions(s, Record[l].region, Record[l].country)
                                 => NameToCode(s, Record[l].country) = Record[l].region

AddressNext == Backend \/ ((Form \/ Requests) /\ UNCHANGED startVars)
AddressSpec == AddressInit /\ [][AddressNext]_addressVars
=============================================================================
