------------------------------ MODULE StartUp ------------------------------
(***************************************************************************)
(* The acquirer backend from app.listen to a seeded database.  The process *)
(* answers requests from the start; meanwhile it connects, writes the       *)
(* tables of codes, the DFSPs, permissions, roles and users it ships with,  *)
(* and reads countries.json into countries, subdivisions and districts.     *)
(* Each row is looked up and then inserted, with no transaction around the *)
(* whole: a query may fail and the process may stop between any two rows.   *)
(*                                                                         *)
(* tryInitializeDatabase calls initializeDatabase again three seconds after *)
(* a failure.  TypeORM refuses to initialize a DataSource that is connected *)
(* already, so only a failure to connect is made good by it.                *)
(***************************************************************************)
EXTENDS Naturals, Sequences, FiniteSets, Functions

CONSTANTS
  Categories,            \* merchant categories, saved at once
  Currencies, Dfsps, Permissions, \* sequences of rows saved one by one
  Users,                 \* and of users, if any are asked for (SEED_DEFAULT_..._USERS)
  Roles, Granted,        \* sequence of roles, and the permissions of each
  RoleOf,                \* the role of each default user
  AdminRole,             \* the role of the hub super admin
  Backlog,               \* merchants approved by releases that left them Pending
  File,                  \* countries.json: <<[country, sub, districts], ...>>
  MaxCrashes, MaxFailures

(* Rows the backend ships with: a list, and not an empty one.                *)
Ships(rows) == rows \in Seq(Range(rows)) /\ rows # <<>>

ASSUME StartUpAssumption ==
  /\ Ships(Currencies) /\ Ships(Dfsps) /\ Ships(Permissions)
  /\ Ships(Roles) /\ Ships(File) /\ Users \in Seq(Range(Users))
  /\ \A r \in Range(Roles) : Granted[r] \subseteq Range(Permissions)
  /\ \A u \in Range(Users) : RoleOf[u] \in Range(Roles)
  /\ AdminRole \in Range(Roles)
  /\ MaxCrashes \in Nat /\ MaxFailures \in Nat

VARIABLES
  run,         \* down, connect, seed, failed or ready
  connected,   \* AppDataSource.isInitialized
  stage, at,   \* where initializeDatabase is
  found,       \* permissions that seedDefaultRoles found
  categories, currencies, dfsps, permissions, users,   \* rows of the tables
  roles,       \* table portal_roles: permissions of each role
  pending,     \* merchants that are approved and not allowed yet
  onboarding,  \* table application_state: none, open or complete
  admin,       \* the hub super admin: none, active or blocked
  countries,   \* table countries
  subdivisions,  \* table country_subdivisions: <<name, country>>
  districts,   \* table districts: rows of each <<subdivision, name>>
  crashes, failures

codes == <<categories, currencies, dfsps, permissions, users, roles, pending>>
hub == <<onboarding, admin>>
places == <<countries, subdivisions, districts>>
process == <<run, connected, stage, at, found>>
startVars == <<process, codes, hub, places, crashes, failures>>

-----------------------------------------------------------------------------
Stages == <<"categories", "currencies", "dfsps", "permissions", "find", "roles",
            "backfill", "users", "state", "admin", "clear", "places">>

(* How many steps a stage takes.  An entry of the file takes three: its     *)
(* country, its subdivision and its districts.                              *)
Steps(s) == CASE s = "currencies"  -> Len(Currencies)
              [] s = "dfsps"       -> Len(Dfsps)
              [] s = "permissions" -> Len(Permissions)
              [] s = "roles"       -> Len(Roles)
              [] s = "users"       -> IF Users = <<>> THEN 1 ELSE Len(Users)
              [] s = "places"      -> 3 * Len(File)
              [] OTHER             -> 1

Entry(i) == File[(i + 2) \div 3]
DistrictNames == {<<e.sub, d>> : e \in Range(File), d \in UNION {e.districts : e \in Range(File)}}

StartUpInit ==
  /\ run = "down" /\ connected = FALSE /\ stage = 1 /\ at = 1 /\ found = {}
  /\ categories = {} /\ currencies = {} /\ dfsps = {} /\ permissions = {} /\ users = {}
  /\ roles = << >> /\ pending = Backlog
  /\ onboarding = "none" /\ admin = "none"
  /\ countries = {} /\ subdivisions = {} /\ districts = [d \in DistrictNames |-> 0]
  /\ crashes = 0 /\ failures = 0

-----------------------------------------------------------------------------
In(s) == run = "seed" /\ Stages[stage] = s

NextStage ==
  /\ IF stage < Len(Stages) THEN stage' = stage + 1 /\ run' = run
                            ELSE stage' = stage /\ run' = "ready"
  /\ at' = 1
  /\ UNCHANGED connected

(* A step of a stage is done.                                               *)
Advance ==
  IF at < Steps(Stages[stage])
  THEN at' = at + 1 /\ UNCHANGED <<run, connected, stage>>
  ELSE NextStage

SeedCategoryCode ==
  /\ In("categories") /\ Advance
  /\ categories' = categories \cup Categories
  /\ UNCHANGED <<found, currencies, dfsps, permissions, users, roles, pending, hub, places>>

(* The count is taken once, before the loop.                                *)
SeedCurrency ==
  /\ In("currencies")
  /\ IF at = 1 /\ Cardinality(currencies) >= Len(Currencies)
     THEN NextStage /\ UNCHANGED currencies
     ELSE Advance /\ currencies' = currencies \cup {Currencies[at]}
  /\ UNCHANGED <<found, categories, dfsps, permissions, users, roles, pending, hub, places>>

SeedDFSP ==
  /\ In("dfsps") /\ Advance
  /\ dfsps' = dfsps \cup {Dfsps[at]}
  /\ UNCHANGED <<found, categories, currencies, permissions, users, roles, pending, hub, places>>

SeedPermission ==
  /\ In("permissions") /\ Advance
  /\ permissions' = permissions \cup {Permissions[at]}
  /\ UNCHANGED <<found, categories, currencies, dfsps, users, roles, pending, hub, places>>

FindPermissions ==
  /\ In("find") /\ Advance
  /\ found' = permissions
  /\ UNCHANGED <<codes, hub, places>>

SeedRole ==
  /\ In("roles") /\ Advance
  /\ roles' = IF Roles[at] \in DOMAIN roles THEN roles
              ELSE [r \in DOMAIN roles \cup {Roles[at]} |->
                      IF r = Roles[at] THEN Granted[r] \cap found ELSE roles[r]]
  /\ UNCHANGED <<found, categories, currencies, dfsps, permissions, users, pending, hub, places>>

Backfill ==
  /\ In("backfill") /\ Advance
  /\ pending' = {}
  /\ UNCHANGED <<found, categories, currencies, dfsps, permissions, users, roles, hub, places>>

SeedUser ==
  /\ In("users") /\ Advance
  /\ Users # <<>> => Users[at] \in users \/ RoleOf[Users[at]] \in DOMAIN roles
  /\ users' = users \cup (IF Users = <<>> THEN {} ELSE {Users[at]})
  /\ UNCHANGED <<found, categories, currencies, dfsps, permissions, roles, pending, hub, places>>

SeedState ==
  /\ In("state") /\ Advance
  /\ onboarding' = IF onboarding = "none" THEN "open" ELSE onboarding
  /\ UNCHANGED <<found, codes, admin, places>>

SeedAdmin ==
  /\ In("admin") /\ Advance
  /\ admin' = IF onboarding = "open" /\ admin = "none" /\ AdminRole \in DOMAIN roles
              THEN "active" ELSE admin
  /\ UNCHANGED <<found, codes, onboarding, places>>

(* Faulty: the districts of the last start are kept.                        *)
FaultyClearDistricts ==
  /\ In("clear") /\ Advance
  /\ UNCHANGED <<found, codes, hub, places>>
ClearDistricts ==
  /\ In("clear") /\ Advance
  /\ districts' = [d \in DOMAIN districts |-> 0]
  /\ UNCHANGED <<found, codes, hub, countries, subdivisions>>

SeedCountry ==
  /\ In("places") /\ at % 3 = 1 /\ Advance
  /\ countries' = countries \cup {Entry(at).country}
  /\ UNCHANGED <<found, codes, hub, subdivisions, districts>>

(* The subdivision is looked up by its name alone.                          *)
SeedSubdivision ==
  /\ In("places") /\ at % 3 = 2 /\ Advance
  /\ subdivisions' = IF \E r \in subdivisions : r[1] = Entry(at).sub THEN subdivisions
                     ELSE subdivisions \cup {<<Entry(at).sub, Entry(at).country>>}
  /\ UNCHANGED <<found, codes, hub, countries, districts>>

SeedDistricts ==
  /\ In("places") /\ at % 3 = 0 /\ Advance
  /\ districts' = [d \in DOMAIN districts |->
                     IF d[1] = Entry(at).sub /\ d[2] \in Entry(at).districts
                     THEN districts[d] + 1 ELSE districts[d]]
  /\ UNCHANGED <<found, codes, hub, countries, subdivisions>>

Seed == SeedCategoryCode \/ SeedCurrency \/ SeedDFSP \/ SeedPermission \/ FindPermissions
        \/ SeedRole \/ Backfill \/ SeedUser \/ SeedState \/ SeedAdmin
        \/ ClearDistricts \/ SeedCountry \/ SeedSubdivision \/ SeedDistricts

-----------------------------------------------------------------------------
Start ==
  /\ run = "down"
  /\ run' = "connect"
  /\ UNCHANGED <<connected, stage, at, found>>

Connect ==
  /\ run = "connect" /\ ~connected
  /\ run' = "seed" /\ connected' = TRUE /\ stage' = 1 /\ at' = 1
  /\ UNCHANGED found

(* initialize() throws on a DataSource that is connected already.           *)
Refuse ==
  /\ run = "connect" /\ connected
  /\ run' = "failed"
  /\ UNCHANGED <<connected, stage, at, found>>

Retry ==
  /\ run = "failed"
  /\ run' = "connect"
  /\ UNCHANGED <<connected, stage, at, found>>

Fail ==
  /\ failures < MaxFailures
  /\ run = "seed" \/ (run = "connect" /\ ~connected)
  /\ run' = "failed" /\ failures' = failures + 1
  /\ UNCHANGED <<connected, stage, at, found>>

Crash ==
  /\ crashes < MaxCrashes
  /\ run # "down"
  /\ run' = "down" /\ connected' = FALSE /\ stage' = 1 /\ at' = 1 /\ found' = {}
  /\ crashes' = crashes + 1

(* The third hub admin follows the link of his invitation.                  *)
CompleteOnboarding ==
  /\ connected /\ onboarding = "open" /\ admin # "none"
  /\ admin' = "blocked"
  /\ onboarding' \in {"open", "complete"}     \* the process stops between the two
  /\ UNCHANGED <<process, codes, places>>

StartUpNext ==
  \/ Seed /\ UNCHANGED <<crashes, failures>>
  \/ (Start \/ Connect \/ Refuse \/ Retry) /\ UNCHANGED <<codes, hub, places, crashes, failures>>
  \/ Fail /\ UNCHANGED <<codes, hub, places, crashes>>
  \/ Crash /\ UNCHANGED <<codes, hub, places, failures>>
  \/ CompleteOnboarding /\ UNCHANGED <<crashes, failures>>

-----------------------------------------------------------------------------
(* What a finished start leaves behind, whatever stopped the starts before   *)
(* it: every row it ships with, every role with the permissions it is        *)
(* granted, and each district as often as the file lists it.                 *)
Listed(s, d) == Cardinality({i \in DOMAIN File : File[i].sub = s /\ d \in File[i].districts})

SeededIsComplete ==
  run = "ready" =>
    /\ categories = Categories /\ currencies = Range(Currencies)
    /\ dfsps = Range(Dfsps) /\ permissions = Range(Permissions) /\ users = Range(Users)
    /\ DOMAIN roles = Range(Roles) /\ \A r \in DOMAIN roles : roles[r] = Granted[r]
    /\ pending = {}
    /\ admin # "none" /\ (onboarding = "complete" => admin = "blocked")
    /\ countries = {e.country : e \in Range(File)}
    /\ {r[1] : r \in subdivisions} = {e.sub : e \in Range(File)}
    /\ \A r, q \in subdivisions : r[1] = q[1] => r = q
    /\ \A d \in DOMAIN districts : districts[d] = Listed(d[1], d[2])
=============================================================================
