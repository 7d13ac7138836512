SPECIFICATION AddressSpec
CONSTANTS
  Nil = Nil
  Categories = {c1}
  Currencies <- Pair
  Dfsps <- One
  Permissions <- Pair
  Users <- One
  Roles <- Names
  Granted <- Grants
  RoleOf <- UserRole
  AdminRole = "admin"
  Backlog = {m1}
  File <- Places
  MaxCrashes = 1
  MaxFailures = 1
  Leis = {"bg", "us"}
  Record <- Records
  CodeOf <- CountryCodes
  NameOf <- MapNames
  RestNames <- Rest
  IsoCode <- IsoCodes
  Clean <- Same
  Contains <- Never
  MaxElsewhere = 1
  MaxLocations = 1
INVARIANTS
  SeededIsComplete
  StoredIsCoherent
  LocationsAgree
ACTION_CONSTRAINT Ordered
CHECK_DEADLOCK FALSE
