-------------------------- MODULE MCAddressForm ---------------------------
(* Two countries that share the name of a subdivision, and a merchant that   *)
(* has no LEI, one registered in the first or one in the second.            *)
EXTENDS AddressForm, TLC

(* Entries of countries.json and of the tables of GLEIFService: the country  *)
(* code map does not know the United States by the name the file has.       *)
Places == << [country |-> "Bulgaria", sub |-> "Montana", districts |-> {"Berkovitsa"}],
             [country |-> "United States", sub |-> "Florida", districts |-> {"Polk"}],
             [country |-> "United States", sub |-> "Montana", districts |-> {}] >>

One == <<1>>
Pair == <<1, 2>>
Names == <<"admin", "operator">>
Grants == [r \in {"admin", "operator"} |-> IF r = "admin" THEN {1, 2} ELSE {2}]
UserRole == [u \in {1} |-> "operator"]

Records == [bg |-> [country |-> "BG", region |-> "BG-12"],
            us |-> [country |-> "US", region |-> "US-FL"]]
CountryCodes == [c \in {"Bulgaria", "United States"} |-> IF c = "Bulgaria" THEN "BG" ELSE "US"]
MapNames == [k \in {"BG", "US"} |-> IF k = "BG" THEN "Bulgaria" ELSE "United States of America"]
Rest == [k \in {"BG", "US"} |-> {c \in DOMAIN CountryCodes : CountryCodes[c] = k}]
IsoCodes == (<<"BG", "Montana">> :> "BG-12") @@ (<<"US", "Florida">> :> "US-FL")
            @@ (<<"US", "Montana">> :> "US-MT")
Same(x) == x
Never(x, y) == FALSE

ASSUME TablesAgree

(* The form is used once the hub is onboarded and its database holds places, *)
(* and not when the seeding failed, which looks to it like one that takes    *)
(* long.  No step of the seeding reads what the form writes.  The backend    *)
(* stops when the form has offered lists and sent no address yet; the form   *)
(* meets a seeding under way after it, on tables that may still be empty,    *)
(* and sends an address when it is over: what it was offered it still holds. *)
(* Others change the merchant where the backend did not stop.                *)
Untouched == form = Nil /\ call = Nil /\ fetch = "idle" /\ draft = Nil
             /\ locations = <<>> /\ elsewhere = 0
Used == UNCHANGED <<formVars, merchantVars>>
        \/ (onboarding = "complete" /\ stage >= 11 /\ failures = 0
            /\ (run = "ready" \/ (run = "seed" /\ crashes = MaxCrashes
                                  /\ UNCHANGED <<merchantVars, draft, answer>>)))
Ordered == Used /\ (run' \in {"seed", "ready"} \/ Untouched)
           /\ (elsewhere' = 0 \/ crashes' = 0)
           /\ (failures' # failures => Untouched /\ offered.countries = {})
=============================================================================
