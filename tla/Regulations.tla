------------------------------ MODULE Regulations ------------------------------
(***************************************************************************)
(* app/regulations: what the law allows to be lent for a home. The zone of *)
(* a region comes from a list of designations that was complete on a day   *)
(* (DESIGNATION_LIST_VERIFIED_THROUGH). Being on no list means NON_        *)
(* REGULATED, the loosest zone, only up to that day; afterwards it means   *)
(* nothing. Ratios and stress rates have periods, and those that are not   *)
(* verified are not used unless they are asked for.                        *)
(*                                                                         *)
(* Days are numbers (yyyymmdd), ratios per cent, rates basis points.       *)
(***************************************************************************)
EXTENDS Money

RegulationZone == {"SPECULATION_OVERHEATED", "ADJUSTMENT_TARGET", "NON_REGULATED"}
Regulated == RegulationZone \ {"NON_REGULATED"}
HousingStatus ==
    {"NO_HOUSE", "FIRST_HOME_BUYER", "ONE_HOUSE_DISPOSAL_PLEDGED", "ONE_HOUSE_KEEPING",
     "MULTI_HOUSE"}

\* A region: whether it is Seoul or in the capital region (the prefix of its code),
\* since when it is designated according to the list, if it is on it, whether the
\* list has its code, and since when it is designated in the world.
Region ==
    [seoul : BOOLEAN, capital : BOOLEAN, listed : Nat \cup {None}, coded : BOOLEAN,
     designated : Nat \cup {None}]

DESIGNATION_LIST_VERIFIED_THROUGH == 20260730

\* What the list has: all of Seoul and twelve districts of Gyeonggi since October
\* 2025, three more of Gyeonggi since July 2026, one of these without its code.
AsListed(region) ==
    /\ region.seoul => region.capital /\ region.listed = 20251016
    /\ region.listed # None => region.capital /\ region.listed \in {20251016, 20260701}
    /\ ~region.coded => region.listed = 20260701

\* The list was complete on that day: what it lacks was designated later.
ListIsComplete(region) ==
    IF region.listed # None THEN region.designated = region.listed
    ELSE region.designated # None => region.designated > DESIGNATION_LIST_VERIFIED_THROUGH

\* Every designation of the list is of both zones; the stricter one counts.
ZoneSince(day, from) ==
    IF from # None /\ from <= day THEN "SPECULATION_OVERHEATED" ELSE "NON_REGULATED"

\* What is known of the place of a home: its code, its name, or none of them. A
\* code that is not one of a district is "invalid".
Address == [code : {"valid", "invalid", None}, named : BOOLEAN]

\* The rows that match: by the code, by the name only if the code finds none.
Found(region, address, day) ==
    /\ region.listed # None /\ region.listed <= day
    /\ (address.code = "valid" /\ region.coded) \/ address.named

\* Fault: the list is taken to be complete for ever.
ResolvedZoneForever(region, address, day) ==
    IF address.code = "invalid" \/ (address.code = None /\ ~address.named) THEN None
    ELSE IF Found(region, address, day) THEN "SPECULATION_OVERHEATED"
    ELSE IF address.code = None THEN None ELSE "NON_REGULATED"

\* resolve_region: the zone, or None.
ResolvedZone(region, address, day) ==
    IF address.code = "invalid" \/ (address.code = None /\ ~address.named) THEN None
    ELSE IF Found(region, address, day) THEN "SPECULATION_OVERHEATED"
    ELSE IF address.code = None \/ day > DESIGNATION_LIST_VERIFIED_THROUGH THEN None
    ELSE "NON_REGULATED"

-------------------------------------------------------------------------------
Ratio(ratio, from, to, verified) ==
    [ratio |-> ratio, from |-> from, to |-> to, verified |-> verified]

\* LTV_RATIO_HISTORY
LtvHistory(zone, status) ==
    IF zone = "NON_REGULATED"
    THEN CASE status \in {"NO_HOUSE", "ONE_HOUSE_DISPOSAL_PLEDGED"} ->
                {Ratio(70, 20250628, None, TRUE)}
           [] status = "FIRST_HOME_BUYER" -> {Ratio(80, 20250628, None, FALSE)}
           [] status = "ONE_HOUSE_KEEPING" -> {Ratio(70, 20250628, None, FALSE)}
           [] status = "MULTI_HOUSE" -> {Ratio(60, 20250628, None, FALSE)}
    ELSE CASE status \in {"MULTI_HOUSE", "ONE_HOUSE_KEEPING"} ->
                {Ratio(0, 20250628, None, TRUE)}
           [] status = "FIRST_HOME_BUYER" -> {Ratio(70, 20250628, None, TRUE)}
           [] status \in {"NO_HOUSE", "ONE_HOUSE_DISPOSAL_PLEDGED"} ->
                {Ratio(40, 20260701, None, TRUE)}
                    \cup {Ratio(50, 20250628, 20260630, FALSE) :
                            z \in {zone} \cap {"ADJUSTMENT_TARGET"}}

Covers(row, day) == row.from <= day /\ (row.to # None => day <= row.to)

\* get_ltv_ratio; the periods of a history do not overlap.
LtvRatio(zone, status, day, allowUnverified) ==
    LET rows == {row \in LtvHistory(zone, status) :
                    Covers(row, day) /\ (row.verified \/ allowUnverified)} IN
    IF rows = {} THEN None ELSE (CHOOSE row \in rows : TRUE).ratio

\* get_mortgage_hard_cap. Prices are in units of 100,000 won, limits in won.
HardCap(price, day) ==
    IF day < 20251016 THEN None
    ELSE IF price <= 15000 THEN 600000000
    ELSE IF price <= 25000 THEN 400000000 ELSE 200000000

\* resolve_ltv_limit_amount: the ratio and, in the capital region and in regulated
\* zones, the cap on top of it.
LtvLimit(price, zone, capital, ratio, day) ==
    IF (capital \/ zone \in Regulated) /\ HardCap(price, day) # None
    THEN Smaller(price * 1000 * ratio, HardCap(price, day)) ELSE price * 1000 * ratio

\* _dti_region_for and resolve_dti_ratio: 100 stands for no limit.
DtiRatio(seoul, capital, day) ==
    IF ~capital THEN 100 ELSE IF day < 20181031 THEN None ELSE IF seoul THEN 50 ELSE 60

\* get_stress_rate of a mortgage: no rate before the measure is not a rate of zero.
StressRate(zone, capital, day) ==
    IF capital \/ zone \in Regulated
    THEN IF day < 20251016 THEN None ELSE 300
    ELSE IF day < 20250701 THEN None ELSE 75
===============================================================================
