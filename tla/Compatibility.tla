--------------------------- MODULE Compatibility ---------------------------
(***************************************************************************)
(* config-service: the two sets of rules about components.                 *)
(* CheckCompatibility judges a build when it is saved; Offered is what     *)
(* FetchCompatibleComponentsMulti offers in one category beside components *)
(* chosen already, under a use case and a brand.                           *)
(*                                                                         *)
(* A component's specs are a function from some of the keys the code reads *)
(* to values; a key may be missing.  Letter case is left out: the values   *)
(* of a catalogue are spelled one way.                                     *)
(***************************************************************************)
EXTENDS Integers, FiniteSets, Sequences

CONSTANTS
    Catalogue,  \* table components
    Scenarios,  \* rules.ScenarioRules
    Anything    \* no use case, or no brand, is asked for

Categories == {"cpu", "motherboard", "ram", "ssd", "hdd", "gpu", "psu", "case", "cooler"}

NumberKeys == {"tdp", "power_draw", "cooler_height", "length_mm", "height_mm",
               "memory_gb", "capacity", "capacity_gb", "power", "sata_ports",
               "m2_slots", "drive_bays_2_5", "drive_bays_3_5",
               "gpu_max_length", "cooler_max_height", "max_psu_length",
               "max_throughput"}
TextKeys == {"socket", "ram_type", "interface", "pcie_version", "form_factor",
             "psu_form_factor"}
ListKeys == {"max_motherboard_form_factors"}

IsSpecs(s) ==
    /\ DOMAIN s \subseteq NumberKeys \cup TextKeys \cup ListKeys
    /\ \A key \in DOMAIN s : /\ key \in NumberKeys => s[key] \in Nat
                             /\ key \in TextKeys => s[key] \in STRING
                             /\ key \in ListKeys => s[key] \subseteq STRING

Has(s, key) == key \in DOMAIN s

ASSUME CompatibilityAssumption ==
    \A c \in Catalogue : c.category \in Categories /\ IsSpecs(c.specs)

\* What the seed data of every processor and board has.
ASSUME CatalogueAssumption ==
    \A c \in Catalogue :
        /\ c.category = "cpu" => Has(c.specs, "socket")
        /\ c.category = "motherboard" =>
             /\ Has(c.specs, "pcie_version") /\ Has(c.specs, "m2_slots")
             /\ c.specs["m2_slots"] >= 1

\* Values compared as Go compares two interface{}: nil equals nil.
Same(s, key, t, other) ==
    IF Has(s, key) /\ Has(t, other) THEN s[key] = t[other]
    ELSE ~Has(s, key) /\ ~Has(t, other)

Number(s, key) == IF Has(s, key) THEN s[key] ELSE 0

SataInterfaces == {"SATA", "SATA III"}
OfSataFamily(hdd) == Has(hdd, "interface") /\ hdd["interface"] \in SataInterfaces
-----------------------------------------------------------------------------
(* CheckCompatibility.  b is specsByCat: the specs chosen, by category. *)

Both(b, c, d) == c \in DOMAIN b /\ d \in DOMAIN b

CpuBoardConflict(b) ==
    /\ Both(b, "cpu", "motherboard")
    /\ ~Same(b["cpu"], "socket", b["motherboard"], "socket")

RamBoardConflict(b) ==
    /\ Both(b, "ram", "motherboard")
    /\ ~Same(b["ram"], "ram_type", b["motherboard"], "ram_type")

SsdBoardConflict(b) ==
    /\ Both(b, "ssd", "motherboard")
    /\ LET ssd == b["ssd"]
           mb  == b["motherboard"]
       IN  \/ /\ ~Same(ssd, "interface", mb, "pcie_version")
              /\ ~Same(ssd, "interface", mb, "interface")
           \/ Has(ssd, "form_factor") /\ ssd["form_factor"] = "M.2" /\ Number(mb, "m2_slots") < 1

HddBoardConflict(b) ==
    /\ Both(b, "hdd", "motherboard")
    /\ ~OfSataFamily(b["hdd"]) \/ Number(b["motherboard"], "sata_ports") < 1

HddCaseConflict(b) ==
    /\ Both(b, "hdd", "case")
    /\ Has(b["case"], "drive_bays_3_5") /\ b["case"]["drive_bays_3_5"] < 1

\* The value of one component exceeds the limit of another, both being known.
Exceeds(s, key, t, limit) == Has(s, key) /\ Has(t, limit) /\ s[key] > t[limit]

GpuCaseConflict(b) ==
    Both(b, "gpu", "case") /\ Exceeds(b["gpu"], "length_mm", b["case"], "gpu_max_length")

CpuCaseConflict(b) ==
    Both(b, "cpu", "case") /\ Exceeds(b["cpu"], "cooler_height", b["case"], "cooler_max_height")

BoardCaseConflict(b) ==
    /\ Both(b, "case", "motherboard")
    /\ Has(b["case"], "max_motherboard_form_factors")
    /\ ~(/\ Has(b["motherboard"], "form_factor")
         /\ b["motherboard"]["form_factor"] \in b["case"]["max_motherboard_form_factors"])

Draw(b, c) == IF c \in DOMAIN b THEN Number(b[c], "power_draw") ELSE 0

PowerConflict(b) ==
    /\ "psu" \in DOMAIN b
    /\ Has(b["psu"], "power")
    /\ b["psu"]["power"] < Draw(b, "cpu") + Draw(b, "gpu") + 150

PsuCaseConflict(b) ==
    /\ Both(b, "psu", "case")
    /\ Has(b["psu"], "form_factor")
    /\ ~Same(b["psu"], "form_factor", b["case"], "psu_form_factor")

Conflict(b) ==
    \/ CpuBoardConflict(b) \/ RamBoardConflict(b) \/ SsdBoardConflict(b)
    \/ HddBoardConflict(b) \/ HddCaseConflict(b) \/ GpuCaseConflict(b)
    \/ CpuCaseConflict(b) \/ BoardCaseConflict(b) \/ PowerConflict(b)
    \/ PsuCaseConflict(b)

\* The order in which GenerateConfigurations fills a build.
order == <<"cpu", "motherboard", "ram", "ssd", "hdd", "gpu", "psu", "case", "cooler">>

\* One component of each category.
FullBuilds == {b \in [Categories -> Catalogue] : \A c \in Categories : b[c].category = c}

\* The specs of its first n components.
Prefix(b, n) == [c \in {order[i] : i \in 1..n} |-> b[c].specs]

\* Backtracking: a partial build in conflict is not filled any further.
GenerateConfigurations ==
    {b \in FullBuilds : \A n \in 1..Len(order) : ~Conflict(Prefix(b, n))}
-----------------------------------------------------------------------------
(* Use cases: the predicates cpuMatches ... hddMatches.  r is a rule. *)

\* A bound of 0 is none; an unknown value passes.
InRange(s, key, min, max) ==
    Has(s, key) => (min > 0 => s[key] >= min) /\ (max > 0 => s[key] <= max)

cpuMatches(s, r) ==
    /\ Has(s, "socket") /\ s["socket"] \in r.CPUSocketWhitelist
    /\ InRange(s, "tdp", r.MinCPUTDP, r.MaxCPUTDP)

\* A mutant: the memory of the board is not looked at.
mbSocketMatches(s, r) == Has(s, "socket") => s["socket"] \in r.CPUSocketWhitelist

mbMatches(s, r) ==
    /\ Has(s, "socket") => s["socket"] \in r.CPUSocketWhitelist
    /\ r.RAMType # "" => Has(s, "ram_type") /\ s["ram_type"] = r.RAMType

ramMatches(s, r) ==
    /\ IF Has(s, "ram_type") THEN s["ram_type"] = r.RAMType ELSE r.RAMType = ""
    /\ InRange(s, "capacity", r.MinRAM, r.MaxRAM)

gpuMatches(s, r) ==
    r.MinGPUMemory # 0 =>
        /\ Has(s, "memory_gb") /\ s["memory_gb"] >= r.MinGPUMemory
        /\ r.MaxGPUMemory > 0 => s["memory_gb"] <= r.MaxGPUMemory

psuMatches(s, r) == InRange(s, "power", r.MinPSUPower, r.MaxPSUPower)

\* With M.2 drives only, the bays are not looked at.
caseMatches(s, r) ==
    /\ Has(s, "form_factor") /\ r.CaseFormFactors # {} =>
         s["form_factor"] \in r.CaseFormFactors
    /\ \/ r.SSDFormFactors = {"M.2"}
       \/ /\ "2.5" \in r.SSDFormFactors => Number(s, "drive_bays_2_5") >= 1
          /\ "3.5" \in r.SSDFormFactors => Number(s, "drive_bays_3_5") >= 1
          /\ r.MinHDDCapacity > 0 => Number(s, "drive_bays_3_5") >= 1

ssdMatches(s, r) ==
    /\ Number(s, "max_throughput") >= r.MinSSDThroughput
    /\ Has(s, "form_factor") /\ s["form_factor"] \in r.SSDFormFactors

\* The interface must be spelled SATA, without a revision.
hddMatches(s, r) ==
    /\ Has(s, "interface") /\ s["interface"] = "SATA"
    /\ Number(s, "capacity_gb") \in r.MinHDDCapacity..r.MaxHDDCapacity

Matches(c, r) ==
    CASE c.category = "cpu"         -> cpuMatches(c.specs, r)
      [] c.category = "motherboard" -> mbMatches(c.specs, r)
      [] c.category = "ram"         -> ramMatches(c.specs, r)
      [] c.category = "gpu"         -> gpuMatches(c.specs, r)
      [] c.category = "psu"         -> psuMatches(c.specs, r)
      [] c.category = "case"        -> caseMatches(c.specs, r)
      [] c.category = "ssd"         -> ssdMatches(c.specs, r)
      [] c.category = "hdd"         -> hddMatches(c.specs, r)
      [] OTHER                      -> TRUE

OfBrand(c, brand) == brand = Anything \/ c.brand = brand

\* FetchComponents without a search text, and the pool of candidates.
FetchComponents(category, usecase, brand) ==
    {c \in Catalogue : /\ c.category = category
                       /\ OfBrand(c, brand)
                       /\ usecase # Anything => Matches(c, Scenarios[usecase])}
-----------------------------------------------------------------------------
(* FetchCompatibleComponentsMulti.  A demand is a key and a value: a text  *)
(* must be equal, a number at least as large.                              *)

\* A demand on key, from what the component chosen in category c has as from.
Demand(b, c, from, key) ==
    IF c \in DOMAIN b /\ Has(b[c], from) THEN {<<key, b[c][from]>>} ELSE {}

\* Without a PCIe version the board's SATA ports would do.  The form factor
\* follows from the slots of the SSD chosen so far, not of the board.
SsdDemands(b) ==
    (IF "motherboard" \in DOMAIN b /\ ~Has(b["motherboard"], "pcie_version")
          /\ Has(b["motherboard"], "sata_ports")
     THEN {<<"interface", "SATA III">>}
     ELSE Demand(b, "motherboard", "pcie_version", "interface"))
    \cup
    (IF "ssd" \in DOMAIN b
     THEN {<<"form_factor", IF Number(b["ssd"], "m2_slots") >= 1 THEN "M.2" ELSE "2.5">>}
     ELSE {})

CaseDemands(b) ==
    Demand(b, "cpu", "cooler_height", "cooler_max_height")
        \cup Demand(b, "gpu", "length_mm", "gpu_max_length")
        \cup Demand(b, "psu", "length_mm", "max_psu_length")
        \cup Demand(b, "psu", "form_factor", "psu_form_factor")
        \cup Demand(b, "motherboard", "form_factor", "max_motherboard_form_factors")

\* A mutant: the draw of the processor is forgotten.
PowerOfCard(b) == {<<"power", Draw(b, "gpu") + 150>>}

PowerDemand(b) == {<<"power", Draw(b, "cpu") + Draw(b, "gpu") + 150>>}

\* The socket of a cooler would come from the board, which is not looked at.
Demands(category, b) ==
    CASE category = "case"        -> CaseDemands(b)
      [] category = "gpu"         -> Demand(b, "motherboard", "pcie_version", "interface")
      [] category = "psu"         -> PowerDemand(b)
      [] category = "ssd"         -> SsdDemands(b)
      [] category = "cooler"      -> Demand(b, "cpu", "cooler_height", "height_mm")
      [] category = "motherboard" -> Demand(b, "cpu", "socket", "socket")
      [] OTHER                    -> {}

\* Demands on other keys are ignored: on the boards a case takes, and all
\* those on coolers.
allowedByCategory ==
    [category \in Categories |->
       CASE category = "motherboard" -> {"socket", "ram_type", "form_factor", "max_memory_gb",
                                         "pcie_version", "m2_slots", "sata_ports"}
         [] category = "case" -> {"form_factor", "gpu_max_length", "cooler_max_height",
                                  "max_psu_length", "psu_form_factor"}
         [] category = "psu"  -> {"power", "power_required", "modular", "efficiency",
                                  "form_factor"}
         [] category = "gpu"  -> {"interface", "power_draw", "length_mm", "height_mm"}
         [] category = "ram"  -> {"ram_type", "capacity", "frequency", "modules", "voltage"}
         [] category = "ssd"  -> {"interface", "form_factor", "capacity_gb", "m2_key",
                                  "max_throughput"}
         [] category = "hdd"  -> {"interface", "form_factor", "capacity_gb", "rpm"}
         [] OTHER             -> {}]

Meets(s, demand) ==
    /\ Has(s, demand[1])
    /\ IF demand[1] \in NumberKeys THEN s[demand[1]] >= demand[2]
       ELSE s[demand[1]] = demand[2]

FilterPoolByCompatibility(pool, category, demands) ==
    {c \in pool : \A demand \in demands :
        demand[1] \in allowedByCategory[category] => Meets(c.specs, demand)}

HddFits(s, b) ==
    /\ OfSataFamily(s)
    /\ "motherboard" \in DOMAIN b => Number(b["motherboard"], "sata_ports") >= 1
    /\ "case" \in DOMAIN b /\ Has(b["case"], "drive_bays_3_5") =>
         b["case"]["drive_bays_3_5"] >= 1

Offered(category, b, usecase, brand) ==
    LET pool == FetchComponents(category, usecase, brand)
    IN  IF category = "hdd" THEN {c \in pool : HddFits(c.specs, b)}
        ELSE FilterPoolByCompatibility(pool, category, Demands(category, b))

\* The conflicts of a build that an offer in this category keeps away.
AvoidedConflict(category, b) ==
    CASE category = "motherboard" -> CpuBoardConflict(b)
      [] category = "psu"  -> PowerConflict(b)
      [] category = "case" -> CpuCaseConflict(b) \/ GpuCaseConflict(b) \/ PsuCaseConflict(b)
      [] category = "hdd"  -> HddBoardConflict(b) \/ HddCaseConflict(b)
      [] category = "ssd"  -> SsdBoardConflict(b)
      [] OTHER             -> FALSE
=============================================================================
