------------------------- MODULE ConfiguratorProofs -------------------------
(***************************************************************************)
(* Theorems about Compatibility and Configurator, for every catalogue and  *)
(* every set of use cases, brands and bounds.                              *)
(***************************************************************************)
EXTENDS Configurator, TLAPS, SequenceTheorems

-----------------------------------------------------------------------------
(* The rules: what an offer demands is what the check looks at.            *)

\* The specs of components of a catalogue, by category.
Build(b) ==
    /\ DOMAIN b \subseteq Categories
    /\ \A d \in DOMAIN b : IsSpecs(b[d])
    /\ "cpu" \in DOMAIN b => Has(b["cpu"], "socket")
    /\ "motherboard" \in DOMAIN b =>
         /\ Has(b["motherboard"], "pcie_version") /\ Has(b["motherboard"], "m2_slots")
         /\ b["motherboard"]["m2_slots"] >= 1

\* n is component x in its category beside some of the components of b.
Beside(n, b, c, x) ==
    /\ DOMAIN n \subseteq DOMAIN b \cup {c}
    /\ c \in DOMAIN n /\ n[c] = x.specs
    /\ \A d \in DOMAIN n \ {c} : d \in DOMAIN b /\ n[d] = b[d]

LEMMA OfferedInCatalogue ==
    ASSUME NEW c \in Categories, NEW b, NEW u, NEW br, NEW x \in Offered(c, b, u, br)
    PROVE  x \in FetchComponents(c, u, br) /\ x \in Catalogue /\ x.category = c
<1>1. x \in FetchComponents(c, u, br)
    BY DEF Offered, FilterPoolByCompatibility
<1> QED
    BY <1>1 DEF FetchComponents

\* A demand on an allowed key is met by whatever is offered.
LEMMA DemandMet ==
    ASSUME NEW c \in Categories, NEW b, NEW u, NEW br, NEW x \in Offered(c, b, u, br),
           c # "hdd", NEW demand \in Demands(c, b), demand[1] \in allowedByCategory[c]
    PROVE  Meets(x.specs, demand)
<1>1. x \in FilterPoolByCompatibility(FetchComponents(c, u, br), c, Demands(c, b))
    BY DEF Offered
<1> QED
    BY <1>1 DEF FilterPoolByCompatibility

LEMMA BoardFitsProcessor ==
    ASSUME NEW b, Build(b), NEW u, NEW br, NEW x \in Offered("motherboard", b, u, br),
           NEW n, Beside(n, b, "motherboard", x)
    PROVE  ~CpuBoardConflict(n)
<1> SUFFICES ASSUME Both(n, "cpu", "motherboard")
             PROVE  Same(n["cpu"], "socket", n["motherboard"], "socket")
    BY DEF CpuBoardConflict
<1>1. "cpu" \in DOMAIN b /\ n["cpu"] = b["cpu"] /\ n["motherboard"] = x.specs
    BY DEF Both, Beside
<1>2. Has(b["cpu"], "socket")
    BY <1>1 DEF Build
<1> DEFINE demand == <<"socket", b["cpu"]["socket"]>>
<1>3. demand \in Demands("motherboard", b)
    BY <1>1, <1>2 DEF Demands, Demand
<1>4. demand[1] \in allowedByCategory["motherboard"]
    BY DEF allowedByCategory, Categories
<1>5. Meets(x.specs, demand)
    BY <1>3, <1>4, DemandMet DEF Categories
<1>6. Has(x.specs, "socket") /\ x.specs["socket"] = b["cpu"]["socket"]
    BY <1>5 DEF Meets, NumberKeys
<1> QED
    BY <1>1, <1>2, <1>6 DEF Same

LEMMA DrawBound ==
    ASSUME NEW b, Build(b), NEW n, NEW c, NEW x, Beside(n, b, c, x), NEW d, d # c
    PROVE  Draw(b, d) \in Nat /\ Draw(n, d) \in Nat /\ Draw(n, d) <= Draw(b, d)
<1>1. d \in DOMAIN n => d \in DOMAIN b /\ n[d] = b[d]
    BY DEF Beside
<1>2. d \in DOMAIN b => Number(b[d], "power_draw") \in Nat
    BY DEF Build, IsSpecs, Number, Has, NumberKeys
<1> QED
    BY <1>1, <1>2 DEF Draw

LEMMA SupplyFeedsBuild ==
    ASSUME NEW b, Build(b), NEW u, NEW br, NEW x \in Offered("psu", b, u, br),
           NEW n, Beside(n, b, "psu", x)
    PROVE  ~PowerConflict(n)
<1> DEFINE need == Draw(b, "cpu") + Draw(b, "gpu") + 150
           demand == <<"power", need>>
<1>1. demand \in Demands("psu", b)
    BY DEF Demands, PowerDemand
<1>2. demand[1] \in allowedByCategory["psu"]
    BY DEF allowedByCategory, Categories
<1>3. Meets(x.specs, demand)
    BY <1>1, <1>2, DemandMet DEF Categories
<1>4. Has(x.specs, "power") /\ x.specs["power"] >= need
    BY <1>3 DEF Meets, NumberKeys
<1>5. x.specs["power"] \in Nat
    BY <1>4, OfferedInCatalogue, CompatibilityAssumption
        DEF Categories, IsSpecs, Has, NumberKeys
<1>6. /\ Draw(b, "cpu") \in Nat /\ Draw(n, "cpu") \in Nat /\ Draw(n, "cpu") <= Draw(b, "cpu")
      /\ Draw(b, "gpu") \in Nat /\ Draw(n, "gpu") \in Nat /\ Draw(n, "gpu") <= Draw(b, "gpu")
    BY DrawBound
<1>7. n["psu"] = x.specs
    BY DEF Beside
<1> QED
    BY <1>4, <1>5, <1>6, <1>7 DEF PowerConflict

\* A case is as large as what component d demands by its key from.
LEMMA CaseLargeEnough ==
    ASSUME NEW b, Build(b), NEW u, NEW br, NEW x \in Offered("case", b, u, br),
           NEW n, Beside(n, b, "case", x),
           NEW d, NEW from, NEW key,
           d # "case", key \in {"cooler_max_height", "gpu_max_length"},
           from \in {"cooler_height", "length_mm"},
           Demand(b, d, from, key) \subseteq Demands("case", b)
    PROVE  ~(Both(n, d, "case") /\ Exceeds(n[d], from, n["case"], key))
<1> SUFFICES ASSUME Both(n, d, "case"), Has(n[d], from)
             PROVE  Has(n["case"], key) /\ ~(n[d][from] > n["case"][key])
    BY DEF Exceeds
<1>1. d \in DOMAIN b /\ n[d] = b[d] /\ n["case"] = x.specs
    BY DEF Both, Beside
<1> DEFINE demand == <<key, b[d][from]>>
<1>2. demand \in Demands("case", b)
    BY <1>1 DEF Demand
<1>3. demand[1] \in allowedByCategory["case"]
    BY DEF allowedByCategory, Categories
<1>4. Meets(x.specs, demand)
    BY <1>2, <1>3, DemandMet DEF Categories
<1>5. Has(x.specs, key) /\ x.specs[key] >= b[d][from]
    BY <1>4 DEF Meets, NumberKeys
<1>6. x.specs[key] \in Nat
    BY <1>5, OfferedInCatalogue, CompatibilityAssumption
        DEF Categories, IsSpecs, Has, NumberKeys
<1>7. b[d][from] \in Nat
    BY <1>1 DEF Build, IsSpecs, Has, NumberKeys
<1> QED
    BY <1>1, <1>5, <1>6, <1>7

LEMMA CaseTakesSupply ==
    ASSUME NEW b, Build(b), NEW u, NEW br, NEW x \in Offered("case", b, u, br),
           NEW n, Beside(n, b, "case", x)
    PROVE  ~PsuCaseConflict(n)
<1> SUFFICES ASSUME Both(n, "psu", "case"), Has(n["psu"], "form_factor")
             PROVE  Same(n["psu"], "form_factor", n["case"], "psu_form_factor")
    BY DEF PsuCaseConflict
<1>1. "psu" \in DOMAIN b /\ n["psu"] = b["psu"] /\ n["case"] = x.specs
    BY DEF Both, Beside
<1> DEFINE demand == <<"psu_form_factor", b["psu"]["form_factor"]>>
<1>2. demand \in Demands("case", b)
    BY <1>1 DEF Demands, CaseDemands, Demand
<1>3. demand[1] \in allowedByCategory["case"]
    BY DEF allowedByCategory, Categories
<1>4. Meets(x.specs, demand)
    BY <1>2, <1>3, DemandMet DEF Categories
<1> QED
    BY <1>1, <1>4 DEF Meets, NumberKeys, Same

LEMMA CaseHoldsBuild ==
    ASSUME NEW b, Build(b), NEW u, NEW br, NEW x \in Offered("case", b, u, br),
           NEW n, Beside(n, b, "case", x)
    PROVE  ~CpuCaseConflict(n) /\ ~GpuCaseConflict(n) /\ ~PsuCaseConflict(n)
<1>1. Demands("case", b) = CaseDemands(b)
    BY DEF Demands
<1>2. Demand(b, "cpu", "cooler_height", "cooler_max_height") \subseteq Demands("case", b)
    BY <1>1 DEF CaseDemands
<1>3. Demand(b, "gpu", "length_mm", "gpu_max_length") \subseteq Demands("case", b)
    BY <1>1 DEF CaseDemands
<1>4. ~CpuCaseConflict(n)
    BY <1>2, CaseLargeEnough DEF CpuCaseConflict
<1>5. ~GpuCaseConflict(n)
    BY <1>3, CaseLargeEnough DEF GpuCaseConflict
<1> QED
    BY <1>4, <1>5, CaseTakesSupply

LEMMA HddHasPlace ==
    ASSUME NEW b, Build(b), NEW u, NEW br, NEW x \in Offered("hdd", b, u, br),
           NEW n, Beside(n, b, "hdd", x)
    PROVE  ~HddBoardConflict(n) /\ ~HddCaseConflict(n)
<1>1. HddFits(x.specs, b)
    BY DEF Offered
<1>2. n["hdd"] = x.specs
    BY DEF Beside
<1>3. ~HddBoardConflict(n)
    <2> SUFFICES ASSUME Both(n, "hdd", "motherboard")
                 PROVE  OfSataFamily(n["hdd"]) /\ ~(Number(n["motherboard"], "sata_ports") < 1)
        BY DEF HddBoardConflict
    <2>1. "motherboard" \in DOMAIN b /\ n["motherboard"] = b["motherboard"]
        BY DEF Both, Beside
    <2>2. OfSataFamily(x.specs) /\ Number(b["motherboard"], "sata_ports") >= 1
        BY <1>1, <2>1 DEF HddFits
    <2>3. Number(b["motherboard"], "sata_ports") \in Nat
        BY <2>1 DEF Build, IsSpecs, Number, Has, NumberKeys
    <2> QED
        BY <1>2, <2>1, <2>2, <2>3
<1>4. ~HddCaseConflict(n)
    <2> SUFFICES ASSUME Both(n, "hdd", "case"), Has(n["case"], "drive_bays_3_5")
                 PROVE  ~(n["case"]["drive_bays_3_5"] < 1)
        BY DEF HddCaseConflict
    <2>1. "case" \in DOMAIN b /\ n["case"] = b["case"]
        BY DEF Both, Beside
    <2>2. b["case"]["drive_bays_3_5"] >= 1
        BY <1>1, <2>1 DEF HddFits
    <2>3. b["case"]["drive_bays_3_5"] \in Nat
        BY <2>1 DEF Build, IsSpecs, Has, NumberKeys
    <2> QED
        BY <2>1, <2>2, <2>3
<1> QED
    BY <1>3, <1>4

LEMMA SsdHasSlot ==
    ASSUME NEW b, Build(b), NEW u, NEW br, NEW x \in Offered("ssd", b, u, br),
           NEW n, Beside(n, b, "ssd", x)
    PROVE  ~SsdBoardConflict(n)
<1> SUFFICES ASSUME Both(n, "ssd", "motherboard")
             PROVE  /\ Same(n["ssd"], "interface", n["motherboard"], "pcie_version")
                    /\ ~(Number(n["motherboard"], "m2_slots") < 1)
    BY DEF SsdBoardConflict
<1>1. "motherboard" \in DOMAIN b /\ n["motherboard"] = b["motherboard"] /\ n["ssd"] = x.specs
    BY DEF Both, Beside
<1>2. /\ Has(b["motherboard"], "pcie_version") /\ Has(b["motherboard"], "m2_slots")
      /\ b["motherboard"]["m2_slots"] >= 1
    BY <1>1 DEF Build
<1>3. b["motherboard"]["m2_slots"] \in Nat
    BY <1>1, <1>2 DEF Build, IsSpecs, Has, NumberKeys
<1> DEFINE demand == <<"interface", b["motherboard"]["pcie_version"]>>
<1>4. demand \in Demands("ssd", b)
    BY <1>1, <1>2 DEF Demands, SsdDemands, Demand
<1>5. demand[1] \in allowedByCategory["ssd"]
    BY DEF allowedByCategory, Categories
<1>6. Meets(x.specs, demand)
    BY <1>4, <1>5, DemandMet DEF Categories
<1>7. Has(x.specs, "interface") /\ x.specs["interface"] = b["motherboard"]["pcie_version"]
    BY <1>6 DEF Meets, NumberKeys
<1>8. ~(Number(b["motherboard"], "m2_slots") < 1)
    BY <1>2, <1>3 DEF Number
<1> QED
    BY <1>1, <1>2, <1>7, <1>8 DEF Same

(***************************************************************************)
(* FetchCompatibleComponentsMulti against CheckCompatibility: a component  *)
(* offered beside the components of a build has, beside any of them, none  *)
(* of the conflicts that offers of its category avoid.                     *)
(***************************************************************************)
THEOREM OfferAvoidsConflicts ==
    ASSUME NEW c \in Categories, NEW b, Build(b), NEW u, NEW br,
           NEW x \in Offered(c, b, u, br), NEW n, Beside(n, b, c, x)
    PROVE  ~AvoidedConflict(c, n)
<1>1. CASE c = "motherboard"
    BY <1>1, BoardFitsProcessor DEF AvoidedConflict
<1>2. CASE c = "psu"
    BY <1>2, SupplyFeedsBuild DEF AvoidedConflict
<1>3. CASE c = "case"
    BY <1>3, CaseHoldsBuild DEF AvoidedConflict
<1>4. CASE c = "hdd"
    BY <1>4, HddHasPlace DEF AvoidedConflict
<1>5. CASE c = "ssd"
    BY <1>5, SsdHasSlot DEF AvoidedConflict
<1>6. CASE c \notin {"motherboard", "psu", "case", "hdd", "ssd"}
    BY <1>6 DEF AvoidedConflict
<1> QED
    BY <1>1, <1>2, <1>3, <1>4, <1>5, <1>6

-----------------------------------------------------------------------------
(* Generation: pruning a partial build loses no whole one.                 *)

\* a is part of the build b.
PartOf(a, b) ==
    /\ DOMAIN a \subseteq DOMAIN b
    /\ \A d \in DOMAIN a : a[d] = b[d]
    /\ \A d \in DOMAIN b : IsSpecs(b[d])

LEMMA DrawGrows ==
    ASSUME NEW a, NEW b, PartOf(a, b), NEW d
    PROVE  Draw(a, d) \in Nat /\ Draw(b, d) \in Nat /\ Draw(a, d) <= Draw(b, d)
<1>1. d \in DOMAIN a => d \in DOMAIN b /\ a[d] = b[d]
    BY DEF PartOf
<1>2. d \in DOMAIN b => Number(b[d], "power_draw") \in Nat
    BY DEF PartOf, IsSpecs, Number, Has, NumberKeys
<1> QED
    BY <1>1, <1>2 DEF Draw

LEMMA ConflictRemains ==
    ASSUME NEW a, NEW b, PartOf(a, b), Conflict(a)
    PROVE  Conflict(b)
<1>1. \A c, d : Both(a, c, d) => Both(b, c, d) /\ a[c] = b[c] /\ a[d] = b[d]
    BY DEF Both, PartOf
<1>2. CASE CpuBoardConflict(a) \/ RamBoardConflict(a)
    BY <1>1, <1>2 DEF CpuBoardConflict, RamBoardConflict, Conflict
<1>3. CASE SsdBoardConflict(a)
    BY <1>1, <1>3 DEF SsdBoardConflict, Conflict
<1>4. CASE HddBoardConflict(a) \/ HddCaseConflict(a)
    BY <1>1, <1>4 DEF HddBoardConflict, HddCaseConflict, Conflict
<1>5. CASE GpuCaseConflict(a) \/ CpuCaseConflict(a)
    BY <1>1, <1>5 DEF GpuCaseConflict, CpuCaseConflict, Conflict
<1>6. CASE BoardCaseConflict(a)
    BY <1>1, <1>6 DEF BoardCaseConflict, Conflict
<1>7. CASE PsuCaseConflict(a)
    BY <1>1, <1>7 DEF PsuCaseConflict, Conflict
<1>8. CASE PowerConflict(a)
    <2>1. /\ "psu" \in DOMAIN b /\ a["psu"] = b["psu"]
          /\ Has(b["psu"], "power")
          /\ b["psu"]["power"] < Draw(a, "cpu") + Draw(a, "gpu") + 150
        BY <1>8 DEF PowerConflict, PartOf
    <2>2. b["psu"]["power"] \in Nat
        BY <2>1 DEF PartOf, IsSpecs, Has, NumberKeys
    <2>3. /\ Draw(a, "cpu") \in Nat /\ Draw(b, "cpu") \in Nat /\ Draw(a, "cpu") <= Draw(b, "cpu")
          /\ Draw(a, "gpu") \in Nat /\ Draw(b, "gpu") \in Nat /\ Draw(a, "gpu") <= Draw(b, "gpu")
        BY DrawGrows
    <2>4. PowerConflict(b)
        BY <2>1, <2>2, <2>3 DEF PowerConflict
    <2> QED
        BY <2>4 DEF Conflict
<1> QED
    BY <1>2, <1>3, <1>4, <1>5, <1>6, <1>7, <1>8 DEF Conflict

(***************************************************************************)
(* GenerateConfigurations gives exactly the builds of one component of     *)
(* each category that CheckCompatibility accepts: giving up a partial      *)
(* build in conflict loses none, since no component mends a conflict.      *)
(***************************************************************************)
THEOREM PruningLosesNothing ==
    GenerateConfigurations = {b \in FullBuilds : ~Conflict(Prefix(b, Len(order)))}
<1>1. Len(order) = 9
    BY DEF order
<1>2. ASSUME NEW b \in FullBuilds, NEW n \in 1..9
      PROVE  PartOf(Prefix(b, n), Prefix(b, 9))
    <2>1. \A i \in 1..9 : order[i] \in Categories
        BY DEF order, Categories
    <2>2. \A c \in Categories : IsSpecs(b[c].specs)
        BY CompatibilityAssumption DEF FullBuilds
    <2> QED
        BY <2>1, <2>2 DEF PartOf, Prefix
<1>3. ASSUME NEW b \in FullBuilds, NEW n \in 1..9, Conflict(Prefix(b, n))
      PROVE  Conflict(Prefix(b, 9))
    BY <1>2, <1>3, ConflictRemains
<1> QED
    BY <1>1, <1>3 DEF GenerateConfigurations

-----------------------------------------------------------------------------
(* The page: what is remembered of a choice is true of it.                 *)

Filed(chosen) ==
    /\ chosen \in Choices
    /\ \A c \in Categories : chosen[c] # Nothing => chosen[c].category = c

FiledRequests == {r \in Requests : Filed(r.bases)}
Fetches == [request : FiledRequests, awaits : {"compatible", "all"}]
Origins == [compatible : BOOLEAN, request : FiledRequests]

\* x was in the list that o remembers.
PickedFrom(x, o) ==
    x \in IF o.compatible
          THEN Offered(o.request.category, SpecsOf(o.request.bases),
                       o.request.usecase, o.request.brand)
          ELSE FetchComponents(o.request.category, o.request.usecase, o.request.brand)

\* The inductive invariant: requests carry filed choices, and every choice
\* comes from the list remembered for it.
Inv ==
    /\ tab \in Categories
    /\ usecase \in Usecases \cup {Anything}
    /\ brand \in Brands \cup {Anything}
    /\ compatibleOnly \in BOOLEAN
    /\ failed \in BOOLEAN
    /\ clicks \in 0..MaxClicks
    /\ disorder \in BOOLEAN
    /\ Filed(selected)
    /\ fetches \in Seq(Fetches)
    /\ compatibleFor \in FiledRequests \cup {Nothing}
    /\ allFor \in FiledRequests \cup {Nothing}
    /\ origin \in [Categories -> Origins \cup {Nothing}]
    /\ \A c \in Categories : selected[c] # Nothing =>
          origin[c] \in Origins /\ PickedFrom(selected[c], origin[c])

LEMMA RequestFiled ==
    ASSUME Inv, NEW c \in Categories, NEW u \in Usecases \cup {Anything},
           NEW b \in Brands \cup {Anything}
    PROVE  Request(c, u, b) \in FiledRequests
<1>1. selected \in Choices /\ Filed(selected)
    BY DEF Inv, Filed
<1> QED
    BY <1>1 DEF Request, FiledRequests, Requests

LEMMA AppendFetches ==
    ASSUME fetches \in Seq(Fetches), NEW requests \in Seq(FiledRequests),
           StartFetches(requests)
    PROVE  fetches' \in Seq(Fetches) /\ failed' = FALSE
<1>1. [n \in DOMAIN requests |-> Fetch(requests[n])] \in Seq(Fetches)
    <2>1. \A n \in DOMAIN requests : Fetch(requests[n]) \in Fetches
        BY DEF Fetch, Fetches
    <2>2. DOMAIN requests = 1..Len(requests) /\ Len(requests) \in Nat
        OBVIOUS
    <2> QED
        BY <2>1, <2>2
<1>2. fetches \o [n \in DOMAIN requests |-> Fetch(requests[n])] \in Seq(Fetches)
    BY <1>1
<1> QED
    BY <1>2 DEF StartFetches

LEMMA FetchRemoved ==
    ASSUME fetches \in Seq(Fetches), NEW n \in DOMAIN fetches
    PROVE  Seqs!RemoveAt(fetches, n) \in Seq(Fetches)
BY DEF Seqs!RemoveAt

LEMMA ShownRemembered ==
    ASSUME Inv, NEW x \in Shown
    PROVE  LET o == [compatible |-> compatibleOnly,
                     request |-> IF compatibleOnly THEN compatibleFor ELSE allFor]
           IN  o \in Origins /\ PickedFrom(x, o) /\ x.category \in Categories /\ x \in Catalogue
<1>1. CASE compatibleOnly
    <2>1. compatibleFor # Nothing /\ compatibleFor \in FiledRequests
        BY <1>1 DEF Shown, CompatibleList, Inv
    <2>2. x \in Offered(compatibleFor.category, SpecsOf(compatibleFor.bases),
                        compatibleFor.usecase, compatibleFor.brand)
        BY <1>1, <2>1 DEF Shown, CompatibleList
    <2>3. x \in Catalogue
        BY <2>1, <2>2, OfferedInCatalogue DEF FiledRequests, Requests
    <2> QED
        BY <1>1, <2>1, <2>2, <2>3, CompatibilityAssumption DEF Origins, PickedFrom
<1>2. CASE ~compatibleOnly
    <2>1. allFor # Nothing /\ allFor \in FiledRequests
        BY <1>2 DEF Shown, AllList, Inv
    <2>2. x \in FetchComponents(allFor.category, allFor.usecase, allFor.brand)
        BY <1>2, <2>1 DEF Shown, AllList
    <2>3. compatibleOnly = FALSE
        BY <1>2 DEF Inv
    <2> QED
        BY <2>1, <2>2, <2>3, CompatibilityAssumption
            DEF Origins, PickedFrom, FetchComponents
<1> QED
    BY <1>1, <1>2

LEMMA InvInit == Init => Inv
<1> SUFFICES ASSUME Init
             PROVE  Inv
    OBVIOUS
<1>1. Filed(selected) /\ "cpu" \in Categories
    BY DEF Init, Filed, Choices, Categories
<1>2. [category |-> "cpu", usecase |-> Anything, brand |-> Anything, bases |-> selected]
          \in FiledRequests
    BY <1>1 DEF FiledRequests, Requests, Filed
<1>3. fetches \in Seq(Fetches)
    BY <1>2 DEF Init, Fetch, Fetches
<1>4. origin \in [Categories -> Origins \cup {Nothing}]
    BY DEF Init
<1>5. \A c \in Categories : selected[c] = Nothing
    BY DEF Init
<1>6. clicks \in 0..MaxClicks
    <2>1. MaxClicks \in Nat
        BY ConfiguratorAssumption
    <2>2. clicks = 0
        BY DEF Init
    <2> QED
        BY <2>1, <2>2
<1> QED
    BY <1>1, <1>3, <1>4, <1>5, <1>6 DEF Init, Inv

LEMMA InvClicks ==
    ASSUME Inv, Click
    PROVE  clicks' \in 0..MaxClicks
<1>1. MaxClicks \in Nat
    BY ConfiguratorAssumption
<1> QED
    BY <1>1 DEF Inv, Click

\* A step that keeps the choices and where they come from.
LEMMA ChoicesKept ==
    ASSUME Inv, UNCHANGED <<selected, origin>>
    PROVE  /\ Filed(selected)'
           /\ origin' \in [Categories -> Origins \cup {Nothing}]
           /\ \A c \in Categories : selected'[c] # Nothing =>
                 origin'[c] \in Origins /\ PickedFrom(selected'[c], origin'[c])
BY DEF Inv, Filed

LEMMA InvSelectTab == Inv /\ SelectTab => Inv'
<1> SUFFICES ASSUME Inv, SelectTab
             PROVE  Inv'
    OBVIOUS
<1>1. PICK c \in Tabs \ {tab} : tab' = c /\ StartFetches(FetchedForTab(c))
    BY DEF SelectTab
<1>2. c \in Categories
    BY ConfiguratorAssumption
<1>3. FetchedForTab(c) \in Seq(FiledRequests)
    <2>1. Request(c, usecase, brand) \in FiledRequests
        BY <1>2, RequestFiled DEF Inv
    <2>2. Request(c, Anything, Anything) \in FiledRequests
        BY <1>2, RequestFiled
    <2> QED
        BY <2>1, <2>2 DEF FetchedForTab
<1>4. fetches' \in Seq(Fetches) /\ failed' = FALSE
    BY <1>1, <1>3, AppendFetches DEF Inv
<1>5. clicks' \in 0..MaxClicks
    BY InvClicks DEF SelectTab
<1>6. UNCHANGED <<compatibleOnly, selected, origin, compatibleFor, allFor, disorder>>
    BY <1>1 DEF SelectTab, StartFetches
<1>7. usecase' = Anything /\ brand' = Anything
    BY DEF SelectTab
<1> QED
    BY <1>1, <1>2, <1>4, <1>5, <1>6, <1>7, ChoicesKept DEF Inv

LEMMA InvSelectFilter == Inv /\ SelectFilter => Inv'
<1> SUFFICES ASSUME Inv, SelectFilter
             PROVE  Inv'
    OBVIOUS
<1>1. usecase' \in Usecases \cup {Anything} /\ brand' \in Brands \cup {Anything}
    BY DEF SelectFilter, Inv
<1>2. tab \in Categories
    BY DEF Inv
<1>3. Request(tab, usecase', brand') \in FiledRequests
    BY <1>1, <1>2, RequestFiled
<1>4. StartFetches(<<Request(tab, usecase', brand')>>)
    BY DEF SelectFilter
<1>5. <<Request(tab, usecase', brand')>> \in Seq(FiledRequests)
    BY <1>3
<1>6. fetches' \in Seq(Fetches) /\ failed' = FALSE
    BY <1>4, <1>5, AppendFetches DEF Inv
<1>7. clicks' \in 0..MaxClicks
    BY InvClicks DEF SelectFilter
<1>8. UNCHANGED <<tab, compatibleOnly, selected, origin, compatibleFor, allFor, disorder>>
    BY <1>4 DEF SelectFilter, StartFetches
<1> QED
    BY <1>1, <1>6, <1>7, <1>8, ChoicesKept DEF Inv

LEMMA InvSwitchList == Inv /\ SwitchList => Inv'
<1> SUFFICES ASSUME Inv, SwitchList
             PROVE  Inv'
    OBVIOUS
<1>1. clicks' \in 0..MaxClicks
    BY InvClicks DEF SwitchList
<1>2. UNCHANGED <<tab, usecase, brand, selected, origin, fetches, failed,
                  compatibleFor, allFor, disorder>>
    BY DEF SwitchList, filters, lists, net
<1>3. compatibleOnly' \in BOOLEAN
    BY DEF SwitchList
<1> QED
    BY <1>1, <1>2, <1>3, ChoicesKept DEF Inv

\* What Select and Remove leave alone.
LEMMA InvOtherwise ==
    ASSUME Inv, Click, UNCHANGED <<tab, filters, compatibleOnly, lists, net>>,
           Filed(selected)',
           origin' \in [Categories -> Origins \cup {Nothing}],
           \A c \in Categories : selected'[c] # Nothing =>
               origin'[c] \in Origins /\ PickedFrom(selected'[c], origin'[c])
    PROVE  Inv'
<1>1. clicks' \in 0..MaxClicks
    BY InvClicks
<1>2. UNCHANGED <<tab, usecase, brand, compatibleOnly, fetches, failed,
                  compatibleFor, allFor, disorder>>
    BY DEF filters, lists, net
<1> QED
    BY <1>1, <1>2 DEF Inv

LEMMA ChoiceDropped ==
    ASSUME Inv, NEW d \in Categories,
           selected' = [selected EXCEPT ![d] = Nothing],
           origin' = [origin EXCEPT ![d] = Nothing]
    PROVE  /\ Filed(selected)'
           /\ origin' \in [Categories -> Origins \cup {Nothing}]
           /\ \A c \in Categories : selected'[c] # Nothing =>
                 origin'[c] \in Origins /\ PickedFrom(selected'[c], origin'[c])
<1>1. selected \in [Categories -> Catalogue \cup {Nothing}]
    BY DEF Inv, Filed, Choices
<1>2. \A c \in Categories : selected'[c] = IF c = d THEN Nothing ELSE selected[c]
    BY <1>1
<1>3. selected' \in [Categories -> Catalogue \cup {Nothing}]
    BY <1>1
<1>4. origin' \in [Categories -> Origins \cup {Nothing}]
    BY DEF Inv
<1>5. \A c \in Categories : c # d => origin'[c] = origin[c]
    BY DEF Inv
<1>6. Filed(selected')
    BY <1>2, <1>3 DEF Inv, Filed, Choices
<1> QED
    BY <1>2, <1>4, <1>5, <1>6 DEF Inv, Filed, Choices

LEMMA InvSelect == Inv /\ Select => Inv'
<1> SUFFICES ASSUME Inv, Select
             PROVE  Inv'
    OBVIOUS
<1> DEFINE o == [compatible |-> compatibleOnly,
                 request |-> IF compatibleOnly THEN compatibleFor ELSE allFor]
<1>1. PICK x \in Shown :
          IF selected[CategoryOf(x)] = x
          THEN /\ selected' = [selected EXCEPT ![CategoryOf(x)] = Nothing]
               /\ origin' = [origin EXCEPT ![CategoryOf(x)] = Nothing]
          ELSE /\ selected' = [selected EXCEPT ![CategoryOf(x)] = x]
               /\ origin' = [origin EXCEPT ![CategoryOf(x)] = o]
    BY DEF Select
<1> DEFINE d == x.category
<1>2. o \in Origins /\ PickedFrom(x, o) /\ d \in Categories /\ x \in Catalogue
    BY ShownRemembered
<1>3. CASE selected[d] = x
    BY <1>1, <1>2, <1>3, ChoiceDropped, InvOtherwise DEF CategoryOf, Select
<1>4. CASE selected[d] # x
    <2> HIDE DEF o
    <2>1. selected' = [selected EXCEPT ![d] = x] /\ origin' = [origin EXCEPT ![d] = o]
        BY <1>1, <1>4 DEF CategoryOf
    <2>2. selected \in [Categories -> Catalogue \cup {Nothing}]
        BY DEF Inv, Filed, Choices
    <2>3. \A c \in Categories : selected'[c] = IF c = d THEN x ELSE selected[c]
        BY <2>1, <2>2
    <2>4. selected' \in [Categories -> Catalogue \cup {Nothing}]
        BY <1>2, <2>1, <2>2
    <2>5. origin \in [Categories -> Origins \cup {Nothing}]
        BY DEF Inv
    <2>6. origin' \in [Categories -> Origins \cup {Nothing}]
        BY <1>2, <2>1, <2>5
    <2>7. \A c \in Categories : origin'[c] = IF c = d THEN o ELSE origin[c]
        BY <2>1, <2>5
    <2>8. Filed(selected')
        BY <2>3, <2>4 DEF Inv, Filed, Choices
    <2>9. \A c \in Categories : selected'[c] # Nothing =>
              origin'[c] \in Origins /\ PickedFrom(selected'[c], origin'[c])
        BY <1>2, <2>3, <2>7 DEF Inv
    <2> QED
        BY <2>6, <2>8, <2>9, InvOtherwise DEF Select, Filed, Choices
<1> QED
    BY <1>3, <1>4

LEMMA InvRemove == Inv /\ Remove => Inv'
<1> SUFFICES ASSUME Inv, Remove
             PROVE  Inv'
    OBVIOUS
<1>1. PICK d \in Categories : selected' = [selected EXCEPT ![d] = Nothing]
                                /\ origin' = [origin EXCEPT ![d] = Nothing]
    BY DEF Remove, Dropped
<1> QED
    BY <1>1, ChoiceDropped, InvOtherwise DEF Remove

LEMMA InvAnswers == Inv /\ (ReceiveCompatible \/ ReceiveAll \/ FetchFails) => Inv'
<1> SUFFICES ASSUME Inv
             PROVE  (ReceiveCompatible \/ ReceiveAll \/ FetchFails) => Inv'
    OBVIOUS
<1>1. \A n \in DOMAIN fetches : fetches[n] \in Fetches
    BY DEF Inv
<1>2. ASSUME ReceiveCompatible PROVE Inv'
    <2>1. PICK n \in DOMAIN fetches :
              /\ compatibleFor' = fetches[n].request
              /\ fetches' = [fetches EXCEPT ![n].awaits = "all"]
              /\ disorder' = (disorder \/ n > 1)
              /\ UNCHANGED <<tab, filters, compatibleOnly, selected, failed, allFor,
                             clicks, origin>>
        BY <1>2 DEF ReceiveCompatible
    <2>2. compatibleFor' \in FiledRequests
        BY <1>1, <2>1 DEF Fetches
    <2>3. [fetches[n] EXCEPT !.awaits = "all"] \in Fetches
        BY <1>1 DEF Fetches
    <2>4. fetches' \in Seq(Fetches)
        BY <2>1, <2>3 DEF Inv
    <2>5. UNCHANGED <<usecase, brand>>
        BY <2>1 DEF filters
    <2>6. disorder' \in BOOLEAN
        BY <2>1
    <2> QED
        BY <2>1, <2>2, <2>4, <2>5, <2>6, ChoicesKept DEF Inv
<1>3. ASSUME ReceiveAll PROVE Inv'
    <2>1. PICK n \in DOMAIN fetches :
              /\ allFor' = fetches[n].request
              /\ fetches' = Seqs!RemoveAt(fetches, n)
              /\ disorder' = (disorder \/ n > 1)
              /\ UNCHANGED <<tab, filters, compatibleOnly, selected, failed,
                             compatibleFor, clicks, origin>>
        BY <1>3 DEF ReceiveAll
    <2>2. allFor' \in FiledRequests
        BY <1>1, <2>1 DEF Fetches
    <2>3. fetches' \in Seq(Fetches)
        BY <2>1, FetchRemoved DEF Inv
    <2>4. UNCHANGED <<usecase, brand>>
        BY <2>1 DEF filters
    <2>5. disorder' \in BOOLEAN
        BY <2>1
    <2> QED
        BY <2>1, <2>2, <2>3, <2>4, <2>5, ChoicesKept DEF Inv
<1>4. ASSUME FetchFails PROVE Inv'
    <2>1. PICK n \in DOMAIN fetches :
              /\ fetches' = Seqs!RemoveAt(fetches, n)
              /\ failed' = TRUE
              /\ disorder' = TRUE
              /\ UNCHANGED <<tab, filters, compatibleOnly, selected, compatibleFor,
                             allFor, clicks, origin>>
        BY <1>4 DEF FetchFails
    <2>2. fetches' \in Seq(Fetches)
        BY <2>1, FetchRemoved DEF Inv
    <2>3. UNCHANGED <<usecase, brand>>
        BY <2>1 DEF filters
    <2> QED
        BY <2>1, <2>2, <2>3, ChoicesKept DEF Inv
<1> QED
    BY <1>2, <1>3, <1>4

LEMMA InvNext == Inv /\ [Next]_vars => Inv'
<1> SUFFICES ASSUME Inv, [Next]_vars
             PROVE  Inv'
    OBVIOUS
<1>1. CASE Next
    BY <1>1, InvSelectTab, InvSelectFilter, InvSwitchList, InvSelect, InvRemove,
       InvAnswers DEF Next
<1>2. CASE UNCHANGED vars
    <2>1. UNCHANGED <<tab, usecase, brand, compatibleOnly, selected, origin, fetches,
                      failed, compatibleFor, allFor, clicks, disorder>>
        BY <1>2 DEF vars, filters, lists, net
    <2> QED
        BY <2>1, ChoicesKept DEF Inv
<1> QED
    BY <1>1, <1>2

LEMMA InvInvariant == Spec => []Inv
<1> QED
    BY InvInit, InvNext, PTL DEF Spec

(***************************************************************************)
(* Every variable of the page keeps its type.                              *)
(***************************************************************************)
THEOREM TypeCorrect == Spec => []TypeOK
<1>1. Inv => TypeOK
    <2> SUFFICES ASSUME Inv
                 PROVE  TypeOK
        OBVIOUS
    <2>1. FiledRequests \subseteq Requests
        BY DEF FiledRequests
    <2>2. fetches \in Seq([request : Requests, awaits : {"compatible", "all"}])
        <3>1. Fetches \subseteq [request : Requests, awaits : {"compatible", "all"}]
            BY <2>1 DEF Fetches
        <3>2. /\ Len(fetches) \in Nat /\ DOMAIN fetches = 1..Len(fetches)
              /\ fetches = [n \in 1..Len(fetches) |-> fetches[n]]
              /\ \A n \in 1..Len(fetches) : fetches[n] \in Fetches
            BY DEF Inv
        <3> DEFINE T == [request : Requests, awaits : {"compatible", "all"}]
        <3>3. \A n \in 1..Len(fetches) : fetches[n] \in T
            BY <3>1, <3>2
        <3> HIDE DEF T
        <3>4. fetches \in Seq(T)
            BY <3>2, <3>3
        <3> QED
            BY <3>4 DEF T
    <2>3. Origins \subseteq [compatible : BOOLEAN, request : Requests]
        BY <2>1 DEF Origins
    <2>4. origin \in [Categories -> [compatible : BOOLEAN, request : Requests] \cup {Nothing}]
        BY <2>3 DEF Inv
    <2> QED
        BY <2>1, <2>2, <2>4 DEF Inv, TypeOK, Filed
<1> QED
    BY <1>1, InvInvariant, PTL

(***************************************************************************)
(* A component is chosen for its own category, however late the answer was *)
(* whose list it was picked from.                                          *)
(***************************************************************************)
THEOREM FiledAlways == Spec => []FiledUnderOwnCategory
<1>1. Inv => FiledUnderOwnCategory
    BY DEF Inv, Filed, FiledUnderOwnCategory
<1> QED
    BY <1>1, InvInvariant, PTL

\* What a request told the service about the components chosen.
LEMMA BuildOfRequest ==
    ASSUME NEW chosen, Filed(chosen)
    PROVE  /\ Build(SpecsOf(chosen))
           /\ \A d \in Categories : chosen[d] # Nothing =>
                 d \in DOMAIN SpecsOf(chosen) /\ SpecsOf(chosen)[d] = chosen[d].specs
<1> DEFINE b == SpecsOf(chosen)
<1>1. DOMAIN b = {d \in Categories : chosen[d] # Nothing}
    BY DEF SpecsOf
<1>2. \A d \in DOMAIN b : /\ b[d] = chosen[d].specs
                          /\ chosen[d] \in Catalogue /\ chosen[d].category = d
    BY <1>1 DEF SpecsOf, Filed, Choices
<1>3. \A d \in DOMAIN b : IsSpecs(b[d])
    BY <1>2, CompatibilityAssumption
<1>4. "cpu" \in DOMAIN b => Has(b["cpu"], "socket")
    BY <1>2, CatalogueAssumption
<1>5. "motherboard" \in DOMAIN b =>
         /\ Has(b["motherboard"], "pcie_version") /\ Has(b["motherboard"], "m2_slots")
         /\ b["motherboard"]["m2_slots"] >= 1
    BY <1>2, CatalogueAssumption
<1> QED
    BY <1>1, <1>2, <1>3, <1>4, <1>5 DEF Build

(***************************************************************************)
(* Picked from the compatible ones, a component has none of the conflicts  *)
(* its category's offers avoid with what had been chosen before it and     *)
(* still is: for every catalogue, and whatever answers came late.          *)
(***************************************************************************)
THEOREM OfferedFitsAlways == Spec => []OfferedFits
<1>1. ASSUME Inv, NEW c \in Categories, Picked(c)
      PROVE  ~AvoidedConflict(c, [d \in (Considered(c) \ {c}) \cup {c} |-> selected[d].specs])
    <2> DEFINE o == origin[c]
               x == selected[c]
               chosen == o.request.bases
               b == SpecsOf(chosen)
               n == [d \in (Considered(c) \ {c}) \cup {c} |-> selected[d].specs]
    <2>1. selected[c] # Nothing /\ o.compatible
        BY <1>1 DEF Picked
    <2>2. o \in Origins /\ PickedFrom(x, o) /\ x.category = c
        BY <1>1, <2>1 DEF Inv, Filed
    <2>3. o.request \in FiledRequests /\ o.request.category \in Categories
        BY <2>2 DEF Origins, FiledRequests, Requests
    <2>4. Filed(chosen)
        BY <2>3 DEF FiledRequests
    <2>5. x \in Offered(o.request.category, b, o.request.usecase, o.request.brand)
        BY <2>1, <2>2 DEF PickedFrom
    <2>6. o.request.category = c
        BY <2>2, <2>3, <2>5, OfferedInCatalogue
    <2>7. Beside(n, b, c, x)
        <3>1. DOMAIN n = (Considered(c) \ {c}) \cup {c} /\ n[c] = x.specs
            OBVIOUS
        <3>2. \A d \in Considered(c) :
                  d \in Categories /\ chosen[d] # Nothing /\ chosen[d] = selected[d]
            BY DEF Considered
        <3>3. \A d \in Considered(c) : d \in DOMAIN b /\ b[d] = selected[d].specs
            BY <2>4, <3>2, BuildOfRequest
        <3> HIDE DEF b, x
        <3> QED
            BY <3>1, <3>3 DEF Beside
    <2>8. Build(b)
        BY <2>4, BuildOfRequest
    <2> HIDE DEF b, x, n, o, chosen
    <2>9. ~AvoidedConflict(c, n)
        BY <2>5, <2>6, <2>7, <2>8, OfferAvoidsConflicts
    <2> QED
        BY <2>9 DEF n
<1>2. Inv => OfferedFits
    BY <1>1 DEF OfferedFits
<1> QED
    BY <1>2, InvInvariant, PTL

LEMMA FromList ==
    ASSUME Inv, NEW c \in Categories, selected[c] # Nothing
    PROVE  selected[c] \in FetchComponents(c, origin[c].request.usecase,
                                           origin[c].request.brand)
<1> DEFINE o == origin[c]
<1>1. o \in Origins /\ PickedFrom(selected[c], o) /\ selected[c].category = c
    BY DEF Inv, Filed
<1>2. o.request.category \in Categories
    BY <1>1 DEF Origins, FiledRequests, Requests
<1>3. selected[c] \in FetchComponents(o.request.category, o.request.usecase, o.request.brand)
    BY <1>1, <1>2, OfferedInCatalogue DEF PickedFrom
<1>4. o.request.category = c
    BY <1>1, <1>3 DEF FetchComponents
<1> QED
    BY <1>3, <1>4

(***************************************************************************)
(* Memory and board picked under one use case fit together, in every       *)
(* catalogue, though no offer looks at both.                               *)
(***************************************************************************)
THEOREM MemoryFitsAlways == Spec => []ScenarioMemoryFits
<1>1. ASSUME Inv, NEW u \in Usecases, selected["ram"] # Nothing,
             selected["motherboard"] # Nothing,
             origin["ram"].request.usecase = u,
             origin["motherboard"].request.usecase = u
      PROVE  ~RamBoardConflict(SpecsOf(selected))
    <2> DEFINE ram == selected["ram"]
               board == selected["motherboard"]
               type == Scenarios[u].RAMType
    <2>1. u # Anything /\ type # ""
        BY ConfiguratorAssumption
    <2>2. "ram" \in Categories /\ "motherboard" \in Categories
        BY DEF Categories
    <2>3. ram.category = "ram" /\ Matches(ram, Scenarios[u])
        BY <1>1, <2>1, <2>2, FromList DEF FetchComponents
    <2>4. board.category = "motherboard" /\ Matches(board, Scenarios[u])
        BY <1>1, <2>1, <2>2, FromList DEF FetchComponents
    <2>5. Has(ram.specs, "ram_type") /\ ram.specs["ram_type"] = type
        BY <2>1, <2>3 DEF Matches, ramMatches
    <2>6. Has(board.specs, "ram_type") /\ board.specs["ram_type"] = type
        BY <2>1, <2>4 DEF Matches, mbMatches
    <2>7. /\ SpecsOf(selected)["ram"] = ram.specs
          /\ SpecsOf(selected)["motherboard"] = board.specs
        BY <1>1, <2>2, BuildOfRequest DEF Inv
    <2> QED
        BY <2>5, <2>6, <2>7 DEF RamBoardConflict, Same
<1>2. Inv => ScenarioMemoryFits
    BY <1>1 DEF ScenarioMemoryFits
<1> QED
    BY <1>2, InvInvariant, PTL

-----------------------------------------------------------------------------
(* The lists: as long as answers come in order, the last fetch due is for  *)
(* the view, and so are both lists when none is due.                       *)

ForView(r) ==
    r # Nothing /\ r.category = tab /\ r.usecase = usecase /\ r.brand = brand

\* Only the oldest fetch may have had its first answer.
InOrder ==
    /\ fetches # <<>> => ForView(fetches[Len(fetches)].request)
    /\ fetches = <<>> => ForView(compatibleFor) /\ ForView(allFor)
    /\ \A n \in DOMAIN fetches : fetches[n].awaits = "all" =>
          n = 1 /\ compatibleFor = fetches[n].request

FollowInv == ~disorder => InOrder

LEMMA FollowInit == Init => FollowInv
<1> SUFFICES ASSUME Init
             PROVE  InOrder
    BY DEF FollowInv
<1> DEFINE r == [category |-> "cpu", usecase |-> Anything, brand |-> Anything,
                 bases |-> selected]
<1>1. fetches = <<Fetch(r)>>
    BY DEF Init
<1>2. r \in Requests
    <2>1. r \in FiledRequests
        <3>1. Filed(selected) /\ "cpu" \in Categories
            BY DEF Init, Filed, Choices, Categories
        <3> QED
            BY <3>1 DEF FiledRequests, Requests, Filed
    <2> QED
        BY <2>1 DEF FiledRequests
<1>3. ForView(r)
    BY <1>2, ConfiguratorAssumption DEF Init, ForView
<1> HIDE DEF r
<1>4. /\ Len(fetches) = 1 /\ fetches # <<>> /\ DOMAIN fetches = {1}
      /\ fetches[1].request = r /\ fetches[1].awaits = "compatible"
    BY <1>1 DEF Fetch
<1> QED
    BY <1>3, <1>4 DEF InOrder

\* New fetches queue up behind the others; the last of them is for the view.
LEMMA StartedFollows ==
    ASSUME Inv, FollowInv, NEW requests \in Seq(FiledRequests), requests # <<>>,
           StartFetches(requests),
           requests[Len(requests)].category = tab',
           requests[Len(requests)].usecase = usecase',
           requests[Len(requests)].brand = brand'
    PROVE  FollowInv'
<1> DEFINE new == [n \in DOMAIN requests |-> Fetch(requests[n])]
           l   == Len(fetches)
           m   == Len(requests)
<1>1. /\ fetches \in Seq(Fetches) /\ l \in Nat /\ DOMAIN fetches = 1..l
      /\ m \in Nat \ {0} /\ DOMAIN requests = 1..m
    BY DEF Inv
<1>2. new \in Seq(Fetches) /\ Len(new) = m
    <2>1. \A n \in 1..m : Fetch(requests[n]) \in Fetches
        BY <1>1 DEF Fetch, Fetches
    <2>2. new \in [1..m -> Fetches]
        BY <1>1, <2>1
    <2> QED
        BY <1>1, <2>2
<1>3. \A n \in 1..m : new[n].request = requests[n] /\ new[n].awaits = "compatible"
    BY <1>1 DEF Fetch
<1>4. UNCHANGED <<compatibleFor, disorder>> /\ fetches' = fetches \o new
    BY DEF StartFetches
<1> HIDE DEF new
<1>5. /\ Len(fetches') = l + m /\ DOMAIN fetches' = 1..(l + m)
      /\ \A n \in 1..l : fetches'[n] = fetches[n]
      /\ \A n \in (l + 1)..(l + m) : fetches'[n] = new[n - l]
    <2>1. /\ fetches \o new \in Seq(Fetches)
          /\ Len(fetches \o new) = l + m
          /\ \A n \in 1..(l + m) :
                (fetches \o new)[n] = IF n <= l THEN fetches[n] ELSE new[n - l]
        BY <1>1, <1>2, ConcatProperties
    <2> QED
        BY <1>1, <1>4, <2>1
<1>6. ASSUME ~disorder
      PROVE  InOrder'
    <2>1. fetches' # <<>>
        BY <1>1, <1>5
    <2>2. fetches'[l + m].request = requests[m]
        BY <1>1, <1>3, <1>5
    <2>3. requests[m] \in Requests
        BY <1>1 DEF FiledRequests
    <2>4. ForView(fetches[Len(fetches)].request)'
        BY <1>5, <2>2, <2>3, ConfiguratorAssumption DEF ForView
    <2>5. \A n \in DOMAIN fetches' : fetches'[n].awaits = "all" =>
             n = 1 /\ compatibleFor' = fetches'[n].request
        <3> SUFFICES ASSUME NEW n \in 1..(l + m), fetches'[n].awaits = "all"
                     PROVE  n = 1 /\ compatibleFor' = fetches'[n].request
            BY <1>5
        <3>1. n \in 1..l
            <4> SUFFICES ASSUME n \in (l + 1)..(l + m)
                         PROVE  FALSE
                BY <1>1
            <4>1. n - l \in 1..m /\ fetches'[n] = new[n - l]
                BY <1>1, <1>5
            <4> QED
                BY <1>3, <4>1
        <3> QED
            BY <1>1, <1>4, <1>5, <1>6, <3>1 DEF FollowInv, InOrder
    <2> QED
        BY <2>1, <2>4, <2>5 DEF InOrder
<1> QED
    BY <1>4, <1>6 DEF FollowInv

LEMMA FollowSelectTab == Inv /\ FollowInv /\ SelectTab => FollowInv'
<1> SUFFICES ASSUME Inv, FollowInv, SelectTab
             PROVE  FollowInv'
    OBVIOUS
<1>1. PICK c \in Tabs \ {tab} : tab' = c /\ StartFetches(FetchedForTab(c))
    BY DEF SelectTab
<1>2. usecase' = Anything /\ brand' = Anything
    BY DEF SelectTab
<1>3. c \in Categories
    BY ConfiguratorAssumption
<1>4. /\ Request(c, usecase, brand) \in FiledRequests
      /\ Request(c, Anything, Anything) \in FiledRequests
    BY <1>3, RequestFiled DEF Inv
<1> DEFINE requests == FetchedForTab(c)
<1>5. /\ requests \in Seq(FiledRequests) /\ requests # <<>>
      /\ requests[Len(requests)] = Request(c, Anything, Anything)
    BY <1>4 DEF FetchedForTab
<1>6. /\ Request(c, Anything, Anything).category = c
      /\ Request(c, Anything, Anything).usecase = Anything
      /\ Request(c, Anything, Anything).brand = Anything
    BY DEF Request
<1> HIDE DEF requests
<1>7. StartFetches(requests)
    BY <1>1 DEF requests
<1> QED
    BY <1>1, <1>2, <1>5, <1>6, <1>7, StartedFollows

LEMMA FollowSelectFilter == Inv /\ FollowInv /\ SelectFilter => FollowInv'
<1> SUFFICES ASSUME Inv, FollowInv, SelectFilter
             PROVE  FollowInv'
    OBVIOUS
<1> DEFINE r == Request(tab, usecase', brand')
<1>1. usecase' \in Usecases \cup {Anything} /\ brand' \in Brands \cup {Anything}
    BY DEF SelectFilter, Inv
<1>2. r \in FiledRequests
    BY <1>1, RequestFiled DEF Inv
<1>3. r.category = tab' /\ r.usecase = usecase' /\ r.brand = brand'
    BY DEF Request, SelectFilter
<1>4. StartFetches(<<r>>)
    BY DEF SelectFilter
<1> HIDE DEF r
<1>5. <<r>> \in Seq(FiledRequests) /\ <<r>> # <<>> /\ <<r>>[Len(<<r>>)] = r
    BY <1>2
<1> QED
    BY <1>3, <1>4, <1>5, StartedFollows

LEMMA FollowAnswers ==
    Inv /\ FollowInv /\ (ReceiveCompatible \/ ReceiveAll \/ FetchFails) => FollowInv'
<1> SUFFICES ASSUME Inv, FollowInv
             PROVE  (ReceiveCompatible \/ ReceiveAll \/ FetchFails) => FollowInv'
    OBVIOUS
<1> DEFINE l == Len(fetches)
<1>1. /\ fetches \in Seq(Fetches) /\ l \in Nat /\ DOMAIN fetches = 1..l
      /\ \A n \in 1..l : fetches[n] \in Fetches
    BY DEF Inv
<1>2. ASSUME ReceiveCompatible PROVE FollowInv'
    <2>1. PICK n \in DOMAIN fetches :
              /\ compatibleFor' = fetches[n].request
              /\ fetches' = [fetches EXCEPT ![n].awaits = "all"]
              /\ disorder' = (disorder \/ n > 1)
              /\ UNCHANGED <<tab, usecase, brand>>
        BY <1>2 DEF ReceiveCompatible, filters
    <2>a. n = 1 \/ n > 1
        BY <1>1
    <2>2. SUFFICES ASSUME ~disorder, n = 1
                   PROVE  InOrder'
        BY <2>1, <2>a, Zenon DEF FollowInv
    <2>3. InOrder
        BY <2>2 DEF FollowInv
    <2>4. /\ Len(fetches') = l /\ DOMAIN fetches' = 1..l /\ fetches' # <<>>
          /\ \A i \in 1..l : /\ fetches'[i].request = fetches[i].request
                             /\ i # 1 => fetches'[i].awaits = fetches[i].awaits
        <3>1. Len(fetches') = l /\ DOMAIN fetches' = 1..l /\ fetches' # <<>>
            BY <1>1, <2>1
        <3>2. \A i \in 1..l : i # 1 => fetches'[i] = fetches[i]
            BY <1>1, <2>1, <2>2
        <3>3. fetches'[1] = [fetches[1] EXCEPT !.awaits = "all"]
            BY <1>1, <2>1, <2>2
        <3>4. fetches'[1].request = fetches[1].request
            BY <1>1, <2>1, <2>2, <3>3 DEF Fetches
        <3> QED
            BY <3>1, <3>2, <3>4
    <2>5. fetches'[Len(fetches')].request = fetches[l].request /\ fetches # <<>>
        BY <1>1, <2>1, <2>4
    <2> QED
        BY <1>1, <2>1, <2>2, <2>3, <2>4, <2>5 DEF InOrder, ForView
<1>3. ASSUME ReceiveAll PROVE FollowInv'
    <2>1. PICK n \in DOMAIN fetches :
              /\ fetches[n].awaits = "all"
              /\ allFor' = fetches[n].request
              /\ fetches' = Seqs!RemoveAt(fetches, n)
              /\ disorder' = (disorder \/ n > 1)
              /\ UNCHANGED <<tab, usecase, brand, compatibleFor>>
        BY <1>3 DEF ReceiveAll, filters
    <2>a. n = 1 \/ n > 1
        BY <1>1
    <2>2. SUFFICES ASSUME ~disorder, n = 1
                   PROVE  InOrder'
        BY <2>1, <2>a, Zenon DEF FollowInv
    <2>3. /\ InOrder /\ compatibleFor = fetches[1].request
          /\ ForView(fetches[l].request) /\ l >= 1
        BY <1>1, <2>1, <2>2 DEF FollowInv, InOrder
    <2>4. /\ Len(fetches') = l - 1 /\ DOMAIN fetches' = 1..(l - 1)
          /\ \A i \in 1..(l - 1) : fetches'[i] = fetches[i + 1]
        BY <1>1, <2>1, <2>2, <2>3 DEF Seqs!RemoveAt
    <2>5. \A i \in DOMAIN fetches' : fetches'[i].awaits # "all"
        BY <1>1, <2>3, <2>4 DEF InOrder
    <2>6. CASE l = 1
        <3>1. Len(fetches') = 0
            BY <2>4, <2>6
        <3>2. ForView(compatibleFor)' /\ ForView(allFor)'
            BY <2>1, <2>2, <2>3, <2>6 DEF ForView
        <3>3. fetches' = <<>>
            BY <1>1, <2>1, <3>1, FetchRemoved
        <3> QED
            BY <2>5, <3>2, <3>3 DEF InOrder
    <2>7. CASE l > 1
        <3>1. fetches' # <<>> /\ fetches'[Len(fetches')] = fetches[l]
            BY <1>1, <2>4, <2>7
        <3>2. ForView(fetches[Len(fetches)].request)'
            BY <2>1, <2>3, <3>1 DEF ForView
        <3> QED
            BY <2>5, <3>1, <3>2 DEF InOrder
    <2> QED
        BY <1>1, <2>3, <2>6, <2>7
<1>4. ASSUME FetchFails PROVE FollowInv'
    BY <1>4 DEF FetchFails, FollowInv
<1> QED
    BY <1>2, <1>3, <1>4

LEMMA FollowNext == Inv /\ FollowInv /\ [Next]_vars => FollowInv'
<1> SUFFICES ASSUME Inv, FollowInv, [Next]_vars
             PROVE  FollowInv'
    OBVIOUS
<1>1. ASSUME UNCHANGED <<tab, usecase, brand, fetches, compatibleFor, allFor, disorder>>
      PROVE  FollowInv'
    BY <1>1 DEF FollowInv, InOrder, ForView
<1>2. CASE SwitchList \/ Select \/ Remove \/ UNCHANGED vars
    BY <1>1, <1>2 DEF SwitchList, Select, Remove, vars, filters, lists, net
<1> QED
    BY <1>2, FollowSelectTab, FollowSelectFilter, FollowAnswers DEF Next

(***************************************************************************)
(* Both lists are of the category on view and of the filters beside it     *)
(* once all answers arrived in order, however many fetches the effects of  *)
(* ComponentList.tsx start for one click.                                  *)
(***************************************************************************)
THEOREM ListsFollowViewAlways == Spec => []ListsFollowView
<1>1. FollowInv => ListsFollowView
    BY DEF FollowInv, InOrder, ForView, ListsFollowView
<1> QED
    BY <1>1, InvInvariant, FollowInit, FollowNext, PTL DEF Spec
=============================================================================
