---------------------------- MODULE Configurator ----------------------------
(***************************************************************************)
(* The web client's page for assembling a build: Configurator keeps the    *)
(* category on view and the components chosen, ComponentList fetches what  *)
(* config-service offers in that category (Compatibility) and hands over   *)
(* what the user picks.                                                    *)
(*                                                                         *)
(* An effect of ComponentList starts a fetch whenever the category, the    *)
(* use case or the brand changes, not when a component is chosen: first    *)
(* the compatible components are asked for, then all of them.  Fetches are *)
(* neither cancelled nor numbered, so their answers arrive in any order.   *)
(* The catalogue does not change, so a list is known by the request it     *)
(* answers.                                                                *)
(***************************************************************************)
EXTENDS Compatibility

Seqs == INSTANCE SequencesExt

CONSTANTS
    Tabs,       \* bound: the categories the user looks at
    Brands,     \* brand tabs besides all brands
    Nothing,    \* no component, or no request answered yet
    MaxClicks,  \* bound: what the user does
    MaxFetches  \* bound: fetches at once

VARIABLES
    tab,             \* selectedCategory
    usecase,         \* activeUsecaseTab
    brand,           \* activeBrandTab
    compatibleOnly,  \* showCompatibleOnly
    selected,        \* selectedComponents
    fetches,         \* fetches that wait for an answer, oldest first
    failed,          \* error is shown instead of the list
    compatibleFor,   \* the request whose answer is compatibleComponents
    allFor,          \* the request whose answer is allComponents
    clicks,          \* history: clicks of the user
    origin,          \* history: the list each component was picked from
    disorder         \* history: an answer overtook an older one, or failed

filters == <<usecase, brand>>
lists   == <<failed, compatibleFor, allFor>>
net     == <<fetches, disorder>>
vars == <<tab, filters, compatibleOnly, selected, lists, net, clicks, origin>>

Usecases == DOMAIN Scenarios

Choices  == [Categories -> Catalogue \cup {Nothing}]
Requests == [category : Categories, usecase : Usecases \cup {Anything},
             brand : Brands \cup {Anything}, bases : Choices]

ASSUME ConfiguratorAssumption ==
    /\ MaxClicks \in Nat /\ MaxFetches \in Nat
    /\ "cpu" \in Tabs /\ Tabs \subseteq Categories
    /\ Anything \notin Usecases \cup Brands
    /\ Nothing \notin Requests
    /\ \A u \in Usecases : Scenarios[u].RAMType # ""

\* The specs of the components chosen, by category.
SpecsOf(chosen) ==
    [c \in {d \in Categories : chosen[d] # Nothing} |-> chosen[c].specs]

CompatibleList ==
    IF compatibleFor = Nothing THEN {}
    ELSE Offered(compatibleFor.category, SpecsOf(compatibleFor.bases),
                 compatibleFor.usecase, compatibleFor.brand)

AllList ==
    IF allFor = Nothing THEN {}
    ELSE FetchComponents(allFor.category, allFor.usecase, allFor.brand)

\* What the page shows: nothing of it while there is an error.
Shown ==
    IF failed THEN {} ELSE IF compatibleOnly THEN CompatibleList ELSE AllList
-----------------------------------------------------------------------------
Request(category, u, b) ==
    [category |-> category, usecase |-> u, brand |-> b, bases |-> selected]

Fetch(request) == [request |-> request, awaits |-> "compatible"]

\* The effect runs for each of a sequence of requests; its first statement
\* clears the error.
StartFetches(requests) ==
    /\ Len(fetches \o requests) <= MaxFetches
    /\ fetches' = fetches \o [n \in DOMAIN requests |-> Fetch(requests[n])]
    /\ failed' = FALSE
    /\ UNCHANGED <<compatibleFor, allFor, disorder>>

Init ==
    /\ tab = "cpu"
    /\ usecase = Anything
    /\ brand = Anything
    /\ compatibleOnly = TRUE
    /\ selected = [c \in Categories |-> Nothing]
    /\ fetches = <<Fetch([category |-> "cpu", usecase |-> Anything,
                          brand |-> Anything, bases |-> selected])>>
    /\ failed = FALSE
    /\ compatibleFor = Nothing
    /\ allFor = Nothing
    /\ clicks = 0
    /\ origin = [c \in Categories |-> Nothing]
    /\ disorder = FALSE

Click == clicks < MaxClicks /\ clicks' = clicks + 1

\* A mutant: the effect does not depend on the filters.
FetchedOnce(category) == <<Request(category, usecase, brand)>>

\* With another category the effect first runs with the old filters; an
\* effect before it resets them, and it runs again if that changed them.
FetchedForTab(category) ==
    IF usecase = Anything /\ brand = Anything
    THEN <<Request(category, usecase, brand)>>
    ELSE <<Request(category, usecase, brand), Request(category, Anything, Anything)>>

SelectTab ==
    /\ Click
    /\ \E category \in Tabs \ {tab} :
         /\ tab' = category
         /\ StartFetches(FetchedForTab(category))
    /\ usecase' = Anything
    /\ brand' = Anything
    /\ UNCHANGED <<compatibleOnly, selected, origin>>

\* A tab of the filters, which are hidden while an error is shown.
SelectFilter ==
    /\ ~failed
    /\ Click
    /\ \/ usecase' \in (Usecases \cup {Anything}) \ {usecase} /\ brand' = brand
       \/ brand' \in (Brands \cup {Anything}) \ {brand} /\ usecase' = usecase
    /\ StartFetches(<<Request(tab, usecase', brand')>>)
    /\ UNCHANGED <<tab, compatibleOnly, selected, origin>>

SwitchList ==
    /\ ~failed
    /\ Click
    /\ compatibleOnly' = ~compatibleOnly
    /\ UNCHANGED <<tab, filters, selected, lists, net, origin>>

\* A mutant: a component is filed under the category on view.
FiledUnder(component) == tab

CategoryOf(component) == component.category

\* onSelect: a second click on a component drops it.
Select ==
    /\ Click
    /\ \E component \in Shown :
         LET c == CategoryOf(component)
         IN  IF selected[c] = component
             THEN /\ selected' = [selected EXCEPT ![c] = Nothing]
                  /\ origin' = [origin EXCEPT ![c] = Nothing]
             ELSE /\ selected' = [selected EXCEPT ![c] = component]
                  /\ origin' = [origin EXCEPT ![c] =
                       [compatible |-> compatibleOnly,
                        request |-> IF compatibleOnly THEN compatibleFor ELSE allFor]]
    /\ UNCHANGED <<tab, filters, compatibleOnly, lists, net>>

\* A mutant: the category disappears from the record.
WithoutCategory(c) == [d \in Categories \ {c} |-> selected[d]]

Dropped(c) == [selected EXCEPT ![c] = Nothing]

\* handleRemove, in the list of the build.
Remove ==
    /\ Click
    /\ \E c \in Categories :
         /\ selected[c] # Nothing
         /\ selected' = Dropped(c)
         /\ origin' = [origin EXCEPT ![c] = Nothing]
    /\ UNCHANGED <<tab, filters, compatibleOnly, lists, net>>
-----------------------------------------------------------------------------
\* POST /config/compatible is answered; the same fetch goes on.
ReceiveCompatible ==
    \E n \in DOMAIN fetches :
        /\ fetches[n].awaits = "compatible"
        /\ compatibleFor' = fetches[n].request
        /\ fetches' = [fetches EXCEPT ![n].awaits = "all"]
        /\ disorder' = (disorder \/ n > 1)
        /\ UNCHANGED <<tab, filters, compatibleOnly, selected, failed, allFor,
                       clicks, origin>>

\* GET /config/components is answered.
ReceiveAll ==
    \E n \in DOMAIN fetches :
        /\ fetches[n].awaits = "all"
        /\ allFor' = fetches[n].request
        /\ fetches' = Seqs!RemoveAt(fetches, n)
        /\ disorder' = (disorder \/ n > 1)
        /\ UNCHANGED <<tab, filters, compatibleOnly, selected, failed,
                       compatibleFor, clicks, origin>>

\* Either request fails: the rest of the fetch is skipped.
FetchFails ==
    \E n \in DOMAIN fetches :
        /\ fetches' = Seqs!RemoveAt(fetches, n)
        /\ failed' = TRUE
        /\ disorder' = TRUE
        /\ UNCHANGED <<tab, filters, compatibleOnly, selected, compatibleFor,
                       allFor, clicks, origin>>

Next ==
    \/ SelectTab \/ SelectFilter \/ SwitchList \/ Select \/ Remove
    \/ ReceiveCompatible \/ ReceiveAll \/ FetchFails

Spec == Init /\ [][Next]_vars
-----------------------------------------------------------------------------
TypeOK ==
    /\ tab \in Categories
    /\ usecase \in Usecases \cup {Anything}
    /\ brand \in Brands \cup {Anything}
    /\ compatibleOnly \in BOOLEAN
    /\ selected \in Choices
    /\ fetches \in Seq([request : Requests, awaits : {"compatible", "all"}])
    /\ failed \in BOOLEAN
    /\ compatibleFor \in Requests \cup {Nothing}
    /\ allFor \in Requests \cup {Nothing}
    /\ clicks \in 0..MaxClicks
    /\ origin \in [Categories -> [compatible : BOOLEAN, request : Requests] \cup {Nothing}]
    /\ disorder \in BOOLEAN

\* A component is chosen for its own category, though the list it is picked
\* from may be that of a category no longer on view (onSelect in
\* ComponentList.tsx).
FiledUnderOwnCategory ==
    \A c \in Categories : selected[c] # Nothing => selected[c].category = c

\* The partners that the offer of c's component took into account and that
\* are still chosen.
Considered(c) ==
    {d \in Categories : /\ selected[d] # Nothing
                        /\ origin[c].request.bases[d] = selected[d]}

Picked(c) == selected[c] # Nothing /\ origin[c].compatible

\* A component picked from the compatible ones has none of the conflicts its
\* category's offers avoid with any component chosen before it, whatever
\* answers were late: CheckCompatibility will not refuse the build for them
\* (FetchCompatibleComponentsMulti against CheckCompatibility).
OfferedFits ==
    \A c \in Categories :
        Picked(c) =>
            ~AvoidedConflict(c, [d \in (Considered(c) \ {c}) \cup {c} |-> selected[d].specs])

\* No offer looks at memory and board together; still they fit when both
\* were picked under one use case, which fixes the type of memory
\* (ramMatches and mbMatches).
ScenarioMemoryFits ==
    \A u \in Usecases :
        (/\ selected["ram"] # Nothing /\ selected["motherboard"] # Nothing
         /\ origin["ram"].request.usecase = u
         /\ origin["motherboard"].request.usecase = u)
            => ~RamBoardConflict(SpecsOf(selected))

\* When every answer arrived in order, both lists are of the category on view
\* and of the filters shown beside them, whatever the effects that reset the
\* filters fetched in between.
ListsFollowView ==
    (fetches = <<>> /\ ~disorder) =>
        \A request \in {compatibleFor, allFor} :
            request # Nothing /\ request.category = tab
                /\ request.usecase = usecase /\ request.brand = brand
=============================================================================
