SPECIFICATION Spec
CONSTANTS
    Catalogue <- MCCatalogue
    Scenarios <- MCScenarios
    Brands <- MCBrands
    Anything = Anything
    Nothing = Nothing
    MaxClicks = 6
    MaxFetches = 2
    Tabs <- MCTabs
INVARIANTS
    TypeOK
    FiledUnderOwnCategory
    OfferedFits
    ScenarioMemoryFits
    ListsFollowView
CHECK_DEADLOCK FALSE
