SPECIFICATION ReadingSpec
CHECK_DEADLOCK FALSE
CONSTANTS
    Documents <- MCDocuments
    Pages <- MCPages
    ItemNeighborhood = 2
    HeadingNeighborhood = 1
    Filings <- MCFilings
    Surrogate = "surrogate"
    NoNamespace = {"Bare"}
    Null = Null
    Metrics <- MCMetrics
    PeriodType <- MCPeriodType
    Worlds <- MCWorlds
INVARIANTS StartsAreBeyondDoubt SectionsAreOfOneItem EverySectionIsAccountedFor BlocksAreThePage NothingFiledIsLost NothingIsDroppedInSilence AcceptedIsCoherent ObservationsAreRight IdentitiesAreSound OracleFollowsTheFact
PROPERTIES OutputIsFinal
