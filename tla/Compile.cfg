SPECIFICATION Spec
CONSTANTS
    Sources <- AllSources
    Batches <- Read
    Fields <- SchemaFields
    Authority <- Labels
    CountyScopes <- Cook
    KeyBefore <- KeyOrder
    Before <- IdOrder
    MaxRuns = 4
INVARIANTS
    EventsReportedOnce
    NeighboursApart
    StateFollowsDates
    NoSilentLoss
    NewestOfDated
CHECK_DEADLOCK FALSE
