SPECIFICATION FairFetchSpec
CONSTANTS
    Limit = 3
    RecordCap = 14
    MaxRows = 17
INVARIANTS
    CapHolds
    NoGap
    ShortMeansAll
PROPERTIES
    Ends
