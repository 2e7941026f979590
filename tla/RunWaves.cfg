SPECIFICATION FairSpec
CONSTANTS
    N = 5
    Threads = 3
    Parcels <- MCParcels
    Templated <- MCTemplated
INVARIANTS
    EachOnce
    ParcelsWait
PROPERTIES
    Returns
