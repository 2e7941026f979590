SPECIFICATION Spec
CONSTANTS
    k1 = k1
    k2 = k2
    deeds = deeds
    roll = roll
    Callers = {c1, c2}
    Events = {1, 3}
    Keys = {k1, k2}
    KeyOf <- MCKeyOf
    Sources = {deeds, roll}
    SourceOf <- MCSourceOf
    MaxRun = 2
    RunOf <- MCRunOf
    EventLimit = 2
    LastEngine = 1
INVARIANTS
    FreshRowsAreWritten
