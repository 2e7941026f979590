SPECIFICATION Spec
CONSTANTS
    PerQuery = 2
    NoAnswer = NoAnswer
    NoRows = NoRows
    Blank = Blank
    Keep = Keep
    seed = seed
    fixture = fixture
    typed = typed
    d0 = d0
    d1 = d1
    i1 = i1
    i2 = i2
    r1 = r1
    r2 = r2
    n1 = n1
    n2 = n2
    Seeds <- MCSeeds
    Answers <- MCAnswers
    Names = {n2}
    Urls <- MCUrls
    MaxTime = 1
    MaxCommands = 5
INVARIANTS
    FileIsMemory
    NoStrayState
    FoundOnce
CHECK_DEADLOCK FALSE
