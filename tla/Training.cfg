SPECIFICATION Spec
CONSTANTS
    tax_due = tax_due
    sale_date = sale_date
    tax_du = tax_du
    misc = misc
    price = price
    day = day
    word = word
    NoField = NoField
    Unnamed = Unnamed
    NoCorpus = NoCorpus
    NoModel = NoModel
    Torn = Torn
    Fields <- MCFields
    Words <- MCWords
    Overlaps <- MCOverlaps
    Fits <- MCFits
    PerQuery = 2
    MaxNone = 1
    Shipped <- MCShipped
    Answers <- MCAnswers
    Held = {"unseen"}
    Kinds = {"deed", "roll"}
    DocFloor = 3
    MaxDocs = 2
    MaxCommands = 5
INVARIANTS
    HarvestKeeps
    SessionServesSaved
    NoneIsSure
CHECK_DEADLOCK FALSE
