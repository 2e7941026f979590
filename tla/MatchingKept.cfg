SPECIFICATION MatchSpec
CONSTANTS
    Fields <- Registry
    Similarity <- Likeness
    Words <- WordsOf
    Decisive <- Verdicts
    Unit = 12
    SampleLimit = 3
    Documents <- Served
    NameOrder <- MapOrder
    MaxRuns = 3
PROPERTY KeptMatchesStay
CHECK_DEADLOCK FALSE
