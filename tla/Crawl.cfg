SPECIFICATION FairSpec
CONSTANTS
    Seed <- List
    Served <- Site
    Redirects <- Sent
    Anchors <- Html
    RobotsTexts <- Texts
    MaxPages = 6
    QueuePerPage = 1
    MaxDepth = 3
    MaxLinks = 4
INVARIANTS
    RobotsObeyed
    DepthIsLeast
    NothingLost
PROPERTIES
    Ends
