SPECIFICATION Spec
CONSTANTS
    feed = feed
    roll = roll
    v1 = v1
    v2 = v2
    page = page
    poor = poor
    alien = alien
    dead = dead
    NoDoc = NoDoc
    old = old
    new = new
    sparse = sparse
    NoMapping = NoMapping
    violation = violation
    deed = deed
    permit = permit
    assessed = assessed
    stray = stray
    Sources = {feed}
    Docs = {v1, v2, page, poor, alien}
    Mappings = {old, new, sparse}
    Decisions = {pinned}
    Events = {violation, deed, permit}
    Enrichment <- MCEnrichment
    FirstPage <- MCFirstPage
    Reading <- MCReading
    StopsAt <- MCStopsAt
    Infer <- MCInfer
    Confidence <- MCConfidence
    Rate <- MCRate
    Pin <- MCPin
    PropertyOf <- MCPropertyOf
    DateOf <- MCDateOf
    EventsOf <- MCEventsOf
    MaxRuns = 3
    MaxTears = 1
PROPERTIES
    DecisionsStand
