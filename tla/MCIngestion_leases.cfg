CONSTANTS
    a1 = a1
    a2 = a2
    b1 = b1
    docA = docA
    docB = docB
    w1 = w1
    w2 = w2
    NoVersion = NoVersion
    Docs = {docA, docB}
    Versions = {a1, b1}
    DocOf <- MCDocOf
    Number <- MCNumber
    Workers = {w1, w2}
    NBatches = 2
    MaxGens = 4
    MaxCrashes = 1
    Races = {"late_heartbeat", "claim_error", "stale_fail"}
SPECIFICATION SpecAfterB
INVARIANTS
    ManifestMatchesPointers
PROPERTIES
    ActiveManifestImmutable
    SucceededIsFinal
    CatalogueSurvives
SYMMETRY MCSymmetry
CHECK_DEADLOCK FALSE
