CONSTANTS
    a1 = a1
    a2 = a2
    b1 = b1
    docA = docA
    docB = docB
    w1 = w1
    w2 = w2
    NoVersion = NoVersion
    Docs = {docA, docB}
    Versions = {a1, b1}
    DocOf <- MCDocOf
    Number <- MCNumber
    Workers = {w1, w2}
    NBatches = 1
    MaxGens = 3
    MaxCrashes = 0
    Races = {"stale_start", "stale_enqueue"}
SPECIFICATION SpecAfterB
PROPERTIES
    ActiveManifestImmutable
SYMMETRY MCSymmetry
CHECK_DEADLOCK FALSE
