CONSTANTS
    r1 = r1
    r2 = r2
    r3 = r3
    k1 = k1
    k2 = k2
    f1 = f1
    f2 = f2
    otherBody = otherBody
    slow = slow
    quick = quick
    q = q
    q2 = q2
    q3 = q3
    NoAttempt = NoAttempt
    NoRequest = NoRequest
    Attempts = {r1, r2, r3, k1, k2, f1, f2, otherBody}
    Keys = {slow, quick}
    Requests = {q, q2, q3}
    KeyOf <- MCKeyOf
    RequestOf <- MCRequestOf
    ClientId <- MCClientId
    Question <- MCQuestion
    SlowKeys = {slow}
    Parts = {"citations"}
    Docs <- MCDocs
    Collections <- MCCollections
    Sections <- MCSections
    DocOf <- MCDocOf
    Path <- MCPath
    Questions <- MCQuestions
    Memberships <- MCMemberships
    Texts <- MCTexts
    Sources <- MCSources
    NoAnswer <- MCNoAnswer
    Chunk <- MCChunk
    Dense <- MCDense
    Sparse <- MCSparse
    Losses <- MCLosses
    Limits <- MCLimits
    Search <- MCSearch
    Score <- MCScore
    MaxCandidates = 3
    BatchSize = 2
    MaxRetries = 1
    Card <- MCCard
    Documents <- MCDocuments
    Web <- MCWeb
    Settings <- MCSettings
    Thresholds <- MCThresholds
    Missing <- MCMissing
    Observations <- MCObservations
    Targets <- MCTargets
    One = 4
SPECIFICATION QuestionSpec
INVARIANTS
    StoredIsShown
CHECK_DEADLOCK FALSE
