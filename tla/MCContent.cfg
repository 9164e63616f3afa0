CONSTANTS
    a1 = a1
    a2 = a2
    b1 = b1
    docA = docA
    docB = docB
    w1 = w1
    w2 = w2
    NoVersion = NoVersion
    Docs = {docA, docB}
    Versions = {a1, a2, b1}
    DocOf <- MCDocOf
    Number <- MCNumber
    Workers = {w1}
    NBatches = 1
    MaxGens = 4
    MaxCrashes = 0
    Races = {}
    Retained = 2
    OldJobs = FALSE
    Parts = {"garbage", "backup", "chunking", "restore", "admission"}
    NoSnapshot = NoSnapshot
    MaxAccidents = 1
    MaxTokens = 3
    Overlap = 1
    Copied = {s1, s2}
    s1 = s1
    s2 = s2
    Saved = {a1, a2}
    Tenants = {t1, t2}
    TenantOf <- MCTenantOf
    Restored <- MCSnapshots
    t1 = t1
    t2 = t2
    Calls = {c1, c2, c3}
    c1 = c1
    c2 = c2
    c3 = c3
    k1 = k1
    k2 = k2
    Keys = {k1, k2}
    KeyOf <- MCKeyOf
    Bodies <- MCBodies
    Document = Document
    NoCall = NoCall
    NoBody = NoBody
    Quota = 3
    MaxFaults = 1
SPECIFICATION ContentSpec
SYMMETRY ContentSymmetry
INVARIANTS
    RetainedIsServable
    GarbageInv
    BackupInv
    BackupsResume
    ChunksCover
    DrillProves
    AdmissionInv
CHECK_DEADLOCK FALSE
