CONSTANTS
    d1 = d1
    v1 = v1
    v2 = v2
    c1 = c1
    q1 = q1
    q2 = q2
    NoVersion = NoVersion
    Everything = Everything
    Docs = {d1}
    Versions = {v1, v2}
    DocOf <- MCDocOf
    Number <- MCNumber
    Collections = {c1}
    Asks = {Everything, d1, c1}
    Queries = {q1, q2}
    Retained = 2
    MaxRevision = 5
    Parts = {"documents", "web", "conversations", "links"}
    Urls = {u1, u2, u3}
    Unusable = Unusable
    ResultLimit = 3
    Concurrency = 2
    MaxRedirects = 2
    MaxItems = 4
    Sessions = {s1, s2}
    s1 = s1
    Questions = {m1, m2}
    SessionOf <- MCSessionOf
    Weight <- MCWeight
    m1 = m1
    m2 = m2
    Limit = 1
    Turns = 1
    Budget = 3
    PromptBudget = 4
    NoSession = NoSession
    Pages <- MCPages
    Texts <- MCTexts
    Packings <- MCPackings
    MaxOpens = 2
SPECIFICATION PartsSpec
INVARIANTS
    RetrievalInv
    NothingForeign
    NothingMissed
    WebSound
    ConversationsShown
    LinksSound
SYMMETRY MCSymmetry
CHECK_DEADLOCK FALSE
