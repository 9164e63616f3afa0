CONSTANTS
    r1 = r1
    r2 = r2
    r3 = r3
    k1 = k1
    k2 = k2
    f1 = f1
    f2 = f2
    otherBody = otherBody
    slow = slow
    quick = quick
    q = q
    q2 = q2
    q3 = q3
    NoAttempt = NoAttempt
    NoRequest = NoRequest
    Attempts = {r1, r2, r3}
    Keys = {slow}
    Requests = {q}
    KeyOf <- MCKeyOf
    RequestOf <- MCRequestOf
    ClientId <- MCClientId
    Question <- MCQuestion
    SlowKeys = {slow}
SPECIFICATION Spec
INVARIANTS
    ActiveDuplicateWaits
CHECK_DEADLOCK FALSE
