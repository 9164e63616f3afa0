CONSTANTS
    r1 = r1
    r2 = r2
    a1 = a1
    a2 = a2
    Calls = {r1, r2}
    Admins = {a1, a2}
    MaxTokens = 3
    Budget = 3
SPECIFICATION Spec
INVARIANTS
    AccountsInv
    AccessEndsWithCommand
    AlarmNeedsAccident
    CookieServes
PROPERTIES
    ImplementsSessions
SYMMETRY MCSymmetry
CHECK_DEADLOCK FALSE
