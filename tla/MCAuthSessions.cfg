\* Four calls of any kind on one address, with failures and expiry.
SPECIFICATION Spec
CONSTANTS
    k1 = k1
    k2 = k2
    k3 = k3
    k4 = k4
    e1 = e1
    None = None
    Calls = {k1, k2, k3, k4}
    Emails = {e1}
    IdleLimit = 1
    AbsoluteLimit = 2
    MaxTime = 2
SYMMETRY CallSymmetry
INVARIANTS
    TypeOK
    OneRegistrationWins
    SessionsBelongToTheirAccount
    LoggedOutStaysOut
    ServedWithinLimits
CHECK_DEADLOCK FALSE
