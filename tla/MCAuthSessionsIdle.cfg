\* A documented promise the code does not keep.
SPECIFICATION Spec
CONSTANTS
    k1 = k1
    k2 = k2
    k3 = k3
    k4 = k4
    e1 = e1
    None = None
    Calls = {k1, k2}
    Emails = {e1}
    IdleLimit = 2
    AbsoluteLimit = 4
    MaxTime = 4
INVARIANTS
    ActiveSessionsAreAdmitted
CHECK_DEADLOCK FALSE
