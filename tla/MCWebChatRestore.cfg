\* A documented promise the code does not keep.
SPECIFICATION Spec
CONSTANTS
    s1 = s1
    s2 = s2
    s3 = s3
    c1 = c1
    c2 = c2
    None = None
    Streams = {s1, s2}
    Conversations = {c1, c2}
    First = c1
    MaxGestures = 2
SYMMETRY StreamSymmetry
INVARIANTS
    ShowsItsOwnConversation
CHECK_DEADLOCK FALSE
