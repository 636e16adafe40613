\* Two submits, one more conversation, two gestures.
SPECIFICATION Spec
CONSTANTS
    s1 = s1
    s2 = s2
    s3 = s3
    c1 = c1
    c2 = c2
    None = None
    Streams = {s1, s2}
    Conversations = {c1, c2}
    First = c1
    MaxGestures = 2
SYMMETRY StreamSymmetry
INVARIANTS
    TypeOK
    AnswersStayWithTheirQuestion
    CompletedTurnsSurviveReload
    BusyMeansStoppable
CHECK_DEADLOCK FALSE
