\* Two releases, two indexes, judgments that are approved or withdrawn.
SPECIFICATION Spec
CONSTANTS
    r1 = r1
    r2 = r2
    i1 = i1
    i2 = i2
    scheme = scheme
    guide = guide
    candidate = candidate
    reviewed = reviewed
    None = None
    Sources = {scheme, guide}
    Corpus = {scheme, guide}
    RequiredDocuments = 2
    Indexes = {i1, i2}
    Revisions = {candidate, reviewed}
    Approved = {reviewed}
    Releases = {r1, r2}
SYMMETRY ReleaseSymmetry
VIEW Distinguished
INVARIANTS
    TypeOK
    ServedIndexIsFull
    ServedIndexWasVetted
    AliasNamesOneIndex
PROPERTIES
    AliasStaysReadable
CHECK_DEADLOCK FALSE
