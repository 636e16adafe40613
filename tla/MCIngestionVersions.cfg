\* A documented promise about versions of a source that the code does not keep.
SPECIFICATION Spec
CONSTANTS
    j1 = j1
    j2 = j2
    i1 = i1
    scheme = scheme
    guide = guide
    None = None
    Sources = {scheme, guide}
    Manifest <- MCManifest
    Indexes = {i1}
    Jobs = {j1, j2}
    Dimensions = {1, 2}
    Lengths = {1, 2}
    BulkSize = 1
    MaxAttempts = 2
INVARIANTS
    IndexedVersionsStay
CHECK_DEADLOCK FALSE
