\* Two jobs at once over two sources; versions shrink and grow, a batch is
\* smaller than a version, the jobs may disagree on the dimension.
SPECIFICATION FairSpec
CONSTANTS
    j1 = j1
    j2 = j2
    i1 = i1
    scheme = scheme
    guide = guide
    None = None
    Sources = {scheme, guide}
    Manifest <- MCManifest
    Indexes = {i1}
    Jobs = {j1, j2}
    Dimensions = {1, 2}
    Lengths = {1, 2}
    BulkSize = 1
    MaxAttempts = 2
INVARIANTS
    TypeOK
    ZeroExitMeansIndexed
    IndexHasOneDimension
PROPERTIES
    ImplementsDerivedIndex
    JobsEnd
CHECK_DEADLOCK FALSE
