\* Three requests, one order, two nonces, one restart.
SPECIFICATION Spec
CONSTANTS
    o1 = o1  o2 = o2  r1 = r1  r2 = r2  r3 = r3  n1 = n1  n2 = n2
    Orders <- MCOneOrder
    Requests <- MCThree
    CallOps = {"create", "update", "open_dispute", "update_dispute", "resolve_dispute", "chat"}
    Nonces <- MCNonces
    Spellings = {"lower", "upper"}
    ClientBlobs <- MCClientBlobs
    Locks = {3}
    Bucket = 2
    HourLen = 1
    StartTime = 0
    MaxTime = 2
    MaxRestarts = 1
SYMMETRY NonceAndRequestSymmetry
INVARIANTS TypeOK VersionCountsCommits CommitsDistinct NoSpuriousConflict NonceOncePerBoot ChatVersionNotNewer
PROPERTY UpdateReplacesSignedVersion
\* A finite set of requests: the system stops when all are answered.
CHECK_DEADLOCK FALSE
