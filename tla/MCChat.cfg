\* Two clients append to one chat.
SPECIFICATION Spec
CONSTANTS
    o1 = o1  o2 = o2  r1 = r1  r2 = r2  r3 = r3  n1 = n1  n2 = n2
    Orders <- MCOneOrder
    Requests <- MCThree
    CallOps = {"create", "chat"}
    Nonces <- MCNonces
    Spellings = {"lower"}
    ClientBlobs <- MCClientBlobs
    Locks = {3}
    Bucket = 2
    HourLen = 1
    StartTime = 0
    MaxTime = 2
    MaxRestarts = 1
INVARIANT AckedMessageKept
SYMMETRY NonceAndRequestSymmetry
\* A finite set of requests: the system stops when all are answered.
CHECK_DEADLOCK FALSE
