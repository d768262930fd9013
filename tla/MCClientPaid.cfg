\* One client order, paid for.
SPECIFICATION FairPollerSpec
CONSTANTS
    o1 = o1  o2 = o2  r1 = r1  r2 = r2  n1 = n1  n2 = n2
    Orders <- MCOneOrder
    Requests <- MCOneRequest
    CallOps = {"create"}
    Nonces <- MCOneNonce
    Spellings = {"lower"}
    ClientBlobs <- MCOneBlob
    Locks = {2}
    DummyStates = {}
    DummyCurrencies = {"XMR"}
    Ages = {4}
    Steps = {1}
    ExpiryOffsets = {3}
    Bucket = 2
    HourLen = 4
    StartTime = 6
    MaxTime = 8
    MaxRestarts = 0
PROPERTY ClientOrderFunded
\* Requests and time are bounded, and clients and jobs may have nothing to do.
CHECK_DEADLOCK FALSE
