\* One order, two requests against the worker's jobs; orders in every state a job acts on, in both currencies.
SPECIFICATION MarketSpec
CONSTANTS
    o1 = o1  o2 = o2  r1 = r1  r2 = r2  n1 = n1  n2 = n2
    Orders <- MCOneOrder
    Requests <- MCTwoRequests
    CallOps = {"update", "open_dispute"}
    Nonces <- MCOneNonce
    Spellings = {"lower"}
    ClientBlobs <- MCTwoBlobs
    Locks = {2}
    DummyStates = {"pending", "funded", "shipped", "disputed"}
    DummyCurrencies = {"XMR", "BTC"}
    Ages = {6}
    Steps = {1}
    ExpiryOffsets = {6}
    Bucket = 2
    HourLen = 4
    StartTime = 8
    MaxTime = 10
    MaxRestarts = 1
SYMMETRY RequestSymmetry
INVARIANTS MarketTypeOK CommitsDistinct MatchingVersionIsCurrent RefundAfterThreeLocks
PROPERTIES FollowsLifecycle FundedOnlyWhenConfirmed CancelledOnlyAfterExpiry
\* Requests and time are bounded, and clients and jobs may have nothing to do.
CHECK_DEADLOCK FALSE
