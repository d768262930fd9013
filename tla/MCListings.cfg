\* Two listings, two requests, one client paging through them, all or the active ones.
SPECIFICATION MCSpec
CONSTANTS
    r1 = r1  r2 = r2  n1 = n1  n2 = n2
    Ids = {1, 2}
    Requests <- MCRequests
    Nonces <- MCNonces
    Statuses = {"active", "sold"}
    Filters = {"none", "active"}
    ExpiresAt = {1}
    Never = 9
    Limits = {0, 3}
    MaxLimit = 2
    Bucket = 2
    MaxTime = 2
    MaxRestarts = 1
INVARIANTS ListTypeOK VersionCountsUpdates PagingSkipsNothing
PROPERTIES OmittedStatusKept ExpiresOnlyWhatItRead NoListingStaysOverdue
\* The requests are finitely many and the clock is bounded.
CHECK_DEADLOCK FALSE
