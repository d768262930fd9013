\* Both processes, starting when they like; two crashes or refused queries; a fresh install
\* of the current release, and an upgrade of one with rows to rebuild.
SPECIFICATION FairMigSpec
CONSTANTS
    api = api  worker = worker  i1 = i1
    Processes <- MCBoth
    Releases = {9, 18}
    Ids <- MCIds
    MaxFaults = 2
INVARIANTS MigTypeOK ServesOnModelSchema NoRowLost
PROPERTY EventuallyUpOrTorn
\* A database both processes serve on is done.
CHECK_DEADLOCK FALSE
CONSTRAINT MCBounds
