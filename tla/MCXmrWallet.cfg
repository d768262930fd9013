\* Two reorganisations, one failed call, one restart.
SPECIFICATION FairXmrSpec
CONSTANTS
    Required = 2
    MaxBlocks = 6
    MaxReorgs = 2
    MaxErrors = 1
    MaxRestarts = 1
INVARIANT XmrTypeOK
PROPERTIES CreditedIsBuried ForkMissedOnlyAtSameHeight BuriedIsCreditedOrStuck
\* A credited order is polled no more.
CHECK_DEADLOCK FALSE
