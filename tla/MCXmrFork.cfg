\* One reorganisation, no failures.
SPECIFICATION FairXmrSpec
CONSTANTS
    Required = 1
    MaxBlocks = 4
    MaxReorgs = 1
    MaxErrors = 0
    MaxRestarts = 0
PROPERTY ForkReportsEnd
CHECK_DEADLOCK FALSE
