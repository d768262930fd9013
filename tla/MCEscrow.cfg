\* Two orders between two accounts, one that may be a contract refusing
\* money; three calls of a coin swap of up to three hops, amounts that are
\* just enough for all hops, one sat short, and short after the first.
SPECIFICATION MCSpec
CONSTANTS
    o1 = o1  o2 = o2  a1 = a1  a2 = a2
    OrderIds <- MCOrderIds
    Accounts <- MCAccounts
    Amounts = {1, 2}
    Durations = {0, 1, 2, 3}
    MaxUint = 6
    MaxTime = 5
    HopCounts = {0, 1, 3}
    FeeSats = 2
    Dust = 3
    UtxoSats = {4, 5, 8, 9, 12}
    UtxoVouts = {0, 1}
    MaxCalls = 3
    MaxFaults = 2
INVARIANTS LockTypeOK Solvent NoRaceForPayout SwapTypeOK StrandedOnlyByFault OkMeansDelivered
PROPERTY NothingLocked
\* Time is bounded, and a finished swap is over.
CHECK_DEADLOCK FALSE
