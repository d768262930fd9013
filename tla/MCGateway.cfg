\* Three deliveries, a bucket that holds one nonce, two verifies of one challenge.
SPECIFICATION MCSpec
CONSTANTS
    p1 = p1  n1 = n1  n2 = n2  r1 = r1  r2 = r2  r3 = r3  c1 = c1  c2 = c2  v1 = v1  v2 = v2  v3 = v3
    Pubkeys <- MCPubkeys
    Nonces <- MCNonces
    Requests <- MCRequests
    Challenges <- MCChallenges
    Verifies <- MCVerifies
    Hour = 1
    MaxNonces = 1
    MaxRequests = 2
    Window = 1
    TTL = 3
    MaxTime = 4
    MaxRestarts = 1
SYMMETRY MCSymmetry
INVARIANTS GatewayTypeOK AtMostTwicePerWindow ChallengeRedeemedOnceInTime
PROPERTY ReplayOnlyAfterForgetting
\* Deliveries are finitely many and the clock is bounded.
CHECK_DEADLOCK FALSE
