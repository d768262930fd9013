---------------------------- MODULE MCGateway ----------------------------
(***************************************************************************)
(* Bounded instance of Gateway.  Authenticated requests and logins have    *)
(* keys, caches and progress of their own and share only the clock and the *)
(* process, so a behaviour of this run is one of tokens or one of logins.  *)
(***************************************************************************)
EXTENDS Gateway, TLC

CONSTANTS p1, n1, n2, r1, r2, r3, c1, c2, v1, v2, v3

MCPubkeys == {p1}
MCNonces == {n1, n2}
MCRequests == {r1, r2, r3}
MCChallenges == {c1, c2}
MCVerifies == {v1, v2, v3}
MCSymmetry == Permutations(MCNonces) \cup Permutations(MCRequests) \cup Permutations(MCVerifies)
              \cup Permutations(MCChallenges)

VARIABLE scope

MCInit == GatewayInit /\ scope \in {"tokens", "logins"}

MCNext ==
    /\ GatewayNext
    /\ scope = "tokens" => issued' = issued
    /\ scope = "logins" => st' = st
    /\ UNCHANGED scope

MCSpec == MCInit /\ [][MCNext]_<<vars, scope>>
=============================================================================
