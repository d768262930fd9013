---------------------------- MODULE MCListings ----------------------------
(***************************************************************************)
(* Bounded instance of Listings.  The reader only looks on: nothing        *)
(* depends on it, and it sees no more of the writers than which row has    *)
(* which status.  So a behaviour of this run has a reader, or has clients  *)
(* that send fetched blobs back, restarts and aborted scans.               *)
(***************************************************************************)
EXTENDS Listings

CONSTANTS r1, r2, n1, n2

MCRequests == {r1, r2}
MCNonces == {n1, n2}

VARIABLE scope

MCInit == ListInit /\ scope \in {"reader", "writers"}

MCNext ==
    /\ ListNext
    /\ scope = "reader" => boots' = boots /\ \A r \in Requests : st'[r].pc # "fetched"
    /\ scope = "writers" => reader' = reader
    /\ UNCHANGED scope

MCSpec == MCInit /\ [][MCNext]_<<vars, scope>> /\ ListFairness
=============================================================================
