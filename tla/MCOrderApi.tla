----------------------------- MODULE MCOrderApi -----------------------------
(* Bounded instances of OrderApi. *)
EXTENDS OrderApi, TLC

CONSTANTS o1, o2, r1, r2, r3, n1, n2

MCOrders == {o1, o2}
MCOneOrder == {o1}
MCTwo == {r1, r2}
MCThree == {r1, r2, r3}
MCNonces == {n1, n2}

(* The API never looks inside a blob: one value stands for all of them. *)
MCClientBlobs == {[key |-> "opaque", data |->
    [state |-> "pending", currency |-> "XMR", escrow_address |-> FALSE, time_lock |-> 0,
     created_at |-> 0, funded_at |-> None, shipped_at |-> None, disputed_at |-> None,
     expires_at |-> None, released_at |-> None, refunded_at |-> None,
     dispute |-> "none", settlement_txid |-> FALSE]]}

RequestSymmetry == Permutations(Requests)
NonceAndRequestSymmetry == Permutations(Requests) \cup Permutations(Nonces)
=============================================================================
