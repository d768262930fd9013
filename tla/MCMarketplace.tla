--------------------------- MODULE MCMarketplace ---------------------------
(* Bounded instances of Marketplace. *)
EXTENDS Marketplace, TLC

CONSTANTS o1, o2, r1, r2, n1, n2

MCOneOrder == {o1}
MCTwoOrders == {o1, o2}
MCOneRequest == {r1}
MCTwoRequests == {r1, r2}
MCOneNonce == {n1}
MCTwoNonces == {n1, n2}

ClientData(state, currency) ==
    [state |-> state, currency |-> currency, escrow_address |-> TRUE, time_lock |-> 2,
     created_at |-> 6, funded_at |-> None, shipped_at |-> None, disputed_at |-> None,
     expires_at |-> 7, released_at |-> None, refunded_at |-> None,
     dispute |-> "none", settlement_txid |-> FALSE]

(* A pending order sealed to the worker. *)
MCOneBlob == {[key |-> "ecdh", data |-> ClientData("pending", "XMR")]}

(* And one its client calls released: a poll takes it up for settlement.   *)
MCTwoBlobs == MCOneBlob \cup {[key |-> "ecdh", data |-> ClientData("released", "BTC")]}

RequestSymmetry == Permutations(Requests)
=============================================================================
