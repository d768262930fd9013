---------------------------- MODULE EscrowLock ----------------------------
(***************************************************************************)
(* contracts/EscrowLock.sol.  A call is a transaction: it takes effect as  *)
(* a whole or reverts, and a call that reverts changes nothing, so an      *)
(* action's guard is the conjunction of the call's require()s.             *)
(***************************************************************************)
EXTENDS Naturals, FiniteSets, FiniteSetsExt

CONSTANTS
    OrderIds,
    Accounts,
    Amounts,      \* msg.value of create
    Durations,    \* lockDuration arguments
    MaxUint,      \* largest uint256: larger sums revert
    MaxTime       \* bound of the block time

ASSUME LockAssumption ==
    /\ IsFiniteSet(OrderIds)
    /\ Amounts \subseteq Nat /\ Durations \subseteq Nat
    /\ MaxUint \in Nat /\ MaxTime \in Nat

VARIABLES
    orders,     \* the contract's mapping
    balance,    \* the contract's balance
    time,       \* block.timestamp
    accepts,    \* accounts whose code takes a transfer; others make it revert
    received    \* what each account was paid by the contract

lockVars == <<orders, balance, time, accepts, received>>

NoOrder == [initialized |-> FALSE]
Settled(o) == o.released \/ o.refunded
Open(id) == orders[id].initialized /\ ~ Settled(orders[id])

Order == [seller : Accounts, buyer : Accounts, releaseTime : 0 .. MaxUint, refundTime : 0 .. MaxUint,
          amount : Amounts, initialized : {TRUE}, released : BOOLEAN, refunded : BOOLEAN]

LockTypeOK ==
    /\ orders \in [OrderIds -> {NoOrder} \cup Order]
    /\ balance \in Nat
    /\ time \in 0 .. MaxTime
    /\ accepts \in SUBSET Accounts
    /\ received \in [Accounts -> Nat]

LockInit ==
    /\ orders = [id \in OrderIds |-> NoOrder]
    /\ balance = 0
    /\ time = 0
    /\ accepts \in SUBSET Accounts
    /\ received = [a \in Accounts |-> 0]

-----------------------------------------------------------------------------
create_Unchecked(id, buyer, seller, value, lockDuration) ==
    /\ ~ orders[id].initialized
    /\ value > 0
    /\ lockDuration > 0
    /\ orders' = [orders EXCEPT ![id] =
         [seller |-> seller, buyer |-> buyer, amount |-> value,
          releaseTime |-> time + lockDuration, refundTime |-> time + lockDuration + lockDuration,
          initialized |-> TRUE, released |-> FALSE, refunded |-> FALSE]]
    /\ balance' = balance + value
    /\ UNCHANGED <<time, accepts, received>>
create(id, buyer, seller, value, lockDuration) ==
    /\ ~ orders[id].initialized
    /\ value > 0
    /\ lockDuration > 0
    /\ time + lockDuration + lockDuration <= MaxUint
    /\ orders' = [orders EXCEPT ![id] =
         [seller |-> seller, buyer |-> buyer, amount |-> value,
          releaseTime |-> time + lockDuration, refundTime |-> time + lockDuration + lockDuration,
          initialized |-> TRUE, released |-> FALSE, refunded |-> FALSE]]
    /\ balance' = balance + value
    /\ UNCHANGED <<time, accepts, received>>

(* `transfer`: to an account that does not take it, or from a balance that *)
(* is too small, it reverts the call.                                      *)
transfer(to, amount) ==
    /\ to \in accepts
    /\ balance >= amount
    /\ balance' = balance - amount
    /\ received' = [received EXCEPT ![to] = @ + amount]

release(id, sender) ==
    /\ Open(id)
    /\ sender = orders[id].buyer
    /\ transfer(orders[id].seller, orders[id].amount)
    /\ orders' = [orders EXCEPT ![id].released = TRUE]
    /\ UNCHANGED <<time, accepts>>

(* The time in which the seller may take an unclaimed payment. *)
InClaimWindow(o) == time >= o.releaseTime /\ time < o.refundTime

refund_AtRelease(id, sender) ==
    /\ Open(id)
    /\ sender = orders[id].buyer
    /\ time >= orders[id].releaseTime
    /\ transfer(orders[id].buyer, orders[id].amount)
    /\ orders' = [orders EXCEPT ![id].refunded = TRUE]
    /\ UNCHANGED <<time, accepts>>
refund_Late(id, sender) ==
    /\ Open(id)
    /\ sender = orders[id].buyer
    /\ InClaimWindow(orders[id])
    /\ transfer(orders[id].buyer, orders[id].amount)
    /\ orders' = [orders EXCEPT ![id].refunded = TRUE]
    /\ UNCHANGED <<time, accepts>>
refund(id, sender) ==
    /\ Open(id)
    /\ sender = orders[id].buyer
    /\ time >= orders[id].refundTime
    /\ transfer(orders[id].buyer, orders[id].amount)
    /\ orders' = [orders EXCEPT ![id].refunded = TRUE]
    /\ UNCHANGED <<time, accepts>>

claimUnclaimed_Unmarked(id, sender) ==
    /\ Open(id)
    /\ sender = orders[id].seller
    /\ InClaimWindow(orders[id])
    /\ transfer(orders[id].seller, orders[id].amount)
    /\ UNCHANGED <<orders, time, accepts>>
claimUnclaimed(id, sender) ==
    /\ Open(id)
    /\ sender = orders[id].seller
    /\ InClaimWindow(orders[id])
    /\ transfer(orders[id].seller, orders[id].amount)
    /\ orders' = [orders EXCEPT ![id].released = TRUE]
    /\ UNCHANGED <<time, accepts>>

BlockTime ==
    /\ time < MaxTime
    /\ time' = time + 1
    /\ UNCHANGED <<orders, balance, accepts, received>>

LockNext ==
    \/ \E id \in OrderIds, buyer, seller \in Accounts, value \in Amounts, d \in Durations :
          create(id, buyer, seller, value, d)
    \/ \E id \in OrderIds, sender \in Accounts :
          release(id, sender) \/ refund(id, sender) \/ claimUnclaimed(id, sender)
    \/ BlockTime

LockSpec == LockInit /\ [][LockNext]_lockVars

-----------------------------------------------------------------------------
(* The contract holds exactly what its open orders were funded with: every *)
(* order is paid out at most once, and none out of another's deposit.      *)
Solvent ==
    balance = SumFunction([id \in {i \in OrderIds : Open(i)} |-> orders[id].amount])

(* At no time can both the buyer take an open order's money back and the  *)
(* seller claim it: which of their calls is mined first never decides who  *)
(* is paid, and the seller has the whole window to itself.                 *)
NoRaceForPayout ==
    \A id \in OrderIds :
        ~ ((ENABLED \E a \in Accounts : refund(id, a)) /\ (ENABLED \E a \in Accounts : claimUnclaimed(id, a)))

(* A buyer able to receive money never loses it: an order is settled in    *)
(* the end, by a release, by the seller's claim or, failing these, by the  *)
(* refund.  (Orders whose refund time is past the bound on time are out.)  *)
NothingLocked ==
    \A id \in OrderIds :
        (Open(id) /\ orders[id].buyer \in accepts /\ orders[id].refundTime <= MaxTime) ~> ~ Open(id)
=============================================================================
