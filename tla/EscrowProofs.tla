---------------------------- MODULE EscrowProofs ----------------------------
(***************************************************************************)
(* The two ways money is held outside the orders table.                    *)
(*                                                                         *)
(* The escrow contract, for every finite set of orders and every set of    *)
(* accounts, amounts and lock durations.  Solvent is inductive together    *)
(* with the type invariant: create adds an order to the open ones and its  *)
(* deposit to the balance, each payout takes both away again.  It follows  *)
(* that no payout fails for want of money.                                 *)
(*                                                                         *)
(* The coin swap, for every number of hops, every amount and fee and every *)
(* number of calls and faults.  CallInv says what a call in progress knows *)
(* about the coin, CoinInv what the coin has become: after h hops it is    *)
(* output 0 and has paid h fees, and where it lies short of its goal a     *)
(* call is still moving it or there is a reason.  A call is never ahead of *)
(* the coin: each hop it has behind it was sent, by this call or by an     *)
(* earlier one whose transactions were still in the mempool.               *)
(***************************************************************************)
EXTENDS EscrowLock, CoinSwap, Integers, SumTheorems

-----------------------------------------------------------------------------
(* The escrow contract *)

OpenIds == {id \in OrderIds : Open(id)}
Deposits == [id \in OpenIds |-> orders[id].amount]

LockInv == LockTypeOK /\ Solvent

(* The balance Solvent asks for is the sum of the open orders' deposits.   *)
LEMMA SolventIsSum == Solvent <=> balance = SumFunctionOnSet(Deposits, OpenIds)
<1>1. DOMAIN Deposits = OpenIds
  BY DEF Deposits
<1>2. SumFunction(Deposits) = SumFunctionOnSet(Deposits, OpenIds)
  BY <1>1 DEF SumFunction
<1> QED BY <1>2 DEF Solvent, Deposits, OpenIds

(* An open order is a whole one, and its deposit is a natural number.      *)
LEMMA OpenOrder ==
    ASSUME LockTypeOK
    PROVE  /\ IsFiniteSet(OpenIds)
           /\ \A id \in OpenIds : orders[id] \in Order /\ Deposits[id] = orders[id].amount
                                  /\ Deposits[id] \in Nat
<1>1. IsFiniteSet(OpenIds)
  BY LockAssumption, FS_Subset DEF OpenIds
<1>2. \A id \in OpenIds : orders[id] \in Order
  <2>1. ASSUME NEW id \in OpenIds PROVE orders[id] # NoOrder
    <3>1. orders[id].initialized
      BY DEF OpenIds, Open
    <3>2. ~ NoOrder.initialized
      BY DEF NoOrder
    <3> QED BY <3>1, <3>2
  <2>2. \A id \in OrderIds : orders[id] \in {NoOrder} \cup Order
    BY DEF LockTypeOK
  <2> QED BY <2>1, <2>2 DEF OpenIds
<1> QED BY <1>1, <1>2, LockAssumption DEF Deposits, Order

-----------------------------------------------------------------------------
(* A new order, funded by what came with the call.                         *)
LEMMA CreateKeeps ==
    ASSUME LockInv, NEW id \in OrderIds, NEW buyer \in Accounts, NEW seller \in Accounts,
           NEW value \in Amounts, NEW d \in Durations, create(id, buyer, seller, value, d)
    PROVE  LockInv'
<1> DEFINE new == [seller |-> seller, buyer |-> buyer, amount |-> value,
                   releaseTime |-> time + d, refundTime |-> time + d + d,
                   initialized |-> TRUE, released |-> FALSE, refunded |-> FALSE]
<1>1. /\ ~ orders[id].initialized /\ orders' = [orders EXCEPT ![id] = new]
      /\ balance' = balance + value /\ UNCHANGED <<time, accepts, received>>
      /\ time + d + d <= MaxUint
  BY DEF create
<1>2. LockTypeOK /\ Solvent /\ time \in Nat /\ d \in Nat /\ value \in Nat /\ balance \in Nat
  <2>1. LockTypeOK /\ Solvent
    BY DEF LockInv
  <2>2. balance \in Nat /\ time \in 0 .. MaxTime
    BY <2>1 DEF LockTypeOK
  <2> QED BY <2>1, <2>2, LockAssumption
<1>3. new \in Order /\ new.amount = value /\ new.initialized /\ ~ new.released /\ ~ new.refunded
  BY <1>1, <1>2, LockAssumption DEF Order
<1> HIDE DEF new
<1>4. LockTypeOK'
  <2>1. orders' \in [OrderIds -> {NoOrder} \cup Order]
    BY <1>1, <1>2, <1>3 DEF LockTypeOK
  <2> QED BY <1>1, <1>2, <2>1 DEF LockTypeOK
<1>5. OpenIds' = OpenIds \cup {id} /\ id \notin OpenIds
  BY <1>1, <1>2, <1>3 DEF OpenIds, Open, Settled, LockTypeOK
<1>6. \A i \in OpenIds : Deposits'[i] = Deposits[i]
  BY <1>1, <1>2, <1>5 DEF Deposits, LockTypeOK, OpenIds
<1>7. Deposits'[id] = value
  BY <1>1, <1>2, <1>3, <1>5 DEF Deposits, LockTypeOK
<1>8. IsFiniteSet(OpenIds) /\ \A i \in OpenIds : Deposits[i] \in Nat
  BY <1>2, OpenOrder
<1>9. SumFunctionOnSet(Deposits', OpenIds) = SumFunctionOnSet(Deposits, OpenIds)
  BY <1>6, <1>8, SumSame
<1>10. SumFunctionOnSet(Deposits', OpenIds') = value + SumFunctionOnSet(Deposits, OpenIds)
  <2>1. \A i \in OpenIds \cup {id} : Deposits'[i] \in Nat
    BY <1>2, <1>6, <1>7, <1>8
  <2>2. SumFunctionOnSet(Deposits', OpenIds \cup {id}) = Deposits'[id] + SumFunctionOnSet(Deposits', OpenIds)
    BY <1>5, <1>8, <2>1, SumAdd
  <2> QED BY <1>5, <1>7, <1>9, <2>2
<1>11. balance' = SumFunctionOnSet(Deposits', OpenIds')
  BY <1>1, <1>2, <1>10, SolventIsSum
<1>12. Solvent'
  <2>1. DOMAIN Deposits' = OpenIds'
    BY DEF Deposits
  <2>2. SumFunction(Deposits') = SumFunctionOnSet(Deposits', OpenIds')
    BY <2>1 DEF SumFunction
  <2> QED BY <1>11, <2>2 DEF Solvent, Deposits, OpenIds
<1> QED BY <1>4, <1>12 DEF LockInv

(* release, refund and claimUnclaimed alike: an open order is settled and  *)
(* its deposit is paid to the seller or the buyer.                         *)
LEMMA PayoutKeeps ==
    ASSUME LockInv, NEW id \in OrderIds, Open(id), NEW to \in Accounts, NEW new \in Order,
           transfer(to, orders[id].amount), orders' = [orders EXCEPT ![id] = new],
           new.released \/ new.refunded, UNCHANGED <<time, accepts>>
    PROVE  LockInv'
<1>1. LockTypeOK /\ Solvent /\ balance \in Nat
  BY DEF LockInv, LockTypeOK
<1>2. id \in OpenIds /\ orders[id].amount \in Nat /\ Deposits[id] = orders[id].amount
  BY <1>1, OpenOrder DEF OpenIds
<1>3. /\ balance >= orders[id].amount /\ balance' = balance - orders[id].amount
      /\ received' = [received EXCEPT ![to] = @ + orders[id].amount]
  BY DEF transfer
<1>4. LockTypeOK'
  <2>1. orders' \in [OrderIds -> {NoOrder} \cup Order]
    BY <1>1 DEF LockTypeOK
  <2>2. balance' \in Nat /\ received' \in [Accounts -> Nat]
    BY <1>1, <1>2, <1>3 DEF LockTypeOK
  <2> QED BY <1>1, <2>1, <2>2 DEF LockTypeOK
<1>5. OpenIds' = OpenIds \ {id}
  BY <1>1 DEF OpenIds, Open, Settled, LockTypeOK
<1>6. \A i \in OpenIds \ {id} : Deposits'[i] = Deposits[i]
  BY <1>1, <1>5 DEF Deposits, LockTypeOK, OpenIds
<1>7. IsFiniteSet(OpenIds) /\ IsFiniteSet(OpenIds \ {id}) /\ \A i \in OpenIds : Deposits[i] \in Nat
  BY <1>1, OpenOrder, FS_RemoveElement
<1>8. SumFunctionOnSet(Deposits', OpenIds \ {id}) = SumFunctionOnSet(Deposits, OpenIds \ {id})
  <2>1. \A i \in OpenIds \ {id} : Deposits[i] = Deposits'[i] /\ Deposits[i] \in Nat
    BY <1>6, <1>7
  <2>2. SumFunctionOnSet(Deposits, OpenIds \ {id}) = SumFunctionOnSet(Deposits', OpenIds \ {id})
    BY <1>7, <2>1, SumSame
  <2> QED BY <2>2
<1>9. SumFunctionOnSet(Deposits, OpenIds) = Deposits[id] + SumFunctionOnSet(Deposits, OpenIds \ {id})
  BY <1>2, <1>7, SumTake
<1>10. SumFunctionOnSet(Deposits, OpenIds \ {id}) \in Nat
  BY <1>7, SumTake
<1>11. balance' = SumFunctionOnSet(Deposits', OpenIds')
  BY <1>1, <1>2, <1>3, <1>5, <1>8, <1>9, <1>10, SolventIsSum
<1>12. Solvent'
  <2>1. DOMAIN Deposits' = OpenIds'
    BY DEF Deposits
  <2>2. SumFunction(Deposits') = SumFunctionOnSet(Deposits', OpenIds')
    BY <2>1 DEF SumFunction
  <2> QED BY <1>11, <2>2 DEF Solvent, Deposits, OpenIds
<1> QED BY <1>4, <1>12 DEF LockInv

(* Each of the three payouts settles its order and takes out its deposit.  *)
LEMMA SettleKeeps ==
    ASSUME LockInv, NEW id \in OrderIds, NEW a \in Accounts,
           release(id, a) \/ refund(id, a) \/ claimUnclaimed(id, a)
    PROVE  LockInv'
<1>1. LockTypeOK /\ Open(id) /\ UNCHANGED <<time, accepts>>
  BY DEF LockInv, release, refund, claimUnclaimed
<1>2. orders[id] \in Order
  BY <1>1, OpenOrder DEF OpenIds
<1> DEFINE released == [orders[id] EXCEPT !.released = TRUE]
           refunded == [orders[id] EXCEPT !.refunded = TRUE]
<1>3. /\ released \in Order /\ released.released /\ refunded \in Order /\ refunded.refunded
      /\ orders[id].seller \in Accounts /\ orders[id].buyer \in Accounts
  BY <1>2 DEF Order
<1>4. \/ /\ transfer(orders[id].seller, orders[id].amount)
         /\ orders' = [orders EXCEPT ![id] = released]
      \/ /\ transfer(orders[id].buyer, orders[id].amount)
         /\ orders' = [orders EXCEPT ![id] = refunded]
  BY <1>1 DEF release, refund, claimUnclaimed, LockTypeOK
<1> HIDE DEF released, refunded
<1> QED BY <1>1, <1>3, <1>4, PayoutKeeps

(* The contract never owes more or less than it holds, and never forgets a *)
(* payment that reverted.                                                  *)
THEOREM LockInvariant == LockSpec => []LockInv
<1>1. LockInit => LockInv
  <2>1. SUFFICES ASSUME LockInit PROVE LockInv
    OBVIOUS
  <2>2. LockTypeOK
    BY <2>1, LockAssumption DEF LockInit, LockTypeOK
  <2>3. OpenIds = {}
    BY <2>1 DEF LockInit, OpenIds, Open, NoOrder
  <2>4. SumFunctionOnSet(Deposits, OpenIds) = 0
    BY <2>3, SumEmpty
  <2> QED BY <2>1, <2>2, <2>4, SolventIsSum DEF LockInv, LockInit
<1>2. LockInv /\ [LockNext]_lockVars => LockInv'
  <2>1. SUFFICES ASSUME LockInv, [LockNext]_lockVars PROVE LockInv'
    OBVIOUS
  <2>2. CASE BlockTime
    <3>1. UNCHANGED <<orders, balance, accepts, received>> /\ time < MaxTime /\ time' = time + 1
      BY <2>2 DEF BlockTime
    <3>2. LockTypeOK /\ Solvent
      BY <2>1 DEF LockInv
    <3>3. time' \in 0 .. MaxTime
      BY <3>1, <3>2, LockAssumption DEF LockTypeOK
    <3>4. LockTypeOK'
      BY <3>1, <3>2, <3>3 DEF LockTypeOK
    <3>5. Solvent'
      BY <3>1, <3>2 DEF Solvent, Open, Settled
    <3> QED BY <3>4, <3>5 DEF LockInv
  <2>3. CASE UNCHANGED lockVars
    BY <2>1, <2>3 DEF lockVars, LockInv, LockTypeOK, Solvent, Open, Settled
  <2> QED BY <2>1, <2>2, <2>3, CreateKeeps, SettleKeeps DEF LockNext
<1> QED BY <1>1, <1>2, PTL DEF LockSpec

(* Every variable of the contract keeps its type: no time passes the       *)
(* largest uint256, no balance or payment turns negative.                  *)
THEOREM LockTypeCorrect == LockSpec => []LockTypeOK
<1>1. LockInv => LockTypeOK
  BY DEF LockInv
<1> QED BY <1>1, LockInvariant, PTL

(* The contract's balance is exactly the deposits of its open orders.      *)
THEOREM LockSolvent == LockSpec => []Solvent
<1>1. LockInv => Solvent
  BY DEF LockInv
<1> QED BY <1>1, LockInvariant, PTL

(* The balance covers the deposit of every open order, whatever the others *)
(* hold, and the seller's window to claim it is not empty.                 *)
Covered ==
    \A id \in OrderIds : Open(id) =>
        /\ orders[id].amount > 0 /\ orders[id].amount <= balance
        /\ orders[id].releaseTime < orders[id].refundTime

(* What create wrote of an open order. *)
Funded ==
    \A id \in OrderIds : Open(id) =>
        orders[id].amount > 0 /\ orders[id].releaseTime < orders[id].refundTime

(* create refuses an empty deposit and an empty lock, and no later call    *)
(* writes either.                                                          *)
LEMMA FundedNext ==
    ASSUME LockTypeOK, Funded, [LockNext]_lockVars
    PROVE  Funded'
<1>1. ASSUME NEW id \in OrderIds, NEW buyer \in Accounts, NEW seller \in Accounts,
             NEW value \in Amounts, NEW d \in Durations, create(id, buyer, seller, value, d)
      PROVE  Funded'
  <2> DEFINE new == [seller |-> seller, buyer |-> buyer, amount |-> value,
                     releaseTime |-> time + d, refundTime |-> time + d + d,
                     initialized |-> TRUE, released |-> FALSE, refunded |-> FALSE]
  <2>1. value > 0 /\ d > 0 /\ orders' = [orders EXCEPT ![id] = new]
    BY <1>1 DEF create
  <2>2. time \in Nat /\ d \in Nat
    BY LockAssumption DEF LockTypeOK
  <2>3. new.amount > 0 /\ new.releaseTime < new.refundTime
    BY <2>1, <2>2
  <2> HIDE DEF new
  <2>4. orders'[id] = new /\ \A i \in OrderIds : i # id => orders'[i] = orders[i]
    BY <2>1 DEF LockTypeOK
  <2> QED BY <2>3, <2>4 DEF Funded, Open, Settled
<1>2. ASSUME NEW id \in OrderIds, NEW a \in Accounts,
             release(id, a) \/ refund(id, a) \/ claimUnclaimed(id, a)
      PROVE  Funded'
  <2>1. \/ orders' = [orders EXCEPT ![id].released = TRUE]
        \/ orders' = [orders EXCEPT ![id].refunded = TRUE]
    BY <1>2 DEF release, refund, claimUnclaimed
  <2>2. orders[id] \in Order
    BY <1>2, OpenOrder DEF OpenIds, release, refund, claimUnclaimed
  <2>3. ~ Open(id)'
    BY <2>1, <2>2 DEF Open, Settled, Order, LockTypeOK
  <2>4. \A i \in OrderIds : i # id => orders'[i] = orders[i]
    BY <2>1 DEF LockTypeOK
  <2> QED BY <2>3, <2>4 DEF Funded, Open, Settled
<1>3. CASE orders' = orders
  BY <1>3 DEF Funded, Open, Settled
<1> QED BY <1>1, <1>2, <1>3 DEF LockNext, BlockTime, lockVars

(* A deposit is no larger than the sum over all open orders.               *)
LEMMA SolventCovers ==
    ASSUME LockInv, NEW id \in OrderIds, Open(id)
    PROVE  orders[id].amount <= balance
<1>1. LockTypeOK /\ Solvent
  BY DEF LockInv
<1>2. id \in OpenIds /\ orders[id].amount \in Nat /\ Deposits[id] = orders[id].amount
  BY <1>1, OpenOrder DEF OpenIds
<1>3. IsFiniteSet(OpenIds) /\ IsFiniteSet(OpenIds \ {id}) /\ \A i \in OpenIds : Deposits[i] \in Nat
  BY <1>1, OpenOrder, FS_RemoveElement
<1>4. SumFunctionOnSet(Deposits, OpenIds) = Deposits[id] + SumFunctionOnSet(Deposits, OpenIds \ {id})
  BY <1>2, <1>3, SumTake
<1>5. SumFunctionOnSet(Deposits, OpenIds \ {id}) \in Nat
  BY <1>3, SumTake
<1>6. balance = SumFunctionOnSet(Deposits, OpenIds)
  BY <1>1, SolventIsSum
<1> QED BY <1>2, <1>4, <1>5, <1>6

(* No payout of release, refund or claimUnclaimed ever reverts because the *)
(* contract has too little money: other orders never use up a deposit.     *)
THEOREM LockCovered == LockSpec => []Covered
<1>1. LockInit => Funded
  BY DEF LockInit, Funded, Open, NoOrder
<1>2. LockInv /\ Funded /\ [LockNext]_lockVars => Funded'
  BY FundedNext DEF LockInv
<1>3. LockInv /\ Funded => Covered
  BY SolventCovers DEF Funded, Covered
<1> QED BY <1>1, <1>2, <1>3, LockInvariant, PTL DEF LockSpec

-----------------------------------------------------------------------------
(* The coin swap *)

(* What a hop h leaves of the amount. *)
After(h) == args.utxo_sats - h * FeeSats

OutputAfter(h) == [hop |-> h, vout |-> IF h = 0 THEN args.utxo_vout ELSE 0, sats |-> After(h)]

Reason ==
    \/ faults > 0
    \/ args.utxo_sats < args.hop_count * FeeSats + Dust
    \/ ~ args.final_ok

CallInv ==
    call.status = "running" =>
        /\ call = [status |-> "running", hop |-> call.hop,
                   prev_vout |-> IF call.hop = 0 THEN args.utxo_vout ELSE 0,
                   prev_amount |-> After(call.hop)]
        /\ call.hop <= coin.hop

CoinInv ==
    /\ coin = OutputAfter(coin.hop)
    /\ After(coin.hop) \in Nat
    /\ coin.hop \in 1 .. args.hop_count - 1 =>
          Reason \/ (call.status = "running" /\ call.hop = coin.hop)

DoneInv == call = Done => coin.hop = args.hop_count

SwapInv == SwapTypeOK /\ CallInv /\ CoinInv /\ DoneInv

-----------------------------------------------------------------------------
(* Each hop takes one fee, and more hops leave less.                       *)
LEMMA AfterNext ==
    ASSUME args \in SwapArgs, NEW h \in Nat
    PROVE  /\ After(h) \in Int
           /\ After(h + 1) = After(h) - FeeSats
           /\ After(0) = args.utxo_sats
<1>1. args.utxo_sats \in Nat /\ FeeSats \in Nat
  BY SwapAssumption DEF SwapArgs
<1>2. h * FeeSats \in Nat /\ (h + 1) * FeeSats = h * FeeSats + FeeSats /\ 0 * FeeSats = 0
  BY <1>1
<1>3. QED
  BY <1>1, <1>2 DEF After

(* The first hops cost at most what all cost.                              *)
LEMMA FewerFees ==
    ASSUME NEW h \in Nat, NEW n \in Nat, h < n
    PROVE  (h + 1) * FeeSats <= n * FeeSats /\ (h + 1) * FeeSats \in Nat /\ n * FeeSats \in Nat
<1>1. FeeSats \in Nat
  BY SwapAssumption
<1>2. PICK k \in Nat : n = (h + 1) + k
  <2>1. n - (h + 1) \in Nat /\ n = (h + 1) + (n - (h + 1))
    OBVIOUS
  <2>2. QED
    BY <2>1
<1>3. n * FeeSats = (h + 1) * FeeSats + k * FeeSats /\ k * FeeSats \in Nat /\ (h + 1) * FeeSats \in Nat
  BY <1>1, <1>2
<1>4. QED
  BY <1>3

(* A hop that can be built leaves the amount less one fee, above dust.     *)
LEMMA BuildableAmount ==
    ASSUME SwapInv, call.status = "running"
    PROVE  /\ call.hop \in 0 .. args.hop_count - 1 /\ call.hop \in Nat /\ args.hop_count \in Nat
           /\ call.prev_amount = After(call.hop)
           /\ After(call.hop) \in Int /\ After(call.hop + 1) = After(call.hop) - FeeSats
           /\ Buildable(call) => /\ SaturatingSub(call.prev_amount, FeeSats) = After(call.hop + 1)
                                 /\ After(call.hop + 1) \in Nat
<1>1. args.hop_count \in Nat /\ FeeSats \in Nat \ {0} /\ Dust \in Nat \ {0} /\ args \in SwapArgs
  BY SwapAssumption DEF SwapInv, SwapTypeOK, SwapArgs
<1>2. call.hop \in 0 .. args.hop_count - 1
  BY DEF SwapInv, SwapTypeOK, NotRunning, Failed, Done
<1>3. call.hop \in Nat
  BY <1>1, <1>2
<1>4. call.prev_amount = After(call.hop)
  BY DEF SwapInv, CallInv
<1>5. After(call.hop) \in Int /\ After(call.hop + 1) = After(call.hop) - FeeSats
  BY <1>1, <1>3, AfterNext
<1>6. ASSUME Buildable(call)
      PROVE  SaturatingSub(call.prev_amount, FeeSats) = After(call.hop + 1) /\ After(call.hop + 1) \in Nat
  <2>1. SaturatingSub(call.prev_amount, FeeSats) >= Dust
    BY <1>6 DEF Buildable
  <2>2. call.prev_amount > FeeSats
    BY <2>1, <1>1, <1>4, <1>5 DEF SaturatingSub
  <2>3. QED
    BY <2>2, <1>1, <1>4, <1>5 DEF SaturatingSub
<1>7. QED
  BY <1>1, <1>2, <1>3, <1>4, <1>5, <1>6

(* Before the first call the coin is the output given.                     *)
LEMMA SwapInitInv == SwapInit => SwapInv
<1>1. SUFFICES ASSUME SwapInit PROVE SwapInv
  OBVIOUS
<1>2. args.hop_count \in Nat /\ args.utxo_sats \in Nat /\ args.utxo_vout \in Nat /\ args \in SwapArgs
  BY <1>1, SwapAssumption DEF SwapInit, SwapArgs
<1>3. SwapTypeOK
  BY <1>1, <1>2, SwapAssumption DEF SwapInit, SwapTypeOK
<1>4. After(0) = args.utxo_sats
  BY <1>2, AfterNext
<1>5. CallInv /\ DoneInv
  BY <1>1 DEF SwapInit, CallInv, DoneInv, NotRunning, Done
<1>6. CoinInv
  BY <1>1, <1>2, <1>4 DEF SwapInit, CoinInv, OutputAfter
<1>7. QED
  BY <1>3, <1>5, <1>6 DEF SwapInv

-----------------------------------------------------------------------------
(* A call that begins knows the output it was given and nothing else.      *)
LEMMA CallKeepsInv ==
    ASSUME SwapInv, run_coinswap_chain
    PROVE  SwapInv'
<1>1. args.hop_count \in Nat /\ args \in SwapArgs /\ After(0) = args.utxo_sats
  BY SwapAssumption, AfterNext DEF SwapInv, SwapTypeOK, SwapArgs
<1>2. /\ args' = args /\ coin' = coin /\ mined' = mined /\ faults' = faults /\ calls' = calls + 1 /\ calls < MaxCalls
      /\ call \in {NotRunning, Failed}
      /\ \/ args.hop_count = 0 /\ call' = Done
         \/ args.hop_count > 0 /\ call' = Running(0, args.utxo_vout, args.utxo_sats)
  BY <1>1 DEF run_coinswap_chain
<1>3. SwapTypeOK'
  BY <1>1, <1>2, SwapAssumption DEF SwapInv, SwapTypeOK, Running
<1>4. CallInv'
  <2>1. coin.hop \in Nat /\ coin.hop >= 0
    BY <1>1 DEF SwapInv, SwapTypeOK
  <2>2. QED
    BY <1>1, <1>2, <2>1 DEF CallInv, Running, Done, After
<1>5. CoinInv'
  <2>1. call.status # "running"
    BY <1>2 DEF NotRunning, Failed
  <2>2. QED
    BY <1>2, <2>1 DEF SwapInv, CoinInv, OutputAfter, After, Reason
<1>6. DoneInv'
  <2>1. coin.hop \in 0 .. args.hop_count
    BY DEF SwapInv, SwapTypeOK
  <2>2. QED
    BY <1>1, <1>2, <2>1 DEF DoneInv, Running, Done
<1>7. QED
  BY <1>3, <1>4, <1>5, <1>6 DEF SwapInv

(* A hop that is not sent: the coin stays, and if it was this call that    *)
(* had brought it where it is, there is a reason.                          *)
LEMMA RefusedKeepsInv ==
    ASSUME SwapInv, call.status = "running", ~ Buildable(call) \/ ~ Accepted(call),
           call' = Failed, UNCHANGED <<args, coin, mined, calls, faults>>
    PROVE  SwapInv'
<1>1. /\ args.hop_count \in Nat /\ args.utxo_sats \in Nat /\ Dust \in Nat /\ FeeSats \in Nat
      /\ args \in SwapArgs /\ args.final_ok \in BOOLEAN
  BY SwapAssumption DEF SwapInv, SwapTypeOK, SwapArgs
<1>2. SwapTypeOK' /\ CallInv' /\ DoneInv'
  BY DEF SwapInv, SwapTypeOK, CallInv, DoneInv, Failed, Done
<1>3. ASSUME coin.hop \in 1 .. args.hop_count - 1, call.hop = coin.hop PROVE Reason
  <2>1. Accepted(call)
    BY <1>1, <1>3 DEF SwapInv, CallInv, CoinInv, OutputAfter, Accepted, Spends
  <2>2. CASE SaturatingSub(call.prev_amount, FeeSats) < Dust
    <3>1. After(call.hop) - FeeSats < Dust
      BY <2>2, <1>1, BuildableAmount DEF SaturatingSub
    <3>2. After(call.hop) - FeeSats = args.utxo_sats - (call.hop + 1) * FeeSats
      BY BuildableAmount DEF After
    <3>3. (call.hop + 1) * FeeSats <= args.hop_count * FeeSats
          /\ (call.hop + 1) * FeeSats \in Nat /\ args.hop_count * FeeSats \in Nat
      BY <1>1, <1>3, FewerFees
    <3>4. args.utxo_sats < args.hop_count * FeeSats + Dust
      BY <1>1, <3>1, <3>2, <3>3
    <3>5. QED
      BY <3>4 DEF Reason
  <2>3. CASE ~ (SaturatingSub(call.prev_amount, FeeSats) < Dust)
    <3>1. SaturatingSub(call.prev_amount, FeeSats) >= Dust
      BY <2>3, <1>1, BuildableAmount DEF SaturatingSub
    <3>2. ~ args.final_ok
      BY <2>1, <3>1 DEF Buildable
    <3>3. QED
      BY <3>2 DEF Reason
  <2>4. QED
    BY <2>2, <2>3
<1>4. CoinInv'
  BY <1>3 DEF SwapInv, CoinInv, OutputAfter, After, Reason
<1>5. QED
  BY <1>2, <1>4 DEF SwapInv

(* What the node has after it took a hop: either it knew the transaction,  *)
(* and the coin is further on, or the coin is now that hop's output.       *)
LEMMA TakenByNode ==
    ASSUME SwapInv, call.status = "running", Buildable(call), Accepted(call)
    PROVE  /\ call.hop \in 0 .. args.hop_count - 1 /\ args.hop_count \in Nat
           /\ \/ call.hop < coin.hop /\ Sent(call) = coin
              \/ /\ call.hop = coin.hop /\ After(call.hop + 1) \in Nat
                 /\ Sent(call) = [hop |-> call.hop + 1, vout |-> 0, sats |-> After(call.hop + 1)]
<1>1. /\ call.hop \in 0 .. args.hop_count - 1 /\ args.hop_count \in Nat
      /\ coin.hop \in 0 .. args.hop_count /\ mined \in Nat
  BY BuildableAmount DEF SwapInv, SwapTypeOK
<1>2. CASE InMempool(call)
  BY <1>1, <1>2 DEF InMempool, Sent
<1>3. CASE ~ InMempool(call)
  <2>1. coin.hop = call.hop
    BY <1>3 DEF Accepted, Spends
  <2>2. QED
    BY <1>1, <1>3, <2>1, BuildableAmount DEF Sent
<1>4. QED
  BY <1>2, <1>3

(* A hop that is sent and answered.                                        *)
LEMMA SentKeepsInv ==
    ASSUME SwapInv, call.status = "running", Buildable(call), Accepted(call),
           coin' = Sent(call), call' = Advance(call), UNCHANGED <<args, mined, calls, faults>>
    PROVE  SwapInv'
<1>1. args.hop_count \in Nat /\ args \in SwapArgs /\ coin.hop \in 0 .. args.hop_count
  BY SwapAssumption DEF SwapInv, SwapTypeOK, SwapArgs
<1>2. /\ call.hop \in 0 .. args.hop_count - 1
      /\ \/ call.hop < coin.hop /\ coin' = coin
         \/ /\ call.hop = coin.hop /\ After(call.hop + 1) \in Nat
            /\ coin' = [hop |-> call.hop + 1, vout |-> 0, sats |-> After(call.hop + 1)]
  BY TakenByNode
<1>3. \/ call.hop = args.hop_count - 1 /\ call' = Done
      \/ call.hop < args.hop_count - 1 /\ call' = Running(call.hop + 1, 0, After(call.hop + 1))
  BY <1>1, <1>2, BuildableAmount DEF Advance
<1>4. call.hop < coin'.hop /\ coin'.hop \in 0 .. args.hop_count /\ coin'.hop >= coin.hop
  BY <1>1, <1>2
<1>5. SwapTypeOK'
  <2>1. coin' \in [hop : 0 .. args.hop_count, vout : Nat, sats : Nat]
    BY <1>1, <1>2, <1>4 DEF SwapInv, SwapTypeOK
  <2>2. mined' \in 0 .. coin'.hop
    BY <1>1, <1>4 DEF SwapInv, SwapTypeOK
  <2>3. QED
    BY <1>1, <1>2, <1>3, <2>1, <2>2 DEF SwapInv, SwapTypeOK, Running
<1>6. CallInv'
  BY <1>1, <1>2, <1>3, <1>4 DEF CallInv, Running, Done, After
<1>7. CoinInv'
  <2>1. CASE call.hop < coin.hop /\ coin' = coin
    BY <1>1, <1>2, <2>1 DEF SwapInv, CoinInv, OutputAfter, After, Reason
  <2>2. CASE /\ call.hop = coin.hop /\ After(call.hop + 1) \in Nat
             /\ coin' = [hop |-> call.hop + 1, vout |-> 0, sats |-> After(call.hop + 1)]
    BY <1>1, <1>2, <1>3, <2>2 DEF CoinInv, OutputAfter, After, Running, Done
  <2>3. QED
    BY <1>2, <2>1, <2>2
<1>8. DoneInv'
  BY <1>1, <1>2, <1>3, <1>4 DEF DoneInv, Running, Done
<1>9. QED
  BY <1>5, <1>6, <1>7, <1>8 DEF SwapInv

(* A broadcast that fails, whether or not the node took the transaction.   *)
LEMMA FaultKeepsInv ==
    ASSUME SwapInv, call.status = "running", Buildable(call), faults < MaxFaults,
           faults' = faults + 1, call' = Failed,
           coin' = coin \/ (Accepted(call) /\ coin' = Sent(call)), UNCHANGED <<args, mined, calls>>
    PROVE  SwapInv'
<1>1. args.hop_count \in Nat /\ args \in SwapArgs
  BY SwapAssumption DEF SwapInv, SwapTypeOK, SwapArgs
<1>2. faults' > 0 /\ faults' \in 0 .. MaxFaults
  BY SwapAssumption DEF SwapInv, SwapTypeOK
<1>3. CallInv' /\ DoneInv'
  BY DEF CallInv, DoneInv, Failed, Done
<1>4. CASE coin' = coin
  BY <1>1, <1>2, <1>3, <1>4 DEF SwapInv, SwapTypeOK, CoinInv, OutputAfter, After, Reason
<1>5. CASE coin' # coin
  <2>1. /\ coin' = [hop |-> call.hop + 1, vout |-> 0, sats |-> After(call.hop + 1)]
        /\ call.hop \in 0 .. args.hop_count - 1 /\ After(call.hop + 1) \in Nat
        /\ call.hop = coin.hop
    BY <1>5, TakenByNode
  <2>2. SwapTypeOK'
    BY <1>1, <1>2, <2>1 DEF SwapInv, SwapTypeOK
  <2>3. CoinInv'
    BY <1>1, <1>2, <2>1 DEF CoinInv, OutputAfter, After, Reason
  <2>4. QED
    BY <1>3, <2>2, <2>3 DEF SwapInv
<1>6. QED
  BY <1>4, <1>5

-----------------------------------------------------------------------------
(* The inductive invariant of the coin swap: a call in progress is never   *)
(* ahead of the coin, and a coin short of its goal is being moved or has a reason *)
(* to be there.                                                            *)
THEOREM SwapInvariant == SwapSpec => []SwapInv
<1>1. SwapInv /\ [SwapNext]_swapVars => SwapInv'
  <2>1. SUFFICES ASSUME SwapInv, [SwapNext]_swapVars PROVE SwapInv'
    OBVIOUS
  <2>2. CASE run_coinswap_chain
    BY <2>1, <2>2, CallKeepsInv
  <2>3. CASE Hop
    <3>1. CASE /\ ~ Buildable(call) \/ ~ Accepted(call)
               /\ call' = Failed /\ UNCHANGED <<coin, faults>>
      BY <2>1, <2>3, <3>1, RefusedKeepsInv DEF Hop
    <3>2. CASE /\ Buildable(call) /\ Accepted(call) /\ coin' = Sent(call)
               /\ call' = Advance(call) /\ UNCHANGED faults
      BY <2>1, <2>3, <3>2, SentKeepsInv DEF Hop
    <3>3. CASE /\ Buildable(call) /\ faults < MaxFaults /\ faults' = faults + 1 /\ call' = Failed
               /\ coin' \in {coin} \cup (IF Accepted(call) THEN {Sent(call)} ELSE {})
      BY <2>1, <2>3, <3>3, FaultKeepsInv DEF Hop
    <3>4. QED
      BY <2>3, <3>1, <3>2, <3>3 DEF Hop
  <2>4. CASE Mine
    <3>1. mined' \in 0 .. coin.hop /\ UNCHANGED <<args, coin, call, calls, faults>>
      BY <2>1, <2>4, SwapAssumption DEF Mine, SwapInv, SwapTypeOK, SwapArgs
    <3>2. QED
      BY <2>1, <3>1 DEF SwapInv, SwapTypeOK, CallInv, CoinInv, DoneInv, OutputAfter, After, Reason
  <2>5. CASE UNCHANGED swapVars
    BY <2>1, <2>5 DEF swapVars, SwapInv, SwapTypeOK, CallInv, CoinInv, DoneInv, OutputAfter, After,
                      Reason
  <2>6. QED
    BY <2>1, <2>2, <2>3, <2>4, <2>5 DEF SwapNext
<1>2. QED
  BY <1>1, SwapInitInv, PTL DEF SwapSpec

(* Every variable of the swap keeps its type: no call runs past the last   *)
(* hop and no coin lies beyond it.                                         *)
THEOREM SwapTypeCorrect == SwapSpec => []SwapTypeOK
<1>1. SwapInv => SwapTypeOK
  BY DEF SwapInv
<1>2. QED
  BY <1>1, SwapInvariant, PTL

(* Money left on the way has one of the three reasons.                     *)
THEOREM SwapStrandedOnlyByFault == SwapSpec => []StrandedOnlyByFault
<1>1. SwapInv => StrandedOnlyByFault
  BY DEF SwapInv, CoinInv, StrandedOnlyByFault, Reason, Failed
<1>2. QED
  BY <1>1, SwapInvariant, PTL

(* A call that returned Ok has brought the money to the final address,     *)
(* less one fee per hop, also when it ran over the transactions of earlier *)
(* calls.                                                                  *)
THEOREM SwapOkMeansDelivered == SwapSpec => []OkMeansDelivered
<1>1. SwapInv => OkMeansDelivered
  <2>1. SUFFICES ASSUME SwapInv, call = Done PROVE OkMeansDelivered
    BY DEF OkMeansDelivered
  <2>2. coin = OutputAfter(args.hop_count) /\ After(0) = args.utxo_sats
    BY <2>1, AfterNext DEF SwapInv, SwapTypeOK, CoinInv, DoneInv
  <2>3. QED
    BY <2>2 DEF OutputAfter, After, OkMeansDelivered
<1>2. QED
  BY <1>1, SwapInvariant, PTL
=============================================================================
