------------------------------ MODULE CoinSwap ------------------------------
(***************************************************************************)
(* services/payments/coinswap.rs: run_coinswap_chain moves one output      *)
(* through hop_count self-transfers, the last to the final address, with   *)
(* the signing and finalizing of services/escrow/btc.rs.  The Bitcoin      *)
(* network (external) takes a transaction when the output it names exists, *)
(* is unspent and has the value that was signed; the answer may be lost.   *)
(* A caller who got an error may call again, with the same arguments: keys *)
(* (hop_key) and signatures are deterministic, so a hop made again is the  *)
(* same transaction, and the node answers it with its id for as long as it *)
(* is in the mempool.                                                      *)
(***************************************************************************)
EXTENDS Naturals

CONSTANTS
    HopCounts,   \* config.hop_count: a set of choices
    FeeSats,     \* config.fee_sats_per_hop
    Dust,        \* DUST_SATS
    UtxoSats,    \* utxo_amount_sats: a set of choices
    UtxoVouts,   \* utxo_vout: a set of choices
    MaxCalls,    \* bound on calls
    MaxFaults    \* bound on broadcasts that fail or whose answer is lost

ASSUME SwapAssumption ==
    /\ HopCounts \subseteq Nat /\ FeeSats \in Nat \ {0} /\ Dust \in Nat \ {0}
    /\ UtxoSats \subseteq Nat /\ UtxoVouts \subseteq Nat
    /\ MaxCalls \in Nat /\ MaxFaults \in Nat

VARIABLES
    args,     \* the arguments of every call; final_ok: final_address is valid on the network
    coin,     \* the unspent output the money is in: hop it came from, vout, value
    mined,    \* how many of the hops' transactions are in a block
    call,     \* the call in progress: hop, prev_vout, prev_amount
    calls,
    faults

swapVars == <<args, coin, mined, call, calls, faults>>

NotRunning == [status |-> "none"]
Failed == [status |-> "failed"]
Done == [status |-> "done"]

SwapArgs == [hop_count : HopCounts, utxo_sats : UtxoSats, utxo_vout : UtxoVouts, final_ok : BOOLEAN]

SwapTypeOK ==
    /\ args \in SwapArgs
    /\ coin \in [hop : 0 .. args.hop_count, vout : Nat, sats : Nat]
    /\ mined \in 0 .. coin.hop
    /\ \/ call \in {NotRunning, Failed, Done}
       \/ call.status = "running" /\ call.hop \in 0 .. args.hop_count - 1
    /\ calls \in 0 .. MaxCalls
    /\ faults \in 0 .. MaxFaults

SwapInit ==
    /\ args \in SwapArgs
    /\ coin = [hop |-> 0, vout |-> args.utxo_vout, sats |-> args.utxo_sats]
    /\ mined = 0
    /\ call = NotRunning
    /\ calls = 0
    /\ faults = 0

-----------------------------------------------------------------------------
SaturatingSub(a, b) == IF a > b THEN a - b ELSE 0

Running(hop, vout, amount) ==
    [status |-> "running", hop |-> hop, prev_vout |-> vout, prev_amount |-> amount]

run_coinswap_chain ==
    /\ call \in {NotRunning, Failed}
    /\ calls < MaxCalls
    /\ calls' = calls + 1
    /\ call' = IF args.hop_count = 0 THEN Done ELSE Running(0, args.utxo_vout, args.utxo_sats)
    /\ UNCHANGED <<args, coin, mined, faults>>

(* After a hop: the next one spends output 0 of the transaction just sent. *)
Advance_SameVout(c) ==
    IF c.hop = args.hop_count - 1 THEN Done
    ELSE Running(c.hop + 1, c.prev_vout, SaturatingSub(c.prev_amount, FeeSats))
Advance_Short(c) ==
    IF c.hop + 1 >= args.hop_count - 1 THEN Done
    ELSE Running(c.hop + 1, 0, SaturatingSub(c.prev_amount, FeeSats))
Advance_OneMore(c) ==
    IF c.hop = args.hop_count THEN Done
    ELSE Running(c.hop + 1, 0, SaturatingSub(c.prev_amount, FeeSats))
Advance(c) ==
    IF c.hop = args.hop_count - 1 THEN Done
    ELSE Running(c.hop + 1, 0, SaturatingSub(c.prev_amount, FeeSats))

(* The input exists and is unspent; BIP143 signs its value. *)
Spends(c) == coin = [hop |-> c.hop, vout |-> c.prev_vout, sats |-> c.prev_amount]

(* An earlier call has sent this transaction, and no block has it yet. *)
InMempool(c) == c.hop \in mined .. coin.hop - 1

(* The node answers with the transaction's id. *)
Accepted(c) == Spends(c) \/ InMempool(c)

(* What a hop finds out before it signs: build_self_transfer_psbt's dust   *)
(* check, and the final address, which only the last hop looks at.         *)
Buildable(c) ==
    /\ SaturatingSub(c.prev_amount, FeeSats) >= Dust
    /\ c.hop = args.hop_count - 1 => args.final_ok

(* Where the money is once the node has the hop's transaction. *)
Sent(c) ==
    IF InMempool(c) THEN coin
    ELSE [hop |-> c.hop + 1, vout |-> 0, sats |-> SaturatingSub(c.prev_amount, FeeSats)]

(* One hop: build_self_transfer_psbt, sign, finalize, broadcast_psbt. *)
Hop ==
    /\ call.status = "running"
    /\ \/ /\ ~ Buildable(call) \/ ~ Accepted(call)
          /\ call' = Failed
          /\ UNCHANGED <<coin, faults>>
       \/ /\ Buildable(call) /\ Accepted(call)
          /\ coin' = Sent(call)
          /\ call' = Advance(call)
          /\ UNCHANGED faults
       \/ /\ Buildable(call)      \* the RPC fails, before or after the node took it
          /\ faults < MaxFaults
          /\ faults' = faults + 1
          /\ call' = Failed
          /\ coin' \in {coin} \cup (IF Accepted(call) THEN {Sent(call)} ELSE {})
    /\ UNCHANGED <<args, mined, calls>>

(* A block takes the oldest transaction of the mempool. *)
Mine ==
    /\ mined < coin.hop
    /\ mined' = mined + 1
    /\ UNCHANGED <<args, coin, call, calls, faults>>

SwapNext == run_coinswap_chain \/ Hop \/ Mine

SwapSpec == SwapInit /\ [][SwapNext]_swapVars

-----------------------------------------------------------------------------
(* Money is left at an intermediate address only when a broadcast failed   *)
(* or its answer was lost, when the amount could not pay for all hops, or  *)
(* when the final address is wrong; the last two are found out only after  *)
(* the earlier hops have been sent.  A hop that follows a hop is one the   *)
(* network takes.                                                          *)
StrandedOnlyByFault ==
    call = Failed /\ coin.hop \in 1 .. args.hop_count - 1 =>
        \/ faults > 0
        \/ args.utxo_sats < args.hop_count * FeeSats + Dust
        \/ ~ args.final_ok

(* A call that returns Ok has brought the money to the final address, less *)
(* one fee per hop.  A call made after one that failed half way, or whose  *)
(* answer was lost at the end, runs over the hops still in the mempool and *)
(* returns Ok only when the rest has been sent too, never because all it   *)
(* saw was answered.  (With no hops it returns Ok and has moved nothing.)  *)
OkMeansDelivered ==
    call = Done =>
        coin = IF args.hop_count = 0
               THEN [hop |-> 0, vout |-> args.utxo_vout, sats |-> args.utxo_sats]
               ELSE [hop |-> args.hop_count, vout |-> 0,
                     sats |-> args.utxo_sats - args.hop_count * FeeSats]
=============================================================================
