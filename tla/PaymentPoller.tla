--------------------------- MODULE PaymentPoller ---------------------------
(***************************************************************************)
(* background/payment_poller.rs: the worker's payment job, with the answer *)
(* the XMR and BTC clients give (services/payments/xmr.rs, btc_client.rs). *)
(* A poll takes a snapshot of the table, asks the wallet about every       *)
(* pending order in it, and for an order to be funded or cancelled reads   *)
(* the row again before its conditional UPDATE.  Errors of one order never *)
(* stop the poll (`let _ =`).                                              *)
(***************************************************************************)
EXTENDS OrdersTable

VARIABLES
    pp,        \* the poll in progress
    chain,     \* the chain's view of each order's payment (external)
    notified,  \* orders announced on the payment_tx channel
    audits,    \* orders with a PaymentAuditRecord in the XMR client's memory
    broadcast, \* orders whose settlement transaction was broadcast
    rolledBack \* history: the order being credited, if its payment has lost
               \* confirmations since the wallet's answer

ppVars == <<pp, chain, notified, audits, broadcast, rolledBack>>

REQUIRED == "confirmed"     \* 10 confirmations for XMR, 6 for BTC
ChainStates == {"none", "low", REQUIRED}

(* The order at hand: what is to be done with it, whether the row was read *)
(* again, the version that read found and the data to write.               *)
NoOrder == [kind |-> "none"]
Current == [kind : {"funded", "cancelled", "settle"}, order : Orders,
            reread : BOOLEAN, version : Nat, data : OrderData]

(* snap: pending orders still to be checked; settle: released BTC orders   *)
(* still to be settled; now: the clock, floored, when the poll began.      *)
NoData == [state |-> "none"]
PpTypeOK ==
    /\ pp \in [snap : [Orders -> OrderData \cup {NoData}], settle : SUBSET Orders,
               cur : Current \cup {NoOrder}, now : Nat]
    /\ chain \in [Orders -> ChainStates]
    /\ notified \subseteq Orders
    /\ audits \subseteq Orders
    /\ broadcast \subseteq Orders
    /\ rolledBack \subseteq Orders

PpIdle == [snap |-> [o \in Orders |-> NoData], settle |-> {}, cur |-> NoOrder, now |-> 0]
PpInit ==
    /\ pp = PpIdle
    /\ chain = [o \in Orders |-> "none"]
    /\ notified = {}
    /\ audits = {}
    /\ broadcast = {}
    /\ rolledBack = {}

-----------------------------------------------------------------------------
(* The buyer pays an order that exists: the payment appears on the chain   *)
(* and gathers confirmations, and a reorganisation takes some or all of    *)
(* them away again.                                                        *)
Crediting(o) == pp.cur # NoOrder /\ pp.cur.kind = "funded" /\ pp.cur.order = o
Gains(o) ==
    /\ \/ chain[o] = "none" /\ chain' = [chain EXCEPT ![o] = "low"]
       \/ chain[o] = "low" /\ chain' = [chain EXCEPT ![o] = REQUIRED]
    /\ UNCHANGED rolledBack
Loses(o) ==
    /\ \/ chain[o] = REQUIRED /\ chain' = [chain EXCEPT ![o] = "low"]
       \/ chain[o] # "none" /\ chain' = [chain EXCEPT ![o] = "none"]
    /\ rolledBack' = IF Crediting(o) THEN rolledBack \cup {o} ELSE rolledBack
ChainStep(o) ==
    /\ Exists(o)
    /\ Gains(o) \/ Loses(o)
    /\ UNCHANGED <<orders, pp, notified, audits, broadcast>>

Polled(o) ==
    /\ Exists(o)
    /\ decrypt_ecdh_blob_ok(orders[o].blob) \/ decrypt_order_blob_ok(orders[o].blob)
    /\ orders[o].blob.data.escrow_address

(* The poll goes on with the orders left, or ends. *)
PpContinue(snap, settle, now) ==
    pp' = IF settle = {} /\ \A o \in Orders : snap[o] = NoData
            THEN PpIdle
            ELSE [snap |-> snap, settle |-> settle, cur |-> NoOrder, now |-> now]

(* healthy: the currencies whose check_for_fork answered Ok(false). *)
check_pending_payments ==
    /\ pp = PpIdle
    /\ \E healthy \in SUBSET Currencies :
         LET data(o) == orders[o].blob.data
             pending(o) == data(o).state = "pending" /\ data(o).currency \in healthy
             unsettled(o) == /\ data(o).state = "released"
                             /\ data(o).currency = "BTC"
                             /\ ~ data(o).settlement_txid
         IN  PpContinue([o \in Orders |-> IF Polled(o) /\ pending(o) THEN data(o) ELSE NoData],
                        {o \in Orders : Polled(o) /\ unsettled(o)},
                        floor_timestamp_6h(clock))
    /\ UNCHANGED <<orders, chain, notified, audits, broadcast, rolledBack>>

(* What check_payment_with_confirmations may answer.  "skip": an RPC error,*)
(* a detected fork or an unusable amount.  The BTC client reports a        *)
(* payment with too few confirmations as not received.                     *)
Answers_UnderConfirmed(o, currency) ==
    {"skip", IF chain[o] = "low" THEN REQUIRED ELSE chain[o]}
Answers(o, currency) ==
    {"skip", IF currency = "BTC" /\ chain[o] = "low" THEN "none" ELSE chain[o]}

Expired_AtExpiry(data, now) == now >= unwrap_or(data.expires_at, now + 1)
Expired(data, now) == now > unwrap_or(data.expires_at, now + 1)

(* One order of check_xmr_payments or check_btc_payments. *)
check_payment(o) ==
    LET data == pp.snap[o]
        mark(kind) == pp' = [pp EXCEPT !.snap[o] = NoData,
                                       !.cur = [kind |-> kind, order |-> o, reread |-> FALSE,
                                                version |-> 0, data |-> data]]
    IN
    /\ pp.cur = NoOrder
    /\ data # NoData
    /\ \E answer \in Answers(o, data.currency) :
          \/ /\ answer = REQUIRED
             /\ audits' = IF data.currency = "XMR" THEN audits \cup {o} ELSE audits
             /\ mark("funded")
          \/ /\ answer = "none" /\ Expired(data, pp.now)
             /\ mark("cancelled")
             /\ UNCHANGED audits
          \/ /\ \/ answer \in {"skip", "low"}
                \/ answer = "none" /\ ~ Expired(data, pp.now)
             /\ PpContinue([pp.snap EXCEPT ![o] = NoData], pp.settle, pp.now)
             /\ UNCHANGED audits
    /\ UNCHANGED <<orders, chain, notified, broadcast, rolledBack>>

(* The retries follow once no pending order is left. *)
start_settlement(o) ==
    /\ pp.cur = NoOrder
    /\ \A p \in Orders : pp.snap[p] = NoData
    /\ o \in pp.settle
    /\ pp' = [pp EXCEPT !.settle = @ \ {o},
                        !.cur = [kind |-> "settle", order |-> o, reread |-> FALSE,
                                 version |-> 0, data |-> orders[o].blob.data]]
    /\ UNCHANGED <<orders, chain, notified, audits, broadcast, rolledBack>>

-----------------------------------------------------------------------------
(* First half of mark_order_funded, mark_order_cancelled and               *)
(* retry_btc_settlement: SELECT the row again, unseal it with the worker   *)
(* key alone, look at its state.                                           *)
Wanted(kind, data) ==
    IF kind = "settle" THEN data.state = "released" /\ ~ data.settlement_txid
                       ELSE data.state = "pending"

Updated(kind, data, now) ==
    CASE kind = "funded"    -> [data EXCEPT !.state = "funded", !.funded_at = now]
      [] kind = "cancelled" -> [data EXCEPT !.state = "cancelled"]
      [] kind = "settle"    -> [data EXCEPT !.settlement_txid = TRUE]

CanMark(row, kind) ==
    /\ decrypt_order_blob_ok(row.blob)
    /\ Wanted(kind, row.blob.data)

(* settle_stealth_order broadcasts only when the address holds a confirmed,*)
(* unspent output.  It may fail all the same (an RPC error); either way    *)
(* the order is left for the next poll.                                    *)
Settles(kind, o) == kind = "settle" => chain[o] # "none" /\ o \notin broadcast

mark_order_read ==
    LET kind == pp.cur.kind
        o == pp.cur.order
        row == orders[o]
    IN  /\ pp.cur # NoOrder
        /\ ~ pp.cur.reread
        /\ \/ /\ CanMark(row, kind) /\ Settles(kind, o)
              /\ pp' = [pp EXCEPT !.cur.reread = TRUE, !.cur.version = row.version,
                                  !.cur.data = Updated(kind, row.blob.data, pp.now)]
              /\ notified' = IF kind = "funded" THEN notified \cup {o} ELSE notified
              /\ broadcast' = IF kind = "settle" THEN broadcast \cup {o} ELSE broadcast
              /\ UNCHANGED rolledBack
           \/ /\ kind = "settle" \/ ~ CanMark(row, kind)
              /\ PpContinue(pp.snap, pp.settle, pp.now)
              /\ rolledBack' = {}
              /\ UNCHANGED <<notified, broadcast>>
        /\ UNCHANGED <<orders, chain, audits>>

(* Second half: the conditional UPDATE, whose failure nobody looks at.     *)
(* mark_order_cancelled alone leaves expiry_bucket as it is.               *)
mark_set(row, kind, data) ==
    [row EXCEPT !.blob = encrypt_order_blob(data),
                !.expiry_bucket = IF kind = "cancelled" THEN @ ELSE floor_opt(data.expires_at)]

mark_order_write ==
    LET o == pp.cur.order IN
    /\ pp.cur # NoOrder
    /\ pp.cur.reread
    /\ IF RowsAffected(o, pp.cur.version)
         THEN UpdateRow(o, mark_set(orders[o], pp.cur.kind, pp.cur.data))
         ELSE UNCHANGED orders
    /\ PpContinue(pp.snap, pp.settle, pp.now)
    /\ rolledBack' = {}
    /\ UNCHANGED <<chain, notified, audits, broadcast>>

PpNext ==
    \/ \E o \in Orders : ChainStep(o) \/ check_payment(o) \/ start_settlement(o)
    \/ check_pending_payments
    \/ mark_order_read \/ mark_order_write
=============================================================================
