---------------------------- MODULE OrdersTable ----------------------------
(***************************************************************************)
(* The `orders` table that the API process and the worker process share    *)
(* (one SQLite database), the OrderData record inside an encrypted order   *)
(* blob, and the wall clock.                                               *)
(*                                                                         *)
(* A row is read by one SELECT and written by one conditional UPDATE       *)
(*     UPDATE orders SET ..., version = version + 1                        *)
(*     WHERE id = ? AND version = ?                                        *)
(* SQLite runs each statement atomically, and nothing in the code holds a  *)
(* transaction over two of them, so a statement is the unit of             *)
(* interleaving.  An UPDATE whose version no longer matches affects no row.*)
(***************************************************************************)
EXTENDS Integers

CONSTANTS
    Orders,    \* order identifiers
    Requests,  \* API calls clients make; each chat call carries its own message
    Locks,     \* time-lock durations in play
    Bucket,    \* length of a timestamp bucket (21600 seconds in the code)
    StartTime, \* the time at which the processes start
    MaxTime    \* bound: the clock stops here

ASSUME BucketAssumption == Bucket \in Nat \ {0}
ASSUME TimeAssumption == /\ StartTime \in Nat
                         /\ MaxTime \in Nat
                         /\ StartTime <= MaxTime
ASSUME LocksAssumption == Locks \subseteq Nat

VARIABLES
    orders,    \* the table: a row, or NoRow, for each identifier
    clock      \* seconds since the epoch, scaled

None == -1
OptTime == Nat \cup {None}
unwrap_or(opt, default) == IF opt = None THEN default ELSE opt

floor_timestamp_6h(ts) == (ts \div Bucket) * Bucket
floor_opt(t) == IF t = None THEN None ELSE floor_timestamp_6h(t)

-----------------------------------------------------------------------------
(* OrderData, reduced to the fields that decide what a job does.           *)

States == {"pending", "funded", "shipped", "confirmed", "disputed",
           "released", "refunded", "cancelled"}
Currencies == {"XMR", "BTC"}

OrderData == [state : States, currency : Currencies,
              escrow_address : BOOLEAN,      \* is_some()
              time_lock : Nat,
              created_at : Nat, funded_at : OptTime, shipped_at : OptTime,
              disputed_at : OptTime, expires_at : OptTime,
              released_at : OptTime, refunded_at : OptTime,
              dispute : {"none", "open", "resolved"},
              settlement_txid : BOOLEAN]     \* is_some()

state_transitions(s) ==
    CASE s = "pending"   -> {"cancelled", "funded"}
      [] s = "funded"    -> {"shipped", "disputed"}
      [] s = "shipped"   -> {"confirmed", "disputed"}
      [] s = "confirmed" -> {"released"}
      [] s = "disputed"  -> {"released", "refunded"}
      [] OTHER           -> {}

can_transition_to(data, new_state) == new_state \in state_transitions(data.state)

(* A blob is sealed with the worker's key, sealed by a client to the       *)
(* worker's payment key (X25519), or opaque to both.                       *)
Blob == [key : {"worker", "ecdh", "opaque"}, data : OrderData]
ClientBlob == {b \in Blob : b.key # "worker"}

encrypt_order_blob(data) == [key |-> "worker", data |-> data]
decrypt_order_blob_ok(blob) == blob.key = "worker"
decrypt_ecdh_blob_ok(blob) == blob.key = "ecdh"

-----------------------------------------------------------------------------
Row == [version : Nat \ {0}, blob : Blob, expiry_bucket : OptTime,
        dispute_client_blob : {"null", "claim", "outcome"},
        has_dispute : BOOLEAN, chat : SUBSET Requests]

NoRow == [version |-> 0]

Exists(o) == orders[o].version # 0

(* Definitions named X_Fault are faulty variants of X, here to see the     *)
(* properties fail; no specification uses them.                            *)
NewRow_VersionZero(blob, expiry) ==
    [version |-> 0, blob |-> blob, expiry_bucket |-> expiry,
     dispute_client_blob |-> "null", has_dispute |-> FALSE, chat |-> {}]
RowsAffected_AnyVersion(o, v) == Exists(o)
RowsAffected_NextVersion(o, v) == Exists(o) /\ orders[o].version = v + 1
UpdateRow_NoBump(o, row) == orders' = [orders EXCEPT ![o] = row]

(* INSERT INTO orders (id, encrypted_order_blob, day_bucket, expiry_bucket)*)
(* with the column defaults for the rest.                                  *)
NewRow(blob, expiry) ==
    [version |-> 1, blob |-> blob, expiry_bucket |-> expiry,
     dispute_client_blob |-> "null", has_dispute |-> FALSE, chat |-> {}]

(* The WHERE clause of every UPDATE, and its effect on the table.          *)
RowsAffected(o, v) == Exists(o) /\ orders[o].version = v
UpdateRow(o, row) == orders' = [orders EXCEPT ![o] = [row EXCEPT !.version = @ + 1]]

TableTypeOK ==
    /\ orders \in [Orders -> Row \cup {NoRow}]
    /\ clock \in 0 .. MaxTime

TableInit ==
    /\ orders = [o \in Orders |-> NoRow]
    /\ clock = StartTime

Tick ==
    /\ clock < MaxTime
    /\ clock' = clock + 1
=============================================================================
