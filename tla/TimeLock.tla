------------------------------ MODULE TimeLock ------------------------------
(***************************************************************************)
(* background/time_lock.rs: the worker's time-lock job.  A scan takes one  *)
(* snapshot of the whole table (SELECT star, versions included) and then   *)
(* handles the rows one by one, each with one conditional UPDATE against   *)
(* the snapshot's version.  A lost UPDATE is an error that ends the scan   *)
(* (`.await?` in the loop); the next scan starts over.                     *)
(***************************************************************************)
EXTENDS OrdersTable

VARIABLE tl    \* the scan in progress

(* snap: the snapshot's rows that are not handled yet (none: the job       *)
(* sleeps).  now: the clock, floored, when the scan began.                 *)
TlTypeOK == tl \in [snap : [Orders -> Row \cup {NoRow}], now : Nat]

TlIdle == [snap |-> [o \in Orders |-> NoRow], now |-> 0]
TlInit == tl = TlIdle

has_active_dispute(data) == data.dispute = "open"

-----------------------------------------------------------------------------
(* What each handler makes of an order at time now; the order itself when  *)
(* it does nothing.                                                        *)

handle_shipped(data, now) ==
    IF /\ ~ has_active_dispute(data)
       /\ can_transition_to(data, "released")
       /\ now >= unwrap_or(data.shipped_at, data.created_at) + data.time_lock
      THEN [data EXCEPT !.state = "released", !.released_at = now]
      ELSE data

handle_funded_KeepsExpiry(data, now) ==
    IF /\ ~ has_active_dispute(data)
       /\ can_transition_to(data, "disputed")
       /\ now >= unwrap_or(data.funded_at, data.created_at) + 2 * data.time_lock
      THEN [data EXCEPT !.state = "disputed", !.disputed_at = now, !.dispute = "open"]
      ELSE data

handle_funded(data, now) ==
    IF /\ ~ has_active_dispute(data)
       /\ can_transition_to(data, "disputed")
       /\ now >= unwrap_or(data.funded_at, data.created_at) + 2 * data.time_lock
      THEN [data EXCEPT !.state = "disputed", !.disputed_at = now, !.dispute = "open",
                        !.expires_at = now + data.time_lock]
      ELSE data

handle_disputed_SkipsOpen(data, now) ==
    IF /\ ~ has_active_dispute(data)
       /\ can_transition_to(data, "refunded")
       /\ now >= unwrap_or(data.expires_at, data.created_at + data.time_lock)
      THEN [data EXCEPT !.state = "refunded", !.refunded_at = now]
      ELSE data

handle_disputed(data, now) ==
    IF /\ can_transition_to(data, "refunded")
       /\ now >= unwrap_or(data.expires_at, data.created_at + data.time_lock)
      THEN [data EXCEPT !.state = "refunded", !.refunded_at = now,
                        !.dispute = IF @ = "open" THEN "resolved" ELSE @]
      ELSE data

handle(data, now) ==
    CASE data.state = "shipped"  -> handle_shipped(data, now)
      [] data.state = "funded"   -> handle_funded(data, now)
      [] data.state = "disputed" -> handle_disputed(data, now)
      [] OTHER                   -> data

-----------------------------------------------------------------------------
(* write_order's UPDATE: seal, set expiry_bucket from expires_at. *)
write_order_set(row, data) ==
    [row EXCEPT !.blob = encrypt_order_blob(data), !.expiry_bucket = floor_opt(data.expires_at)]

check_time_locks ==
    /\ tl = TlIdle
    /\ \E o \in Orders : Exists(o)
    /\ tl' = [snap |-> orders, now |-> floor_timestamp_6h(clock)]
    /\ UNCHANGED orders

(* A row the job has no key for, or with nothing due, is passed over. *)
Skipped(row) ==
    \/ ~ decrypt_order_blob_ok(row.blob)
    \/ handle(row.blob.data, tl.now) = row.blob.data

TlNextRow(o) ==
    tl' = IF \A p \in Orders \ {o} : tl.snap[p] = NoRow
            THEN TlIdle ELSE [tl EXCEPT !.snap[o] = NoRow]

time_lock_order(o) ==
    LET row == tl.snap[o] IN
    /\ row # NoRow
    /\ \/ /\ Skipped(row)
          /\ TlNextRow(o)
          /\ UNCHANGED orders
       \/ /\ ~ Skipped(row)
          /\ RowsAffected(o, row.version)
          /\ UpdateRow(o, write_order_set(orders[o], handle(row.blob.data, tl.now)))
          /\ TlNextRow(o)
       \/ /\ ~ Skipped(row)
          /\ ~ RowsAffected(o, row.version)      \* the error ends the scan
          /\ tl' = TlIdle
          /\ UNCHANGED orders

TlNext == check_time_locks \/ \E o \in Orders : time_lock_order(o)
=============================================================================
