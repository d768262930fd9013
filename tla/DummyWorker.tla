---------------------------- MODULE DummyWorker ----------------------------
(***************************************************************************)
(* background/dummy_worker.rs: dummy traffic.  The job inserts orders it   *)
(* makes up, in any state of their life, sealed with the worker's key      *)
(* "so dummy blobs match real worker output".  It is the only code that    *)
(* brings a row sealed with the worker's key into the table.               *)
(***************************************************************************)
EXTENDS OrdersTable

CONSTANTS
    DummyStates,    \* the states of made-up orders in this instance
    DummyCurrencies,
    Ages,           \* how long ago a made-up order was created
    Steps,          \* time between two of its transitions
    ExpiryOffsets   \* its expires_at, after its creation

ASSUME DummyAssumption == /\ DummyStates \subseteq States
                          /\ DummyCurrencies \subseteq Currencies
                          /\ Ages \subseteq 0 .. StartTime - Bucket
                          /\ Steps \subseteq Nat
                          /\ ExpiryOffsets \subseteq Nat

(* The made-up order's past follows from its state: one step per           *)
(* transition it has gone through.  A refunded or cancelled one was        *)
(* confirmed as well, a released one went through a dispute.               *)
generate_state_with_timestamps(state, created, s) ==
    LET funded    == created + s[1]
        shipped   == funded + s[2]
        disputed  == shipped + s[3] + (IF state = "refunded" THEN s[4] ELSE 0)
        final     == disputed + s[5]
        at(t, in) == IF state \in in THEN t ELSE None
    IN  [funded_at   |-> at(funded, States \ {"pending"}),
         shipped_at  |-> at(shipped, States \ {"pending", "funded"}),
         disputed_at |-> at(disputed, {"disputed", "released", "refunded"}),
         released_at |-> at(final, {"released"}),
         refunded_at |-> at(final, {"refunded"})]

dummy_order(state, currency, lock, created, expires, s) ==
    LET t == generate_state_with_timestamps(state, created, s) IN
    [state |-> state, currency |-> currency, escrow_address |-> TRUE,
     time_lock |-> lock, created_at |-> created, funded_at |-> t.funded_at,
     shipped_at |-> t.shipped_at, disputed_at |-> t.disputed_at,
     expires_at |-> expires, released_at |-> t.released_at, refunded_at |-> t.refunded_at,
     dispute |-> CASE state = "disputed" -> "open"
                   [] state \in {"released", "refunded"} -> "resolved"
                   [] OTHER -> "none",
     settlement_txid |-> state = "released"]

(* expiry_bucket gets expires_at as it is, not floored. *)
run_dummy_worker(o) ==
    /\ ~ Exists(o)
    /\ \E state \in DummyStates, currency \in DummyCurrencies, lock \in Locks, age \in Ages,
          offset \in ExpiryOffsets, s \in [1 .. 5 -> Steps] :
         LET created == floor_timestamp_6h(floor_timestamp_6h(clock) - age)
             data == dummy_order(state, currency, lock, created, created + offset, s)
         IN  orders' = [orders EXCEPT ![o] = NewRow(encrypt_order_blob(data), data.expires_at)]
=============================================================================
