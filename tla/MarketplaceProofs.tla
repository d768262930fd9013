------------------------- MODULE MarketplaceProofs -------------------------
(***************************************************************************)
(* Proofs about the whole marketplace: API requests, the worker's jobs,    *)
(* dummy traffic, restarts and the clock, for every set of orders and      *)
(* requests.  The argument is about versions: every write makes a new one, *)
(* so a job that still matches the version holds the row as it is.         *)
(***************************************************************************)
EXTENDS Marketplace, OrderApiProofs

(* A floored time is less than one bucket behind.                          *)
LEMMA FloorClose ==
    ASSUME NEW t \in Nat
    PROVE  t < floor_timestamp_6h(t) + Bucket
<1> DEFINE q == t \div Bucket
<1>1. q \in Nat /\ t < q * Bucket + Bucket
  BY BucketAssumption
<1> QED BY <1>1 DEF floor_timestamp_6h

-----------------------------------------------------------------------------
(* What the jobs make of an order.                                         *)

(* What the time-lock job makes of an order is an order.                   *)
LEMMA HandleType ==
    ASSUME NEW data \in OrderData, NEW now \in Nat
    PROVE  handle(data, now) \in OrderData
<1>0. /\ now \in OptTime /\ now + data.time_lock \in OptTime
      /\ {"released", "disputed", "refunded"} \subseteq States
  BY DEF OptTime, OrderData, States
<1>1. handle_shipped(data, now) \in OrderData
  <2>1. [data EXCEPT !.state = "released", !.released_at = now] \in OrderData
    BY <1>0 DEF OrderData
  <2> QED BY <2>1 DEF handle_shipped
<1>2. handle_funded(data, now) \in OrderData
  <2>1. [data EXCEPT !.state = "disputed", !.disputed_at = now, !.dispute = "open",
                     !.expires_at = now + data.time_lock] \in OrderData
    BY <1>0 DEF OrderData
  <2> QED BY <2>1 DEF handle_funded
<1>3. handle_disputed(data, now) \in OrderData
  <2>1. [data EXCEPT !.state = "refunded", !.refunded_at = now,
                     !.dispute = IF @ = "open" THEN "resolved" ELSE @] \in OrderData
    BY <1>0 DEF OrderData
  <2> QED BY <2>1 DEF handle_disputed
<1> QED BY <1>1, <1>2, <1>3 DEF handle

(* The time-lock job changes an order in two ways only.  handle_shipped    *)
(* never does: no order goes from shipped to released.                     *)
LEMMA HandleEffect ==
    ASSUME NEW data \in OrderData, NEW now \in Nat, handle(data, now) # data
    PROVE  LET new == handle(data, now) IN
           /\ new.currency = data.currency /\ new.time_lock = data.time_lock
           /\ new.funded_at = data.funded_at /\ new.shipped_at = data.shipped_at
           /\ \/ /\ data.state = "funded" /\ new.state = "disputed"
                 /\ now >= unwrap_or(data.funded_at, data.created_at) + 2 * data.time_lock
                 /\ new.expires_at = now + data.time_lock
              \/ /\ data.state = "disputed" /\ new.state = "refunded"
                 /\ now >= unwrap_or(data.expires_at, data.created_at + data.time_lock)
                 /\ new.refunded_at = now /\ new.expires_at = data.expires_at
<1>1. CASE data.state = "shipped"
  BY <1>1 DEF handle, handle_shipped, can_transition_to, state_transitions
<1>2. CASE data.state = "funded"
  BY <1>2 DEF handle, handle_funded, OrderData
<1>3. CASE data.state = "disputed"
  BY <1>3 DEF handle, handle_disputed, OrderData
<1>4. CASE data.state \notin {"shipped", "funded", "disputed"}
  BY <1>4 DEF handle
<1> QED BY <1>1, <1>2, <1>3, <1>4

Kinds == {"funded", "cancelled", "settle"}

(* What the payment job makes of an order is an order.                     *)
LEMMA UpdatedType ==
    ASSUME NEW data \in OrderData, NEW now \in Nat, NEW kind \in Kinds
    PROVE  Updated(kind, data, now) \in OrderData
BY ZenonT(40) DEF Updated, OrderData, States, OptTime, Kinds

(* The payment job changes the state, the funding time or the settlement,  *)
(* and nothing else the properties look at.                                *)
LEMMA UpdatedEffect ==
    ASSUME NEW data \in OrderData, NEW now \in Nat, NEW kind \in Kinds
    PROVE  LET new == Updated(kind, data, now) IN
           /\ new.currency = data.currency /\ new.time_lock = data.time_lock
           /\ new.shipped_at = data.shipped_at /\ new.expires_at = data.expires_at
           /\ new.refunded_at = data.refunded_at
           /\ kind = "funded" => new.state = "funded" /\ new.funded_at = now
           /\ kind = "cancelled" => new.state = "cancelled" /\ new.funded_at = data.funded_at
           /\ kind = "settle" => new.state = data.state /\ new.funded_at = data.funded_at
BY DEF Updated, OrderData, Kinds

(* A row a job writes back is a row.                                       *)
LEMMA SealedRow ==
    ASSUME NEW row \in Row, NEW data \in OrderData, NEW kind
    PROVE  /\ write_order_set(row, data) \in Row
           /\ write_order_set(row, data).version = row.version
           /\ write_order_set(row, data).blob = encrypt_order_blob(data)
           /\ mark_set(row, kind, data) \in Row
           /\ mark_set(row, kind, data).version = row.version
           /\ mark_set(row, kind, data).blob = encrypt_order_blob(data)
<1>1. encrypt_order_blob(data) \in Blob
  BY DEF encrypt_order_blob, Blob
<1>2. floor_opt(data.expires_at) \in OptTime
  <2>1. data.expires_at \in OptTime
    BY DEF OrderData
  <2> QED BY <2>1, FloorType DEF floor_opt, OptTime
<1> QED BY <1>1, <1>2 DEF write_order_set, mark_set, Row

(* A made-up order is an order; only one past the funded state has a       *)
(* shipping time, and every one past pending a funding time.               *)
MadeUp(data, expires) ==
    /\ data \in OrderData /\ data.expires_at = expires
    /\ data.state \notin {"pending", "funded"} => data.shipped_at # None
    /\ data.state # "pending" => data.funded_at # None

(* Whatever the dummy worker draws at random is such an order.             *)
LEMMA DummyOrderType ==
    ASSUME NEW state \in States, NEW currency \in Currencies, NEW lock \in Nat,
           NEW created \in Nat, NEW expires \in Nat, NEW s \in [1 .. 5 -> Nat]
    PROVE  MadeUp(dummy_order(state, currency, lock, created, expires, s), expires)
<1> DEFINE t == generate_state_with_timestamps(state, created, s)
<1>0. s[1] \in Nat /\ s[2] \in Nat /\ s[3] \in Nat /\ s[4] \in Nat /\ s[5] \in Nat
  OBVIOUS
<1>1. /\ t.funded_at \in OptTime /\ t.shipped_at \in OptTime /\ t.disputed_at \in OptTime
      /\ t.released_at \in OptTime /\ t.refunded_at \in OptTime
      /\ state \notin {"pending", "funded"} => t.shipped_at # None
      /\ state # "pending" => t.funded_at # None
  BY <1>0 DEF generate_state_with_timestamps, OptTime, States, None
<1> HIDE DEF t
<1>2. dummy_order(state, currency, lock, created, expires, s) =
        [state |-> state, currency |-> currency, escrow_address |-> TRUE,
         time_lock |-> lock, created_at |-> created, funded_at |-> t.funded_at,
         shipped_at |-> t.shipped_at, disputed_at |-> t.disputed_at,
         expires_at |-> expires, released_at |-> t.released_at, refunded_at |-> t.refunded_at,
         dispute |-> CASE state = "disputed" -> "open"
                       [] state \in {"released", "refunded"} -> "resolved"
                       [] OTHER -> "none",
         settlement_txid |-> state = "released"]
  BY DEF dummy_order, t
<1>3. (CASE state = "disputed" -> "open"
         [] state \in {"released", "refunded"} -> "resolved"
         [] OTHER -> "none") \in {"none", "open", "resolved"}
  OBVIOUS
<1> QED BY <1>1, <1>2, <1>3 DEF MadeUp, OrderData, OptTime

-----------------------------------------------------------------------------
(* The inductive invariant.                                                *)

SnapshotCurrent ==
    \A o \in Orders :
        /\ tl.snap[o].version <= orders[o].version
        /\ tl.snap[o].version = orders[o].version /\ Exists(o) => tl.snap[o] = orders[o]

PolledExist ==
    /\ \A o \in Orders : pp.snap[o] # NoData \/ o \in pp.settle => Exists(o)
    /\ pp.cur # NoOrder => Exists(pp.cur.order)

RereadCurrent ==
    pp.cur # NoOrder /\ pp.cur.reread =>
        LET row == orders[pp.cur.order] IN
        /\ pp.cur.version <= row.version
        /\ pp.cur.version = row.version =>
              /\ CanMark(row, pp.cur.kind)
              /\ pp.cur.data = Updated(pp.cur.kind, row.blob.data, pp.now)

MarketClock == clock \in StartTime .. MaxTime

TlInv == TlTypeOK /\ SnapshotCurrent
PpInv == PpTypeOK /\ PolledExist /\ RereadCurrent

MarketInv ==
    /\ ApiInv /\ TlInv /\ PpInv /\ MarketClock
    /\ workerBoots \in 0 .. MaxRestarts

(* A step leaves a row as it is or makes a new version of it.              *)
RowsMove ==
    /\ orders' \in [Orders -> Rows]
    /\ \A o \in Orders : orders'[o] = orders[o] \/ orders[o].version < orders'[o].version

(* Every version is a natural, that of a missing row included.             *)
LEMMA RowVersions ==
    ASSUME orders \in [Orders -> Rows]
    PROVE  \A o \in Orders : orders[o].version \in Nat
BY DEF Rows, Row, NoRow

(* The same of the state after a step.                                     *)
LEMMA NextRowVersions ==
    ASSUME orders' \in [Orders -> Rows]
    PROVE  \A o \in Orders : orders'[o].version \in Nat
BY DEF Rows, Row, NoRow

(* Rows that move grow in version and never disappear.                     *)
LEMMA RowsMoveGrow ==
    ASSUME orders \in [Orders -> Rows], RowsMove
    PROVE  VersionsGrow /\ \A o \in Orders : Exists(o) => Exists(o)'
BY RowVersions, NextRowVersions DEF RowsMove, VersionsGrow, Exists

(* A step that leaves the table alone moves rows trivially.                *)
LEMMA SameRowsMove ==
    ASSUME orders \in [Orders -> Rows], UNCHANGED orders
    PROVE  RowsMove
BY DEF RowsMove

(* The conditional UPDATE, once it affects a row.                          *)
LEMMA UpdateRowMoves ==
    ASSUME orders \in [Orders -> Rows], NEW o \in Orders, Exists(o), NEW row \in Row,
           row.version = orders[o].version, UpdateRow(o, row)
    PROVE  /\ RowsMove
           /\ orders'[o] \in Row /\ orders'[o].blob = row.blob
           /\ orders'[o].version = orders[o].version + 1
           /\ \A p \in Orders : p # o => orders'[p] = orders[p]
<1> DEFINE new == [row EXCEPT !.version = @ + 1]
<1>1. new \in Row /\ new.version = row.version + 1 /\ new.blob = row.blob
  BY DEF Row
<1>2. orders' = [orders EXCEPT ![o] = new]
  BY DEF UpdateRow
<1>3. row.version \in Nat
  BY DEF Row
<1> HIDE DEF new
<1> QED BY <1>1, <1>2, <1>3 DEF RowsMove, Rows

(* Whoever moves rows, what is left of a scan stays current.               *)
LEMMA TlKept ==
    ASSUME orders \in [Orders -> Rows], TlInv, RowsMove, TlTypeOK',
           \A o \in Orders : tl'.snap[o] = tl.snap[o] \/ tl'.snap[o] = NoRow
    PROVE  TlInv'
<1>0. \A o \in Orders : tl.snap[o].version \in Nat
  BY DEF TlInv, TlTypeOK, Row, NoRow
<1> SUFFICES ASSUME NEW o \in Orders
             PROVE  /\ tl'.snap[o].version <= orders'[o].version
                    /\ tl'.snap[o].version = orders'[o].version /\ Exists(o)'
                         => tl'.snap[o] = orders'[o]
  BY DEF TlInv, SnapshotCurrent
<1>1. CASE tl'.snap[o] = NoRow
  BY <1>1, NextRowVersions DEF NoRow, Exists, RowsMove
<1>2. CASE tl'.snap[o] = tl.snap[o]
  <2>1. CASE orders'[o] = orders[o]
    BY <1>2, <2>1 DEF TlInv, SnapshotCurrent, Exists
  <2>2. CASE orders[o].version < orders'[o].version
    BY <1>0, <1>2, <2>2, RowVersions, NextRowVersions DEF TlInv, SnapshotCurrent, RowsMove
  <2> QED BY <2>1, <2>2 DEF RowsMove
<1> QED BY <1>1, <1>2

(* A step of someone else leaves a time-lock scan current.                 *)
LEMMA TlStays ==
    ASSUME orders \in [Orders -> Rows], TlInv, RowsMove, UNCHANGED tl
    PROVE  TlInv'
<1>1. TlTypeOK'
  BY DEF TlInv, TlTypeOK
<1> QED BY <1>1, TlKept

(* Likewise the order a poll has at hand.                                  *)
LEMMA RereadKept ==
    ASSUME orders \in [Orders -> Rows], PpInv, RowsMove, pp.cur # NoOrder, pp.cur.reread
    PROVE  LET row == orders'[pp.cur.order] IN
           /\ pp.cur.version <= row.version
           /\ pp.cur.version = row.version =>
                 /\ CanMark(row, pp.cur.kind)
                 /\ pp.cur.data = Updated(pp.cur.kind, row.blob.data, pp.now)
<1>0. pp.cur.version \in Nat /\ pp.cur.order \in Orders
  BY DEF PpInv, PpTypeOK, Current
<1>1. CASE orders'[pp.cur.order] = orders[pp.cur.order]
  BY <1>1 DEF PpInv, RereadCurrent
<1>2. CASE orders[pp.cur.order].version < orders'[pp.cur.order].version
  BY <1>0, <1>2, RowVersions, NextRowVersions DEF PpInv, RereadCurrent, RowsMove
<1> QED BY <1>0, <1>1, <1>2 DEF RowsMove

(* A step of someone else leaves a poll current.                           *)
LEMMA PpStays ==
    ASSUME orders \in [Orders -> Rows], PpInv, RowsMove, UNCHANGED ppVars
    PROVE  PpInv'
<1>0. UNCHANGED <<pp, chain, notified, audits, broadcast, rolledBack>>
  BY DEF ppVars
<1>1. PpTypeOK'
  BY <1>0 DEF PpInv, PpTypeOK
<1>2. PolledExist'
  <2>1. pp.cur # NoOrder => pp.cur.order \in Orders
    BY DEF PpInv, PpTypeOK, Current
  <2> QED BY <1>0, <2>1, RowsMoveGrow DEF PpInv, PolledExist
<1>3. RereadCurrent'
  BY <1>0, RereadKept DEF RereadCurrent
<1> QED BY <1>1, <1>2, <1>3 DEF PpInv

-----------------------------------------------------------------------------
(* The API moves rows like everyone else.                                  *)
LEMMA ApiRowsMove ==
    ASSUME ApiInv, clock \in Nat, ApiNext
    PROVE  RowsMove
<1>0. ApiTyped /\ InHand /\ orders \in [Orders -> Rows]
  BY DEF ApiInv, VersionInv, ApiTyped
<1>1. CASE ApiRestart
  BY <1>0, <1>1, SameRowsMove, SMTT(40) DEF ApiRestart
<1>2. ASSUME NEW r \in Requests, ApiStep(r)
      PROVE  RowsMove
  <2>0. call[r].order \in Orders
    BY <1>0, VersionType
  <2>1. CASE UNCHANGED orders
    BY <1>0, <2>1, SameRowsMove
  <2>2. CASE Inserts(r)
    BY <1>0, <2>0, <2>2 DEF Inserts, RowsMove, Exists, Rows
  <2>3. CASE Writes(r)
    BY <1>0, <2>0, <2>3, RowVersions DEF Writes, RowsMove, RowsAffected, Rows
  <2> QED BY <1>0, <1>2, <2>1, <2>2, <2>3, ApiStepShape
          DEF Refused, TakesVersion, get_chat, Conflicts
<1> QED BY <1>1, <1>2 DEF ApiNext

(* The time-lock job.                                                      *)
LEMMA ScanInv ==
    ASSUME orders \in [Orders -> Rows], TlInv, clock \in Nat, check_time_locks
    PROVE  TlInv'
<1>1. tl' = [snap |-> orders, now |-> floor_timestamp_6h(clock)] /\ orders' = orders
  BY DEF check_time_locks
<1>2. TlTypeOK'
  BY <1>1, FloorType DEF TlTypeOK, Rows
<1>3. SnapshotCurrent'
  BY <1>1, RowVersions DEF SnapshotCurrent
<1> QED BY <1>2, <1>3 DEF TlInv

(* A scan only ever drops rows of its snapshot.                            *)
LEMMA TlProgress ==
    ASSUME TlInv, NEW o \in Orders, TlNextRow(o) \/ tl' = TlIdle
    PROVE  TlTypeOK' /\ \A p \in Orders : tl'.snap[p] = tl.snap[p] \/ tl'.snap[p] = NoRow
<1>1. CASE tl' = TlIdle
  BY <1>1 DEF TlIdle, TlTypeOK
<1>2. CASE tl' = [tl EXCEPT !.snap[o] = NoRow]
  BY <1>2 DEF TlInv, TlTypeOK
<1> QED BY <1>1, <1>2 DEF TlNextRow

(* What one order of a scan comes to: nothing, or a write of what handle   *)
(* makes of the row as it is.                                              *)
LEMMA TimeLockEffect ==
    ASSUME orders \in [Orders -> Rows], TlInv, NEW o \in Orders, time_lock_order(o)
    PROVE  /\ RowsMove /\ TlInv'
           /\ \/ orders' = orders
              \/ LET data == orders[o].blob.data IN
                 /\ Exists(o) /\ decrypt_order_blob_ok(orders[o].blob)
                 /\ tl.now \in Nat /\ handle(data, tl.now) # data
                 /\ orders'[o] \in Row
                 /\ orders'[o].blob = encrypt_order_blob(handle(data, tl.now))
                 /\ \A p \in Orders : p # o => orders'[p] = orders[p]
<1>1. CASE UNCHANGED orders
  <2>1. RowsMove
    BY <1>1, SameRowsMove
  <2> QED BY <1>1, <2>1, TlProgress, TlKept DEF time_lock_order
<1>2. CASE ~ UNCHANGED orders
  <2>1. /\ ~ Skipped(tl.snap[o]) /\ RowsAffected(o, tl.snap[o].version)
        /\ UpdateRow(o, write_order_set(orders[o], handle(tl.snap[o].blob.data, tl.now)))
        /\ TlNextRow(o)
    BY <1>2 DEF time_lock_order
  <2>2. Exists(o) /\ tl.snap[o] = orders[o]
    BY <2>1 DEF RowsAffected, TlInv, SnapshotCurrent
  <2>3. orders[o] \in Row /\ orders[o].blob.data \in OrderData /\ tl.now \in Nat
    BY <2>2, ExistsRow DEF Row, Blob, TlInv, TlTypeOK
  <2> DEFINE new == handle(orders[o].blob.data, tl.now)
             row == write_order_set(orders[o], new)
  <2>4. row \in Row /\ row.version = orders[o].version /\ row.blob = encrypt_order_blob(new)
    BY <2>3, HandleType, SealedRow
  <2>5. UpdateRow(o, row)
    BY <2>1, <2>2
  <2> HIDE DEF row
  <2>6. /\ RowsMove /\ orders'[o] \in Row /\ orders'[o].blob = encrypt_order_blob(new)
        /\ \A p \in Orders : p # o => orders'[p] = orders[p]
    BY <2>2, <2>4, <2>5, UpdateRowMoves
  <2>7. TlInv'
    BY <2>1, <2>6, TlProgress, TlKept
  <2>8. decrypt_order_blob_ok(orders[o].blob) /\ new # orders[o].blob.data
    BY <2>1, <2>2 DEF Skipped
  <2> QED BY <2>2, <2>3, <2>6, <2>7, <2>8
<1> QED BY <1>1, <1>2

(* The payment job.  PollType is the type of pp.                           *)
PollType == [snap : [Orders -> OrderData \cup {NoData}], settle : SUBSET Orders,
             cur : Current \cup {NoOrder}, now : Nat]

(* Going on with a poll, or ending it.                                     *)
LEMMA PpContinueEffect ==
    ASSUME NEW snap \in [Orders -> OrderData \cup {NoData}], NEW settle \in SUBSET Orders,
           NEW now \in Nat, PpContinue(snap, settle, now)
    PROVE  /\ pp' \in PollType /\ pp'.cur = NoOrder
           /\ \A o \in Orders : pp'.snap[o] = snap[o] \/ pp'.snap[o] = NoData
           /\ pp'.settle \subseteq settle
           /\ pp' = PpIdle \/ pp'.now = now
BY DEF PpContinue, PpIdle, PollType

(* A poll whose orders all exist, with nothing read again, is in order.    *)
LEMMA PpFresh ==
    ASSUME pp' \in PollType,
           \A o \in Orders : pp'.snap[o] # NoData \/ o \in pp'.settle => Exists(o)',
           \/ pp'.cur = NoOrder
           \/ ~ pp'.cur.reread /\ orders'[pp'.cur.order].version # 0
    PROVE  PolledExist' /\ RereadCurrent'
BY DEF PolledExist, RereadCurrent, Exists

(* A new poll holds orders that exist, and none at hand yet.               *)
LEMMA PollInv ==
    ASSUME orders \in [Orders -> Rows], PpInv, clock \in Nat, check_pending_payments
    PROVE  PpInv' /\ pp'.cur = NoOrder
<1>1. PICK healthy \in SUBSET Currencies :
        PpContinue(
          [o \in Orders |-> IF Polled(o) /\ orders[o].blob.data.state = "pending"
                               /\ orders[o].blob.data.currency \in healthy
                             THEN orders[o].blob.data ELSE NoData],
          {o \in Orders : Polled(o) /\ orders[o].blob.data.state = "released"
                          /\ orders[o].blob.data.currency = "BTC"
                          /\ ~ orders[o].blob.data.settlement_txid},
          floor_timestamp_6h(clock))
  BY DEF check_pending_payments
<1> DEFINE snap == [o \in Orders |-> IF Polled(o) /\ orders[o].blob.data.state = "pending"
                                       /\ orders[o].blob.data.currency \in healthy
                                     THEN orders[o].blob.data ELSE NoData]
           settle == {o \in Orders : Polled(o) /\ orders[o].blob.data.state = "released"
                                     /\ orders[o].blob.data.currency = "BTC"
                                     /\ ~ orders[o].blob.data.settlement_txid}
<1>2. \A o \in Orders : Polled(o) => Exists(o) /\ orders[o].blob.data \in OrderData
  BY ExistsRow DEF Polled, Row, Blob
<1>3. /\ snap \in [Orders -> OrderData \cup {NoData}] /\ settle \in SUBSET Orders
      /\ \A o \in Orders : snap[o] # NoData \/ o \in settle => Exists(o)
  BY <1>2
<1>4. PpContinue(snap, settle, floor_timestamp_6h(clock))
  BY <1>1
<1> HIDE DEF snap, settle
<1>5. /\ pp' \in PollType /\ pp'.cur = NoOrder /\ pp'.settle \subseteq settle
      /\ \A o \in Orders : pp'.snap[o] = snap[o] \/ pp'.snap[o] = NoData
  BY <1>3, <1>4, FloorType, PpContinueEffect
<1>6. UNCHANGED <<orders, chain, notified, audits, broadcast, rolledBack>>
  BY DEF check_pending_payments
<1>7. \A o \in Orders : pp'.snap[o] # NoData \/ o \in pp'.settle => Exists(o)'
  BY <1>3, <1>5, <1>6 DEF Exists
<1>8. PolledExist' /\ RereadCurrent'
  BY <1>5, <1>7, PpFresh
<1> QED BY <1>5, <1>6, <1>8 DEF PpInv, PpTypeOK, PollType

(* The next order of the poll: it is set aside, or taken up.               *)
LEMMA CheckPaymentInv ==
    ASSUME orders \in [Orders -> Rows], PpInv, NEW o \in Orders, check_payment(o)
    PROVE  PpInv'
<1>0. pp \in PollType /\ pp.snap[o] # NoData /\ pp.snap[o] \in OrderData /\ Exists(o)
  BY DEF PpInv, PpTypeOK, PollType, check_payment, PolledExist
<1>1. /\ UNCHANGED <<orders, chain, notified, broadcast, rolledBack>>
      /\ audits' \subseteq Orders
  BY DEF check_payment, PpInv, PpTypeOK
<1>2. \/ PpContinue([pp.snap EXCEPT ![o] = NoData], pp.settle, pp.now)
      \/ \E kind \in {"funded", "cancelled"} :
            pp' = [pp EXCEPT !.snap[o] = NoData,
                             !.cur = [kind |-> kind, order |-> o, reread |-> FALSE,
                                      version |-> 0, data |-> pp.snap[o]]]
  BY DEF check_payment
<1>3. /\ pp' \in PollType
      /\ \A p \in Orders : pp'.snap[p] = pp.snap[p] \/ pp'.snap[p] = NoData
      /\ pp'.settle \subseteq pp.settle
      /\ pp'.cur # NoOrder => ~ pp'.cur.reread /\ pp'.cur.order = o
  <2>1. CASE PpContinue([pp.snap EXCEPT ![o] = NoData], pp.settle, pp.now)
    <3> DEFINE snap == [pp.snap EXCEPT ![o] = NoData]
    <3>1. snap \in [Orders -> OrderData \cup {NoData}] /\ pp.settle \in SUBSET Orders
          /\ pp.now \in Nat
          /\ \A p \in Orders : snap[p] = pp.snap[p] \/ snap[p] = NoData
      BY <1>0 DEF PollType
    <3>2. PpContinue(snap, pp.settle, pp.now)
      BY <2>1
    <3> HIDE DEF snap
    <3>3. /\ pp' \in PollType /\ pp'.cur = NoOrder
          /\ \A p \in Orders : pp'.snap[p] = snap[p] \/ pp'.snap[p] = NoData
          /\ pp'.settle \subseteq pp.settle
      BY <3>1, <3>2, PpContinueEffect
    <3> QED BY <3>1, <3>3
  <2>2. CASE \E kind \in {"funded", "cancelled"} :
            pp' = [pp EXCEPT !.snap[o] = NoData,
                             !.cur = [kind |-> kind, order |-> o, reread |-> FALSE,
                                      version |-> 0, data |-> pp.snap[o]]]
    <3>1. PICK kind \in {"funded", "cancelled"} :
            pp' = [pp EXCEPT !.snap[o] = NoData,
                             !.cur = [kind |-> kind, order |-> o, reread |-> FALSE,
                                      version |-> 0, data |-> pp.snap[o]]]
      BY <2>2
    <3> DEFINE cur == [kind |-> kind, order |-> o, reread |-> FALSE,
                       version |-> 0, data |-> pp.snap[o]]
               snap == [pp.snap EXCEPT ![o] = NoData]
    <3>2. cur \in Current /\ ~ cur.reread /\ cur.order = o
      BY <1>0 DEF Current
    <3>3. /\ snap \in [Orders -> OrderData \cup {NoData}]
          /\ \A p \in Orders : snap[p] = pp.snap[p] \/ snap[p] = NoData
      BY <1>0 DEF PollType
    <3>4. pp' = [pp EXCEPT !.snap = snap, !.cur = cur]
      BY <1>0, <3>1 DEF PollType
    <3> HIDE DEF cur, snap
    <3>5. pp' \in PollType /\ pp'.snap = snap /\ pp'.settle = pp.settle /\ pp'.cur = cur
      BY <1>0, <3>2, <3>3, <3>4 DEF PollType
    <3> QED BY <3>2, <3>3, <3>5
  <2> QED BY <1>2, <2>1, <2>2
<1>4. \A p \in Orders : pp'.snap[p] # NoData \/ p \in pp'.settle => Exists(p)'
  BY <1>1, <1>3 DEF PpInv, PolledExist, Exists
<1>5. PolledExist' /\ RereadCurrent'
  BY <1>0, <1>1, <1>3, <1>4, PpFresh DEF Exists
<1> QED BY <1>1, <1>3, <1>5 DEF PpInv, PpTypeOK, PollType

(* Taking up a settlement keeps the payment job's invariant.               *)
LEMMA SettleInv ==
    ASSUME orders \in [Orders -> Rows], PpInv, NEW o \in Orders, start_settlement(o)
    PROVE  PpInv'
<1>0. pp \in PollType /\ Exists(o) /\ orders[o].blob.data \in OrderData
  BY ExistsRow DEF PpInv, PpTypeOK, PollType, start_settlement, PolledExist, Row, Blob
<1>1. UNCHANGED <<orders, chain, notified, audits, broadcast, rolledBack>>
  BY DEF start_settlement
<1>2. pp' = [pp EXCEPT !.settle = @ \ {o},
                       !.cur = [kind |-> "settle", order |-> o, reread |-> FALSE,
                                version |-> 0, data |-> orders[o].blob.data]]
  BY DEF start_settlement
<1>3. /\ pp' \in PollType /\ pp'.snap = pp.snap /\ pp'.settle \subseteq pp.settle
      /\ ~ pp'.cur.reread /\ pp'.cur.order = o
  BY <1>0, <1>2 DEF PollType, Current
<1>4. PolledExist' /\ RereadCurrent'
  <2>1. \A p \in Orders : pp'.snap[p] # NoData \/ p \in pp'.settle => Exists(p)'
    BY <1>1, <1>3 DEF PpInv, PolledExist, Exists
  <2> QED BY <1>0, <1>1, <1>3, <2>1, PpFresh DEF Exists
<1> QED BY <1>1, <1>3, <1>4 DEF PpInv, PpTypeOK, PollType

(* The re-read: the row is taken as it is, or left.                        *)
LEMMA MarkReadInv ==
    ASSUME orders \in [Orders -> Rows], PpInv, mark_order_read
    PROVE  PpInv'
<1> DEFINE o == pp.cur.order
           kind == pp.cur.kind
           data == orders[o].blob.data
<1>0. /\ pp \in PollType /\ pp.cur \in Current /\ o \in Orders /\ kind \in Kinds
      /\ Exists(o) /\ pp.now \in Nat
  BY DEF PpInv, PpTypeOK, PollType, mark_order_read, PolledExist, Current, Kinds
<1>1. orders[o] \in Row /\ data \in OrderData /\ orders[o].version \in Nat
  BY <1>0, ExistsRow DEF Row, Blob
<1>2. /\ UNCHANGED <<orders, chain, audits>> /\ notified' \subseteq Orders
      /\ broadcast' \subseteq Orders /\ rolledBack' \subseteq Orders
  BY <1>0 DEF mark_order_read, PpInv, PpTypeOK
<1>3. CASE pp' = [pp EXCEPT !.cur.reread = TRUE, !.cur.version = orders[o].version,
                            !.cur.data = Updated(kind, data, pp.now)]
           /\ CanMark(orders[o], kind)
  <2> DEFINE cur == [pp.cur EXCEPT !.reread = TRUE, !.version = orders[o].version,
                                   !.data = Updated(kind, data, pp.now)]
  <2>1. Updated(kind, data, pp.now) \in OrderData
    BY <1>0, <1>1, UpdatedType
  <2>2. /\ cur \in Current /\ cur.order = o /\ cur.kind = kind
        /\ cur.version = orders[o].version /\ cur.data = Updated(kind, data, pp.now)
    BY <1>0, <1>1, <2>1 DEF Current
  <2>3. pp' = [pp EXCEPT !.cur = cur]
    BY <1>0, <1>3 DEF PollType
  <2> HIDE DEF cur
  <2>4. /\ pp' \in PollType /\ pp'.snap = pp.snap /\ pp'.settle = pp.settle
        /\ pp'.cur = cur /\ pp'.now = pp.now
    BY <1>0, <2>2, <2>3 DEF PollType
  <2>5. PolledExist'
    BY <1>0, <1>2, <2>2, <2>4 DEF PpInv, PolledExist, Exists
  <2>6. orders'[pp'.cur.order] = orders[o] /\ pp'.cur.kind = kind
    BY <1>2, <2>2, <2>4
  <2>7. RereadCurrent'
    <3>1. CanMark(orders'[pp'.cur.order], pp'.cur.kind)
      BY <1>3, <2>6
    <3>2. /\ pp'.cur.version = orders'[pp'.cur.order].version
          /\ pp'.cur.data = Updated(pp'.cur.kind, orders'[pp'.cur.order].blob.data, pp'.now)
      BY <2>2, <2>4, <2>6
    <3>3. pp'.cur.version \in Nat
      BY <1>1, <2>2, <2>4
    <3> QED BY <3>1, <3>2, <3>3 DEF RereadCurrent
  <2> QED BY <1>2, <2>4, <2>5, <2>7 DEF PpInv, PpTypeOK, PollType
<1>4. CASE PpContinue(pp.snap, pp.settle, pp.now)
  <2>1. /\ pp' \in PollType /\ pp'.cur = NoOrder
        /\ \A p \in Orders : pp'.snap[p] = pp.snap[p] \/ pp'.snap[p] = NoData
        /\ pp'.settle \subseteq pp.settle
    BY <1>0, <1>4, PpContinueEffect DEF PollType
  <2>2. \A p \in Orders : pp'.snap[p] # NoData \/ p \in pp'.settle => Exists(p)'
    BY <1>2, <2>1 DEF PpInv, PolledExist, Exists
  <2>3. PolledExist' /\ RereadCurrent'
    BY <2>1, <2>2, PpFresh
  <2> QED BY <1>2, <2>1, <2>3 DEF PpInv, PpTypeOK, PollType
<1> QED BY <1>3, <1>4 DEF mark_order_read

(* The UPDATE of a marked order: lost, or a write of what Updated makes of *)
(* the row as it is.                                                       *)
LEMMA MarkWriteEffect ==
    ASSUME orders \in [Orders -> Rows], PpInv, mark_order_write
    PROVE  /\ RowsMove /\ PpInv'
           /\ \/ orders' = orders
              \/ LET o == pp.cur.order
                     data == orders[o].blob.data
                 IN
                 /\ o \in Orders /\ pp.cur # NoOrder /\ pp.cur.kind \in Kinds
                 /\ Exists(o) /\ CanMark(orders[o], pp.cur.kind)
                 /\ pp.now \in Nat
                 /\ orders'[o] \in Row
                 /\ orders'[o].blob = encrypt_order_blob(Updated(pp.cur.kind, data, pp.now))
                 /\ \A p \in Orders : p # o => orders'[p] = orders[p]
<1> DEFINE o == pp.cur.order
           kind == pp.cur.kind
           data == orders[o].blob.data
<1>0. /\ pp \in PollType /\ pp.cur # NoOrder /\ pp.cur \in Current
      /\ o \in Orders /\ kind \in Kinds /\ Exists(o) /\ pp.now \in Nat /\ pp.cur.reread
  BY DEF PpInv, PpTypeOK, PollType, mark_order_write, PolledExist, Current, Kinds
<1>1. orders[o] \in Row /\ data \in OrderData
  BY <1>0, ExistsRow DEF Row, Blob
<1>2. UNCHANGED <<chain, notified, audits, broadcast>> /\ rolledBack' = {} /\ PpContinue(pp.snap, pp.settle, pp.now)
  BY DEF mark_order_write
<1>3. RowsMove => PpInv'
  <2> SUFFICES ASSUME RowsMove PROVE PpInv'
    OBVIOUS
  <2>1. /\ pp' \in PollType /\ pp'.cur = NoOrder
        /\ \A p \in Orders : pp'.snap[p] = pp.snap[p] \/ pp'.snap[p] = NoData
        /\ pp'.settle \subseteq pp.settle
    BY <1>0, <1>2, PpContinueEffect DEF PollType
  <2>2. \A p \in Orders : pp'.snap[p] # NoData \/ p \in pp'.settle => Exists(p)'
    BY <2>1, RowsMoveGrow DEF PpInv, PolledExist
  <2>3. PolledExist' /\ RereadCurrent'
    BY <2>1, <2>2, PpFresh
  <2> QED BY <1>2, <2>1, <2>3 DEF PpInv, PpTypeOK, PollType
<1>4. CASE UNCHANGED orders
  BY <1>3, <1>4, SameRowsMove
<1>5. CASE RowsAffected(o, pp.cur.version)
  <2>1. CanMark(orders[o], kind) /\ pp.cur.data = Updated(kind, data, pp.now)
    BY <1>0, <1>5 DEF PpInv, RereadCurrent, RowsAffected
  <2>2. pp.cur.data \in OrderData
    BY <1>0 DEF Current
  <2> DEFINE row == mark_set(orders[o], kind, pp.cur.data)
  <2>3. /\ row \in Row /\ row.version = orders[o].version
        /\ row.blob = encrypt_order_blob(pp.cur.data)
    BY <1>1, <2>2, SealedRow
  <2>4. UpdateRow(o, row)
    BY <1>5 DEF mark_order_write
  <2> HIDE DEF row
  <2>5. /\ RowsMove /\ orders'[o] \in Row /\ orders'[o].blob = encrypt_order_blob(pp.cur.data)
        /\ \A p \in Orders : p # o => orders'[p] = orders[p]
    BY <1>0, <2>3, <2>4, UpdateRowMoves
  <2> QED BY <1>0, <1>3, <2>1, <2>5
<1> QED BY <1>4, <1>5 DEF mark_order_write

(* Dummy traffic inserts a whole row, sealed with the worker's key.        *)
LEMMA DummyEffect ==
    ASSUME orders \in [Orders -> Rows], MarketClock, NEW o \in Orders, run_dummy_worker(o)
    PROVE  /\ RowsMove /\ ~ Exists(o)
           /\ orders'[o] \in Row
           /\ \A p \in Orders : p # o => orders'[p] = orders[p]
           /\ \E data \in OrderData :
                 /\ orders'[o].blob = encrypt_order_blob(data)
                 /\ data.state \notin {"pending", "funded"} => data.shipped_at # None
                 /\ data.state # "pending" => data.funded_at # None
<1>0. PICK state \in DummyStates, currency \in DummyCurrencies, lock \in Locks, age \in Ages,
           offset \in ExpiryOffsets, s \in [1 .. 5 -> Steps] :
        LET created == floor_timestamp_6h(floor_timestamp_6h(clock) - age)
            data == dummy_order(state, currency, lock, created, created + offset, s)
        IN  orders' = [orders EXCEPT ![o] = NewRow(encrypt_order_blob(data), data.expires_at)]
  BY DEF run_dummy_worker
<1> DEFINE created == floor_timestamp_6h(floor_timestamp_6h(clock) - age)
           expires == created + offset
           data == dummy_order(state, currency, lock, created, expires, s)
           row == NewRow(encrypt_order_blob(data), data.expires_at)
<1>1. clock \in Nat /\ StartTime <= clock
  BY TimeAssumption DEF MarketClock
<1>2. floor_timestamp_6h(clock) - age \in Nat
  BY <1>1, FloorType, FloorClose, DummyAssumption, BucketAssumption, TimeAssumption
<1>3. created \in Nat
  BY <1>2, FloorType
<1>4. /\ state \in States /\ currency \in Currencies /\ lock \in Nat
      /\ expires \in Nat /\ s \in [1 .. 5 -> Nat]
  <2>1. \A i \in 1 .. 5 : s[i] \in Nat
    BY DummyAssumption
  <2>2. s \in [1 .. 5 -> Nat]
    BY <2>1
  <2>3. offset \in Nat /\ lock \in Nat /\ state \in States /\ currency \in Currencies
    BY DummyAssumption, LocksAssumption
  <2> QED BY <1>3, <2>2, <2>3
<1>5. orders' = [orders EXCEPT ![o] = row]
  BY <1>0
<1> HIDE DEF created, expires
<1>6. MadeUp(data, expires)
  BY <1>3, <1>4, DummyOrderType
<1> HIDE DEF data
<1>7. row \in Row /\ row.version = 1 /\ row.blob = encrypt_order_blob(data)
  <2>1. encrypt_order_blob(data) \in Blob
    BY <1>6 DEF encrypt_order_blob, Blob, MadeUp
  <2> QED BY <1>4, <1>6, <2>1, NewRowType DEF OptTime, NewRow, MadeUp
<1> HIDE DEF row
<1>8. ~ Exists(o) /\ orders[o].version = 0
  BY DEF run_dummy_worker, Exists
<1> QED BY <1>5, <1>6, <1>7, <1>8 DEF RowsMove, Rows, MadeUp

-----------------------------------------------------------------------------
(* Every step of the marketplace keeps the invariant and moves rows.       *)
LEMMA PollerStep ==
    ASSUME orders \in [Orders -> Rows], PpInv, clock \in Nat, PpNext
    PROVE  RowsMove /\ PpInv'
<1>1. CASE \E o \in Orders : ChainStep(o)
  <2>1. /\ UNCHANGED <<orders, pp, notified, audits, broadcast>>
        /\ chain' \in [Orders -> ChainStates] /\ rolledBack' \subseteq Orders
    BY <1>1 DEF ChainStep, Gains, Loses, PpInv, PpTypeOK, ChainStates
  <2>2. PolledExist' /\ RereadCurrent'
    BY <2>1, SMTT(40) DEF PpInv, PolledExist, RereadCurrent, Exists
  <2> QED BY <2>1, <2>2, SameRowsMove DEF PpInv, PpTypeOK
<1>2. CASE \E o \in Orders : check_payment(o)
  BY <1>2, CheckPaymentInv, SameRowsMove DEF check_payment
<1>3. CASE \E o \in Orders : start_settlement(o)
  BY <1>3, SettleInv, SameRowsMove DEF start_settlement
<1>4. CASE check_pending_payments
  BY <1>4, PollInv, SameRowsMove DEF check_pending_payments
<1>5. CASE mark_order_read
  BY <1>5, MarkReadInv, SameRowsMove DEF mark_order_read
<1>6. CASE mark_order_write
  BY <1>6, MarkWriteEffect
<1> QED BY <1>1, <1>2, <1>3, <1>4, <1>5, <1>6 DEF PpNext

(* Every step of the marketplace keeps the inductive invariant and moves   *)
(* rows only forward.                                                      *)
LEMMA MarketStep ==
    ASSUME MarketInv, [MarketNext]_marketVars
    PROVE  MarketInv' /\ RowsMove
<1>0. /\ orders \in [Orders -> Rows] /\ clock \in Nat
      /\ ApiInv /\ TlInv /\ PpInv /\ MarketClock /\ workerBoots \in 0 .. MaxRestarts
  BY TimeAssumption DEF MarketInv, ApiInv, ApiTyped, MarketClock
<1>1. RowsMove /\ UNCHANGED apiVars => ApiInv'
  BY <1>0, RowsMoveGrow, OthersKeepApiInv DEF RowsMove
<1>2. UNCHANGED clock => MarketClock'
  BY <1>0 DEF MarketClock
<1>3. CASE ApiActs
  <2>1. /\ ApiNext /\ UNCHANGED <<tl, ppVars>>
        /\ UNCHANGED clock /\ UNCHANGED workerBoots
    BY <1>3 DEF ApiActs, workerVars
  <2>2. ApiInv' /\ RowsMove
    BY <1>0, <2>1, ApiRowsMove, ApiStepKeepsInv, RestartKeepsInv DEF ApiNext
  <2>3. TlInv' /\ PpInv'
    BY <1>0, <2>1, <2>2, TlStays, PpStays
  <2> QED BY <1>0, <1>2, <2>1, <2>2, <2>3 DEF MarketInv
<1>4. CASE TimeLockScan
  <2>1. /\ check_time_locks /\ UNCHANGED orders
        /\ UNCHANGED clock /\ UNCHANGED apiVars /\ UNCHANGED ppVars /\ UNCHANGED workerBoots
    BY <1>4 DEF TimeLockScan, check_time_locks
  <2>2. RowsMove /\ TlInv'
    BY <1>0, <2>1, SameRowsMove, ScanInv
  <2>3. PpInv'
    BY <1>0, <2>1, <2>2, PpStays
  <2> QED BY <1>0, <1>1, <1>2, <2>1, <2>2, <2>3 DEF MarketInv
<1>5. CASE \E o \in Orders : TimeLockOrder(o)
  <2>1. PICK o \in Orders : TimeLockOrder(o)
    BY <1>5
  <2>2. /\ time_lock_order(o)
        /\ UNCHANGED clock /\ UNCHANGED apiVars /\ UNCHANGED ppVars /\ UNCHANGED workerBoots
    BY <2>1 DEF TimeLockOrder
  <2>3. RowsMove /\ TlInv'
    BY <1>0, <2>2, TimeLockEffect
  <2>4. PpInv'
    BY <1>0, <2>2, <2>3, PpStays
  <2> QED BY <1>0, <1>1, <1>2, <2>2, <2>3, <2>4 DEF MarketInv
<1>6. CASE PollerActs
  <2>1. /\ PpNext
        /\ UNCHANGED clock /\ UNCHANGED apiVars /\ UNCHANGED tl /\ UNCHANGED workerBoots
    BY <1>6 DEF PollerActs
  <2>2. RowsMove /\ PpInv'
    BY <1>0, <2>1, PollerStep
  <2>3. TlInv'
    BY <1>0, <2>1, <2>2, TlStays
  <2> QED BY <1>0, <1>1, <1>2, <2>1, <2>2, <2>3 DEF MarketInv
<1>7. CASE \E o \in Orders : DummyActs(o)
  <2>1. PICK o \in Orders : run_dummy_worker(o)
    BY <1>7 DEF DummyActs
  <2>2. /\ UNCHANGED clock /\ UNCHANGED apiVars /\ UNCHANGED tl /\ UNCHANGED ppVars
        /\ UNCHANGED workerBoots
    BY <1>7 DEF DummyActs, workerVars
  <2>3. RowsMove
    BY <1>0, <2>1, DummyEffect
  <2>4. TlInv' /\ PpInv'
    BY <1>0, <2>2, <2>3, TlStays, PpStays
  <2> QED BY <1>0, <1>1, <1>2, <2>2, <2>3, <2>4 DEF MarketInv
<1>8. CASE WorkerRestart
  <2>1. /\ tl' = TlIdle /\ pp' = PpIdle /\ audits' = {} /\ workerBoots' \in 0 .. MaxRestarts
        /\ UNCHANGED clock /\ UNCHANGED orders /\ UNCHANGED apiVars
        /\ UNCHANGED <<chain, notified, broadcast>> /\ rolledBack' = {}
    BY <1>0, <1>8, MaxRestartsAssumption DEF WorkerRestart
  <2>2. RowsMove
    BY <1>0, <2>1, SameRowsMove
  <2>3. TlInv'
    <3>1. TlTypeOK' /\ \A o \in Orders : tl'.snap[o] = NoRow
      BY <2>1 DEF TlIdle, TlTypeOK
    <3> QED BY <1>0, <2>2, <3>1, TlKept
  <2>4. PpInv'
    <3>1. /\ pp' \in PollType /\ pp'.cur = NoOrder
          /\ \A o \in Orders : pp'.snap[o] = NoData /\ o \notin pp'.settle
      BY <2>1 DEF PpIdle, PollType
    <3>2. PolledExist' /\ RereadCurrent'
      BY <3>1, PpFresh
    <3> QED BY <1>0, <2>1, <3>1, <3>2 DEF PpInv, PpTypeOK, PollType
  <2> QED BY <1>1, <1>2, <2>1, <2>2, <2>3, <2>4 DEF MarketInv
<1>9. CASE TimePasses \/ UNCHANGED marketVars
  <2>1. /\ UNCHANGED orders /\ UNCHANGED apiVars /\ UNCHANGED tl /\ UNCHANGED ppVars
        /\ UNCHANGED workerBoots
        /\ clock' \in StartTime .. MaxTime
    BY <1>0, <1>9, TimeAssumption DEF TimePasses, Tick, marketVars, workerVars, MarketClock
  <2>2. RowsMove
    BY <1>0, <2>1, SameRowsMove
  <2>3. TlInv' /\ PpInv'
    BY <1>0, <2>1, <2>2, TlStays, PpStays
  <2> QED BY <1>0, <1>1, <2>1, <2>2, <2>3 DEF MarketInv, MarketClock
<1> QED BY <1>3, <1>4, <1>5, <1>6, <1>7, <1>8, <1>9 DEF MarketNext

(* The marketplace starts in the inductive invariant.                      *)
LEMMA MarketInitInv ==
    ASSUME MarketInit
    PROVE  MarketInv
<1>1. ApiInv /\ orders \in [Orders -> Rows]
  BY ApiInitInv DEF MarketInit, TableInit, Rows
<1>2. TlInv
  BY DEF MarketInit, TlInit, TlIdle, TlInv, TlTypeOK, SnapshotCurrent, TableInit, NoRow
<1>3. PpInv
  BY DEF MarketInit, PpInit, PpIdle, PpInv, PpTypeOK, PolledExist, RereadCurrent, ChainStates
<1> QED BY <1>1, <1>2, <1>3, MaxRestartsAssumption, TimeAssumption
        DEF MarketInit, MarketInv, MarketClock, TableInit

(* The strengthening the properties below follow from is inductive.        *)
THEOREM MarketInvariant == MarketSpec => []MarketInv
<1>1. MarketInit => MarketInv
  BY MarketInitInv
<1>2. MarketInv /\ [MarketNext]_marketVars => MarketInv'
  BY MarketStep
<1> QED BY <1>1, <1>2, PTL DEF MarketSpec

(* The state of every component keeps its type.                            *)
THEOREM MarketTypeCorrect == MarketSpec => []MarketTypeOK
<1>1. MarketInv => MarketTypeOK
  BY TimeAssumption DEF MarketInv, ApiInv, ApiTyped, TlInv, PpInv, MarketClock, MarketTypeOK,
     TableTypeOK, Rows
<1> QED BY <1>1, MarketInvariant, PTL

(* With the worker's jobs writing too, two requests never both succeed     *)
(* from the same version of a row.                                         *)
THEOREM MarketCommitsDistinct == MarketSpec => []CommitsDistinct
<1>1. MarketInv => CommitsDistinct
  BY DEF MarketInv, ApiInv, VersionInv
<1> QED BY <1>1, MarketInvariant, PTL

(* A job whose version still matches holds the row as it is.               *)
THEOREM MarketVersionIsCurrent == MarketSpec => []MatchingVersionIsCurrent
<1>1. MarketInv => MatchingVersionIsCurrent
  BY DEF MarketInv, TlInv, PpInv, SnapshotCurrent, RereadCurrent, MatchingVersionIsCurrent
<1> QED BY <1>1, MarketInvariant, PTL

-----------------------------------------------------------------------------
(* Refinement of OrderLifecycle.                                           *)

(* The API leaves the blob of a row alone or puts a client's in its place. *)
BlobReplaced(o) ==
    /\ orders'[o] \in Row
    /\ \/ orders'[o].blob.key # "worker"
       \/ Exists(o) /\ orders'[o].blob = orders[o].blob
    /\ \A p \in Orders : p # o => orders'[p] = orders[p]

(* The API's UPDATE leaves the sealed data alone or puts a client's in its *)
(* place.                                                                  *)
LEMMA CommitBlob ==
    ASSUME orders \in [Orders -> Rows], NEW r \in Requests, call[r].order \in Orders,
           Exists(call[r].order),
           NEW row \in Row, row.version = RowOf(r).version,
           row.blob = RowOf(r).blob \/ row.blob.key # "worker", Commit(r, row)
    PROVE  orders' = orders \/ BlobReplaced(call[r].order)
<1>1. CASE UpdateRow(call[r].order, row)
  BY <1>1, UpdateRowMoves DEF BlobReplaced, RowOf
<1> QED BY <1>1 DEF Commit

(* No handler of the API writes data sealed with the worker key.           *)
LEMMA ApiBlobs ==
    ASSUME ApiInv, clock \in Nat, ApiNext
    PROVE  orders' = orders \/ \E o \in Orders : BlobReplaced(o)
<1>0. ApiTyped /\ ApiTypeOK /\ InHand /\ orders \in [Orders -> Rows]
  BY DEF ApiInv, VersionInv, ApiTyped
<1>1. CASE ApiRestart
  BY <1>1 DEF ApiRestart
<1>2. ASSUME NEW r \in Requests, ApiStep(r)
      PROVE  orders' = orders \/ BlobReplaced(call[r].order)
  <2>0. /\ call[r].order \in Orders
        /\ st[r].pc = "read" => Exists(call[r].order) /\ RowOf(r) \in Row
    BY <1>0, VersionType, ExistsRow DEF InHand, RowOf
  <2>1. CASE create_order(r) /\ ~ UNCHANGED orders
    <3>1. PICK blob \in ClientBlobs, lock \in Locks :
             orders' = [orders EXCEPT ![call[r].order] =
                 NewRow(blob, floor_timestamp_6h(floor_timestamp_6h(clock) + lock))]
      BY <2>1 DEF create_order
    <3> DEFINE row == NewRow(blob, floor_timestamp_6h(floor_timestamp_6h(clock) + lock))
    <3>2. floor_timestamp_6h(clock) + lock \in Nat
      BY FloorType, LocksAssumption
    <3>3. row \in Row
      BY <3>2, FloorType, NewRowType, ClientBlobsAssumption DEF OptTime, ClientBlob
    <3>4. row.blob.key # "worker"
      BY ClientBlobsAssumption DEF NewRow, ClientBlob
    <3> HIDE DEF row
    <3>5. orders' = [orders EXCEPT ![call[r].order] = row]
      BY <3>1 DEF row
    <3> QED BY <1>0, <2>0, <3>3, <3>4, <3>5 DEF BlobReplaced
  <2>2. CASE update_order_write(r)
    <3>1. PICK blob \in ClientBlobs : Commit(r, update_order_set(RowOf(r), blob))
      BY <2>2 DEF update_order_write
    <3>2. st[r].pc = "read" /\ blob.key # "worker"
      BY <2>2, ClientBlobsAssumption DEF update_order_write, ClientBlob
    <3> QED BY <1>0, <2>0, <3>1, <3>2, UpdateOrderSetType, CommitBlob
  <2>3. CASE dispute_or_chat_write(r)
    <3>1. /\ st[r].pc = "read" /\ Commit(r, SetColumns(r, RowOf(r)))
          /\ call[r].op \notin {"create", "update"}
      BY <2>3 DEF dispute_or_chat_write
    <3> QED BY <1>0, <2>0, <3>1, SetColumnsType, CommitBlob
  <2> QED BY <1>2, <2>1, <2>2, <2>3 DEF ApiStep, update_order_read, dispute_read,
             resolve_dispute_read, get_chat, update_chat_read
<1> QED BY <1>0, <1>1, <1>2, VersionType DEF ApiNext

(* A step that touches one order maps to a step of the lifecycle when the  *)
(* order's status makes one.                                               *)
statusMap == [o \in Orders |-> StatusOf(o)]

(* A step that moves one order along the lifecycle is a lifecycle step.    *)
LEMMA OneOrderMoves ==
    ASSUME NEW o \in Orders, \A p \in Orders : p # o => orders'[p] = orders[p],
           \/ StatusOf(o)' = StatusOf(o)
           \/ StatusOf(o) = "absent" /\ StatusOf(o)' \in States \cup {"client"}
           \/ <<StatusOf(o), StatusOf(o)'>> \in Lifecycle!WorkerMoves
           \/ StatusOf(o) # "absent" /\ StatusOf(o)' = "client"
    PROVE  [Lifecycle!Next]_statusMap
<1>1. \A p \in Orders : p # o => StatusOf(p)' = StatusOf(p)
  BY DEF StatusOf, WorkerReads, DataOf, Exists
<1>2. statusMap' = [statusMap EXCEPT ![o] = StatusOf(o)'] /\ statusMap[o] = StatusOf(o)
  BY <1>1 DEF statusMap
<1>3. CASE StatusOf(o)' = StatusOf(o)
  BY <1>1, <1>3 DEF statusMap
<1>4. CASE StatusOf(o) = "absent" /\ StatusOf(o)' \in States \cup {"client"}
  BY <1>2, <1>4 DEF Lifecycle!Next, Lifecycle!Appear, statusMap
<1>5. CASE <<StatusOf(o), StatusOf(o)'>> \in Lifecycle!WorkerMoves
  BY <1>2, <1>5 DEF Lifecycle!Next, Lifecycle!Move, statusMap
<1>6. CASE StatusOf(o) # "absent" /\ StatusOf(o)' = "client"
  BY <1>2, <1>6 DEF Lifecycle!Next, Lifecycle!ClientReplaces, statusMap
<1> QED BY <1>3, <1>4, <1>5, <1>6

(* A step that leaves the table alone is a stuttering lifecycle step.      *)
LEMMA SameOrdersStutter ==
    ASSUME UNCHANGED orders
    PROVE  UNCHANGED statusMap
BY DEF statusMap, StatusOf, WorkerReads, DataOf, Exists

(* The status of an order whose row holds data sealed by the worker.       *)
LEMMA SealedStatus ==
    ASSUME NEW o \in Orders, orders'[o] \in Row, NEW data,
           orders'[o].blob = encrypt_order_blob(data)
    PROVE  StatusOf(o)' = data.state
BY DEF StatusOf, WorkerReads, DataOf, Exists, Row, encrypt_order_blob, decrypt_order_blob_ok

(* The status of an order the worker can read is the state it reads.       *)
LEMMA TableStatus ==
    ASSUME NEW o \in Orders, Exists(o), decrypt_order_blob_ok(orders[o].blob)
    PROVE  StatusOf(o) = orders[o].blob.data.state
BY SMTT(40) DEF StatusOf, WorkerReads, DataOf

(* Every step of the marketplace is a lifecycle step or a stutter.         *)
LEMMA StepFollowsLifecycle ==
    ASSUME MarketInv, [MarketNext]_marketVars
    PROVE  [Lifecycle!Next]_statusMap
<1>0. /\ orders \in [Orders -> Rows] /\ clock \in Nat
      /\ ApiInv /\ TlInv /\ PpInv /\ MarketClock
  BY TimeAssumption DEF MarketInv, ApiInv, ApiTyped, MarketClock
<1>1. CASE UNCHANGED orders
  BY <1>1, SameOrdersStutter
<1>2. CASE ApiNext
  <2>1. ASSUME NEW o \in Orders, BlobReplaced(o)
        PROVE  [Lifecycle!Next]_statusMap
    <3>1. Exists(o)'
      BY <2>1 DEF BlobReplaced, Exists, Row
    <3>2. CASE orders'[o].blob.key # "worker"
      <4>1. StatusOf(o)' = "client"
        BY <3>1, <3>2 DEF StatusOf, WorkerReads, decrypt_order_blob_ok
      <4> QED BY <2>1, <4>1, OneOrderMoves DEF BlobReplaced
    <3>3. CASE Exists(o) /\ orders'[o].blob = orders[o].blob
      <4>1. StatusOf(o)' = StatusOf(o)
        BY <3>1, <3>3 DEF StatusOf, WorkerReads, DataOf
      <4> QED BY <2>1, <4>1, OneOrderMoves DEF BlobReplaced
    <3> QED BY <2>1, <3>2, <3>3 DEF BlobReplaced
  <2> QED BY <1>0, <1>1, <1>2, <2>1, ApiBlobs
<1>3. ASSUME NEW o \in Orders, time_lock_order(o), ~ UNCHANGED orders
      PROVE  [Lifecycle!Next]_statusMap
  <2> DEFINE data == orders[o].blob.data
  <2>1. /\ Exists(o) /\ decrypt_order_blob_ok(orders[o].blob)
        /\ tl.now \in Nat /\ handle(data, tl.now) # data
        /\ orders'[o] \in Row
        /\ orders'[o].blob = encrypt_order_blob(handle(data, tl.now))
        /\ \A p \in Orders : p # o => orders'[p] = orders[p]
    BY <1>0, <1>3, TimeLockEffect
  <2>2. data \in OrderData
    BY <1>0, <2>1, ExistsRow DEF Row, Blob
  <2>3. StatusOf(o) = data.state /\ StatusOf(o)' = handle(data, tl.now).state
    BY <2>1, SealedStatus, TableStatus
  <2>4. \/ data.state = "funded" /\ handle(data, tl.now).state = "disputed"
        \/ data.state = "disputed" /\ handle(data, tl.now).state = "refunded"
    BY <2>1, <2>2, HandleEffect
  <2>5. <<StatusOf(o), StatusOf(o)'>> \in Lifecycle!WorkerMoves
    BY <2>3, <2>4 DEF Lifecycle!WorkerMoves
  <2> QED BY <2>1, <2>5, OneOrderMoves
<1>4. CASE mark_order_write /\ ~ UNCHANGED orders
  <2>0. PICK o \in Orders : o = pp.cur.order
    BY <1>0, <1>4, MarkWriteEffect
  <2> DEFINE kind == pp.cur.kind
             data == orders[o].blob.data
  <2>1. /\ kind \in Kinds
        /\ Exists(o) /\ CanMark(orders[o], kind) /\ pp.now \in Nat
        /\ orders'[o] \in Row
        /\ orders'[o].blob = encrypt_order_blob(Updated(kind, data, pp.now))
        /\ \A p \in Orders : p # o => orders'[p] = orders[p]
    BY <1>0, <1>4, <2>0, MarkWriteEffect
  <2>2. data \in OrderData
    BY <1>0, <2>1, ExistsRow DEF Row, Blob
  <2>3. decrypt_order_blob_ok(orders[o].blob) /\ Wanted(kind, data)
    BY <2>1 DEF CanMark
  <2>4. StatusOf(o) = data.state /\ StatusOf(o)' = Updated(kind, data, pp.now).state
    BY <2>1, <2>3, SealedStatus, TableStatus
  <2>5. \/ data.state = "pending" /\ StatusOf(o)' \in {"funded", "cancelled"}
        \/ StatusOf(o)' = StatusOf(o)
    BY <2>1, <2>2, <2>3, <2>4, UpdatedEffect DEF Wanted, Kinds
  <2>6. \/ <<StatusOf(o), StatusOf(o)'>> \in Lifecycle!WorkerMoves
        \/ StatusOf(o)' = StatusOf(o)
    BY <2>4, <2>5 DEF Lifecycle!WorkerMoves
  <2> QED BY <2>1, <2>6, OneOrderMoves
<1>5. ASSUME NEW o \in Orders, run_dummy_worker(o)
      PROVE  [Lifecycle!Next]_statusMap
  <2>1. PICK data \in OrderData : orders'[o].blob = encrypt_order_blob(data)
    BY <1>0, <1>5, DummyEffect
  <2>2. /\ ~ Exists(o) /\ orders'[o] \in Row
        /\ \A p \in Orders : p # o => orders'[p] = orders[p]
    BY <1>0, <1>5, DummyEffect
  <2>3. StatusOf(o) = "absent" /\ StatusOf(o)' \in States
    BY <2>1, <2>2, SealedStatus DEF StatusOf, OrderData
  <2> QED BY <2>2, <2>3, OneOrderMoves
<1> QED
  BY <1>1, <1>2, <1>3, <1>4, <1>5 DEF MarketNext, ApiActs, TimeLockScan, check_time_locks,
     TimeLockOrder, PollerActs, PpNext, ChainStep, check_payment, start_settlement,
     check_pending_payments, mark_order_read, DummyActs, TimePasses, WorkerRestart, marketVars

(* The marketplace implements the lifecycle: whatever is interleaved, the  *)
(* jobs move an order one step along its state machine from the state the  *)
(* row is in, and never overwrite a client's blob.                         *)
THEOREM MarketFollowsLifecycle == MarketSpec => FollowsLifecycle
<1>1. MarketInit => Lifecycle!Init
  BY DEF MarketInit, TableInit, Lifecycle!Init, StatusOf, Exists, NoRow
<1>2. MarketInv /\ [MarketNext]_marketVars =>
        [Lifecycle!Next]_([o \in Orders |-> StatusOf(o)])
  BY StepFollowsLifecycle, SMTT(40) DEF statusMap
<1> QED BY <1>1, <1>2, MarketInvariant, PTL DEF MarketSpec, FollowsLifecycle, Lifecycle!Spec

-----------------------------------------------------------------------------
(* Where the data of an order the worker can read comes from, in any step. *)

ByTimeLock(o) ==
    /\ tl.now \in Nat /\ handle(DataOf(o), tl.now) # DataOf(o)
    /\ DataOf(o)' = handle(DataOf(o), tl.now)

ByPoller(o) ==
    /\ pp.cur # NoOrder /\ pp.cur.order = o /\ pp.cur.kind \in Kinds /\ pp.now \in Nat
    /\ mark_order_write
    /\ Wanted(pp.cur.kind, DataOf(o))
    /\ DataOf(o)' = Updated(pp.cur.kind, DataOf(o), pp.now)
    /\ pp.cur.data = DataOf(o)'

ByDummy(o) ==
    /\ DataOf(o)' \in OrderData
    /\ DataOf(o)'.state \notin {"pending", "funded"} => DataOf(o)'.shipped_at # None
    /\ DataOf(o)'.state # "pending" => DataOf(o)'.funded_at # None

(* Data the worker can read was there before, or comes from the time-lock  *)
(* job, the payment job or, for a new row, the dummy worker.               *)
LEMMA DataSteps ==
    ASSUME MarketInv, [MarketNext]_marketVars, NEW o \in Orders, WorkerReads(o)'
    PROVE  \/ /\ WorkerReads(o) /\ DataOf(o) \in OrderData
              /\ DataOf(o)' = DataOf(o) \/ ByTimeLock(o) \/ ByPoller(o)
           \/ ~ Exists(o) /\ ByDummy(o)
<1>0. /\ orders \in [Orders -> Rows] /\ clock \in Nat
      /\ ApiInv /\ TlInv /\ PpInv /\ MarketClock
  BY TimeAssumption DEF MarketInv, ApiInv, ApiTyped, MarketClock
<1> USE DEF DataOf
<1>1. WorkerReads(o) => DataOf(o) \in OrderData
  BY <1>0, ExistsRow DEF WorkerReads, Row, Blob
<1>2. CASE orders'[o] = orders[o]
  BY <1>1, <1>2 DEF WorkerReads, Exists
<1>3. CASE ApiNext
  <2>1. ASSUME NEW q \in Orders, BlobReplaced(q)
        PROVE  orders'[o] = orders[o] \/ (Exists(o) /\ orders'[o].blob = orders[o].blob)
    BY <2>1 DEF BlobReplaced, WorkerReads, decrypt_order_blob_ok
  <2>2. orders'[o] = orders[o] \/ (Exists(o) /\ orders'[o].blob = orders[o].blob)
    BY <1>0, <1>3, <2>1, ApiBlobs
  <2> QED BY <1>1, <1>2, <2>2 DEF WorkerReads
<1>4. ASSUME NEW q \in Orders, time_lock_order(q), orders'[o] # orders[o]
      PROVE  WorkerReads(o) /\ ByTimeLock(o)
  <2>1. q = o
    BY <1>0, <1>4, TimeLockEffect
  <2>2. /\ Exists(o) /\ decrypt_order_blob_ok(orders[o].blob)
        /\ tl.now \in Nat /\ handle(orders[o].blob.data, tl.now) # orders[o].blob.data
        /\ orders'[o].blob = encrypt_order_blob(handle(orders[o].blob.data, tl.now))
    BY <1>0, <1>4, <2>1, TimeLockEffect
  <2> QED BY <2>2 DEF WorkerReads, ByTimeLock, encrypt_order_blob
<1>5. CASE mark_order_write /\ orders'[o] # orders[o]
  <2>1. pp.cur.order = o
    BY <1>0, <1>5, MarkWriteEffect
  <2>2. /\ pp.cur # NoOrder /\ pp.cur.kind \in Kinds
        /\ Exists(o) /\ CanMark(orders[o], pp.cur.kind) /\ pp.now \in Nat
        /\ orders'[o].blob
              = encrypt_order_blob(Updated(pp.cur.kind, orders[o].blob.data, pp.now))
    BY <1>0, <1>5, <2>1, MarkWriteEffect
  <2>3. pp.cur.data = Updated(pp.cur.kind, orders[o].blob.data, pp.now)
    BY <1>0, <1>5, <2>1, <2>2 DEF mark_order_write, RowsAffected, PpInv, RereadCurrent
  <2> QED BY <1>1, <1>5, <2>1, <2>2, <2>3
          DEF WorkerReads, ByPoller, encrypt_order_blob, CanMark
<1>6. ASSUME NEW q \in Orders, run_dummy_worker(q), orders'[o] # orders[o]
      PROVE  ~ Exists(o) /\ ByDummy(o)
  <2>1. q = o
    BY <1>0, <1>6, DummyEffect
  <2>2. PICK data \in OrderData :
                 /\ orders'[o].blob = encrypt_order_blob(data)
                 /\ data.state \notin {"pending", "funded"} => data.shipped_at # None
                 /\ data.state # "pending" => data.funded_at # None
    BY <1>0, <1>6, <2>1, DummyEffect
  <2>3. ~ Exists(o)
    BY <1>0, <1>6, <2>1, DummyEffect
  <2> QED BY <2>2, <2>3 DEF ByDummy, encrypt_order_blob
<1> QED
  BY <1>1, <1>2, <1>3, <1>4, <1>5, <1>6 DEF MarketNext, ApiActs, TimeLockScan,
     check_time_locks, TimeLockOrder, PollerActs, PpNext, ChainStep, check_payment,
     start_settlement, check_pending_payments, mark_order_read, DummyActs, TimePasses,
     WorkerRestart, marketVars

-----------------------------------------------------------------------------
(* Refunds.  While an unshipped order is disputed, its dispute deadline    *)
(* already stands three lock periods after its funding.                    *)
RefundInv ==
    \A o \in Orders : WorkerReads(o) =>
        LET d == DataOf(o) IN
        /\ d.state = "funded" => d.funded_at # None
        /\ d.state \in {"disputed", "refunded"} /\ d.shipped_at = None => d.funded_at # None
        /\ d.state = "disputed" /\ d.shipped_at = None =>
              d.expires_at # None /\ d.expires_at >= d.funded_at + 3 * d.time_lock
        /\ d.state = "refunded" /\ d.shipped_at = None =>
              d.refunded_at >= d.funded_at + 3 * d.time_lock

(* Every step keeps that deadline.                                         *)
LEMMA RefundStep ==
    ASSUME MarketInv, [MarketNext]_marketVars, RefundInv
    PROVE  RefundInv'
<1> SUFFICES ASSUME NEW o \in Orders, WorkerReads(o)'
             PROVE  LET d == DataOf(o)' IN
                    /\ d.state = "funded" => d.funded_at # None
                    /\ d.state \in {"disputed", "refunded"} /\ d.shipped_at = None
                         => d.funded_at # None
                    /\ d.state = "disputed" /\ d.shipped_at = None =>
                         d.expires_at # None /\ d.expires_at >= d.funded_at + 3 * d.time_lock
                    /\ d.state = "refunded" /\ d.shipped_at = None =>
                         d.refunded_at >= d.funded_at + 3 * d.time_lock
  BY DEF RefundInv
<1>1. CASE WorkerReads(o) /\ DataOf(o)' = DataOf(o)
  BY <1>1 DEF RefundInv
<1>2. CASE WorkerReads(o) /\ DataOf(o) \in OrderData /\ ByTimeLock(o)
  <2> DEFINE d == DataOf(o)
             new == handle(d, tl.now)
  <2>1. d \in OrderData /\ tl.now \in Nat /\ new # d
    BY <1>2 DEF ByTimeLock
  <2>2. DataOf(o)' = new
    BY <1>2 DEF ByTimeLock
  <2>3. /\ d.time_lock \in Nat /\ d.funded_at \in OptTime /\ d.expires_at \in OptTime
    BY <2>1 DEF OrderData
  <2>4. /\ d.state = "funded" => d.funded_at # None
        /\ d.state = "disputed" /\ d.shipped_at = None =>
              /\ d.funded_at # None /\ d.expires_at # None
              /\ d.expires_at >= d.funded_at + 3 * d.time_lock
    BY <1>2 DEF RefundInv
  <2>5. /\ new.time_lock = d.time_lock
        /\ new.funded_at = d.funded_at /\ new.shipped_at = d.shipped_at
        /\ \/ /\ d.state = "funded" /\ new.state = "disputed"
              /\ tl.now >= unwrap_or(d.funded_at, d.created_at) + 2 * d.time_lock
              /\ new.expires_at = tl.now + d.time_lock
           \/ /\ d.state = "disputed" /\ new.state = "refunded"
              /\ tl.now >= unwrap_or(d.expires_at, d.created_at + d.time_lock)
              /\ new.refunded_at = tl.now /\ new.expires_at = d.expires_at
    BY <2>1, HandleEffect
  <2> HIDE DEF new, d
  <2> QED BY <2>1, <2>2, <2>3, <2>4, <2>5 DEF unwrap_or, OptTime, None
<1>3. CASE WorkerReads(o) /\ DataOf(o) \in OrderData /\ ByPoller(o)
  <2>1. /\ DataOf(o)' = Updated(pp.cur.kind, DataOf(o), pp.now)
        /\ pp.cur.kind \in Kinds /\ pp.now \in Nat /\ Wanted(pp.cur.kind, DataOf(o))
    BY <1>3 DEF ByPoller
  <2>2. DataOf(o)'.state \in {"funded", "cancelled", "released"}
        /\ (DataOf(o)'.state = "funded" => DataOf(o)'.funded_at = pp.now)
    BY <1>3, <2>1, UpdatedEffect DEF Wanted, Kinds
  <2> QED BY <2>1, <2>2 DEF None
<1>4. CASE ByDummy(o)
  BY <1>4 DEF ByDummy
<1> QED BY <1>1, <1>2, <1>3, <1>4, DataSteps

(* An unshipped order is refunded three lock periods after its funding at  *)
(* the earliest.                                                           *)
THEOREM MarketRefundAfterThreeLocks == MarketSpec => []RefundAfterThreeLocks
<1>1. MarketInit => RefundInv
  BY DEF MarketInit, TableInit, RefundInv, WorkerReads, Exists, NoRow
<1>2. MarketInv /\ RefundInv /\ [MarketNext]_marketVars => RefundInv'
  BY RefundStep
<1>3. RefundInv => RefundAfterThreeLocks
  BY DEF RefundInv, RefundAfterThreeLocks
<1> QED BY <1>1, <1>2, <1>3, MarketInvariant, PTL DEF MarketSpec

-----------------------------------------------------------------------------
(* Payments.  What the wallet was asked about is still what the row says   *)
(* when it is read again: an order never becomes pending again, a row the  *)
(* worker cannot read never becomes one it can, and no job changes an      *)
(* order's currency or, while it is pending, its expiry.                   *)
SameOrder(d, asked) ==
    /\ d.currency = asked.currency
    /\ d.state = "pending" => d.expires_at = asked.expires_at

SnapSame == \A o \in Orders : pp.snap[o] # NoData /\ WorkerReads(o)
                                 => SameOrder(DataOf(o), pp.snap[o])

CurSame == pp.cur # NoOrder /\ pp.cur.kind # "settle" /\ ~ pp.cur.reread =>
              \A o \in Orders : o = pp.cur.order /\ WorkerReads(o)
                                 => SameOrder(DataOf(o), pp.cur.data)

CurDecided ==
    pp.cur # NoOrder =>
        /\ pp.cur.kind = "funded" =>
              /\ ConfirmedWhenAsked(pp.cur.order)
              /\ pp.cur.data.currency = "XMR" => pp.cur.order \in audits
        /\ pp.cur.kind = "cancelled" => Expired(pp.cur.data, pp.now)

PayInv == pp.now <= clock /\ SnapSame /\ CurSame /\ CurDecided

(* A step of anyone keeps an order the same order.                         *)
LEMMA StillSame ==
    ASSUME MarketInv, [MarketNext]_marketVars, NEW o \in Orders, Exists(o), WorkerReads(o)',
           NEW asked, WorkerReads(o) => SameOrder(DataOf(o), asked)
    PROVE  SameOrder(DataOf(o)', asked)
<1>1. /\ WorkerReads(o) /\ DataOf(o) \in OrderData
      /\ DataOf(o)' = DataOf(o) \/ ByTimeLock(o) \/ ByPoller(o)
  BY DataSteps
<1>2. CASE DataOf(o)' = DataOf(o)
  BY <1>1, <1>2
<1>3. CASE ByTimeLock(o)
  <2>1. DataOf(o)'.currency = DataOf(o).currency /\ DataOf(o)'.state \in {"disputed", "refunded"}
    BY <1>1, <1>3, HandleEffect DEF ByTimeLock
  <2> QED BY <1>1, <2>1 DEF SameOrder
<1>4. CASE ByPoller(o)
  <2>1. DataOf(o)'.currency = DataOf(o).currency /\ DataOf(o)'.state # "pending"
    BY <1>1, <1>4, UpdatedEffect DEF ByPoller, Kinds, Wanted
  <2> QED BY <1>1, <2>1 DEF SameOrder
<1> QED BY <1>1, <1>2, <1>3, <1>4

(* A step that leaves the job alone, or sets it to rest, keeps its part.   *)
LEMMA PayRest ==
    ASSUME MarketInv, [MarketNext]_marketVars, PayInv,
           \/ /\ UNCHANGED <<pp, audits>>
              /\ \A o \in Orders : Crediting(o) /\ ConfirmedWhenAsked(o) => ConfirmedWhenAsked(o)'
           \/ pp' = PpIdle
    PROVE  PayInv'
<1>0. /\ clock \in Nat /\ PpInv /\ MarketClock' /\ clock <= clock'
      /\ pp.now \in Nat
  <2>1. MarketInv'
    BY MarketStep
  <2>2. clock \in Nat /\ PpInv /\ MarketClock' /\ pp.now \in Nat
    BY <2>1, TimeAssumption DEF MarketInv, MarketClock, PpInv, PpTypeOK
  <2>3. clock' = clock \/ clock' = clock + 1
    BY DEF MarketNext, ApiActs, TimeLockScan, TimeLockOrder, PollerActs, DummyActs, TimePasses,
           Tick, WorkerRestart, marketVars
  <2> QED BY <2>2, <2>3
<1>1. CASE pp' = PpIdle
  <2>1. pp'.now = 0 /\ pp'.cur = NoOrder /\ \A o \in Orders : pp'.snap[o] = NoData
    BY <1>1 DEF PpIdle
  <2>2. clock' \in Nat
    BY <1>0, TimeAssumption DEF MarketClock
  <2> QED BY <2>1, <2>2 DEF PayInv, SnapSame, CurSame, CurDecided
<1>2. CASE /\ UNCHANGED <<pp, audits>>
           /\ \A o \in Orders : Crediting(o) /\ ConfirmedWhenAsked(o) => ConfirmedWhenAsked(o)'
  <2>1. pp'.now <= clock'
    BY <1>0, <1>2, TimeAssumption DEF PayInv, MarketClock
  <2>2. SnapSame'
    <3> SUFFICES ASSUME NEW o \in Orders, pp.snap[o] # NoData, WorkerReads(o)'
                 PROVE  SameOrder(DataOf(o)', pp.snap[o])
      BY <1>2 DEF SnapSame, SameOrder
    <3>1. Exists(o) /\ (WorkerReads(o) => SameOrder(DataOf(o), pp.snap[o]))
      BY <1>0 DEF PpInv, PolledExist, PayInv, SnapSame
    <3> QED BY <3>1, StillSame
  <2>3. CurSame'
    <3> SUFFICES ASSUME pp.cur # NoOrder, pp.cur.kind # "settle", ~ pp.cur.reread,
                        NEW o \in Orders, o = pp.cur.order, WorkerReads(o)'
                 PROVE  SameOrder(DataOf(o)', pp.cur.data)
      BY <1>2 DEF CurSame, SameOrder
    <3>1. Exists(o) /\ (WorkerReads(o) => SameOrder(DataOf(o), pp.cur.data))
      BY <1>0 DEF PpInv, PolledExist, PayInv, CurSame
    <3> QED BY <3>1, StillSame
  <2>4. CurDecided'
    <3>1. pp.cur # NoOrder => pp.cur.order \in Orders
      BY <1>0 DEF PpInv, PpTypeOK, Current
    <3>2. pp.cur # NoOrder /\ pp.cur.kind = "funded" => ConfirmedWhenAsked(pp.cur.order)'
      BY <1>2, <3>1 DEF PayInv, CurDecided, Crediting
    <3> QED BY <1>2, <3>1, <3>2 DEF PayInv, CurDecided, ConfirmedWhenAsked, Expired, unwrap_or
  <2> QED BY <2>1, <2>2, <2>3, <2>4 DEF PayInv
<1> QED BY <1>1, <1>2

(* What is left of a poll asks about the same orders still.                *)
LEMMA SnapKept ==
    ASSUME MarketInv, [MarketNext]_marketVars, PayInv, pp'.now = pp.now,
           \A o \in Orders : pp'.snap[o] = pp.snap[o] \/ pp'.snap[o] = NoData
    PROVE  SnapSame' /\ pp'.now <= clock'
<1>1. pp'.now <= clock'
  <2>1. clock' = clock \/ clock' = clock + 1
    BY DEF MarketNext, ApiActs, TimeLockScan, TimeLockOrder, PollerActs, DummyActs, TimePasses,
           Tick, WorkerRestart, marketVars
  <2>2. clock \in Nat /\ pp.now \in Nat
    BY TimeAssumption DEF MarketInv, MarketClock, PpInv, PpTypeOK
  <2> QED BY <2>1, <2>2 DEF PayInv
<1>2. SnapSame'
  <2> SUFFICES ASSUME NEW o \in Orders, pp'.snap[o] # NoData, WorkerReads(o)'
               PROVE  SameOrder(DataOf(o)', pp'.snap[o])
    BY DEF SnapSame, SameOrder
  <2>1. pp'.snap[o] = pp.snap[o]
    OBVIOUS
  <2>2. Exists(o) /\ (WorkerReads(o) => SameOrder(DataOf(o), pp.snap[o]))
    BY <2>1 DEF MarketInv, PpInv, PolledExist, PayInv, SnapSame
  <2>3. SameOrder(DataOf(o)', pp.snap[o])
    BY <2>2, StillSame
  <2> QED BY <2>1, <2>3
<1> QED BY <1>1, <1>2

(* A poll that goes on with the next order, or ends, decides nothing yet.  *)
LEMMA PayContinue ==
    ASSUME MarketInv, [MarketNext]_marketVars, PayInv, UNCHANGED chain,
           NEW snap, NEW settle, PpContinue(snap, settle, pp.now),
           \A o \in Orders : snap[o] = pp.snap[o] \/ snap[o] = NoData
    PROVE  PayInv'
<1>1. CASE pp' = PpIdle
  BY <1>1, PayRest
<1>2. CASE pp' = [snap |-> snap, settle |-> settle, cur |-> NoOrder, now |-> pp.now]
  <2>1. pp'.now = pp.now /\ pp'.cur = NoOrder /\ pp'.snap = snap
    BY <1>2
  <2>2. SnapSame' /\ pp'.now <= clock'
    BY <2>1, SnapKept
  <2> QED BY <2>1, <2>2 DEF PayInv, CurSame, CurDecided
<1> QED BY <1>1, <1>2 DEF PpContinue

(* A new poll asks about the rows as they are.                             *)
LEMMA PayPoll ==
    ASSUME MarketInv, [MarketNext]_marketVars, PayInv, PollerActs, check_pending_payments
    PROVE  PayInv'
<1>0. clock \in Nat /\ UNCHANGED <<clock, orders, chain>>
  BY TimeAssumption DEF MarketInv, MarketClock, PollerActs, check_pending_payments
<1>1. CASE pp' = PpIdle
  BY <1>0, <1>1, PayRest
<1>2. CASE pp' # PpIdle
  <2>1. /\ pp'.cur = NoOrder /\ pp'.now = floor_timestamp_6h(clock)
        /\ \A o \in Orders : pp'.snap[o] = orders[o].blob.data \/ pp'.snap[o] = NoData
    BY <1>2 DEF check_pending_payments, PpContinue
  <2>2. SnapSame'
    BY <1>0, <2>1 DEF SnapSame, SameOrder, DataOf, WorkerReads, Exists
  <2>3. pp'.now <= clock'
    BY <1>0, <2>1, FloorType
  <2> QED BY <2>1, <2>2, <2>3 DEF PayInv, CurSame, CurDecided
<1> QED BY <1>1, <1>2

(* The wallet's answer about one order decides what is to be done with it. *)
LEMMA PayCheck ==
    ASSUME MarketInv, [MarketNext]_marketVars, PayInv, NEW o \in Orders, check_payment(o)
    PROVE  PayInv'
<1>0. UNCHANGED <<orders, chain>> /\ pp.snap[o] # NoData /\ PpTypeOK
  BY DEF check_payment, MarketInv, PpInv
<1>1. \/ PpContinue([pp.snap EXCEPT ![o] = NoData], pp.settle, pp.now)
      \/ \E kind \in {"funded", "cancelled"} :
           /\ pp' = [pp EXCEPT !.snap[o] = NoData,
                               !.cur = [kind |-> kind, order |-> o, reread |-> FALSE,
                                        version |-> 0, data |-> pp.snap[o]]]
           /\ kind = "funded" =>
                 /\ REQUIRED \in Answers(o, pp.snap[o].currency)
                 /\ pp.snap[o].currency = "XMR" => o \in audits'
           /\ kind = "cancelled" => Expired(pp.snap[o], pp.now)
  BY DEF check_payment
<1>2. CASE PpContinue([pp.snap EXCEPT ![o] = NoData], pp.settle, pp.now)
  <2> DEFINE snap == [pp.snap EXCEPT ![o] = NoData]
  <2>1. \A p \in Orders : snap[p] = pp.snap[p] \/ snap[p] = NoData
    BY <1>0 DEF PpTypeOK
  <2>2. PpContinue(snap, pp.settle, pp.now)
    BY <1>2
  <2> HIDE DEF snap
  <2> QED BY <1>0, <2>1, <2>2, PayContinue
<1>3. ASSUME NEW kind \in {"funded", "cancelled"},
             pp' = [pp EXCEPT !.snap[o] = NoData,
                              !.cur = [kind |-> kind, order |-> o, reread |-> FALSE,
                                       version |-> 0, data |-> pp.snap[o]]],
             kind = "funded" =>
                 /\ REQUIRED \in Answers(o, pp.snap[o].currency)
                 /\ pp.snap[o].currency = "XMR" => o \in audits',
             kind = "cancelled" => Expired(pp.snap[o], pp.now)
      PROVE  PayInv'
  <2>1. /\ pp'.now = pp.now
        /\ pp'.cur = [kind |-> kind, order |-> o, reread |-> FALSE,
                      version |-> 0, data |-> pp.snap[o]]
        /\ \A p \in Orders : pp'.snap[p] = pp.snap[p] \/ pp'.snap[p] = NoData
    BY <1>0, <1>3 DEF PpTypeOK
  <2>2. SnapSame' /\ pp'.now <= clock'
    BY <2>1, SnapKept
  <2>3. CurSame'
    BY <1>0, <2>1 DEF CurSame, PayInv, SnapSame, WorkerReads, DataOf, Exists, SameOrder
  <2>4. CurDecided'
    <3>1. kind = "funded" => chain[o] = REQUIRED
      BY <1>3 DEF Answers, REQUIRED
    <3> QED BY <1>0, <1>3, <2>1, <3>1 DEF CurDecided, ConfirmedWhenAsked, Expired
  <2> QED BY <2>2, <2>3, <2>4 DEF PayInv
<1> QED BY <1>1, <1>2, <1>3

(* A settlement neither credits nor cancels.                               *)
LEMMA PaySettle ==
    ASSUME MarketInv, [MarketNext]_marketVars, PayInv, NEW o \in Orders, start_settlement(o)
    PROVE  PayInv'
<1>1. /\ pp'.now = pp.now /\ pp'.snap = pp.snap /\ pp'.cur.kind = "settle"
  BY DEF start_settlement, MarketInv, PpInv, PpTypeOK
<1>2. SnapSame' /\ pp'.now <= clock'
  BY <1>1, SnapKept
<1> QED BY <1>1, <1>2 DEF PayInv, CurSame, CurDecided

(* The row read again is the order the wallet was asked about.             *)
LEMMA PayRead ==
    ASSUME MarketInv, [MarketNext]_marketVars, PayInv, mark_order_read
    PROVE  PayInv'
<1>0. PpInv /\ PpTypeOK /\ orders \in [Orders -> Rows] /\ UNCHANGED <<orders, chain, audits>>
  BY DEF MarketInv, PpInv, ApiInv, ApiTyped, mark_order_read
<1>1. CASE PpContinue(pp.snap, pp.settle, pp.now)
  BY <1>0, <1>1, PayContinue
<1>2. CASE ~ PpContinue(pp.snap, pp.settle, pp.now)
  <2>0. pp.cur # NoOrder /\ ~ pp.cur.reread /\ pp.cur \in Current
    BY <1>0, <1>2 DEF mark_order_read, PpTypeOK
  <2>1. PICK o \in Orders : o = pp.cur.order
    BY <2>0 DEF Current
  <2> DEFINE kind == pp.cur.kind
             data == orders[o].blob.data
  <2>2. /\ CanMark(orders[o], kind)
        /\ pp'.now = pp.now /\ pp'.snap = pp.snap
        /\ pp'.cur.kind = kind /\ pp'.cur.order = o /\ pp'.cur.reread
        /\ pp'.cur.data = Updated(kind, data, pp.now)
    <3>1. /\ CanMark(orders[o], kind)
          /\ pp' = [pp EXCEPT !.cur.reread = TRUE, !.cur.version = orders[o].version,
                              !.cur.data = Updated(kind, data, pp.now)]
      BY <1>2, <2>1 DEF mark_order_read
    <3> DEFINE u == Updated(kind, data, pp.now)
    <3>2. pp' = [pp EXCEPT !.cur.reread = TRUE, !.cur.version = orders[o].version,
                           !.cur.data = u]
      BY <3>1
    <3> HIDE DEF u
    <3>3. /\ pp'.now = pp.now /\ pp'.snap = pp.snap
          /\ pp'.cur.kind = kind /\ pp'.cur.order = o /\ pp'.cur.reread
          /\ pp'.cur.data = u
      BY <1>0, <2>0, <2>1, <3>2 DEF PpTypeOK, Current
    <3> QED BY <3>1, <3>3 DEF u
  <2>3. SnapSame' /\ pp'.now <= clock'
    BY <2>2, SnapKept
  <2>4. Exists(o) /\ WorkerReads(o) /\ Wanted(kind, data) /\ kind \in Kinds /\ pp.now \in Nat
    BY <1>0, <2>0, <2>1, <2>2 DEF PpInv, PolledExist, WorkerReads, CanMark, Current, Kinds,
       PpTypeOK
  <2>5. data \in OrderData
    BY <1>0, <2>4, ExistsRow DEF Row, Blob
  <2>6. kind # "settle" => SameOrder(data, pp.cur.data)
    BY <2>0, <2>1, <2>4 DEF PayInv, CurSame, DataOf
  <2>7. /\ Updated(kind, data, pp.now).currency = data.currency
        /\ Updated(kind, data, pp.now).expires_at = data.expires_at
    BY <2>4, <2>5, UpdatedEffect
  <2>8. CurDecided'
    <3>1. kind = "funded" => /\ ConfirmedWhenAsked(o)
                             /\ pp.cur.data.currency = "XMR" => o \in audits
      BY <2>0, <2>1 DEF PayInv, CurDecided
    <3>2. kind = "cancelled" => Expired(pp.cur.data, pp.now)
      BY <2>0 DEF PayInv, CurDecided
    <3>3. kind = "funded" => pp'.cur.data.currency = pp.cur.data.currency
      BY <2>2, <2>6, <2>7 DEF SameOrder
    <3>4. kind = "cancelled" => pp'.cur.data.expires_at = pp.cur.data.expires_at
      BY <2>2, <2>4, <2>6, <2>7 DEF SameOrder, Wanted
    <3>5. kind = "cancelled" => Expired(pp'.cur.data, pp'.now)
      BY <2>2, <3>2, <3>4 DEF Expired
    <3>6. UNCHANGED rolledBack
      BY <1>2 DEF mark_order_read
    <3> QED BY <1>0, <2>2, <3>1, <3>3, <3>5, <3>6 DEF CurDecided, ConfirmedWhenAsked, Expired
  <2> QED BY <2>2, <2>3, <2>8 DEF PayInv, CurSame
<1> QED BY <1>1, <1>2

(* The whole marketplace keeps the payment part of the argument.           *)
LEMMA PayStep ==
    ASSUME MarketInv, [MarketNext]_marketVars, PayInv
    PROVE  PayInv'
<1>1. CASE UNCHANGED <<pp, audits, chain, rolledBack>>
  BY <1>1, PayRest DEF ConfirmedWhenAsked
<1>2. CASE WorkerRestart
  BY <1>2, PayRest DEF WorkerRestart
<1>3. CASE PollerActs
  <2>1. ASSUME NEW o \in Orders, ChainStep(o)
        PROVE  PayInv'
    <3>1. \A p \in Orders : Crediting(p) /\ ConfirmedWhenAsked(p) => ConfirmedWhenAsked(p)'
      BY <2>1 DEF ChainStep, Gains, Loses, ConfirmedWhenAsked, REQUIRED, MarketInv, PpInv, PpTypeOK
    <3> QED BY <2>1, <3>1, PayRest DEF ChainStep
  <2>2. CASE mark_order_write
    BY <2>2, PayContinue DEF mark_order_write
  <2> QED BY <1>3, <2>1, <2>2, PayPoll, PayCheck, PaySettle, PayRead DEF PollerActs, PpNext
<1> QED BY <1>1, <1>2, <1>3 DEF MarketNext, ApiActs, TimeLockScan, TimeLockOrder, DummyActs,
           TimePasses, workerVars, ppVars, marketVars

(* From the start, the marketplace keeps it for ever.                      *)
THEOREM PaymentInvariant == MarketSpec => [](MarketInv /\ PayInv)
<1>1. MarketInit => PayInv
  BY TimeAssumption
     DEF MarketInit, TableInit, PpInit, PpIdle, PayInv, SnapSame, CurSame, CurDecided
<1>2. MarketInv /\ PayInv /\ [MarketNext]_marketVars => PayInv'
  BY PayStep
<1> QED BY <1>1, <1>2, MarketInvariant, PTL DEF MarketSpec

(* Whoever moves an order out of pending is the poll, with its decision.   *)
LEMMA OutOfPending ==
    ASSUME MarketInv, PayInv, [MarketNext]_marketVars, NEW o \in Orders,
           NEW to \in {"funded", "cancelled"}, Moves(o, "pending", to)
    PROVE  /\ DataOf(o) \in OrderData /\ pp.cur # NoOrder /\ pp.cur.order = o
           /\ pp.cur.kind = to
           /\ pp.cur.data.currency = DataOf(o).currency
           /\ pp.cur.data.expires_at = DataOf(o).expires_at
<1>1. /\ WorkerReads(o) /\ DataOf(o) \in OrderData
      /\ DataOf(o)' = DataOf(o) \/ ByTimeLock(o) \/ ByPoller(o)
  BY DataSteps DEF Moves, WorkerReads
<1>2. ByPoller(o)
  BY <1>1, HandleEffect DEF Moves, ByTimeLock
<1> QED BY <1>1, <1>2, UpdatedEffect DEF ByPoller, Moves, Kinds, Wanted

(* An order is credited only with a payment that was confirmed when the    *)
(* wallet answered in the same poll, and still is unless the chain has     *)
(* reorganised since; an XMR order only after its audit record.            *)
THEOREM MarketFundedOnlyWhenConfirmed == MarketSpec => FundedOnlyWhenConfirmed
<1>1. MarketInv /\ PayInv /\ [MarketNext]_marketVars =>
        \A o \in Orders : Moves(o, "pending", "funded") =>
            /\ ConfirmedWhenAsked(o)
            /\ DataOf(o).currency = "XMR" => o \in audits
  <2> SUFFICES ASSUME MarketInv, PayInv, [MarketNext]_marketVars, NEW o \in Orders,
                      Moves(o, "pending", "funded")
               PROVE  /\ ConfirmedWhenAsked(o)
                      /\ DataOf(o).currency = "XMR" => o \in audits
    OBVIOUS
  <2>1. /\ pp.cur # NoOrder /\ pp.cur.order = o /\ pp.cur.kind = "funded"
        /\ pp.cur.data.currency = DataOf(o).currency
    BY OutOfPending
  <2> QED BY <2>1 DEF PayInv, CurDecided
<1> QED BY <1>1, PaymentInvariant, PTL DEF MarketSpec, FundedOnlyWhenConfirmed

(* An order is cancelled only once its payment window has closed.          *)
THEOREM MarketCancelledOnlyAfterExpiry == MarketSpec => CancelledOnlyAfterExpiry
<1>1. MarketInv /\ PayInv /\ [MarketNext]_marketVars =>
        \A o \in Orders : Moves(o, "pending", "cancelled") =>
            DataOf(o).expires_at # None /\ clock > DataOf(o).expires_at
  <2> SUFFICES ASSUME MarketInv, PayInv, [MarketNext]_marketVars, NEW o \in Orders,
                      Moves(o, "pending", "cancelled")
               PROVE  DataOf(o).expires_at # None /\ clock > DataOf(o).expires_at
    OBVIOUS
  <2>1. /\ DataOf(o) \in OrderData
        /\ pp.cur # NoOrder /\ pp.cur.kind = "cancelled"
        /\ pp.cur.data.expires_at = DataOf(o).expires_at
    BY OutOfPending
  <2>2. Expired(pp.cur.data, pp.now) /\ pp.now <= clock
    BY <2>1 DEF PayInv, CurDecided
  <2>3. clock \in Nat /\ pp.now \in Nat /\ DataOf(o).expires_at \in OptTime
    BY <2>1, TimeAssumption DEF MarketInv, MarketClock, PpInv, PpTypeOK, OrderData
  <2> QED BY <2>1, <2>2, <2>3 DEF Expired, unwrap_or, OptTime, None
<1> QED BY <1>1, PaymentInvariant, PTL DEF MarketSpec, CancelledOnlyAfterExpiry
=============================================================================
