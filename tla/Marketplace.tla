---------------------------- MODULE Marketplace ----------------------------
(***************************************************************************)
(* The API process and the worker process on one orders table: client      *)
(* requests, the time-lock job, the payment job and dummy traffic run      *)
(* concurrently and meet only in the rows they read and conditionally      *)
(* update.  The worker's jobs are tokio tasks of one process and stop      *)
(* together when it is restarted.                                          *)
(***************************************************************************)
EXTENDS OrderApi, TimeLock, PaymentPoller, DummyWorker

VARIABLE workerBoots    \* how often the worker has been restarted

workerVars == <<tl, ppVars, workerBoots>>
marketVars == <<orders, clock, apiVars, workerVars>>

MarketTypeOK ==
    /\ TableTypeOK /\ ApiTypeOK /\ TlTypeOK /\ PpTypeOK
    /\ workerBoots \in 0 .. MaxRestarts

MarketInit ==
    /\ TableInit /\ ApiInit /\ TlInit /\ PpInit
    /\ workerBoots = 0

ApiActs == ApiNext /\ UNCHANGED <<clock, workerVars>>
TimeLockScan == check_time_locks /\ UNCHANGED <<clock, apiVars, ppVars, workerBoots>>
TimeLockOrder(o) == time_lock_order(o) /\ UNCHANGED <<clock, apiVars, ppVars, workerBoots>>
PollerActs == PpNext /\ UNCHANGED <<clock, apiVars, tl, workerBoots>>
DummyActs(o) == run_dummy_worker(o) /\ UNCHANGED <<clock, apiVars, workerVars>>
TimePasses == Tick /\ UNCHANGED <<orders, apiVars, workerVars>>

(* Scans in progress and the XMR client with its audit records are lost. *)
WorkerRestart ==
    /\ workerBoots < MaxRestarts
    /\ workerBoots' = workerBoots + 1
    /\ tl' = TlIdle
    /\ pp' = PpIdle
    /\ audits' = {}
    /\ rolledBack' = {}
    /\ UNCHANGED <<orders, clock, apiVars, chain, notified, broadcast>>

MarketNext ==
    \/ ApiActs
    \/ TimeLockScan
    \/ PollerActs
    \/ TimePasses
    \/ WorkerRestart
    \/ \E o \in Orders : TimeLockOrder(o) \/ DummyActs(o)

MarketSpec == MarketInit /\ [][MarketNext]_marketVars

(* The worker's loops run on for ever and time does not stop; clients and  *)
(* the chain owe nobody anything.                                          *)
Fairness ==
    /\ WF_marketVars(TimePasses)
    /\ WF_marketVars(TimeLockScan)
    /\ WF_marketVars(\E o \in Orders : TimeLockOrder(o))
FairMarketSpec == MarketSpec /\ Fairness

(* The payment job runs on as well, and neither the nodes' fork checks nor *)
(* the wallet's answers fail for ever: a poll that would look at an order, *)
(* and an answer that would change one, are not put off again and again.   *)
PollerFairness ==
    /\ WF_marketVars(PollerActs /\ chain' = chain)
    /\ SF_marketVars(PollerActs /\ pp = PpIdle /\ pp' # PpIdle)
    /\ SF_marketVars(PollerActs /\ pp.cur = NoOrder /\ pp'.cur # NoOrder)
FairPollerSpec == MarketSpec /\ PollerFairness
-----------------------------------------------------------------------------
WorkerReads(o) == Exists(o) /\ decrypt_order_blob_ok(orders[o].blob)
DataOf(o) == orders[o].blob.data

(* The worker-readable orders implement the lifecycle of OrderLifecycle.   *)
StatusOf(o) == IF ~ Exists(o) THEN "absent"
               ELSE IF WorkerReads(o) THEN DataOf(o).state ELSE "client"
Lifecycle == INSTANCE OrderLifecycle WITH status <- [o \in Orders |-> StatusOf(o)]

(* No job of the worker, working from a snapshot or a row it read earlier, *)
(* ever moves an order by anything but one step of its state machine from  *)
(* the state the row is in at that moment, or overwrites a client's blob.  *)
FollowsLifecycle == Lifecycle!Spec

Moves(o, from, to) ==
    /\ WorkerReads(o) /\ DataOf(o).state = from
    /\ WorkerReads(o)' /\ DataOf(o)'.state = to

(* An order is credited only with a payment that has its confirmations at  *)
(* the moment of the UPDATE, or that a reorganisation took them from after *)
(* the wallet's answer in the very poll that credits it: poll, re-read and *)
(* UPDATE are three separate moments, but no older answer is acted upon.   *)
(* And an XMR payment has its audit record before it is credited.          *)
ConfirmedWhenAsked(o) == chain[o] = REQUIRED \/ o \in rolledBack
FundedOnlyWhenConfirmed ==
    [][\A o \in Orders : Moves(o, "pending", "funded") =>
          /\ ConfirmedWhenAsked(o)
          /\ DataOf(o).currency = "XMR" => o \in audits]_marketVars

(* An order is cancelled only after its payment window, as the row being   *)
(* overwritten states it, has closed.                                      *)
CancelledOnlyAfterExpiry ==
    [][\A o \in Orders : Moves(o, "pending", "cancelled") =>
          DataOf(o).expires_at # None /\ clock > DataOf(o).expires_at]_marketVars

(* An order that was never shipped is refunded only when three lock        *)
(* periods have passed since it was funded: two for the seller to ship,    *)
(* one for the dispute that is then opened.                                *)
RefundAfterThreeLocks ==
    \A o \in Orders :
        WorkerReads(o) /\ DataOf(o).state = "refunded" /\ DataOf(o).shipped_at = None
        => DataOf(o).refunded_at >= DataOf(o).funded_at + 3 * DataOf(o).time_lock

(* A job that still holds the version of a row holds the row itself: a     *)
(* snapshot or a re-read whose version matches at the UPDATE is current in *)
(* every column, so nothing another writer did is undone by the job.       *)
MatchingVersionIsCurrent ==
    \A o \in Orders :
        /\ tl.snap[o].version = orders[o].version /\ Exists(o) => tl.snap[o] = orders[o]
        /\ pp.cur # NoOrder => (pp.cur.reread /\ pp.cur.order = o
                                /\ pp.cur.version = orders[o].version
              => CanMark(orders[o], pp.cur.kind))

(* Nothing due is left undone: an order whose seller has let two lock      *)
(* periods pass, or whose dispute has reached its deadline, and that no    *)
(* client takes over, does not stay as it is.  A scan cut short by a       *)
(* conflict or a restart is made up for by later ones.                     *)
Overdue(o) ==
    LET data == DataOf(o)
        now == floor_timestamp_6h(MaxTime)
    IN  /\ WorkerReads(o)
        /\ \/ /\ data.state = "funded" /\ data.dispute # "open"
              /\ now >= unwrap_or(data.funded_at, data.created_at) + 2 * data.time_lock
           \/ /\ data.state = "disputed"
              /\ now >= unwrap_or(data.expires_at, data.created_at + data.time_lock)
NoOrderStaysOverdue == \A o \in Orders : [](Overdue(o) => <>~ Overdue(o))
-----------------------------------------------------------------------------
(* A statement of the documentation that the code does not keep            *)

(* "Worker re-encrypts with legacy oblivious format after payment          *)
(* detection" (docs/THREAT_MODEL.md:87): an order a client sealed to the   *)
(* worker does not stay pending once its payment is confirmed.             *)
PaidAndPending(o) == /\ Exists(o)
                     /\ decrypt_ecdh_blob_ok(orders[o].blob)
                     /\ DataOf(o).state = "pending" /\ DataOf(o).escrow_address
                     /\ chain[o] = REQUIRED
ClientOrderFunded == \A o \in Orders : PaidAndPending(o) ~> ~ PaidAndPending(o)
=============================================================================
