# Formal model of the Tor marketplace

TLA+ modules that model this repository, TLC configurations that check them on
small instances, and TLAPS proofs, for every instance, of all safety properties but one
that those runs check. File names such as `orders.rs` are relative to the crate's
`src/`.

## 1. The system

Two processes share one SQLite database:

* the **API process** (`main.rs`, `services/`, `gateway/`) answers requests. It
  is *blind*: order, dispute and chat contents are blobs it has no key for. It
  knows rows, versions and nonces;
* the **worker process** (`bin/worker.rs`, `worker/mod.rs`, `background/`) holds
  the worker key and runs five independent loops.

They exchange no messages. They meet in the rows they read and conditionally
update: every writer runs `UPDATE ... SET ..., version = version + 1 WHERE id = ?
AND version = ?` with a version it selected earlier, and nothing holds a
transaction over the two statements.

| Component | State | Operations | Talks to | What makes it correct |
|---|---|---|---|---|
| orders table (`db/models.rs`, `crypto/oblivious.rs`) | rows with a version, a sealed blob, dispute and chat columns | INSERT, SELECT, conditional UPDATE | everyone below | each version has one author; a version match means the row is current |
| order, dispute, chat handlers (`services/orders.rs`, `disputes.rs`, `chat.rs`) | five in-memory nonce sets | create, update, open/update/resolve dispute, get/update chat | table | no lost or doubled write; Conflict only when true; nonces once; acknowledged data kept |
| time-lock job (`time_lock.rs`) | a scan: snapshot and time | funded → disputed, disputed → refunded | table | never early, never lost, no write from a stale snapshot |
| payment job (`payment_poller.rs`) | a poll: snapshot, order at hand | pending → funded or cancelled, settlement retry | table, wallets, `payment_tx` channel | credits only confirmed payments, cancels only after expiry |
| wallet clients (`xmr.rs`, `btc_client.rs`) | last block, audits, fork flag | `check_for_fork`, `check_payment_with_confirmations` | Monero and Bitcoin nodes | a fork stops crediting for as long as it lasts; what is credited is buried |
| dummy traffic (`dummy_worker.rs`) | – | INSERT of a made-up order | table | indistinguishable from a real row |
| notification scanner (`notification_scanner.rs`) | last block, tracker table | sets an order's escrow address | table, Bitcoin node | every notification handled once |
| listings and expiry (`listings.rs`, `listing_expiry.rs`) | listings table, two nonce sets | create, update, list, expire | table | as for orders; paging skips no row but for those that leave a filter; nothing expired stays on sale |
| stateless authentication (`stateless_auth.rs`) | replay cache by hour | check a request | – | a token passes once while it is valid |
| login challenges (`auth.rs`) | outstanding challenges | issue, verify | – | a challenge is used once, before it expires |
| rate limiter (`ratelimit.rs`) | a counter and a window per key | check | – | a bound on what a key gets through |
| migrations (`db/mod.rs`) | `schema_migrations`, the schema | 18 migrations of several statements | database | the schema the models expect, no row lost, also across crashes and overlapping start-ups |
| settlement, PSBT (`stealth_escrow.rs`, `btc.rs`, `escrow/btc.rs`) | – | build, sign, broadcast | Bitcoin node | amounts add up, nothing paid twice |
| coin swap (`coinswap.rs`) | a call: hop, output, amount | self-transfers | Bitcoin node | the money arrives, or one knows why not |
| `EscrowLock.sol` | orders by id, the balance | create, release, refund, claimUnclaimed | Ethereum | each deposit leaves once, to the right party |
| admin tokens (`admin.rs`, `blind_sig.rs`), SOCKS pool, middlewares | – | – | – | – |
| browser client, WASM (`frontend/`, `wasm/`) | – | compose, seal, sign | API | composes from what it read |

What is hard here: handlers interleave between SELECT and UPDATE; jobs work from
snapshots that age; replay caches and audit records die with their process; the
payment job looks at an order three times with other writers in between; a
conflict ends a whole time-lock scan; the chain reorganises between two RPCs of
one check, or after the last one and before the row is written; a process stops
between two statements of a migration, or migrates beside another; a signature is
verified while its hour ends. `PROJECT.json` lists each hazard with its
line and the property that guards it.

## 2. Modules

```
OrdersTable  <-  OrderApi --------.
      ^----  TimeLock -----------. \
      ^----  PaymentPoller -------- Marketplace  --refines-->  OrderLifecycle
      ^----  DummyWorker --------/
Listings   Gateway   Migrations   XmrWallet   EscrowLock   CoinSwap
OrderApiProofs (EXTENDS OrderApi)    MarketplaceProofs (EXTENDS Marketplace)
ListingsProofs (EXTENDS Listings)    MigrationsProofs (EXTENDS Migrations)
GatewayProofs (EXTENDS Gateway)      XmrWalletProofs (EXTENDS XmrWallet)
EscrowProofs (EXTENDS EscrowLock, CoinSwap)
SumTheorems: sums over finite sets, used by GatewayProofs and EscrowProofs
MCOrderApi, MCMarketplace, MCListings, MCGateway, MCMigrations, MCXmrWallet,
MCEscrow                             instances for TLC
```

`Listings` to `CoinSwap` share no state with the orders table (other tables,
other processes' memory, other chains) and stand alone. `XmrWallet` looks inside
what `PaymentPoller` takes as one answer of the wallet.

**OrdersTable** – the table `orders`, the wall clock, `OrderData` reduced to the
fields that decide anything, the state machine of `db/models.rs`, and what each
key opens. A blob is sealed with the *worker* key, sealed by a client to the
worker's payment key (*ecdh*), or *opaque*. Cryptography is ideal. `RowsAffected`
and `UpdateRow` are the two halves of the conditional UPDATE. Version 0 stands
for a missing row.

**OrderApi** – one action per database statement of a handler. `X_read` is the
part up to and including the SELECT of the version, `X_write` the UPDATE and the
answer. The nonce check, a critical section over process memory, and the SELECT
next to it are one step: nothing another process can see happens between them.
The caches hold nonces as the client wrote them, in hex of either case, so a call
has a nonce and a `spelling` of it. `call` is what each request asks for, `st` how far its handler is. `ok` means
committed and answered, `unacked` committed but the answer was lost. `get_chat`
is two SELECTs and therefore two steps; a client calls it before `update_chat`, as
`frontend/api.js` does. `ApiRestart` empties the caches and loses handlers in
flight. Requests refused before any state is touched (bad hex or base64, size,
HMAC) are left out; those refused after their nonce was spent are in.

**TimeLock** – `check_time_locks` takes the snapshot, `time_lock_order` handles
one row of it: `handle` says what becomes of the order (itself, if nothing is
due), then the conditional UPDATE, whose failure ends the scan. Rows are handled
in any order; the code's order is that of an unordered SELECT. The release
branch of `handle_shipped` is translated although it never fires: the state
machine has no step from shipped to released (`HandleEffect` proves it).

**PaymentPoller** – `check_pending_payments` takes the snapshot, `check_payment`
asks the wallet about one order, `mark_order_read` and `mark_order_write` are the
two statements of `mark_order_funded`, `mark_order_cancelled` and
`retry_btc_settlement`. `chain` is external: a payment of an existing order appears,
gathers confirmations, and may lose some or all of them at any moment, also between the
wallet's answer and the UPDATE (`rolledBack`, a history, remembers that). `Answers` is
what the clients may say, including nothing (`skip`: RPC error, fork, unusable amount). Two
over-approximations: pending orders are taken in any order, while the code takes
XMR before BTC; and the BTC wallet answers like the XMR one, while its client
today fails on every answer it unwraps twice. `audits` and `notified` are sets.

**DummyWorker** – the INSERT of a made-up order. It is the only source of rows
sealed with the worker key, so it also stands for the orders the other jobs
act upon.

**Marketplace** – all of the above on one table, with restarts of either
process. `WorkerRestart` ends both scans and loses the audits.

**OrderLifecycle** – the abstract promise: an order the worker can read moves
along pending → funded → disputed → refunded or pending → cancelled, one step at
a time; a client may take its order over at any moment and the worker never takes
it back. `Marketplace` maps a row to its status (`StatusOf`) and implements it.

**Listings** – `create_listing`, `update_listing` as `_read` (nonce, SELECT) and
`_write` (conditional UPDATE), `check_listing_expiry` as a snapshot and one step
per row, and a client that reads page after page. Handlers are blind, so the job
can only expire listings whose blob an earlier release sealed with the worker's
key; `ListInit` has such rows. A client may fetch a sealed blob (`get_listing`) and send it
back unchanged, which leaves the listing as overdue as it was. A page is cut from the rows
that match the reader's filter, or from all; `status` stands for the three columns a
client sets and filters by (`currency` and `search_token` are the others). Ids are numbers because pages are
ordered by them; a new listing gets any free one, as a random UUID does.

**Gateway** – the memory of the API's gate. A token stands for the five headers of
a request whose HMAC and signature verify, so `CheckHour` covers the middleware up
to those checks and `check_replay` is what follows; time may pass and others may run
in between. The cache is a function from hours to nonces; `check_replay` prunes by the
hour *of the token*, clears a full bucket, inserts. The limiter runs after
authentication (the layers in `gateway/mod.rs`). `verify` is two steps because it
takes its lock twice. Requests to `/auth/` have no public key yet and share the key
`anonymous` unless they carry an address header. `passed`, `forgotten`, `admitted`,
`started` and `issued` are history; `admitted` counts per run of the process and outlives
a restart.

**Migrations** – each of the 18 migrations is a sequence of statements, each of them
a transaction of its own, and `Fails`/`Execute` say what SQLite does with one. `IF NOT
EXISTS` makes repetition harmless, `DROP TABLE`, `RENAME`, `INSERT ... SELECT` and the
record of the version do not. From V3 to V12 a failing `ALTER` is only logged, and
`column_exists` takes an error for a no; `Refuse` is SQLite refusing such a query, any other
refusal ends the process like a crash. Nothing keeps processes apart: `main.rs` and
`bin/worker.rs` both migrate when they start (`scripts/dev.sh` and `dev.ps1` happen to start the
API after the worker). `overlapped` and `refused` are history: the versions some process was
in when another began, and the columns whose ALTER was lost. Of a table
the model keeps the columns that statements name.

**XmrWallet** – one pending order, polled by the payment job while blocks are mined,
dropped and replaced between any two RPCs. `last` is the tracker's height and hash;
`check_for_fork` runs twice per poll. After the transfers have been read come the jitter of
`rpc_call`, the audit and the two statements of `mark_order_funded`, during which the chain
goes on; the row is written in a step of its own. A block keeps its height for ever, so "the hash
remembered is that of another height" is a state predicate (`Stuck`). The height an
RPC returns is taken as that of the newest block, which is how the code uses it.

**EscrowLock** – the contract. A call is atomic and a call that reverts changes
nothing, so guards are the `require`s, the checked additions and the conditions under
which `transfer` reverts (`accepts` is the set of accounts whose code takes money). Money
forced into the contract without a call (by a contract that destroys itself) is left out;
it would turn the equality of `Solvent` into "at least".

**CoinSwap** – `run_coinswap_chain` hop by hop. The network takes a transaction that
spends the unspent output with the value signed. A broadcast may fail before or after
the node took it; a caller may call again with the same arguments. Keys and signatures
are deterministic, so the new call makes the very transactions of the old one: the node
answers with their ids while they are in its mempool, and the call gets past the hops that
were sent; once a block has one (`mined`), it is refused. Nothing in the crate calls it yet. The fee is taken to be
below the rate at which `extract_tx` refuses a transaction.

Definitions named `X_Fault` (`RowsAffected_AnyVersion`, `Expired_AtExpiry`, ...)
are faulty variants of `X`; no specification uses them. Each property is violated
when one of them replaces the original.

## 3. Runs

| Run | Specification, bounds | What it shows |
|---|---|---|
| `order_api` | `Spec`; one order, three requests of any kind, two nonces in two spellings, one restart, clock 0..2 | `TypeOK`; a version counts the commits (`VersionCountsCommits`) and has one author (`CommitsDistinct`); `update_order` replaces the version that was signed; Conflict is never false; a nonce, written one way, passes once per boot, whatever becomes of its request; `get_chat` never reports a version newer than its chat |
| `marketplace` | `MarketSpec`; one order in every state a job acts on, both currencies, two API requests, every job, one restart, clock 8..10 | `MarketTypeOK`; versions stay unique among all writers; a matching version is a current row; the system implements `OrderLifecycle`; credited only when audited, and confirmed unless the chain rolled the payment back within the poll; cancelled only after expiry; refunded three lock periods after funding at the earliest |
| `marketplace_live` | `FairMarketSpec`; two orders, funded or disputed, a conflicting request, a restart | an order overdue for a dispute or a refund does not stay overdue, although a request's write ends the scan it meets |
| `migrations` | `FairMigSpec`; a fresh install, or release 9 upgraded, by two processes that start when they like, one row per table, two crashes or refused queries | unless start-ups overlapped in an `Exclusive` version, what serves does so on exactly the schema of `db/models.rs`, but for columns whose ALTER was refused (`ServesOnModelSchema`), and every process comes up unless a crash tore one of the two rebuilds or V9 was recorded without a column (`EventuallyUpOrTorn`); no row told to a client is lost unless two processes were in the rebuild of its table (`NoRowLost`) |
| `listings` | `MCSpec`; two listings, two requests, labels active and sold, pages of all or of the active listings, page sizes that clamp and that need several pages, restarts | versions count commits; an update without a status never undoes a change it did not see; the job expires only what it read; a reader of pages misses no listing that was there, or with a filter at most one for each row that left it; nothing expired stays active, also when its owner sends the sealed blob back |
| `gateway` | `MCSpec`; three deliveries, two nonces, a bucket that holds one nonce, two requests per window, four ticks, a restart; two challenges, three verifies | a token passes twice only after the cache forgot it or when its hour ran out during verification; a run of the process lets at most two limits less one request through within one window's time, and at most one limit if it began within it; a challenge is redeemed once and in time |
| `xmr_wallet` | `FairXmrSpec`; six blocks, two reorganisations, one failed call, one restart, two confirmations | what is credited is buried unless the chain was reorganised between the reading of the height and the UPDATE; a replaced block goes unnoticed only at the same height or without an answer; a buried payment is credited unless the tracker is stuck |
| `escrow` | `MCSpec`; two orders between two accounts, any subset of which takes money, six ticks; a swap of 0, 1 or 3 hops called three times with two faults, blocks coming at any moment | the balance is the sum of the open orders; refund and claim are never possible at once; an order whose buyer can receive money ends; money is stranded only by a fault, by a shortage or by a wrong final address; Ok means delivered, also from a call that found hops of an earlier one in the mempool |
| `admin_token` | expected violation | an admin token is accepted again after a restart |
| `chat_append` | expected violation | of two concurrent chat messages, both acknowledged, one is lost |
| `client_paid` | `FairPollerSpec`, expected violation | a paid order sealed by its client is never credited |
| `xmr_fork` | `FairXmrSpec`, expected violation | after a hash mismatch every later check reports a fork |

**Bounds.** One order suffices wherever rows do not influence each other: a
writer touches one row, and only a time-lock conflict carries over from one row to
the next, which is what the two orders of `marketplace_live` are for. Two requests
race; a third gives `order_api` the creation of the order next to a race. Two nonces
allow both a replay and a fresh one, and two spellings one nonce that passes twice. The
clock scale has buckets of two ticks, so that flooring loses something. `StartTime` leaves
room for orders made up in the past: an order funded at 3 with a lock of two ticks is
overdue at 8, disputed with a deadline of 10 and refunded there, within `MaxTime`. The
settlement branch is reached only for a released order a client sealed to the worker, since
no job releases an order. Deadlock is not checked: a finite set of requests ends, and the clock stops
at `MaxTime`.

Two runs split their behaviours in two (`scope`, in the MC module): the gate's tokens and
its logins share only the clock and the process, and the reader of pages only looks on. The
limiter lets two requests per window through, so that two full windows lie side by side and
three requests reach the border between them, and two verifies can race for one challenge.
The migrations have start-ups that overlap in any one version (`MCBounds`, a state
constraint), followed by at most one fault, or two faults without an overlap; the liveness
property of that run speaks of behaviours within the constraint. Release 9 is the last before
the rebuilds, so an upgrade from it meets both with rows in the tables; 18 is the fresh
install, which runs every version.

For the other modules: a bucket of one nonce overflows with the second, and three
deliveries are a first use, what makes the cache forget, and a replay; an hour of one
tick lets two hours pass within a verification. Six blocks with two confirmations
hold a payment, a reorganisation that drops it, its return and its burial, with room
for a second reorganisation of the same height. A lock of one to three ticks within
six has its claim window, its refund time and the overflow (`MaxUint` = 6) in reach. The
amounts of the swap are exactly enough for three hops, one short, enough for one or
two hops only, and too little for any. Migrations need one row per table (rows do not
influence each other). Bounds in guards are `MaxTime`, `MaxRestarts`, `MaxBlocks`, `MaxReorgs`,
`MaxErrors`, `MaxCalls` and `MaxFaults`.

**Fairness.** `Fairness` gives weak fairness to time, to the start of a time-lock
scan and to its progress: `worker/mod.rs` runs the job in an endless loop that
ignores its result. Clients, the chain and restarts get none. `PollerFairness`,
used only by the expected violation, is generous on purpose: the poller keeps
running, and neither fork checks nor answers fail for ever; even so the order is
never credited. `ListFairness` is fair to time, scan and its progress for the reason
given for the time-lock job, `FairXmrSpec` to the poll. `FairMigSpec` starts a stopped
process again and lets it go on: `docker-compose.yml` has a restart policy for the API; it
has no service for the worker, so that half is an assumption on whoever runs it. `MCFairness` of
the escrow run lets blocks come and has a buyer ask for a refund that is due; sellers
and miners owe nothing.

**What the exemptions mean.** Some properties name a way out, and each is really
taken. A reorganisation after the height was read, up to the UPDATE, can credit a payment
that is not buried (`CreditedIsBuried`; in `marketplace` it is `rolledBack`). The bytes of a
nonce pass again in other letters (`NonceOncePerBoot`). A token let in at the end of its last
hour may meet a bucket that the next hour's first request has already dropped, and pass twice
(`ReplayOnlyAfterForgetting`); so may any token after a restart or a full bucket.
`docs/THREAT_MODEL.md` (lines 43 and 138) promises more than that: that a replay within the
hour is rejected and impossible. A restart gives every key a full limit at once, on top of
what the run before let through (`AtMostTwicePerWindow` bounds each run). A reader with a
filter misses a listing when a row on a page already read stops to match, since the rest
moves up (`PagingSkipsNothing` allows one per such row, and no more).

For the migrations: a crash inside the rebuild of V10 or V11 leaves a database on which no process starts
again: the INSERT into the filled copy, or the SELECT from the dropped table, fails
each time (`Torn`). The rows are still there. If an ALTER of V9 is refused and logged, V9 is
recorded all the same and the SELECT of V10 fails for ever (`Starved`). Two processes that
are in V10 or V11 together can lose rows: one finishes and serves, a client stores a
row, the other drops the table it has copied before. Two that are in V1 to V5 together can
bring a table or a column back that a later version has removed. `Exclusive` lists these versions; in
all others start-ups may overlap as they like.

**Findings.** The four expected violations are explained under "findings" in
`PROJECT.json`, each with the line of documentation it contradicts.

## 4. Proofs

The theorems hold for every value of the constants that the named `ASSUME`s of the
modules allow: every set of orders, listings, requests, nonces, keys and processes, and
every bound on time, restarts, crashes, blocks, reorganisations, calls and faults. The
assumptions are on constants only: lengths and limits the code has as positive numbers
are positive (`Bucket`, `HourLen`, `Hour`, `TTL`, `MaxNonces`, `MaxRequests`, `MaxLimit`,
`Required`, `Dust`, `FeeSats`), bounds are natural numbers, `StartTime <= MaxTime`; the
sets that are counted or summed over (`Requests`, listing `Ids`, `OrderIds`) are finite;
client blobs are never sealed with the worker key; made-up orders are not older than the
clock allows; releases end with one of the 18 migrations. No theorem has a hypothesis besides.

Each inductive invariant below was first checked by TLC on the instance of the
component's run.

**OrderApiProofs.** The type invariant is not inductive by itself: the second
SELECT of `get_chat` and the UPDATEs read columns of a row, so one must know
that the row exists and has not gone back (`InHand`). `ApiInv` adds, for each
property, the bookkeeping it needs: committed versions lie at or below the row's
(`CommitsBehind`), a request that passed its nonce check left its key in the cache
in this boot (`CachedWhenPassed`, `ReadThisBoot`). `ApiStepShape` reduces every
handler step to one of six effects on the table; `ApiStepKeepsInv` then goes through
six cases instead of every handler. `VersionCountsCommits` needs the cardinality
theorems of the library and its own induction step.

**MarketplaceProofs.** The step lemmas of the API are stated without its clock
and frame and are reused. The central notion is `RowsMove`: a step leaves a row
alone or makes a new, larger version. From it follows, whoever takes the step,
that a snapshot row whose version still matches equals the row
(`SnapshotCurrent`), and that a re-read order whose version still matches is in the
state the job wants, with the data to write computed from it (`RereadCurrent`).
Every write of a job is thus a function of the row as it is (`TimeLockEffect`,
`MarkWriteEffect`), which gives the refinement. `RefundInv` carries the dispute
deadline: while an unshipped order is disputed, its `expires_at` already stands
three locks after funding. `PayInv` carries the payment: what the wallet was
asked about still has the row's currency and expiry when the row is read again
(`SameOrder`), because an order never becomes pending again and a client's row
never becomes the worker's. The chain moves in between: while an order is being credited its
payment is confirmed or noted as rolled back (`CurDecided`), and the note goes away with
the order at hand, so that no older answer can hide behind it.

**ListingsProofs.** `VersionCountsUpdates` and the two action properties rest on what a
handler or the job remembers between its SELECT and its UPDATE: as long as the version is
the one it read, the row is the one it read (`Reads`, `Snapshot`). `RowsMove` says what any
step may do to the table: leave a row, give it the next version, or create it; a row never
changes its day and is never deleted. Paging needs `Ahead`: of what is still owed to the
reader no more lies before its offset (`Slipped`) than rows have left the filter. A row that is new
or begins to match can only push others back; one that leaves lowers each rank by at most
one, and as ranks are distinct at most one row crosses the offset. Without a filter nothing
leaves. The reader
stops at an empty page, so one also needs that ranks have no gaps (`NoGaps`, by the
smallest rank past the offset) and that a page advances by no more than its limit
(`PageSize`, by counting an injection into the ranks).

**GatewayProofs.** For the replay cache, `Remembered`: a token that passed was forgotten
(restart, full bucket), has lost its hour, or is in the cache under its hour. The code prunes
by the hour of the token in hand, not by the clock, so one needs `Begun` as well: no
token in verification is from a later hour than the present. For challenges, `Cleaned` and `Redeemed`
carry over the gap between the two locks of `verify` what was known at the first. For the
limiter, `AtMostTwicePerWindow` sums over an interval of time and is not inductive by
itself: `Rated` says that the counter is the sum since its window began, that
nothing was let through later than the window, and that any span reaching back before
the window holds at most one limit's worth of earlier requests. A request either stays
in the window (`SameWindow`) or opens the next (`NewWindow`), and then the old sum becomes
the earlier part. All this is said of one run of the process; a run that is over lets
nothing more through, and one yet to come has let nothing through (`Limited`). What a run may have
let through before a span depends on whether it had begun by then (`Older`).

**XmrWalletProofs.** `ChainInv`: the chain consists of mined blocks, each at the height it
was mined at, and a payment in a block is in a block of the chain. `PollInv`: a block that
had left the chain when a check began stays away during the check and is the one compared
(`StaysGone`), and without a reorganisation the chain is at least as long as the height
that was read, and a payment about to be credited is buried (`Reached`). From the first follows that a missed fork was met at the same
height or without an answer, from the second that the confirmations computed are at most the depth.

**EscrowProofs, the contract.** `Solvent` is inductive with the types. The work is in the
sum over the open orders, which a call changes by exactly one term: `create` adds one,
each of the three payouts removes one. `LockCovered` follows: a deposit is at most the sum,
so no payout reverts because other orders used up the money, and (`Funded`, inductive by
itself) no open order is empty or without a time in which the seller may claim it. What
remains of `NothingLocked` is that somebody calls.

**EscrowProofs, the coin swap.** The two properties speak of calls that have ended; what makes them
true is what a running call knows. `CallInv`: it names the output that its hop
should spend, and the coin is at this hop or, left there by an earlier call, beyond it. `CoinInv`: after h hops the coin
is output 0 and has paid h fees, and short of the last hop either a call is moving it or
one of the three reasons holds. `DoneInv`: Ok is said only at the last hop. A hop that is
refused after another was sent can only be refused for the amount or the address
(`RefusedKeepsInv`), and the amount is short for all hops if it is short for one
(`FewerFees`). `Dust` is positive in the code; were it 0, the saturating subtraction could
pass a hop whose fee the amount does not cover.

**MigrationsProofs.** First the text of the migrations is read off (`Shapes`): each is
plain statements, which touch neither a rebuilt table nor its copy, and a record at the
end; V1 also creates the two tables, and V10 and V11 have their creation, INSERT, DROP and RENAME
at fixed places. `MigTypeOK` follows for any interleaving; that the version read has a
successor needs a maximum of the recorded versions. For `NoRowLost` the invariant is
`MigKept`: with v versions recorded, a migrating process is at version v + 1 and alone in it, or
in a version where start-ups overlapped, and one that is up has all of its release
(`Versions`); the rows clients know of are in
the table while it exists, otherwise in the copy, and then the rebuild is still ahead for
the installed release (`Held`); between INSERT and DROP the copy holds all
rows, after the RENAME the table is back (`Midway`). `Held` and `Midway` are claimed of a table
only if nobody else came into its rebuild. An overlap in any other version is harmless
to its rows, but for one that needs an argument: a process still in V1 could create the
table anew between another's DROP and RENAME. `First` excludes it once a row is known, for
a process in V1 then belongs to a release that is complete.

For `ServesOnModelSchema` no schema is written down for each point of each migration;
`MigLaid` says instead what a statement that has run leaves for good, where a statement has
run (`Ran`) if its version is recorded or some process is past it. A dropped table stays
gone, as its CREATE belongs to an earlier version, which must be run alone and so does not
run again. After its rebuild a table has the columns of the copy and gains only columns of the models.
An ALTER after the rebuild has its column, whether it added it or `column_exists` had found
it (`FoundIs`), unless it was refused and logged. The copies and
`notification_tracker` have just the columns they are created with. A crash takes nothing of
this away, since it only makes fewer statements count as run. With all 18 versions recorded
these facts, over all statements, leave no table or column but those of the models.

`MigOnlyTornFails` is the safety half of `EventuallyUpOrTorn`: where no overlap touched an
`Exclusive` version, a process in a version of its own fails only at the INSERT of a rebuild
in a torn state, or for a column (`Unadded`): an index or an INSERT needs one whose ALTER was
refused, or an ALTER whose error counts meets its column, which takes a fault as
well. (A process that shares its version with another may also fail because the other
recorded it first; the next start goes on.) `MigStands` adds what statements rely on while they
run: an existing table has the columns of its CREATE or already those of its rebuild
(`Founded`); a created table stands at least until its version is recorded, one to be
rebuilt until its rebuild begins, and so do the columns added before (`AllStand`); from its CREATE to its RENAME the copy is there,
and before the RENAME the original is gone (`Between`); a column that was not found is
still missing at its ALTER (`Missed`). So every index finds its column, each DROP and RENAME
its table. What fails is an INSERT whose
copy was filled before, or whose source is gone or rebuilt already. The other half, that a
start-up which does not fail ends, is liveness and stays with TLC.

**SumTheorems.** The community module's sum folds a set in the order CHOOSE gives. That
the recursion has a solution and that the order does not matter is an induction over the
set; as the provers cannot instantiate the library's induction theorems, it is carried out
with a smallest set for which the claim fails, by the well-foundedness of strict inclusion.

Proved: all safety properties of the passing runs, invariants and action properties, and
the refinement of `OrderLifecycle`, but for one. Only model-checked:

* the liveness properties (`NoOrderStaysOverdue`, `NoListingStaysOverdue`,
  `EventuallyUpOrTorn`, `BuriedIsCreditedOrStuck`, `NothingLocked`), which are outside what
  the prover does;
* `NoRaceForPayout`, which speaks of ENABLED.

## 5. Not modelled

* **Notification scanner, BTC wallet client.** `rpc_call` returns the `result` of an
  answer, and the callers decode it into a struct that has a field `result` once more, so
  against bitcoind each call fails. A scan ends with its first RPC. (It also accepts
  32-byte order identifiers only, and identifiers have 16 bytes.) `PaymentPoller`
  over-approximates the BTC client; the scanner would have no further step.
* **Settlement PSBT.** `settle_stealth_order` pays out the whole input and leaves no
  miner fee; its amounts are arithmetic without state. The payment job has it as
  broadcast-or-fail.
* **Payment subscription.** `payment_tx` is a channel inside one process; the worker
  publishes (`bin/worker.rs`), the API subscribes, and nothing connects them.
* **Keys and start-up.** `rotate_kek` writes `kek.hex`; `load_kek` reads only the
  environment. Configuration, Tor and the SOCKS pool keep no state that a later step
  depends on.
* **Middlewares** (validation, padding, error unifier, Tor guard): stateless.
* **Cryptography**: ideal. **Browser client**: the order of its calls only.
* **Statements about listings nothing depends on**: `time_lock_days` is never read; a
  create nonce is kept until the restart, not for an hour; the `day_bucket` in the answer
  to an update is the current one, that of the row stays.
* **Dummy orders** store an `expiry_bucket` that is no bucket boundary, unlike real ones.
