----------------------------- MODULE Listings -----------------------------
(***************************************************************************)
(* The listings table: the API's handlers (services/listings.rs) and the   *)
(* worker's expiry job (background/listing_expiry.rs).  Handlers are blind *)
(* to blobs; the job reads only those an earlier release sealed with the   *)
(* worker's key.  currency and search_token are further columns a client   *)
(* sets and filters by, like status, which stands for the three; requests  *)
(* refused before any state is touched (hex, size, labels) are left out.   *)
(***************************************************************************)
EXTENDS Naturals, FiniteSets, FiniteSetsExt

CONSTANTS
    Ids,           \* listing ids; numbers, since pages are ordered by id
    Requests,      \* create_listing and update_listing requests
    Nonces,        \* nonces clients put into requests, as they are written
    Statuses,      \* status labels clients send
    ExpiresAt,     \* expiry times of listings sealed by an earlier release
    Never,         \* a number past every time: expires_at left out
    Limits,        \* page sizes the reader asks for
    Filters,       \* statuses the reader filters by, or None
    MaxLimit,      \* the 100 of clamp(1, 100)
    Bucket,        \* six hours
    MaxTime,       \* bound of the clock
    MaxRestarts    \* bound on restarts of the API and aborted scans

ASSUME IdsAssumption == Ids \subseteq Nat /\ IsFiniteSet(Ids)
ASSUME ExpiresAssumption == ExpiresAt \subseteq Nat /\ Never \in Nat \ ExpiresAt
ASSUME BucketAssumption == Bucket \in Nat \ {0}
ASSUME LimitAssumption == MaxLimit \in Nat \ {0} /\ Limits \subseteq Nat
ASSUME RequestsAssumption == IsFiniteSet(Requests)
ASSUME BoundAssumption == MaxTime \in Nat /\ MaxRestarts \in Nat

VARIABLES
    listings,   \* the table
    clock,
    st,         \* each request: what it asks for and how far it is
    nonces,     \* CREATE_NONCES and UPDATE_NONCES, in memory
    boots,      \* restarts of the API process and aborted scans
    job,        \* the expiry scan in progress
    expired,    \* how often the job has written each listing
    reader      \* a client paging through GET /listings

apiVars == <<st, nonces, boots>>
vars == <<listings, clock, apiVars, job, expired, reader>>

None == "none"
NoRow == [version |-> 0]
Exists(l) == listings[l] # NoRow
floor_timestamp_6h(t) == (t \div Bucket) * Bucket

(* A blob is the client's, or sealed with the worker's key around a        *)
(* ListingData, of which the job reads expires_at.                         *)
ClientBlob == [key |-> "client", expires_at |-> Never]
WorkerBlob(exp) == [key |-> "worker", expires_at |-> exp]
Blobs == {ClientBlob} \cup {WorkerBlob(exp) : exp \in ExpiresAt \cup {Never}}

AllStatuses == Statuses \cup {"active", "expired"}
Row == [version : Nat, status : AllStatuses, blob : Blobs, day_bucket : Nat]

Pending == {"new", "fetched", "read"}
Results == {"created", "updated", "conflict", "not_found", "replay", "lost"}

ListTypeOK ==
    /\ listings \in [Ids -> Row \cup {NoRow}]
    /\ clock \in 0 .. MaxTime
    /\ \A r \in Requests : st[r].pc \in Pending \cup Results
    /\ boots \in 0 .. MaxRestarts
    /\ job.snap \in [Ids -> Row \cup {NoRow}]
    /\ reader.pc \in {"idle", "paging", "done"}

(* A database as an earlier release left it, some listings sealed by the   *)
(* server.                                                                 *)
ListInit ==
    /\ listings \in [Ids -> {NoRow} \cup {[version |-> 1, status |-> "active", blob |-> WorkerBlob(exp),
                                           day_bucket |-> 0] : exp \in ExpiresAt \cup {Never}}]
    /\ clock = 0
    /\ st = [r \in Requests |-> [pc |-> "new"]]
    /\ nonces = {}
    /\ boots = 0
    /\ job = [snap |-> [l \in Ids |-> NoRow], now |-> 0]
    /\ expired = [l \in Ids |-> 0]
    /\ reader = [pc |-> "idle", filter |-> None, limit |-> 1, offset |-> 0, owed |-> {}, left |-> 0]

-----------------------------------------------------------------------------
(* status = None: the request leaves the label out. *)
CreateListingRequest == [nonce : Nonces, status : Statuses \cup {None}]
UpdateListingRequest == [listing : Ids, nonce : Nonces, status : Statuses \cup {None}, blob : Blobs]

FinalStatus_Raw(req, default) == req.status
FinalStatus(req, default) == IF req.status = None THEN default ELSE req.status

Reply(r, result) == st' = [st EXCEPT ![r] = [pc |-> result]]

(* The keys under which the two nonce caches remember a request. *)
CreateNonceKey(req) == <<"create", req.nonce>>
UpdateNonceKey(req) == <<"update", req.listing, req.nonce>>

(* check_create_nonce_replay, then INSERT under a fresh UUID. *)
create_listing(r, req) ==
    /\ st[r].pc = "new"
    /\ \/ /\ CreateNonceKey(req) \in nonces
          /\ Reply(r, "replay")
          /\ UNCHANGED listings
       \/ /\ CreateNonceKey(req) \notin nonces
          /\ \E l \in Ids :
                /\ ~ Exists(l)
                /\ listings' = [listings EXCEPT ![l] =
                     [version |-> 1, blob |-> ClientBlob, day_bucket |-> floor_timestamp_6h(clock),
                      status |-> FinalStatus(req, "active")]]
          /\ Reply(r, "created")
    /\ nonces' = nonces \cup {CreateNonceKey(req)}
    /\ UNCHANGED <<clock, boots, job, expired, reader>>

(* GET /listings/{id}: the client has the blob as it is now and may send   *)
(* it back at any time.                                                    *)
get_listing(r, l) ==
    /\ st[r].pc = "new"
    /\ Exists(l)
    /\ st' = [st EXCEPT ![r] = [pc |-> "fetched", listing |-> l, blob |-> listings[l].blob]]
    /\ UNCHANGED <<listings, clock, nonces, boots, job, expired, reader>>

(* What a client can send: a blob of its own, or the one it has fetched.   *)
Sends(r, req) ==
    \/ st[r].pc = "new" /\ req.blob = ClientBlob
    \/ st[r].pc = "fetched" /\ req.listing = st[r].listing /\ req.blob = st[r].blob

(* update_listing up to its SELECT: the nonce is spent before the row is   *)
(* looked at.                                                              *)
update_listing_read(r, req) ==
    LET l == req.listing  key == UpdateNonceKey(req) IN
    /\ Sends(r, req)
    /\ \/ key \in nonces /\ Reply(r, "replay")
       \/ key \notin nonces /\ ~ Exists(l) /\ Reply(r, "not_found")
       \/ /\ key \notin nonces /\ Exists(l)
          /\ st' = [st EXCEPT ![r] = [pc |-> "read", listing |-> l, version |-> listings[l].version,
                                      status |-> FinalStatus(req, listings[l].status),
                                      omitted |-> req.status = None, blob |-> req.blob]]
    /\ nonces' = nonces \cup {key}
    /\ UNCHANGED <<listings, clock, boots, job, expired, reader>>

-----------------------------------------------------------------------------
(* GET /listings.  The rows that match the filter, if there is one, are    *)
(* ordered by day_bucket and id, both descending; a page is LIMIT rows     *)
(* from OFFSET on.                                                         *)
Clamp(n) == IF n < 1 THEN 1 ELSE IF n > MaxLimit THEN MaxLimit ELSE n

Matches(l, filter) == Exists(l) /\ (filter = None \/ listings[l].status = filter)
Before(i, j) == \/ listings[i].day_bucket > listings[j].day_bucket
                \/ listings[i].day_bucket = listings[j].day_bucket /\ i > j
Rank(j, filter) == Cardinality({i \in Ids : Matches(i, filter) /\ Before(i, j)})

list_listings(filter, limit, offset) ==
    {j \in Ids : Matches(j, filter) /\ Rank(j, filter) \in offset .. offset + Clamp(limit) - 1}

(* A client asks for page after page, from where the last one ended, until *)
(* one comes back empty.  History: owed, the listings that have matched    *)
(* since it began and that it has not seen; left, how often one has        *)
(* stopped to match.                                                       *)
StartPaging(filter, limit) ==
    /\ reader.pc = "idle"
    /\ reader' = [pc |-> "paging", filter |-> filter, limit |-> limit, offset |-> 0,
                  owed |-> {l \in Ids : Matches(l, filter)}, left |-> 0]
    /\ UNCHANGED <<listings, clock, apiVars, job, expired>>

NextPage ==
    LET page == list_listings(reader.filter, reader.limit, reader.offset) IN
    /\ reader.pc = "paging"
    /\ reader' = IF page = {} THEN [reader EXCEPT !.pc = "done"]
                 ELSE [reader EXCEPT !.owed = @ \ page, !.offset = @ + Cardinality(page)]
    /\ UNCHANGED <<listings, clock, apiVars, job, expired>>

(* Row l becomes row: its column changes, and the reader's history notes   *)
(* when the row no longer matches.                                         *)
Leaves(l, row) == /\ reader.pc = "paging"
                  /\ Matches(l, reader.filter)
                  /\ reader.filter # None /\ row.status # reader.filter
UpdateRow(l, row) ==
    /\ listings' = [listings EXCEPT ![l] = row]
    /\ reader' = IF Leaves(l, row) THEN [reader EXCEPT !.owed = @ \ {l}, !.left = @ + 1]
                                    ELSE reader

-----------------------------------------------------------------------------
RowsAffected_AnyVersion(l, v) == Exists(l)
RowsAffected(l, v) == Exists(l) /\ listings[l].version = v

(* The blob is stored as sent.  An update without a status writes the one  *)
(* the SELECT returned; the day_bucket stays.                              *)
Updated_Bumped(row, req) ==
    [row EXCEPT !.version = @ + 1, !.blob = req.blob, !.status = req.status,
                !.day_bucket = floor_timestamp_6h(clock)]
Updated_NoBump(row, req) == [row EXCEPT !.blob = req.blob, !.status = req.status]
Updated(row, req) ==
    [row EXCEPT !.version = @ + 1, !.blob = req.blob, !.status = req.status]

update_listing_write(r) ==
    LET l == st[r].listing IN
    /\ st[r].pc = "read"
    /\ \/ /\ RowsAffected(l, st[r].version)
          /\ UpdateRow(l, Updated(listings[l], st[r]))
          /\ st' = [st EXCEPT ![r] = [pc |-> "updated", listing |-> l]]
       \/ /\ ~ RowsAffected(l, st[r].version)
          /\ Reply(r, "conflict")
          /\ UNCHANGED <<listings, reader>>
    /\ UNCHANGED <<clock, nonces, boots, job, expired>>

(* Nonces and unfinished requests are lost. *)
ApiRestart ==
    /\ boots < MaxRestarts
    /\ boots' = boots + 1
    /\ nonces' = {}
    /\ st' = [r \in Requests |-> IF st[r].pc = "read" THEN [pc |-> "lost"] ELSE st[r]]
    /\ UNCHANGED <<listings, clock, job, expired, reader>>

-----------------------------------------------------------------------------
(* check_listing_expiry: SELECT every active listing, then one at a time.  *)
check_listing_expiry ==
    /\ \A l \in Ids : job.snap[l] = NoRow
    /\ \E l \in Ids : Exists(l) /\ listings[l].status = "active"
    /\ job' = [snap |-> [l \in Ids |-> IF Exists(l) /\ listings[l].status = "active"
                                         THEN listings[l] ELSE NoRow],
               now |-> floor_timestamp_6h(clock)]
    /\ UNCHANGED <<listings, clock, apiVars, expired, reader>>

decrypt_listing_blob_ok(blob) == blob.key = "worker"
Expires_Exactly(row, now) ==
    /\ decrypt_listing_blob_ok(row.blob)
    /\ row.blob.expires_at # Never /\ now = row.blob.expires_at
Expires(row, now) ==
    /\ decrypt_listing_blob_ok(row.blob)
    /\ row.blob.expires_at # Never /\ now >= row.blob.expires_at

expire_listing(l) ==
    LET row == job.snap[l] IN
    /\ row # NoRow
    /\ job' = [job EXCEPT !.snap[l] = NoRow]
    /\ \/ /\ Expires(row, job.now) /\ RowsAffected(l, row.version)
          /\ UpdateRow(l, [listings[l] EXCEPT !.status = "expired", !.blob = row.blob,
                                              !.version = @ + 1])
          /\ expired' = [expired EXCEPT ![l] = @ + 1]
       \/ /\ ~ (Expires(row, job.now) /\ RowsAffected(l, row.version))
          /\ UNCHANGED <<listings, expired, reader>>
    /\ UNCHANGED <<clock, apiVars>>

(* A database error ends the scan, as a restart of the worker does. *)
ScanAborts ==
    /\ boots < MaxRestarts
    /\ \E l \in Ids : job.snap[l] # NoRow
    /\ boots' = boots + 1
    /\ job' = [job EXCEPT !.snap = [l \in Ids |-> NoRow]]
    /\ UNCHANGED <<listings, clock, st, nonces, expired, reader>>

Tick ==
    /\ clock < MaxTime
    /\ clock' = clock + 1
    /\ UNCHANGED <<listings, apiVars, job, expired, reader>>

ListNext ==
    \/ \E r \in Requests : update_listing_write(r)
    \/ \E r \in Requests, req \in CreateListingRequest : create_listing(r, req)
    \/ \E r \in Requests, req \in UpdateListingRequest : update_listing_read(r, req)
    \/ \E r \in Requests, l \in Ids : get_listing(r, l)
    \/ \E filter \in Filters, n \in Limits : StartPaging(filter, n)
    \/ \E l \in Ids : expire_listing(l)
    \/ NextPage
    \/ check_listing_expiry
    \/ ApiRestart
    \/ ScanAborts
    \/ Tick

ListSpec == ListInit /\ [][ListNext]_vars

(* The worker's loop runs for ever and time passes; clients owe nothing.   *)
ListFairness ==
    /\ WF_vars(Tick)
    /\ WF_vars(check_listing_expiry)
    /\ WF_vars(\E l \in Ids : expire_listing(l))

-----------------------------------------------------------------------------
(* Every commit counts: a listing's version is one more than the updates   *)
(* that committed, answered or not, and the job's own; none is lost to     *)
(* another and none is counted twice.                                      *)
Committed(l) == {r \in Requests : st[r].pc = "updated" /\ st[r].listing = l}
VersionCountsUpdates ==
    \A l \in Ids : Exists(l) => listings[l].version = 1 + Cardinality(Committed(l)) + expired[l]

(* An update that leaves the status out keeps the one the listing has at   *)
(* that moment, though it was read in an earlier statement: it cannot      *)
(* bring a listing back that the job or another client has taken down      *)
(* since.                                                                  *)
Commits(r) == st[r].pc = "read" /\ st'[r].pc = "updated"
OmittedStatusKept ==
    [][\A r \in Requests : Commits(r) /\ st[r].omitted
          => listings'[st[r].listing].status = listings[st[r].listing].status]_vars

(* The job takes a listing down only when the row, as it is when           *)
(* overwritten, has expired: an owner's new blob is not replaced by the    *)
(* one the scan read.                                                      *)
ExpiresOnlyWhatItRead ==
    [][\A l \in Ids : expired'[l] # expired[l] =>
          /\ listings[l].blob \in {WorkerBlob(exp) : exp \in {e \in ExpiresAt : e <= clock}}
          /\ listings[l].status = "active"
          /\ listings'[l].blob = listings[l].blob]_vars

(* A client that reads page after page misses at most one listing for each *)
(* time a row has stopped to match its filter meanwhile: whatever else is  *)
(* created, updated or taken down, no listing that matched all along slips *)
(* from a page still to come to one already read.  Without a filter        *)
(* nothing leaves, and it sees every listing that was there when it began. *)
PagingSkipsNothing ==
    reader.pc = "done" => /\ Cardinality(reader.owed) <= reader.left
                          /\ reader.filter = None => reader.owed = {}

(* A sealed listing past its expiry does not stay active, also when its    *)
(* owner sends the sealed blob back: the conflict that the update means    *)
(* for a scan only leaves the listing for a later one.                     *)
Overdue(l) == /\ Exists(l) /\ listings[l].status = "active"
              /\ listings[l].blob \in {WorkerBlob(exp) : exp \in
                                         {e \in ExpiresAt : e <= floor_timestamp_6h(MaxTime)}}
NoListingStaysOverdue == \A l \in Ids : [](Overdue(l) => <>~ Overdue(l))
=============================================================================
