------------------------------ MODULE OrderApi ------------------------------
(***************************************************************************)
(* The API process's handlers on the orders table: services/orders.rs,     *)
(* services/disputes.rs and services/chat.rs.  The process is blind: it    *)
(* never looks inside a blob.  Each handler reads the row's version in one *)
(* statement and writes in a second one, so handlers of several requests   *)
(* interleave between the two.                                             *)
(*                                                                         *)
(* A handler's nonce check is a critical section over process memory next  *)
(* to a SELECT, with no other effect between them; the two are one step    *)
(* here.  Requests refused before any state is touched (bad hex, base64,   *)
(* size, HMAC) leave no trace and are not modelled.                        *)
(***************************************************************************)
EXTENDS OrdersTable, FiniteSets

CONSTANTS
    CallOps,      \* the operations clients call in this instance
    Nonces,       \* nonces clients put into requests
    Spellings,    \* ways to write an order id and a nonce in hexadecimal
    ClientBlobs,  \* order blobs clients send
    HourLen,      \* length of an hour on the clock
    MaxRestarts   \* bound: restarts of the API process

ASSUME ClientBlobsAssumption == ClientBlobs \subseteq ClientBlob
ASSUME RequestsAssumption == IsFiniteSet(Requests)
ASSUME HourLenAssumption == HourLen \in Nat \ {0}
ASSUME MaxRestartsAssumption == MaxRestarts \in Nat

VARIABLES
    call,    \* what each request asks for; fixed
    st,      \* progress of each request
    nonces,  \* the process's in-memory replay caches
    boots    \* how often the API process has been restarted

apiVars == <<call, st, nonces, boots>>

Ops == {"create", "update", "open_dispute", "update_dispute", "resolve_dispute", "chat"}
Caches == {"create", "update", "dispute", "admin", "chat"}
Results == {"ok", "unacked", "conflict", "not_found", "replay", "auth_failed", "forbidden",
            "bad_request", "lost", "unanswered"}
Pending == {"new", "version_read", "composed", "read"}

ASSUME CallOpsAssumption == CallOps \subseteq Ops

Call == [op : Ops, order : Orders, nonce : Nonces, spelling : Spellings, expiry_hour : Nat]

(* v: the version the handler read, and once committed the version it made.*)
(* "unacked": committed, but the answer never reached the client (the      *)
(* process stopped after the UPDATE, or the connection broke).             *)
(* "lost": cut off by a restart between its SELECT and its UPDATE;         *)
(* "unanswered": a get_chat cut off between its two SELECTs.               *)
(* signed: the version inside the client's transition signature.           *)
(* seen, seen_version: the messages get_chat returned and the version the  *)
(* row had when its chat column was read.                                  *)
Progress == [pc : Pending \cup Results, v : Nat, signed : Nat,
             seen : SUBSET Requests, seen_version : Nat, boot : Nat]

ApiTypeOK ==
    /\ call \in [Requests -> Call]
    /\ st \in [Requests -> Progress]
    /\ nonces \subseteq Caches \X (Orders \cup {"any"}) \X Nonces \X Spellings
    /\ boots \in 0 .. MaxRestarts

ApiInit ==
    /\ call \in [Requests -> [op : CallOps, order : Orders, nonce : Nonces,
                              spelling : Spellings, expiry_hour : 0 .. MaxTime \div HourLen]]
    /\ \A r \in Requests : call[r].op # "resolve_dispute" => call[r].expiry_hour = 0
    /\ st = [r \in Requests |-> [pc |-> "new", v |-> 0, signed |-> 0, seen |-> {},
                                 seen_version |-> 0, boot |-> 0]]
    /\ nonces = {}
    /\ boots = 0

-----------------------------------------------------------------------------
RowOf(r) == orders[call[r].order]

(* The cache a handler's nonce check uses and the key it inserts: the text *)
(* of the order id and of the nonce as the client wrote them, not the bytes*)
(* they decode to, so that "AB" and "ab" are two keys.  Nonces of          *)
(* create_order are not tied to an order.                                  *)
NonceKey(r) ==
    LET c == call[r] IN
    CASE c.op = "create"          -> <<"create", "any", c.nonce, c.spelling>>
      [] c.op = "update"          -> <<"update", c.order, c.nonce, c.spelling>>
      [] c.op = "resolve_dispute" -> <<"admin", c.order, c.nonce, c.spelling>>
      [] c.op = "chat"            -> <<"chat", c.order, c.nonce, c.spelling>>
      [] OTHER                    -> <<"dispute", c.order, c.nonce, c.spelling>>

(* Definitions named X_Fault are faulty variants of X, here to see the     *)
(* properties fail; no specification uses them.                            *)
ConsumeNonce_NoInsert(r) == UNCHANGED nonces
ConsumeNonce(r) == nonces' = nonces \cup {NonceKey(r)}
NonceUsed(r) == NonceKey(r) \in nonces
KeepNonce(r) == UNCHANGED nonces

Reply(r, result) == st' = [st EXCEPT ![r].pc = result, ![r].boot = boots]

(* The end of a handler's first half: the SELECT found version v. *)
HaveVersion(r, signed) ==
    st' = [st EXCEPT ![r].pc = "read", ![r].v = RowOf(r).version,
                     ![r].signed = signed, ![r].boot = boots]

create_order(r) ==
    /\ call[r].op = "create"
    /\ st[r].pc = "new"
    /\ \/ /\ NonceUsed(r)
          /\ Reply(r, "replay")
          /\ UNCHANGED <<orders, nonces>>
       \/ /\ ~ NonceUsed(r)
          /\ ~ Exists(call[r].order)          \* a fresh UUID
          /\ ConsumeNonce(r)
          /\ \E blob \in ClientBlobs, lock \in Locks :
                orders' = [orders EXCEPT ![call[r].order] =
                   NewRow(blob, floor_timestamp_6h(floor_timestamp_6h(clock) + lock))]
          /\ \E pc \in {"ok", "unacked"} :
                st' = [st EXCEPT ![r].pc = pc, ![r].v = 1, ![r].boot = boots]
    /\ UNCHANGED <<call, boots>>

(* check nonce, SELECT version, verify the signature over that version.    *)
(* A client has seen the version it signs, so it is not in the future.     *)
update_order_read(r) ==
    /\ call[r].op = "update"
    /\ st[r].pc = "new"
    /\ \/ NonceUsed(r) /\ KeepNonce(r) /\ Reply(r, "replay")
       \/ /\ ~ NonceUsed(r)
          /\ ConsumeNonce(r)
          /\ \/ ~ Exists(call[r].order) /\ Reply(r, "not_found")
             \/ /\ Exists(call[r].order)         \* malformed, or not the caller's signature
                /\ \E result \in {"bad_request", "auth_failed"} : Reply(r, result)
             \/ \E signed \in 1 .. RowOf(r).version :
                   \/ signed # RowOf(r).version /\ Reply(r, "auth_failed")
                   \/ signed = RowOf(r).version /\ HaveVersion(r, signed)
    /\ UNCHANGED <<orders, call, boots>>

(* open_dispute and update_dispute: check nonce, SELECT version. *)
dispute_read(r) ==
    /\ call[r].op \in {"open_dispute", "update_dispute"}
    /\ st[r].pc = "new"
    /\ \/ NonceUsed(r) /\ KeepNonce(r) /\ Reply(r, "replay")
       \/ /\ ~ NonceUsed(r)
          /\ ConsumeNonce(r)
          /\ \/ ~ Exists(call[r].order) /\ Reply(r, "not_found")
             \/ Exists(call[r].order) /\ HaveVersion(r, 0)
    /\ UNCHANGED <<orders, call, boots>>

(* Token expiry, token nonce, the checks that follow it, SELECT version. *)
now_hour == clock \div HourLen
TokenExpired(r) == call[r].expiry_hour - now_hour \notin -1 .. 1

resolve_dispute_read(r) ==
    /\ call[r].op = "resolve_dispute"
    /\ st[r].pc = "new"
    /\ \/ TokenExpired(r) /\ KeepNonce(r) /\ Reply(r, "forbidden")
       \/ ~ TokenExpired(r) /\ NonceUsed(r) /\ KeepNonce(r) /\ Reply(r, "replay")
       \/ /\ ~ TokenExpired(r)
          /\ ~ NonceUsed(r)
          /\ ConsumeNonce(r)
          /\ \/ Reply(r, "bad_request")       \* outcome blob malformed or too large
             \/ ~ Exists(call[r].order) /\ Reply(r, "not_found")
             \/ Exists(call[r].order) /\ HaveVersion(r, 0)
    /\ UNCHANGED <<orders, call, boots>>

get_chat_Swapped(r) ==
    /\ call[r].op = "chat"
    /\ \/ /\ st[r].pc = "new"
          /\ Exists(call[r].order)
          /\ st' = [st EXCEPT ![r].pc = "version_read", ![r].seen = RowOf(r).chat,
                              ![r].seen_version = RowOf(r).version]
       \/ /\ st[r].pc = "version_read"
          /\ st' = [st EXCEPT ![r].pc = "composed", ![r].v = RowOf(r).version]
    /\ UNCHANGED <<orders, call, nonces, boots>>

(* get_chat answers with the version from a first SELECT and the chat blob *)
(* from a second one.  A client calls it before it composes a message.     *)
get_chat(r) ==
    /\ call[r].op = "chat"
    /\ \/ /\ st[r].pc = "new"
          /\ ~ Exists(call[r].order)
          /\ st' = [st EXCEPT ![r].pc = "composed"]
       \/ /\ st[r].pc = "new"
          /\ Exists(call[r].order)
          /\ st' = [st EXCEPT ![r].pc = "version_read", ![r].v = RowOf(r).version]
       \/ /\ st[r].pc = "version_read"
          /\ st' = [st EXCEPT ![r].pc = "composed", ![r].seen = RowOf(r).chat,
                              ![r].seen_version = RowOf(r).version]
    /\ UNCHANGED <<orders, call, nonces, boots>>

(* update_chat: SELECT version, and only then the nonce check. *)
update_chat_read(r) ==
    /\ call[r].op = "chat"
    /\ st[r].pc = "composed"
    /\ \/ ~ Exists(call[r].order) /\ KeepNonce(r) /\ Reply(r, "not_found")
       \/ Exists(call[r].order) /\ NonceUsed(r) /\ KeepNonce(r) /\ Reply(r, "replay")
       \/ /\ Exists(call[r].order)
          /\ ~ NonceUsed(r)
          /\ ConsumeNonce(r)
          /\ HaveVersion(r, 0)
    /\ UNCHANGED <<orders, call, boots>>

-----------------------------------------------------------------------------
(* The columns a handler's UPDATE sets, on a row whose other columns stay. *)
update_order_set(row, blob) == [row EXCEPT !.blob = blob]
open_dispute_set(row) == [row EXCEPT !.dispute_client_blob = "claim", !.has_dispute = TRUE]
update_dispute_set(row) == [row EXCEPT !.dispute_client_blob = "claim"]
resolve_dispute_set(row) == [row EXCEPT !.dispute_client_blob = "outcome", !.has_dispute = FALSE]
update_chat_set(row, messages) == [row EXCEPT !.chat = messages]

SetColumns(r, row) ==
    CASE call[r].op = "open_dispute"    -> open_dispute_set(row)
      [] call[r].op = "update_dispute"  -> update_dispute_set(row)
      [] call[r].op = "resolve_dispute" -> resolve_dispute_set(row)
      [] call[r].op = "chat"            -> update_chat_set(row, st[r].seen \cup {r})

Commit_Unchecked(r, row) ==
    /\ IF RowsAffected(call[r].order, st[r].v)
         THEN UpdateRow(call[r].order, row) ELSE UNCHANGED orders
    /\ st' = [st EXCEPT ![r].pc = "ok", ![r].v = @ + 1]

(* The conditional UPDATE and the rows_affected check of every handler. *)
Commit(r, row) ==
    \/ /\ RowsAffected(call[r].order, st[r].v)
       /\ UpdateRow(call[r].order, row)
       /\ \E pc \in {"ok", "unacked"} :
             st' = [st EXCEPT ![r].pc = pc, ![r].v = @ + 1]
    \/ /\ ~ RowsAffected(call[r].order, st[r].v)
       /\ Reply(r, "conflict")
       /\ UNCHANGED orders

update_order_write(r) ==
    /\ call[r].op = "update"
    /\ st[r].pc = "read"
    /\ \E blob \in ClientBlobs : Commit(r, update_order_set(RowOf(r), blob))
    /\ UNCHANGED <<call, nonces, boots>>

dispute_or_chat_write(r) ==
    /\ call[r].op \notin {"create", "update"}
    /\ st[r].pc = "read"
    /\ Commit(r, SetColumns(r, RowOf(r)))
    /\ UNCHANGED <<call, nonces, boots>>

(* The process stops and is started again: handlers in flight never answer *)
(* and every static nonce set starts empty.  The table is on disk.         *)
ApiRestart ==
    /\ boots < MaxRestarts
    /\ boots' = boots + 1
    /\ nonces' = {}
    /\ st' = [r \in Requests |-> CASE st[r].pc = "read" -> [st[r] EXCEPT !.pc = "lost"]
                                   [] st[r].pc = "version_read" -> [st[r] EXCEPT !.pc = "unanswered"]
                                   [] OTHER -> st[r]]
    /\ UNCHANGED <<orders, call>>

ApiStep(r) ==
    \/ create_order(r)
    \/ update_order_read(r) \/ update_order_write(r)
    \/ dispute_read(r) \/ resolve_dispute_read(r)
    \/ get_chat(r) \/ update_chat_read(r)
    \/ dispute_or_chat_write(r)

ApiNext == ApiRestart \/ \E r \in Requests : ApiStep(r)

-----------------------------------------------------------------------------
(* The API process on its own, with a clock. *)
Init == TableInit /\ ApiInit
Next == \/ ApiNext /\ UNCHANGED clock
        \/ Tick /\ UNCHANGED <<orders, apiVars>>
vars == <<orders, clock, apiVars>>
Spec == Init /\ [][Next]_vars

TypeOK == TableTypeOK /\ ApiTypeOK

-----------------------------------------------------------------------------
Committed(r) == st[r].pc \in {"ok", "unacked"}
CommittedOn(o) == {r \in Requests : Committed(r) /\ call[r].order = o}

(* The version of a row counts its writes: with only the API writing, it   *)
(* is the number of requests on the order whose write took effect, whether *)
(* or not the client heard of it.  A conflict, a refused request or one    *)
(* cut off by a restart leaves no trace in the row, and no two concurrent  *)
(* read-then-UPDATE handlers share a version.                              *)
VersionCountsCommits ==
    \A o \in Orders : orders[o].version = Cardinality(CommittedOn(o))

(* Each version of a row is the work of one request: two requests never    *)
(* both succeed from the same read, in any interleaving of the handlers'   *)
(* SELECT and UPDATE and across restarts of the API.                       *)
CommitsDistinct ==
    \A r1, r2 \in Requests :
        /\ r1 # r2
        /\ Committed(r1) /\ Committed(r2)
        /\ call[r1].order = call[r2].order
        => st[r1].v # st[r2].v

(* update_order replaces exactly the version its client signed: between    *)
(* the signature check and the UPDATE nobody else may have written the row.*)
UpdateReplacesSignedVersion ==
    [][\A r \in Requests :
          call[r].op = "update" /\ ~ Committed(r) /\ Committed(r)'
          => orders[call[r].order].version = st'[r].signed]_vars

(* "Order was modified by another request" is only said when it was: a     *)
(* request that answers Conflict lost to a write that came after its read. *)
NoSpuriousConflict ==
    \A r \in Requests :
        st[r].pc = "conflict" => st[r].v < orders[call[r].order].version

(* The requests that got past their replay check, whatever became of them  *)
(* afterwards: refused for their signature or their outcome blob, without  *)
(* a row to act on, beaten to the row, cut off by a restart or successful. *)
(* update_chat alone answers NotFound before it looks at the nonce.        *)
PassedNonceCheck(r) ==
    \/ st[r].pc \in {"read", "ok", "unacked", "conflict", "auth_failed", "bad_request", "lost"}
    \/ st[r].pc = "not_found" /\ call[r].op # "chat"

(* While one API process runs, at most one request of a kind gets a nonce, *)
(* written one way, past the replay check of an order; open_dispute and    *)
(* update_dispute share their cache.  The same bytes written another way   *)
(* get past it again, and so does every nonce after a restart.             *)
NonceOncePerBoot ==
    \A r1, r2 \in Requests :
        /\ r1 # r2 /\ PassedNonceCheck(r1) /\ PassedNonceCheck(r2)
        /\ st[r1].boot = st[r2].boot
        => NonceKey(r1) # NonceKey(r2)

(* get_chat takes version and chat blob from two SELECTs.  The version it  *)
(* reports is never newer than the chat it returns, so a client that signs *)
(* that version cannot pass for having seen messages it has not.           *)
ChatVersionNotNewer ==
    \A r \in Requests :
        st[r].pc = "composed" => st[r].v <= st[r].seen_version

-----------------------------------------------------------------------------
(* Statements of the documentation and comments that the code does not keep*)

(* "Admin tokens are single-use with expiry (replay cache)"                *)
(* (docs/THREAT_MODEL.md:102): no token resolves a dispute twice.          *)
AdminTokenSingleUse ==
    \A r1, r2 \in Requests :
        /\ r1 # r2 /\ Committed(r1) /\ Committed(r2)
        /\ call[r1].op = "resolve_dispute"
        => call[r1] # [call[r2] EXCEPT !.spelling = call[r1].spelling]

(* "The client ... decrypts the old blob, appends the new message,         *)
(* re-encrypts, and sends the result here" under a "TOCTOU guard"          *)
(* (services/chat.rs:17, :101): an acknowledged message stays in the chat. *)
AckedMessageKept ==
    \A r \in Requests :
        call[r].op = "chat" /\ st[r].pc = "ok" => r \in RowOf(r).chat
=============================================================================
