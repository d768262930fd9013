--------------------------- MODULE OrderApiProofs ---------------------------
(***************************************************************************)
(* Proofs about the API's handlers, for every set of orders, requests and  *)
(* nonces and every number of restarts.  The lemmas about single steps     *)
(* leave the clock and the rest of the system open, so that the proofs     *)
(* about the whole marketplace can use them too.                           *)
(***************************************************************************)
EXTENDS OrderApi, FiniteSetTheorems, TLAPS

Rows == Row \cup {NoRow}
ApiTyped == orders \in [Orders -> Rows] /\ ApiTypeOK

(* A handler between its SELECT and its UPDATE, or between get_chat's two  *)
(* SELECTs, is working on a row that exists and has not gone back to an    *)
(* earlier version.                                                        *)
InHand ==
    \A r \in Requests : st[r].pc \in {"version_read", "read"} =>
        Exists(call[r].order) /\ st[r].v <= RowOf(r).version

(* A row that exists is a whole row.                                       *)
LEMMA ExistsRow ==
    ASSUME NEW o \in Orders, orders \in [Orders -> Rows], Exists(o)
    PROVE  orders[o] \in Row
BY DEF Exists, Rows, NoRow

(* The columns the handlers set keep a row a row.                          *)
LEMMA SetColumnsType ==
    ASSUME ApiTypeOK, NEW r \in Requests, NEW row \in Row,
           call[r].op \notin {"create", "update"}
    PROVE  /\ SetColumns(r, row) \in Row
           /\ SetColumns(r, row).version = row.version /\ SetColumns(r, row).blob = row.blob
<1>1. call[r].op \in {"open_dispute", "update_dispute", "resolve_dispute", "chat"}
      /\ st[r].seen \in SUBSET Requests
  BY DEF ApiTypeOK, Call, Ops, Progress
<1>2. open_dispute_set(row) \in Row /\ open_dispute_set(row).version = row.version
      /\ open_dispute_set(row).blob = row.blob
  BY DEF open_dispute_set, Row
<1>3. update_dispute_set(row) \in Row /\ update_dispute_set(row).version = row.version
      /\ update_dispute_set(row).blob = row.blob
  BY DEF update_dispute_set, Row
<1>4. resolve_dispute_set(row) \in Row /\ resolve_dispute_set(row).version = row.version
      /\ resolve_dispute_set(row).blob = row.blob
  BY DEF resolve_dispute_set, Row
<1>5. /\ update_chat_set(row, st[r].seen \cup {r}) \in Row
      /\ update_chat_set(row, st[r].seen \cup {r}).version = row.version
      /\ update_chat_set(row, st[r].seen \cup {r}).blob = row.blob
  BY <1>1 DEF update_chat_set, Row
<1> QED BY <1>1, <1>2, <1>3, <1>4, <1>5 DEF SetColumns

(* update_order writes the client blob and keeps a row a row.              *)
LEMMA UpdateOrderSetType ==
    ASSUME NEW row \in Row, NEW blob \in ClientBlobs
    PROVE  update_order_set(row, blob) \in Row
           /\ update_order_set(row, blob).version = row.version
           /\ update_order_set(row, blob).blob = blob
BY ClientBlobsAssumption DEF update_order_set, Row, ClientBlob

(* floor_timestamp_6h stays within the naturals.                           *)
LEMMA FloorType ==
    ASSUME NEW t \in Nat
    PROVE  floor_timestamp_6h(t) \in Nat /\ floor_timestamp_6h(t) <= t
<1> DEFINE q == t \div Bucket
<1>1. q \in Nat /\ q * Bucket <= t
  BY BucketAssumption
<1>2. q * Bucket \in Nat
  BY <1>1, BucketAssumption
<1> QED BY <1>1, <1>2 DEF floor_timestamp_6h

-----------------------------------------------------------------------------
(* Type correctness of one step of the API.                                *)

(* The key a handler looks up is a key of its replay cache.                *)
LEMMA NonceKeyType ==
    ASSUME ApiTypeOK, NEW r \in Requests
    PROVE  NonceKey(r) \in Caches \X (Orders \cup {"any"}) \X Nonces \X Spellings
<1>1. call[r].order \in Orders /\ call[r].nonce \in Nonces /\ call[r].spelling \in Spellings
  BY DEF ApiTypeOK, Call
<1> QED BY <1>1 DEF NonceKey, Caches

(* Answering a request keeps the progress records typed.                   *)
LEMMA ReplyType ==
    ASSUME ApiTypeOK, NEW r \in Requests, NEW result \in Results, Reply(r, result)
    PROVE  st' \in [Requests -> Progress]
<1> DEFINE new == [st[r] EXCEPT !.pc = result, !.boot = boots]
<1>1. st[r] \in Progress /\ boots \in Nat
  BY MaxRestartsAssumption DEF ApiTypeOK
<1>2. new \in Progress
  BY <1>1 DEF Progress
<1>3. st' = [st EXCEPT ![r] = new]
  BY DEF Reply
<1> QED BY <1>2, <1>3 DEF ApiTypeOK

(* So does a SELECT that remembers the version it found.                   *)
LEMMA HaveVersionType ==
    ASSUME ApiTyped, NEW r \in Requests, NEW s \in Nat, HaveVersion(r, s),
           Exists(call[r].order)
    PROVE  st' \in [Requests -> Progress]
<1>1. call[r].order \in Orders
  BY DEF ApiTyped, ApiTypeOK, Call
<1>2. RowOf(r).version \in Nat
  BY <1>1, ExistsRow DEF ApiTyped, RowOf, Row
<1> DEFINE new == [st[r] EXCEPT !.pc = "read", !.v = RowOf(r).version,
                                !.signed = s, !.boot = boots]
<1>3. st[r] \in Progress /\ boots \in Nat
  BY MaxRestartsAssumption DEF ApiTyped, ApiTypeOK
<1>4. new \in Progress
  BY <1>2, <1>3 DEF Progress, Pending
<1>5. st' = [st EXCEPT ![r] = new]
  BY DEF HaveVersion
<1> QED BY <1>4, <1>5 DEF ApiTyped, ApiTypeOK

(* A handler's nonce check keeps the replay caches' type.                  *)
LEMMA NonceType ==
    ASSUME ApiTypeOK, NEW r \in Requests, ConsumeNonce(r) \/ KeepNonce(r)
    PROVE  nonces' \subseteq Caches \X (Orders \cup {"any"}) \X Nonces \X Spellings
BY NonceKeyType DEF ConsumeNonce, KeepNonce, ApiTypeOK

(* So does the conditional UPDATE, whether or not it matches a row.        *)
LEMMA CommitType ==
    ASSUME ApiTyped, NEW r \in Requests, NEW row, Commit(r, row),
           Exists(call[r].order) => row \in Row
    PROVE  orders' \in [Orders -> Rows] /\ st' \in [Requests -> Progress]
<1>1. call[r].order \in Orders
  BY DEF ApiTyped, ApiTypeOK, Call
<1>2. CASE RowsAffected(call[r].order, st[r].v)
  <2>1. row \in Row /\ UpdateRow(call[r].order, row)
    BY <1>2 DEF Commit, RowsAffected
  <2>2. [row EXCEPT !.version = @ + 1] \in Row
    BY <2>1 DEF Row
  <2>3. orders' \in [Orders -> Rows]
    BY <1>1, <2>1, <2>2 DEF UpdateRow, ApiTyped, Rows
  <2>4. PICK pc \in {"ok", "unacked"} : st' = [st EXCEPT ![r].pc = pc, ![r].v = @ + 1]
    BY <1>2 DEF Commit
  <2>5. st' \in [Requests -> Progress]
    BY <2>4 DEF ApiTyped, ApiTypeOK, Progress, Results
  <2> QED BY <2>3, <2>5
<1>3. CASE ~ RowsAffected(call[r].order, st[r].v)
  <2>1. Reply(r, "conflict") /\ UNCHANGED orders
    BY <1>3 DEF Commit
  <2> QED BY <2>1, ReplyType DEF ApiTyped, Results
<1> QED BY <1>2, <1>3

(* The row create_order inserts is a row.                                  *)
LEMMA NewRowType ==
    ASSUME NEW blob \in Blob, NEW expiry \in OptTime
    PROVE  NewRow(blob, expiry) \in Row /\ NewRow(blob, expiry).version = 1
BY DEF NewRow, Row

(* Every handler step keeps every variable of the API typed.               *)
LEMMA ApiStepType ==
    ASSUME ApiTyped, InHand, clock \in Nat, NEW r \in Requests, ApiStep(r)
    PROVE  ApiTyped'
<1> USE DEF ApiTyped
<1>0. /\ call[r].order \in Orders /\ RowOf(r) \in Rows
      /\ Exists(call[r].order) => RowOf(r) \in Row
  BY ExistsRow DEF ApiTypeOK, Call, RowOf
<1>1. CASE create_order(r)
  <2>0. UNCHANGED <<call, boots>>
    BY <1>1 DEF create_order
  <2>1. CASE NonceUsed(r)
    BY <1>1, <2>0, <2>1, ReplyType DEF create_order, Results, ApiTypeOK
  <2>2. CASE ~ NonceUsed(r)
    <3>1. PICK blob \in ClientBlobs, lock \in Locks :
             orders' = [orders EXCEPT ![call[r].order] =
                 NewRow(blob, floor_timestamp_6h(floor_timestamp_6h(clock) + lock))]
      BY <1>1, <2>2 DEF create_order
    <3>2. floor_timestamp_6h(floor_timestamp_6h(clock) + lock) \in Nat
      <4>1. floor_timestamp_6h(clock) + lock \in Nat
        BY FloorType, LocksAssumption
      <4> QED BY <4>1, FloorType
    <3>3. orders' \in [Orders -> Rows]
      BY <1>0, <3>1, <3>2, NewRowType, ClientBlobsAssumption DEF Rows, OptTime, ClientBlob
    <3>4. st' \in [Requests -> Progress]
      BY <1>1, <2>2, MaxRestartsAssumption, SMTT(30) DEF create_order, ApiTypeOK, Progress, Results
    <3>5. nonces' \subseteq Caches \X (Orders \cup {"any"}) \X Nonces \X Spellings
      BY <1>1, <2>2, NonceType DEF create_order
    <3> QED BY <2>0, <3>3, <3>4, <3>5 DEF ApiTypeOK
  <2> QED BY <2>1, <2>2
<1>2. CASE update_order_read(r)
  <2>1. UNCHANGED <<orders, call, boots>>
    BY <1>2 DEF update_order_read
  <2>2. nonces' \subseteq Caches \X (Orders \cup {"any"}) \X Nonces \X Spellings
    BY <1>2, NonceType DEF update_order_read
  <2>3. \/ \E result \in Results : Reply(r, result)
        \/ Exists(call[r].order) /\ \E s \in Nat : HaveVersion(r, s)
    <3>1. CASE \E s \in 1 .. RowOf(r).version :
                  s = RowOf(r).version /\ HaveVersion(r, s)
      <4>1. RowOf(r).version \in Nat /\ 1 <= RowOf(r).version
        BY <1>0, <3>1 DEF Rows, Row, NoRow
      <4> QED BY <1>0, <3>1, <4>1 DEF RowOf, Exists
    <3> QED BY <1>2, <3>1 DEF update_order_read, Results
  <2>4. st' \in [Requests -> Progress]
    BY <2>3, ReplyType, HaveVersionType
  <2> QED BY <2>1, <2>2, <2>4 DEF ApiTypeOK
<1>3. CASE dispute_read(r)
  <2>1. UNCHANGED <<orders, call, boots>>
    BY <1>3 DEF dispute_read
  <2>2. nonces' \subseteq Caches \X (Orders \cup {"any"}) \X Nonces \X Spellings
    BY <1>3, NonceType DEF dispute_read
  <2>3. \/ \E result \in Results : Reply(r, result)
        \/ Exists(call[r].order) /\ HaveVersion(r, 0)
    BY <1>3 DEF dispute_read, Results
  <2>4. st' \in [Requests -> Progress]
    BY <2>3, ReplyType, HaveVersionType
  <2> QED BY <2>1, <2>2, <2>4 DEF ApiTypeOK
<1>4. CASE resolve_dispute_read(r)
  <2>1. UNCHANGED <<orders, call, boots>>
    BY <1>4 DEF resolve_dispute_read
  <2>2. nonces' \subseteq Caches \X (Orders \cup {"any"}) \X Nonces \X Spellings
    BY <1>4, NonceType DEF resolve_dispute_read
  <2>3. \/ \E result \in Results : Reply(r, result)
        \/ Exists(call[r].order) /\ HaveVersion(r, 0)
    BY <1>4 DEF resolve_dispute_read, Results
  <2>4. st' \in [Requests -> Progress]
    BY <2>3, ReplyType, HaveVersionType
  <2> QED BY <2>1, <2>2, <2>4 DEF ApiTypeOK
<1>5. CASE get_chat(r)
  <2>1. RowOf(r).version \in Nat
    BY <1>0 DEF Rows, Row, NoRow
  <2>2. CASE st[r].pc = "new"
    BY <1>5, <2>1, <2>2 DEF get_chat, ApiTypeOK, Progress, Pending
  <2>3. CASE st[r].pc = "version_read" /\ Exists(call[r].order)
    <3>1. RowOf(r).chat \in SUBSET Requests
      BY <1>0, <2>3 DEF Row
    <3> QED BY <1>5, <2>1, <2>3, <3>1, SMTT(30) DEF get_chat, ApiTypeOK, Progress, Pending
  <2> QED BY <1>5, <2>2, <2>3 DEF get_chat, InHand
<1>6. CASE update_chat_read(r)
  <2>1. UNCHANGED <<orders, call, boots>>
    BY <1>6 DEF update_chat_read
  <2>2. nonces' \subseteq Caches \X (Orders \cup {"any"}) \X Nonces \X Spellings
    BY <1>6, NonceType DEF update_chat_read
  <2>3. \/ \E result \in Results : Reply(r, result)
        \/ Exists(call[r].order) /\ HaveVersion(r, 0)
    BY <1>6 DEF update_chat_read, Results
  <2>4. st' \in [Requests -> Progress]
    BY <2>3, ReplyType, HaveVersionType
  <2> QED BY <2>1, <2>2, <2>4 DEF ApiTypeOK
<1>7. CASE update_order_write(r)
  <2>1. PICK blob \in ClientBlobs : Commit(r, update_order_set(RowOf(r), blob))
    BY <1>7 DEF update_order_write
  <2>2. orders' \in [Orders -> Rows] /\ st' \in [Requests -> Progress]
    BY <1>0, <2>1, CommitType, UpdateOrderSetType
  <2> QED BY <1>7, <2>2 DEF update_order_write, ApiTypeOK
<1>8. CASE dispute_or_chat_write(r)
  <2>1. orders' \in [Orders -> Rows] /\ st' \in [Requests -> Progress]
    BY <1>0, <1>8, CommitType, SetColumnsType DEF dispute_or_chat_write
  <2> QED BY <1>8, <2>1 DEF dispute_or_chat_write, ApiTypeOK
<1> QED BY <1>1, <1>2, <1>3, <1>4, <1>5, <1>6, <1>7, <1>8 DEF ApiStep

-----------------------------------------------------------------------------
(* What a step of a request can be, whichever handler takes it.            *)

Refused(r) ==
    /\ \/ /\ KeepNonce(r)
          /\ \/ \E result \in {"replay", "forbidden"} : Reply(r, result)
             \/ call[r].op = "chat" /\ Reply(r, "not_found")
       \/ /\ ~ NonceUsed(r) /\ ConsumeNonce(r)
          /\ \E result \in {"not_found", "auth_failed", "bad_request"} : Reply(r, result)
    /\ UNCHANGED orders

TakesVersion(r) ==
    /\ Exists(call[r].order)
    /\ \E s \in Nat : HaveVersion(r, s) /\ (call[r].op = "update" => s = RowOf(r).version)
    /\ ~ NonceUsed(r) /\ ConsumeNonce(r)
    /\ UNCHANGED orders

Inserts(r) ==
    /\ st[r].pc = "new"
    /\ call[r].op = "create"
    /\ ~ NonceUsed(r) /\ ConsumeNonce(r)
    /\ ~ Exists(call[r].order)
    /\ \E row \in Row : row.version = 1 /\ orders' = [orders EXCEPT ![call[r].order] = row]
    /\ \E pc \in {"ok", "unacked"} :
          st' = [st EXCEPT ![r].pc = pc, ![r].v = 1, ![r].boot = boots]

Writes(r) ==
    /\ st[r].pc = "read"
    /\ RowsAffected(call[r].order, st[r].v)
    /\ \E row \in Row : /\ row.version = st[r].v + 1
                        /\ orders' = [orders EXCEPT ![call[r].order] = row]
    /\ \E pc \in {"ok", "unacked"} : st' = [st EXCEPT ![r].pc = pc, ![r].v = @ + 1]
    /\ UNCHANGED nonces

Conflicts(r) ==
    /\ st[r].pc = "read"
    /\ ~ RowsAffected(call[r].order, st[r].v)
    /\ Reply(r, "conflict")
    /\ UNCHANGED <<orders, nonces>>

(* A request that has an answer takes no further step; the ones that have  *)
(* none take one of six.                                                   *)
LEMMA CommitShape ==
    ASSUME ApiTyped, InHand, NEW r \in Requests, st[r].pc = "read", NEW row \in Row,
           row.version = RowOf(r).version, Commit(r, row), UNCHANGED nonces
    PROVE  Writes(r) \/ Conflicts(r)
<1>1. CASE RowsAffected(call[r].order, st[r].v)
  <2>1. UpdateRow(call[r].order, row)
    BY <1>1 DEF Commit
  <2>2. /\ [row EXCEPT !.version = @ + 1] \in Row
        /\ [row EXCEPT !.version = @ + 1].version = st[r].v + 1
    BY <1>1 DEF Row, RowsAffected, RowOf
  <2> QED BY <1>1, <2>1, <2>2 DEF Writes, Commit, UpdateRow
<1>2. CASE ~ RowsAffected(call[r].order, st[r].v)
  BY <1>2 DEF Conflicts, Commit
<1> QED BY <1>1, <1>2

(* Every handler step is one of six things, seen from the table: a         *)
(* refusal, a SELECT, the first SELECT of get_chat, an INSERT, an UPDATE   *)
(* or a conflict.                                                          *)
LEMMA ApiStepShape ==
    ASSUME ApiTyped, InHand, clock \in Nat, NEW r \in Requests, ApiStep(r)
    PROVE  /\ UNCHANGED <<call, boots>>
           /\ st[r].pc \in Pending
           /\ \/ Refused(r) \/ TakesVersion(r) \/ get_chat(r)
              \/ Inserts(r) \/ Writes(r) \/ Conflicts(r)
<1>0. /\ call[r].order \in Orders
      /\ Exists(call[r].order) => RowOf(r) \in Row
      /\ st[r].pc = "read" => RowOf(r) \in Row
      /\ RowOf(r) \in Rows
  BY ExistsRow DEF ApiTyped, ApiTypeOK, Call, RowOf, InHand
<1> USE DEF Pending, Results
<1>1. CASE create_order(r)
  <2>1. CASE NonceUsed(r)
    BY <1>1, <2>1 DEF create_order, Refused, KeepNonce
  <2>2. CASE ~ NonceUsed(r)
    <3>1. PICK blob \in ClientBlobs, lock \in Locks :
             orders' = [orders EXCEPT ![call[r].order] =
                 NewRow(blob, floor_timestamp_6h(floor_timestamp_6h(clock) + lock))]
      BY <1>1, <2>2 DEF create_order
    <3>2. floor_timestamp_6h(clock) + lock \in Nat
      BY FloorType, LocksAssumption
    <3> DEFINE row == NewRow(blob, floor_timestamp_6h(floor_timestamp_6h(clock) + lock))
    <3>3. row \in Row /\ row.version = 1
      BY <3>2, FloorType, NewRowType, ClientBlobsAssumption DEF OptTime, ClientBlob
    <3> QED BY <1>1, <2>2, <3>1, <3>3 DEF create_order, Inserts
  <2> QED BY <2>1, <2>2
<1>2. CASE update_order_read(r)
  <2>1. ASSUME NEW s \in 1 .. RowOf(r).version, s = RowOf(r).version, HaveVersion(r, s),
               ~ NonceUsed(r), ConsumeNonce(r)
        PROVE  TakesVersion(r)
    <3>1. RowOf(r).version \in Nat /\ 1 <= RowOf(r).version
      BY <1>0, <2>1 DEF Rows, Row, NoRow
    <3> QED BY <1>2, <2>1, <3>1 DEF TakesVersion, update_order_read, Exists, RowOf
  <2> QED BY <1>2, <2>1 DEF update_order_read, Refused
<1>3. CASE dispute_read(r)
  BY <1>3 DEF dispute_read, Refused, TakesVersion
<1>4. CASE resolve_dispute_read(r)
  BY <1>4 DEF resolve_dispute_read, Refused, TakesVersion
<1>5. CASE get_chat(r)
  BY <1>5 DEF get_chat
<1>6. CASE update_chat_read(r)
  BY <1>6 DEF update_chat_read, Refused, TakesVersion
<1>7. CASE update_order_write(r)
  <2>1. PICK blob \in ClientBlobs : Commit(r, update_order_set(RowOf(r), blob))
    BY <1>7 DEF update_order_write
  <2>2. st[r].pc = "read" /\ UNCHANGED <<call, nonces, boots>>
    BY <1>7 DEF update_order_write
  <2> QED BY <1>0, <2>1, <2>2, CommitShape, UpdateOrderSetType
<1>8. CASE dispute_or_chat_write(r)
  <2>1. /\ st[r].pc = "read" /\ UNCHANGED <<call, nonces, boots>>
        /\ call[r].op \notin {"create", "update"} /\ Commit(r, SetColumns(r, RowOf(r)))
    BY <1>8 DEF dispute_or_chat_write
  <2> QED BY <1>0, <2>1, CommitShape, SetColumnsType DEF ApiTyped
<1> QED BY <1>1, <1>2, <1>3, <1>4, <1>5, <1>6, <1>7, <1>8 DEF ApiStep

-----------------------------------------------------------------------------
(* The inductive invariant.  CommitsDistinct and NoSpuriousConflict need   *)
(* that no version a request knows of is ahead of its row; NonceOncePerBoot*)
(* needs that what passed a nonce check in this process's life is cached.  *)

CommitsBehind ==
    \A r \in Requests : Committed(r) => st[r].v <= RowOf(r).version
NewUntouched ==
    \A r \in Requests : st[r].pc = "new" => st[r].v = 0
SignedIsRead ==
    \A r \in Requests : st[r].pc = "read" /\ call[r].op = "update" => st[r].signed = st[r].v
CachedWhenPassed ==
    \A r \in Requests : PassedNonceCheck(r) =>
        /\ st[r].boot <= boots
        /\ st[r].boot = boots => NonceKey(r) \in nonces
ReadThisBoot ==
    \A r \in Requests : st[r].pc = "read" => st[r].boot = boots

VersionInv ==
    /\ InHand /\ CommitsBehind /\ NewUntouched /\ SignedIsRead
    /\ CommitsDistinct /\ NoSpuriousConflict /\ ChatVersionNotNewer
NonceInv == CachedWhenPassed /\ ReadThisBoot /\ NonceOncePerBoot
ApiInv == ApiTyped /\ VersionInv /\ NonceInv

(* Rows are never deleted and their versions never go back.                *)
VersionsGrow == \A o \in Orders : orders[o].version <= orders'[o].version

(* Versions and boot numbers are naturals, and requests name orders.       *)
LEMMA VersionType ==
    ASSUME ApiTyped
    PROVE  /\ \A o \in Orders : orders[o].version \in Nat
           /\ \A r \in Requests : /\ call[r].order \in Orders
                                   /\ RowOf(r).version \in Nat
                                   /\ st[r].v \in Nat /\ st[r].seen_version \in Nat
                                   /\ st[r].boot \in Nat
BY DEF ApiTyped, ApiTypeOK, Rows, Row, NoRow, Call, Progress, RowOf

(* The same of the state after a step.                                     *)
LEMMA NextVersionType ==
    ASSUME ApiTyped'
    PROVE  /\ \A o \in Orders : orders'[o].version \in Nat
           /\ \A r \in Requests : /\ call'[r].order \in Orders
                                   /\ RowOf(r)'.version \in Nat
                                   /\ st'[r].v \in Nat /\ st'[r].seen_version \in Nat
                                   /\ st'[r].boot \in Nat
BY SMTT(30) DEF ApiTyped, ApiTypeOK, Rows, Row, NoRow, Call, Progress, RowOf

(* No handler takes a row back to an earlier version.                      *)
LEMMA ApiStepVersionsGrow ==
    ASSUME ApiTyped, InHand, clock \in Nat, NEW r \in Requests, ApiStep(r)
    PROVE  VersionsGrow
<1>1. CASE UNCHANGED orders
  BY <1>1, VersionType DEF VersionsGrow
<1>2. CASE Inserts(r)
  BY <1>2, VersionType DEF Inserts, VersionsGrow, Exists, ApiTyped
<1>3. CASE Writes(r)
  BY <1>3, VersionType DEF Writes, VersionsGrow, RowsAffected, ApiTyped
<1> QED BY <1>1, <1>2, <1>3, ApiStepShape DEF Refused, TakesVersion, get_chat, Conflicts

(* A step of anyone else that lets no version go back keeps the invariant. *)
LEMMA OthersKeepApiInv ==
    ASSUME ApiInv, UNCHANGED apiVars, VersionsGrow, (orders \in [Orders -> Rows])'
    PROVE  ApiInv'
<1>1. ApiTyped'
  BY DEF ApiInv, ApiTyped, ApiTypeOK, apiVars
<1>2. VersionInv'
  <2>1. \A r \in Requests : RowOf(r).version <= RowOf(r)'.version
    BY VersionType DEF VersionsGrow, RowOf, ApiInv, apiVars
  <2>2. InHand'
    BY <1>1, <2>1, VersionType, NextVersionType DEF ApiInv, VersionInv, InHand, Exists, RowOf, apiVars
  <2>3. CommitsBehind'
    BY <1>1, <2>1, VersionType, NextVersionType
       DEF ApiInv, VersionInv, CommitsBehind, Committed, apiVars
  <2>4. NewUntouched' /\ SignedIsRead' /\ CommitsDistinct' /\ ChatVersionNotNewer'
    BY DEF ApiInv, VersionInv, NewUntouched, SignedIsRead, CommitsDistinct, Committed,
           ChatVersionNotNewer, apiVars
  <2>5. NoSpuriousConflict'
    BY <1>1, <2>1, VersionType, NextVersionType
       DEF ApiInv, VersionInv, NoSpuriousConflict, RowOf, apiVars
  <2> QED BY <2>2, <2>3, <2>4, <2>5 DEF VersionInv
<1>3. NonceInv'
  BY ZenonT(60) DEF ApiInv, NonceInv, CachedWhenPassed, ReadThisBoot, NonceOncePerBoot, PassedNonceCheck,
         NonceKey, apiVars
<1> QED BY <1>1, <1>2, <1>3 DEF ApiInv

(* What a step of request r leaves alone.                                  *)
LEMMA OtherRequests ==
    ASSUME ApiTyped, InHand, clock \in Nat, NEW r \in Requests, ApiStep(r)
    PROVE  /\ \A q \in Requests : q # r => st'[q] = st[q]
           /\ \A q \in Requests : NonceKey(q)' = NonceKey(q)
           /\ nonces \subseteq nonces'
           /\ \A q \in Requests : RowOf(q).version <= RowOf(q)'.version
<1>1. /\ UNCHANGED call
      /\ \/ Refused(r) \/ TakesVersion(r) \/ get_chat(r)
         \/ Inserts(r) \/ Writes(r) \/ Conflicts(r)
  BY ApiStepShape
<1>2. \A q \in Requests : q # r => st'[q] = st[q]
  BY <1>1 DEF Refused, TakesVersion, get_chat, Inserts, Writes, Conflicts, Reply, HaveVersion,
              ApiTyped, ApiTypeOK
<1>3. \A q \in Requests : NonceKey(q)' = NonceKey(q)
  BY <1>1 DEF NonceKey
<1>4. nonces \subseteq nonces'
  BY <1>1 DEF Refused, TakesVersion, get_chat, Inserts, Writes, Conflicts, ConsumeNonce, KeepNonce
<1>5. \A q \in Requests : RowOf(q).version <= RowOf(q)'.version
  BY <1>1, ApiStepVersionsGrow, VersionType DEF VersionsGrow, RowOf
<1> QED BY <1>2, <1>3, <1>4, <1>5

(* What becomes of request r itself.                                       *)
LEMMA OwnRequest ==
    ASSUME ApiTyped, InHand, clock \in Nat, NEW r \in Requests, ApiStep(r)
    PROVE  \/ /\ Refused(r)
              /\ \/ st'[r].pc \in {"replay", "forbidden"}
                 \/ st'[r].pc = "not_found" /\ call[r].op = "chat"
                 \/ /\ st'[r].pc \in {"not_found", "auth_failed", "bad_request"}
                    /\ st'[r].boot = boots
                    /\ NonceKey(r) \notin nonces /\ NonceKey(r) \in nonces'
           \/ /\ TakesVersion(r)
              /\ st'[r].pc = "read" /\ st'[r].v = RowOf(r).version /\ st'[r].boot = boots
              /\ call[r].op = "update" => st'[r].signed = st'[r].v
              /\ NonceKey(r) \notin nonces /\ NonceKey(r) \in nonces'
           \/ /\ get_chat(r) /\ st[r].pc \in {"new", "version_read"}
              /\ \/ st'[r].pc = "version_read" /\ Exists(call[r].order)
                    /\ st'[r].v = RowOf(r).version
                 \/ st'[r].pc = "composed" /\ st'[r].v = st[r].v
                    /\ \/ st[r].pc = "new"
                       \/ st[r].pc = "version_read" /\ st'[r].seen_version = RowOf(r).version
           \/ /\ Inserts(r) /\ st'[r].pc \in {"ok", "unacked"}
              /\ st'[r].v = 1 /\ RowOf(r).version = 0 /\ RowOf(r)'.version = 1
              /\ st'[r].boot = boots
              /\ NonceKey(r) \notin nonces /\ NonceKey(r) \in nonces'
           \/ /\ Writes(r) /\ st'[r].pc \in {"ok", "unacked"}
              /\ st[r].pc = "read" /\ RowOf(r).version = st[r].v
              /\ st'[r].v = st[r].v + 1 /\ RowOf(r)'.version = st[r].v + 1
              /\ st'[r].boot = st[r].boot /\ st'[r].signed = st[r].signed
           \/ /\ Conflicts(r) /\ st'[r].pc = "conflict"
              /\ st[r].pc = "read" /\ RowOf(r).version # st[r].v
              /\ st'[r].v = st[r].v /\ st'[r].boot = boots
<1>0. st \in [Requests -> Progress] /\ orders \in [Orders -> Rows] /\ call[r].order \in Orders
  BY DEF ApiTyped, ApiTypeOK, Call
<1>1. CASE Refused(r)
  BY <1>0, <1>1 DEF Refused, Reply, Progress, NonceUsed, ConsumeNonce
<1>2. CASE TakesVersion(r)
  <2>1. PICK s \in Nat : HaveVersion(r, s) /\ (call[r].op = "update" => s = RowOf(r).version)
    BY <1>2 DEF TakesVersion
  <2>2. /\ st'[r].pc = "read" /\ st'[r].v = RowOf(r).version /\ st'[r].boot = boots
        /\ st'[r].signed = s
    BY <1>0, <2>1 DEF HaveVersion, Progress
  <2>3. NonceKey(r) \notin nonces /\ NonceKey(r) \in nonces'
    BY <1>2 DEF TakesVersion, NonceUsed, ConsumeNonce
  <2> QED BY <1>2, <2>1, <2>2, <2>3
<1>3. CASE get_chat(r)
  BY <1>0, <1>3 DEF get_chat, Progress
<1>4. CASE Inserts(r)
  <2>1. UNCHANGED call
    BY ApiStepShape
  <2>2. st'[r].pc \in {"ok", "unacked"} /\ st'[r].v = 1 /\ st'[r].boot = boots
    BY <1>0, <1>4 DEF Inserts, Progress
  <2>3. RowOf(r).version = 0 /\ RowOf(r)'.version = 1
    BY <1>0, <1>4, <2>1 DEF Inserts, Exists, RowOf
  <2>4. NonceKey(r) \notin nonces /\ NonceKey(r) \in nonces'
    BY <1>4 DEF Inserts, NonceUsed, ConsumeNonce
  <2> QED BY <1>4, <2>2, <2>3, <2>4
<1>5. CASE Writes(r)
  <2>1. UNCHANGED call
    BY ApiStepShape
  <2> QED BY <1>0, <1>5, <2>1 DEF Writes, Progress, RowsAffected, RowOf
<1>6. CASE Conflicts(r)
  BY <1>0, <1>6 DEF Conflicts, Reply, Progress, RowsAffected, RowOf, InHand
<1> QED BY <1>1, <1>2, <1>3, <1>4, <1>5, <1>6, ApiStepShape

(* Every handler step keeps the inductive invariant.                       *)
LEMMA ApiStepKeepsInv ==
    ASSUME ApiInv, clock \in Nat, NEW r \in Requests, ApiStep(r)
    PROVE  ApiInv'
<1>0. ApiTyped /\ InHand /\ CommitsBehind /\ NewUntouched /\ SignedIsRead /\ CommitsDistinct
      /\ NoSpuriousConflict /\ ChatVersionNotNewer
      /\ CachedWhenPassed /\ ReadThisBoot /\ NonceOncePerBoot
  BY DEF ApiInv, VersionInv, NonceInv
<1>1. ApiTyped'
  BY <1>0, ApiStepType
<1>2. call' = call /\ boots' = boots /\ boots \in Nat
  BY <1>0, ApiStepShape, MaxRestartsAssumption DEF ApiTyped, ApiTypeOK
<1> USE <1>0, <1>1, <1>2, OwnRequest, OtherRequests, VersionType, NextVersionType
<1> USE DEF Results
<1>3. InHand'
  <2> SUFFICES ASSUME NEW q \in Requests, st'[q].pc \in {"version_read", "read"}
               PROVE  Exists(call[q].order)' /\ st'[q].v <= RowOf(q)'.version
    BY DEF InHand
  <2>1. Exists(call[q].order) /\ st'[q].v <= RowOf(q).version
    <3>1. CASE q = r
      BY <3>1 DEF TakesVersion
    <3>2. CASE q # r
      BY <3>2 DEF InHand
    <3> QED BY <3>1, <3>2
  <2> QED BY <2>1 DEF Exists, RowOf
<1>4. CommitsBehind'
  BY DEF CommitsBehind, Committed
<1>5. NewUntouched'
  BY DEF NewUntouched
<1>6. SignedIsRead'
  BY DEF SignedIsRead
<1>7. CommitsDistinct'
  <2> SUFFICES ASSUME NEW q1 \in Requests, NEW q2 \in Requests, q1 # q2,
                      Committed(q1)', Committed(q2)', call[q1].order = call[q2].order
               PROVE  st'[q1].v # st'[q2].v
    BY DEF CommitsDistinct
  <2>1. ASSUME NEW q \in Requests, q # r, Committed(r)', Committed(q)',
               call[q].order = call[r].order
        PROVE  st'[q].v # st'[r].v
    <3>1. st'[q].v <= RowOf(r).version
      BY <2>1 DEF CommitsBehind, Committed, RowOf
    <3>2. st'[r].v = RowOf(r).version + 1
      BY <2>1 DEF Committed
    <3> QED BY <3>1, <3>2
  <2>2. CASE q1 # r /\ q2 # r
    BY <2>2 DEF CommitsDistinct, Committed
  <2> QED BY <2>1, <2>2
<1>8. NoSpuriousConflict'
  <2> SUFFICES ASSUME NEW q \in Requests, st'[q].pc = "conflict"
               PROVE  st'[q].v < RowOf(q)'.version
    BY DEF NoSpuriousConflict, RowOf
  <2>1. CASE q = r
    BY <2>1 DEF InHand
  <2>2. CASE q # r
    BY <2>2 DEF NoSpuriousConflict, RowOf
  <2> QED BY <2>1, <2>2
<1>9. ChatVersionNotNewer'
  <2> SUFFICES ASSUME NEW q \in Requests, st'[q].pc = "composed"
               PROVE  st'[q].v <= st'[q].seen_version
    BY DEF ChatVersionNotNewer
  <2>1. CASE q = r
    BY <2>1 DEF NewUntouched, InHand
  <2>2. CASE q # r
    BY <2>2 DEF ChatVersionNotNewer
  <2> QED BY <2>1, <2>2
<1>10. CachedWhenPassed'
  BY DEF CachedWhenPassed, PassedNonceCheck, ReadThisBoot
<1>11. ReadThisBoot'
  BY DEF ReadThisBoot
<1>12. NonceOncePerBoot'
  <2> SUFFICES ASSUME NEW q1 \in Requests, NEW q2 \in Requests, q1 # q2,
                      PassedNonceCheck(q1)', PassedNonceCheck(q2)', st'[q1].boot = st'[q2].boot
               PROVE  NonceKey(q1) # NonceKey(q2)
    BY DEF NonceOncePerBoot
  <2>1. ASSUME NEW q \in Requests, q # r, PassedNonceCheck(r)', PassedNonceCheck(q)',
               st'[q].boot = st'[r].boot
        PROVE  NonceKey(q) # NonceKey(r)
    <3>1. PassedNonceCheck(q) /\ st[q].boot = st'[q].boot
      BY <2>1 DEF PassedNonceCheck
    <3>2. CASE PassedNonceCheck(r) /\ st[r].boot = st'[r].boot
      BY <2>1, <3>1, <3>2 DEF NonceOncePerBoot
    <3>3. CASE NonceKey(r) \notin nonces /\ st'[r].boot = boots
      BY <2>1, <3>1, <3>3 DEF CachedWhenPassed
    <3> QED BY <2>1, <3>2, <3>3 DEF PassedNonceCheck, ReadThisBoot
  <2>2. CASE q1 # r /\ q2 # r
    BY <2>2 DEF NonceOncePerBoot, PassedNonceCheck
  <2> QED BY <2>1, <2>2
<1> QED
  BY <1>3, <1>4, <1>5, <1>6, <1>7, <1>8, <1>9, <1>10, <1>11, <1>12
     DEF ApiInv, VersionInv, NonceInv

(* A restart empties the caches and cuts off what was under way; nothing   *)
(* in the table changes.                                                   *)
LEMMA RestartKeepsInv ==
    ASSUME ApiInv, ApiRestart
    PROVE  ApiInv'
<1>0. /\ st \in [Requests -> Progress] /\ boots \in Nat /\ boots' = boots + 1
      /\ boots' \in 0 .. MaxRestarts
      /\ orders' = orders /\ call' = call /\ nonces' = {}
  BY MaxRestartsAssumption DEF ApiInv, ApiTyped, ApiTypeOK, ApiRestart
<1>1. \A q \in Requests : /\ st'[q] \in Progress
                          /\ st'[q].v = st[q].v /\ st'[q].boot = st[q].boot
                          /\ st'[q].seen_version = st[q].seen_version
                          /\ \/ st'[q].pc = st[q].pc /\ st[q].pc \notin {"version_read", "read"}
                             \/ st'[q].pc = "lost" /\ st[q].pc = "read"
                             \/ st'[q].pc = "unanswered"
  BY <1>0 DEF ApiRestart, Progress, Results
<1>2. ApiTyped'
  <2>1. st' \in [Requests -> Progress]
    BY <1>1 DEF ApiRestart
  <2> QED BY <1>0, <2>1 DEF ApiInv, ApiTyped, ApiTypeOK
<1>3. VersionInv'
  BY <1>0, <1>1 DEF ApiInv, VersionInv, InHand, CommitsBehind, NewUntouched, SignedIsRead,
     CommitsDistinct, NoSpuriousConflict, ChatVersionNotNewer, Committed, RowOf
<1>4. CachedWhenPassed' /\ ReadThisBoot'
  <2>1. \A q \in Requests : PassedNonceCheck(q)' => st[q].boot <= boots
    BY <1>0, <1>1 DEF ApiInv, NonceInv, CachedWhenPassed, PassedNonceCheck
  <2>2. \A q \in Requests : st[q].boot \in Nat
    BY <1>0 DEF Progress
  <2> QED BY <1>0, <1>1, <2>1, <2>2 DEF CachedWhenPassed, ReadThisBoot
<1>5. NonceOncePerBoot'
  <2>1. \A q \in Requests : NonceKey(q)' = NonceKey(q)
    BY <1>0 DEF NonceKey
  <2> QED BY <1>0, <1>1, <2>1 DEF ApiInv, NonceInv, NonceOncePerBoot, PassedNonceCheck
<1> QED BY <1>2, <1>3, <1>4, <1>5 DEF ApiInv, NonceInv

(* An empty table and unanswered requests satisfy it.                      *)
LEMMA ApiInitInv ==
    ASSUME TableInit, ApiInit
    PROVE  ApiInv
<1>1. ApiTyped
  <2>1. orders \in [Orders -> Rows]
    BY DEF TableInit, Rows
  <2>2. call \in [Requests -> Call]
    BY CallOpsAssumption, TimeAssumption, HourLenAssumption DEF ApiInit, Call
  <2>3. st \in [Requests -> Progress]
    BY DEF ApiInit, Progress, Pending
  <2> QED BY <2>1, <2>2, <2>3, MaxRestartsAssumption DEF ApiTyped, ApiTypeOK, ApiInit
<1>2. \A r \in Requests : st[r].pc = "new" /\ st[r].v = 0
  BY DEF ApiInit
<1>3. VersionInv
  BY <1>2 DEF VersionInv, InHand, CommitsBehind, NewUntouched, SignedIsRead, CommitsDistinct,
     NoSpuriousConflict, ChatVersionNotNewer, Committed
<1>4. NonceInv
  BY <1>2 DEF NonceInv, CachedWhenPassed, ReadThisBoot, NonceOncePerBoot, PassedNonceCheck
<1> QED BY <1>1, <1>3, <1>4 DEF ApiInv

-----------------------------------------------------------------------------
(* The theorems about the API process on its own.                          *)

ClockOK == clock \in 0 .. MaxTime
Inv == ApiInv /\ ClockOK

(* Every step of the API with its clock keeps it.                          *)
LEMMA NextKeepsInv ==
    ASSUME Inv, [Next]_vars
    PROVE  Inv'
<1>0. clock \in Nat
  BY TimeAssumption DEF Inv, ClockOK
<1>1. ClockOK'
  BY <1>0, TimeAssumption DEF Inv, ClockOK, Next, Tick, vars
<1>2. CASE ApiNext
  BY <1>0, <1>1, <1>2, ApiStepKeepsInv, RestartKeepsInv DEF Inv, ApiNext
<1>3. CASE UNCHANGED <<orders, apiVars>>
  <2>1. VersionsGrow /\ (orders \in [Orders -> Rows])'
    BY <1>3, VersionType DEF VersionsGrow, Inv, ApiInv, ApiTyped
  <2>2. ApiInv /\ UNCHANGED apiVars
    BY <1>3 DEF Inv
  <2> QED BY <1>1, <2>1, <2>2, OthersKeepApiInv DEF Inv
<1> QED BY <1>2, <1>3 DEF Next, vars

(* The strengthening every property below follows from is inductive.       *)
THEOREM ApiInvariant == Spec => []Inv
<1>1. Init => Inv
  BY ApiInitInv, TimeAssumption DEF Init, TableInit, Inv, ClockOK
<1>2. Inv /\ [Next]_vars => Inv'
  BY NextKeepsInv
<1> QED BY <1>1, <1>2, PTL DEF Spec

(* The API's state keeps its type: handlers, replay caches and rows.       *)
THEOREM ApiTypeCorrect == Spec => []TypeOK
<1>1. Inv => TypeOK
  BY DEF Inv, ApiInv, ApiTyped, ClockOK, TypeOK, TableTypeOK, Rows
<1> QED BY <1>1, ApiInvariant, PTL

(* Two requests never both succeed from the same version of a row.         *)
THEOREM ApiCommitsDistinct == Spec => []CommitsDistinct
<1>1. Inv => CommitsDistinct
  BY DEF Inv, ApiInv, VersionInv
<1> QED BY <1>1, ApiInvariant, PTL

(* A Conflict is answered only to a request whose row has moved on.        *)
THEOREM ApiNoSpuriousConflict == Spec => []NoSpuriousConflict
<1>1. Inv => NoSpuriousConflict
  BY DEF Inv, ApiInv, VersionInv
<1> QED BY <1>1, ApiInvariant, PTL

(* A nonce gets at most one request of its kind through per process life.  *)
THEOREM ApiNonceOncePerBoot == Spec => []NonceOncePerBoot
<1>1. Inv => NonceOncePerBoot
  BY DEF Inv, ApiInv, NonceInv
<1> QED BY <1>1, ApiInvariant, PTL

(* get_chat never reports a version newer than the chat it returns.        *)
THEOREM ApiChatVersionNotNewer == Spec => []ChatVersionNotNewer
<1>1. Inv => ChatVersionNotNewer
  BY DEF Inv, ApiInv, VersionInv
<1> QED BY <1>1, ApiInvariant, PTL

(* update_order replaces exactly the version its client signed.            *)
THEOREM ApiUpdateReplacesSignedVersion == Spec => UpdateReplacesSignedVersion
<1>1. ASSUME Inv, [Next]_vars,
             NEW r \in Requests, call[r].op = "update", ~ Committed(r), Committed(r)'
      PROVE  orders[call[r].order].version = st'[r].signed
  <2>0. ApiTyped /\ InHand /\ SignedIsRead /\ clock \in Nat
    BY <1>1, TimeAssumption DEF Inv, ApiInv, VersionInv, ClockOK
  <2>1. PICK q \in Requests : ApiStep(q)
    <3>1. ~ ApiRestart /\ ~ UNCHANGED st
      BY <1>1, <2>0 DEF Committed, ApiRestart, ApiTyped, ApiTypeOK, Progress
    <3> QED BY <1>1, <3>1 DEF Next, ApiNext, vars, apiVars
  <2>2. q = r
    BY <1>1, <2>0, <2>1, OtherRequests DEF Committed
  <2>3. ~ Inserts(r)
    BY <1>1 DEF Inserts
  <2>4. ApiStep(r)
    BY <2>1, <2>2
  <2> QED BY <1>1, <2>0, <2>3, <2>4, OwnRequest DEF Committed, SignedIsRead, RowOf, Results
<1>2. Inv /\ [Next]_vars =>
      [\A r \in Requests : call[r].op = "update" /\ ~ Committed(r) /\ Committed(r)'
            => orders[call[r].order].version = st'[r].signed]_vars
  BY <1>1
<1> QED BY <1>2, ApiInvariant, PTL DEF Spec, UpdateReplacesSignedVersion

-----------------------------------------------------------------------------
(* Counting: a step changes the set of committed requests of one order by  *)
(* exactly the request that commits.                                       *)

(* A handler step adds one to a version and one to its commits, or nothing *)
(* to either.                                                              *)
LEMMA CountStep ==
    ASSUME ApiTyped, InHand, clock \in Nat, VersionCountsCommits, NEW r \in Requests, ApiStep(r)
    PROVE  VersionCountsCommits'
<1>0. UNCHANGED call /\ st[r].pc \in Pending /\ call[r].order \in Orders
  BY ApiStepShape, VersionType
<1>1. ~ Committed(r)
  BY <1>0 DEF Committed, Pending
<1>2. \A o \in Orders : IsFiniteSet(CommittedOn(o))
  BY RequestsAssumption, FS_Subset DEF CommittedOn
<1>3. SUFFICES ASSUME NEW o \in Orders
               PROVE  orders'[o].version = Cardinality(CommittedOn(o)')
  BY DEF VersionCountsCommits
<1>4. CASE Committed(r)' /\ o = call[r].order
  <2>1. CommittedOn(o)' = CommittedOn(o) \cup {r}
    BY <1>0, <1>4, OtherRequests DEF CommittedOn, Committed
  <2>2. r \notin CommittedOn(o)
    BY <1>1 DEF CommittedOn
  <2>3. Cardinality(CommittedOn(o)') = Cardinality(CommittedOn(o)) + 1
    BY <1>2, <2>1, <2>2, FS_AddElement, SMTT(30)
  <2>4. orders'[o].version = orders[o].version + 1
    BY <1>0, <1>4, OwnRequest DEF Committed, RowOf, Results
  <2> QED BY <2>3, <2>4 DEF VersionCountsCommits
<1>5. CASE ~ (Committed(r)' /\ o = call[r].order)
  <2>1. CommittedOn(o)' = CommittedOn(o)
    BY <1>0, <1>1, <1>5, OtherRequests DEF CommittedOn, Committed
  <2>2. orders'[o] = orders[o]
    <3>1. CASE Inserts(r) \/ Writes(r)
      <4>1. Committed(r)'
        BY <3>1 DEF Inserts, Writes, Committed, ApiTyped, ApiTypeOK, Progress
      <4>2. o # call[r].order
        BY <1>5, <4>1
      <4> QED BY <3>1, <4>2 DEF Inserts, Writes, ApiTyped
    <3> QED BY <3>1, ApiStepShape DEF Refused, TakesVersion, get_chat, Conflicts
  <2> QED BY <2>1, <2>2 DEF VersionCountsCommits
<1> QED BY <1>4, <1>5

(* The version of a row is the number of requests that wrote it.           *)
THEOREM ApiVersionCountsCommits == Spec => []VersionCountsCommits
<1>1. Init => VersionCountsCommits
  <2> SUFFICES ASSUME Init, NEW o \in Orders
               PROVE  orders[o].version = Cardinality(CommittedOn(o))
    BY DEF VersionCountsCommits
  <2>1. CommittedOn(o) = {}
    BY DEF CommittedOn, Committed, Init, ApiInit
  <2> QED BY <2>1, FS_EmptySet DEF Init, TableInit, NoRow
<1>2. Inv /\ VersionCountsCommits /\ [Next]_vars => VersionCountsCommits'
  <2> SUFFICES ASSUME Inv, VersionCountsCommits, [Next]_vars
               PROVE  VersionCountsCommits'
    OBVIOUS
  <2>1. CASE \E r \in Requests : ApiStep(r)
    BY <2>1, CountStep, TimeAssumption DEF Inv, ApiInv, VersionInv, ClockOK
  <2>2. CASE ApiRestart
    <3>1. \A o \in Orders : CommittedOn(o)' = CommittedOn(o)
      BY <2>2 DEF ApiRestart, CommittedOn, Committed, Inv, ApiInv, ApiTyped, ApiTypeOK, Progress
    <3> QED BY <2>2, <3>1 DEF ApiRestart, VersionCountsCommits
  <2>3. CASE UNCHANGED <<orders, apiVars>>
    BY <2>3 DEF VersionCountsCommits, CommittedOn, Committed, apiVars
  <2> QED BY <2>1, <2>2, <2>3 DEF Next, ApiNext, vars
<1> QED BY <1>1, <1>2, ApiInvariant, PTL DEF Spec
=============================================================================
