------------------------- MODULE MigrationsProofs -------------------------
(***************************************************************************)
(* The migrations for any number of processes, rows and faults, from any   *)
(* release, with start-ups that overlap: the type invariant; no rebuild    *)
(* loses a row unless two processes were in it; and, unless start-ups      *)
(* overlapped in a version that must be run alone, who serves does so on   *)
(* the schema the models expect, and who migrates alone fails only at a    *)
(* rebuild a crash has torn or at a column an earlier fault took away.     *)
(***************************************************************************)
EXTENDS Migrations, SequenceTheorems, WellFoundedInduction, TLAPS

(* The version whose CREATE TABLE names t, and where a rebuilt table is    *)
(* dropped on the way.                                                     *)
CreatedIn(t) ==
    IF t \in {"users", "listings", "orders", "chat_messages"} THEN 1
    ELSE IF t \in {"audit_logs", "payment_audits"} THEN 2
    ELSE IF t \in {"disputes", "dispute_evidence"} THEN 3
    ELSE IF t = "orders_new" THEN 10
    ELSE IF t = "listings_new" THEN 11 ELSE 18

DropAt(t) == IF t = "orders" THEN 3 ELSE 7

(* The tables dropped again, those nothing but their CREATE TABLE gives    *)
(* columns, the columns of each CREATE TABLE, and those a rebuild selects. *)
Temporary == {"users", "chat_messages", "audit_logs", "payment_audits", "disputes", "dispute_evidence"}
AsCreated == {"orders_new", "listings_new", "notification_tracker"}
Created(t) ==
    IF t = "users" THEN {"pubkey_hash", "legacy"}
    ELSE IF t = "listings" THEN {"id", "seller_pubkey_hash", "encrypted_search", "currency",
                                 "status", "expires_at", "legacy"}
    ELSE IF t = "orders" THEN {"id", "buyer_pubkey_hash", "seller_pubkey_hash", "state",
                               "escrow_address", "disputed_at", "legacy"}
    ELSE IF t = "chat_messages" THEN {"id", "order_id", "legacy"}
    ELSE IF t = "audit_logs" THEN {"id", "timestamp", "event_type", "legacy"}
    ELSE IF t = "payment_audits" THEN {"id", "tx_hash", "order_id", "legacy"}
    ELSE IF t = "disputes" THEN {"id", "order_id", "legacy"}
    ELSE IF t = "dispute_evidence" THEN {"id", "dispute_id", "legacy"}
    ELSE IF t = "orders_new" THEN OrderColumns
    ELSE IF t = "listings_new" THEN {"id", "encrypted_listing_blob", "day_bucket", "search_token"}
    ELSE {"tx_hash", "order_id", "buyer_pubkey", "processed_at"}
Selected(t) == IF t = "orders" THEN OrderColumns ELSE {"id", "encrypted_search"}

(* Where an index of version n gets its column: from the CREATE TABLE of   *)
(* its table, from a rebuild, or from an ALTER of the same version.        *)
Indexes(n, s) ==
    \/ s.t \in Temporary /\ CreatedIn(s.t) = n /\ s.c \in Created(s.t)
    \/ s.t \in Rebuilt /\ n \in {1, 2} /\ s.c \in Created(s.t)
    \/ s.t \in Rebuilt /\ n = RebuildOf(s.t) /\ s.c \in Created(Copy(s.t))
    \/ n = 9 /\ s.t = "orders" /\ s.c \in {"day_bucket", "expiry_bucket"}
    \/ n = 13 /\ s.t = "orders" /\ s.c = "has_dispute"
    \/ n = 14 /\ s.t = "listings" /\ s.c \in {"status", "currency"}

(* Statements of version n that touch no rebuilt table, no copy of one,    *)
(* and no version.                                                         *)
Plain(n, s) ==
    \/ /\ s.op = "create table" /\ s.t \in TableNames \ Holders
       /\ CreatedIn(s.t) = n /\ s.cols = Created(s.t)
    \/ s.op = "drop table if exists" /\ s.t \in Temporary /\ CreatedIn(s.t) < n
    \/ s.op = "create index" /\ Indexes(n, s)
    \/ s.op \in {"drop index", "column exists"}

(* The version that adds column c to table t, if it need not be run alone. *)
AddedIn(t, c) ==
    IF t = "listings" THEN 14
    ELSE IF c = "version" THEN 12
    ELSE IF c = "has_dispute" THEN 13
    ELSE IF c = "client_encrypted_blob" THEN 15
    ELSE IF c = "dispute_client_blob" THEN 16
    ELSE IF c = "chat_encrypted_blob" THEN 17 ELSE 9

(* An ALTER of version n, and its guard q.  A column added to a rebuilt    *)
(* table is one the models read; only there may the ALTER end start-up.    *)
Adds(n, s) ==
    /\ s.op = "add column" /\ s.t \in Rebuilt /\ n \notin {10, 11}
    /\ n > RebuildOf(s.t) \/ n \notin Exclusive => s.c \in Model[s.t]
    /\ n \notin Exclusive => AddedIn(s.t, s.c) = n
    /\ s.strict => n > RebuildOf(s.t)
    /\ ~ s.strict => s.t = "orders" /\ s.c \in TriedColumns
Guarded(n, q, s) == Adds(n, s) /\ q.op = "column exists" /\ q.t = s.t /\ q.c = s.c

IsSeq(v) == \E S : v \in Seq(S)

(* The k-th of the statements v of version n is plain, or an ALTER with    *)
(* its guard before it.                                                    *)
PlainAt(n, v, k) == Plain(n, v[k]) \/ (k > 1 /\ Guarded(n, v[k - 1], v[k]))

(* A sequence of plain statements of version n. *)
Plains(v, n) == IsSeq(v) /\ \A k \in 1 .. Len(v) : PlainAt(n, v, k)

(* Plain statements, then the record of version n. *)
Recorded(v, n) ==
    /\ IsSeq(v) /\ Len(v) >= 1
    /\ \A k \in 1 .. Len(v) : k < Len(v) => PlainAt(n, v, k)
    /\ v[Len(v)] = Record(n)

-----------------------------------------------------------------------------
(* Concatenation of sequences of whatever elements.                        *)
LEMMA Joined ==
    ASSUME NEW s, IsSeq(s), NEW v, IsSeq(v)
    PROVE  /\ IsSeq(s \o v) /\ Len(s) \in Nat /\ Len(v) \in Nat
           /\ Len(s \o v) = Len(s) + Len(v)
           /\ \A k \in 1 .. Len(s) + Len(v) :
                 (s \o v)[k] = IF k <= Len(s) THEN s[k] ELSE v[k - Len(s)]
<1>1. PICK S : s \in Seq(S)
  BY DEF IsSeq
<1>2. PICK T : v \in Seq(T)
  BY DEF IsSeq
<1> DEFINE U == S \cup T
<1>3. S \subseteq U /\ T \subseteq U
  OBVIOUS
<1> HIDE DEF U
<1>4. s \in Seq(U) /\ v \in Seq(U)
  BY <1>1, <1>2, <1>3, SeqMonotonic
<1>5. Len(s) \in Nat /\ Len(v) \in Nat
  BY <1>4, LenProperties
<1> QED BY <1>4, <1>5, ConcatProperties DEF IsSeq

(* A statement of two sequences joined, and the one before it, are those   *)
(* of the part it comes from.                                              *)
LEMMA JoinedAt ==
    ASSUME NEW n, NEW s, NEW v, NEW w, Len(s) \in Nat, Len(v) \in Nat, NEW k \in 1 .. Len(s) + Len(v),
           \A j \in 1 .. Len(s) + Len(v) : w[j] = IF j <= Len(s) THEN s[j] ELSE v[j - Len(s)]
    PROVE  /\ k <= Len(s) /\ PlainAt(n, s, k) => PlainAt(n, w, k)
           /\ ~ (k <= Len(s)) /\ PlainAt(n, v, k - Len(s)) => PlainAt(n, w, k)
<1>1. CASE k <= Len(s)
  <2>1. w[k] = s[k] /\ (k > 1 => w[k - 1] = s[k - 1])
    BY <1>1
  <2> QED BY <1>1, <2>1 DEF PlainAt
<1>2. CASE ~ (k <= Len(s))
  <2> DEFINE i == k - Len(s)
  <2>1. w[k] = v[i] /\ i \in Int
    BY <1>2
  <2>2. i > 1 => k > 1 /\ w[k - 1] = v[i - 1]
    <3> SUFFICES ASSUME i > 1 PROVE k > 1 /\ w[k - 1] = v[i - 1]
      OBVIOUS
    <3>1. k - 1 \in 1 .. Len(s) + Len(v) /\ ~ (k - 1 <= Len(s)) /\ (k - 1) - Len(s) = i - 1 /\ k > 1
      BY <1>2
    <3> QED BY <3>1
  <2> HIDE DEF i
  <2>3. PlainAt(n, v, i) => PlainAt(n, w, k)
    BY <2>1, <2>2 DEF PlainAt
  <2> QED BY <1>2, <2>3 DEF i
<1> QED BY <1>1, <1>2

(* Plain statements after plain statements.                                *)
LEMMA PlainsJoin ==
    ASSUME NEW n, NEW s, Plains(s, n), NEW v, Plains(v, n)
    PROVE  Plains(s \o v, n)
<1> DEFINE w == s \o v
<1>1. /\ IsSeq(w) /\ Len(s) \in Nat /\ Len(v) \in Nat /\ Len(w) = Len(s) + Len(v)
      /\ \A k \in 1 .. Len(s) + Len(v) : w[k] = IF k <= Len(s) THEN s[k] ELSE v[k - Len(s)]
  BY Joined DEF Plains
<1> HIDE DEF w
<1>2. ASSUME NEW k \in 1 .. Len(w) PROVE PlainAt(n, w, k)
  <2>1. CASE k <= Len(s)
    <3>1. PlainAt(n, s, k)
      BY <1>1, <2>1 DEF Plains
    <3> QED BY <1>1, <2>1, <3>1, JoinedAt
  <2>2. CASE ~ (k <= Len(s))
    <3>1. k - Len(s) \in 1 .. Len(v)
      BY <1>1, <2>2
    <3>2. PlainAt(n, v, k - Len(s))
      BY <3>1 DEF Plains
    <3> QED BY <1>1, <2>2, <3>2, JoinedAt
  <2> QED BY <2>1, <2>2
<1>3. Plains(w, n)
  BY <1>1, <1>2 DEF Plains
<1> QED BY <1>3 DEF w

(* Plain statements before a recorded sequence leave it one.               *)
LEMMA RecordedAfter ==
    ASSUME NEW n, NEW s, Plains(s, n), NEW v, Recorded(v, n)
    PROVE  Recorded(s \o v, n)
<1> DEFINE w == s \o v
<1>1. /\ IsSeq(w) /\ Len(s) \in Nat /\ Len(v) \in Nat /\ Len(w) = Len(s) + Len(v)
      /\ \A k \in 1 .. Len(s) + Len(v) : w[k] = IF k <= Len(s) THEN s[k] ELSE v[k - Len(s)]
  BY Joined DEF Plains, Recorded
<1>2. Len(v) >= 1
  BY DEF Recorded
<1> HIDE DEF w
<1>3. w[Len(w)] = Record(n)
  <2>1. Len(w) \in 1 .. Len(s) + Len(v) /\ ~ (Len(w) <= Len(s)) /\ Len(w) - Len(s) = Len(v)
    BY <1>1, <1>2
  <2>2. w[Len(w)] = v[Len(v)]
    BY <1>1, <2>1
  <2> QED BY <2>2 DEF Recorded
<1>4. ASSUME NEW k \in 1 .. Len(w), k < Len(w) PROVE PlainAt(n, w, k)
  <2>1. CASE k <= Len(s)
    <3>1. PlainAt(n, s, k)
      BY <1>1, <2>1 DEF Plains
    <3> QED BY <1>1, <2>1, <3>1, JoinedAt
  <2>2. CASE ~ (k <= Len(s))
    <3>1. k - Len(s) \in 1 .. Len(v) /\ k - Len(s) < Len(v)
      BY <1>1, <1>4, <2>2
    <3>2. PlainAt(n, v, k - Len(s))
      BY <3>1 DEF Recorded
    <3> QED BY <1>1, <2>2, <3>2, JoinedAt
  <2> QED BY <2>1, <2>2
<1>5. Recorded(w, n)
  BY <1>1, <1>2, <1>3, <1>4 DEF Recorded
<1> QED BY <1>5 DEF w

(* The tables no rebuild touches, and when the others come and go.         *)
LEMMA OtherTables ==
    /\ \A t \in Temporary : t \in TableNames \ Holders /\ t # "notification_tracker"
    /\ "notification_tracker" \in TableNames \ Holders
    /\ CreatedIn("users") = 1 /\ CreatedIn("chat_messages") = 1
    /\ CreatedIn("audit_logs") = 2 /\ CreatedIn("payment_audits") = 2
    /\ CreatedIn("disputes") = 3 /\ CreatedIn("dispute_evidence") = 3
<1>1. /\ \A t \in Temporary : t \in TableNames \ Holders /\ t # "notification_tracker"
      /\ "notification_tracker" \in TableNames \ Holders
  BY DEF Temporary, TableNames, Holders, Rebuilt, Copy
<1> QED BY <1>1 DEF CreatedIn

(* The statement kinds that are plain whatever they name, and the others.  *)
LEMMA PlainKinds ==
    ASSUME NEW n, NEW t
    PROVE  /\ \A i : Plain(n, DropIndex(i))
           /\ \A c : Plain(n, ColumnExists(t, c))
           /\ t \in Temporary /\ CreatedIn(t) < n => Plain(n, DropIfExists(t))
           /\ t \in Temporary /\ CreatedIn(t) = n => Plain(n, CreateTable(t, Created(t)))
<1>1. \A i : Plain(n, DropIndex(i))
  BY DEF Plain, DropIndex
<1>2. \A c : Plain(n, ColumnExists(t, c))
  BY DEF Plain, ColumnExists
<1>3. t \in Temporary /\ CreatedIn(t) < n => Plain(n, DropIfExists(t))
  BY DEF Plain, DropIfExists
<1>4. t \in Temporary /\ CreatedIn(t) = n => Plain(n, CreateTable(t, Created(t)))
  BY OtherTables DEF Plain, CreateTable
<1> QED BY <1>1, <1>2, <1>3, <1>4

(* The indexes, under whatever name.                                       *)
LEMMA IndexKinds ==
    ASSUME NEW i
    PROVE  /\ Plain(1, CreateIndex(i, "listings", "seller_pubkey_hash"))
           /\ Plain(1, CreateIndex(i, "listings", "status"))
           /\ Plain(1, CreateIndex(i, "orders", "buyer_pubkey_hash"))
           /\ Plain(1, CreateIndex(i, "orders", "seller_pubkey_hash"))
           /\ Plain(1, CreateIndex(i, "orders", "state"))
           /\ Plain(1, CreateIndex(i, "chat_messages", "order_id"))
           /\ Plain(2, CreateIndex(i, "orders", "escrow_address"))
           /\ Plain(2, CreateIndex(i, "listings", "encrypted_search"))
           /\ Plain(2, CreateIndex(i, "audit_logs", "timestamp"))
           /\ Plain(2, CreateIndex(i, "audit_logs", "event_type"))
           /\ Plain(2, CreateIndex(i, "payment_audits", "tx_hash"))
           /\ Plain(2, CreateIndex(i, "payment_audits", "order_id"))
           /\ Plain(2, CreateIndex(i, "listings", "expires_at"))
           /\ Plain(3, CreateIndex(i, "disputes", "order_id"))
           /\ Plain(3, CreateIndex(i, "dispute_evidence", "dispute_id"))
           /\ Plain(9, CreateIndex(i, "orders", "day_bucket"))
           /\ Plain(9, CreateIndex(i, "orders", "expiry_bucket"))
           /\ Plain(10, CreateIndex(i, "orders", "day_bucket"))
           /\ Plain(10, CreateIndex(i, "orders", "expiry_bucket"))
           /\ Plain(11, CreateIndex(i, "listings", "day_bucket"))
           /\ Plain(13, CreateIndex(i, "orders", "has_dispute"))
           /\ Plain(14, CreateIndex(i, "listings", "status"))
           /\ Plain(14, CreateIndex(i, "listings", "currency"))
<1>1. ASSUME NEW n, NEW t, NEW c,
             \/ t \in Temporary /\ CreatedIn(t) = n /\ c \in Created(t)
             \/ t \in Rebuilt /\ n \in {1, 2} /\ c \in Created(t)
             \/ t \in Rebuilt /\ n = RebuildOf(t) /\ c \in Created(Copy(t))
             \/ n = 9 /\ t = "orders" /\ c \in {"day_bucket", "expiry_bucket"}
             \/ n = 13 /\ t = "orders" /\ c = "has_dispute"
             \/ n = 14 /\ t = "listings" /\ c \in {"status", "currency"}
      PROVE  Plain(n, CreateIndex(i, t, c))
  <2> DEFINE s == CreateIndex(i, t, c)
  <2>1. s.op = "create index" /\ s.t = t /\ s.c = c
    BY DEF CreateIndex
  <2> HIDE DEF s
  <2>2. Indexes(n, s)
    BY <1>1, <2>1 DEF Indexes
  <2>3. Plain(n, s)
    BY <2>1, <2>2 DEF Plain
  <2> QED BY <2>3 DEF s
<1>2. /\ {"seller_pubkey_hash", "status", "encrypted_search", "expires_at"} \subseteq Created("listings")
      /\ {"buyer_pubkey_hash", "seller_pubkey_hash", "state", "escrow_address"} \subseteq Created("orders")
      /\ "order_id" \in Created("chat_messages") /\ "order_id" \in Created("disputes")
      /\ "dispute_id" \in Created("dispute_evidence")
      /\ {"timestamp", "event_type"} \subseteq Created("audit_logs")
      /\ {"tx_hash", "order_id"} \subseteq Created("payment_audits")
  BY DEF Created
<1>3. /\ "orders" \in Rebuilt /\ "listings" \in Rebuilt
      /\ RebuildOf("orders") = 10 /\ RebuildOf("listings") = 11
      /\ {"chat_messages", "audit_logs", "payment_audits", "disputes", "dispute_evidence"} \subseteq Temporary
  BY DEF Rebuilt, RebuildOf, Temporary
<1>4. /\ {"day_bucket", "expiry_bucket"} \subseteq Created(Copy("orders"))
      /\ "day_bucket" \in Created(Copy("listings"))
  BY DEF Created, Copy, OrderColumns
<1> QED BY <1>1, <1>2, <1>3, <1>4, OtherTables

(* Four plain statements.                                                  *)
LEMMA PlainsFour ==
    ASSUME NEW n, NEW a, Plain(n, a), NEW b, Plain(n, b), NEW c, Plain(n, c), NEW d, Plain(n, d)
    PROVE  Plains(<<a, b, c, d>>, n)
<1> DEFINE v == <<a, b, c, d>>
<1>1. v \in Seq({a, b, c, d}) /\ Len(v) = 4
  OBVIOUS
<1>2. \A k \in 1 .. 4 : Plain(n, v[k])
  OBVIOUS
<1> HIDE DEF v
<1>3. Plains(v, n)
  BY <1>1, <1>2 DEF Plains, PlainAt, IsSeq
<1> QED BY <1>3 DEF v

(* An ALTER and its guard.                                                 *)
LEMMA GuardedPair ==
    ASSUME NEW n, NEW q, Plain(n, q), NEW s, Guarded(n, q, s)
    PROVE  Plains(<<q, s>>, n)
<1> DEFINE v == <<q, s>>
<1>1. v \in Seq({q, s}) /\ Len(v) = 2 /\ v[1] = q /\ v[2] = s
  OBVIOUS
<1> HIDE DEF v
<1>2. \A k \in 1 .. 2 : k = 1 \/ (k = 2 /\ k > 1 /\ k - 1 = 1)
  OBVIOUS
<1>3. \A k \in 1 .. 2 : PlainAt(n, v, k)
  BY <1>1, <1>2 DEF PlainAt
<1>4. Plains(v, n)
  BY <1>1, <1>3 DEF Plains, IsSeq
<1> QED BY <1>4 DEF v

(* `if !column_exists` and its ALTER.                                      *)
LEMMA GuardedAlter ==
    ASSUME NEW n, n \notin {10, 11}, NEW t \in Rebuilt, NEW c,
           n > RebuildOf(t) \/ n \notin Exclusive => c \in Model[t],
           n \notin Exclusive => AddedIn(t, c) = n
    PROVE  /\ n > RebuildOf(t) => Plains(AddColumn(t, c), n)
           /\ t = "orders" /\ c \in TriedColumns => Plains(TryAddColumn(t, c), n)
<1>1. ASSUME NEW b \in BOOLEAN, b => n > RebuildOf(t), ~ b => t = "orders" /\ c \in TriedColumns
      PROVE  Plains(<<ColumnExists(t, c), Alter(t, c, b)>>, n)
  <2>1. Guarded(n, ColumnExists(t, c), Alter(t, c, b))
    <3> DEFINE q == ColumnExists(t, c)
               s == Alter(t, c, b)
    <3>1. /\ q.op = "column exists" /\ q.t = t /\ q.c = c
          /\ s.op = "add column" /\ s.t = t /\ s.c = c /\ s.strict = b
      BY DEF ColumnExists, Alter
    <3> HIDE DEF q, s
    <3>2. /\ s.strict => n > RebuildOf(s.t)
          /\ ~ s.strict => s.t = "orders" /\ s.c \in TriedColumns
      BY <1>1, <3>1
    <3>3. Adds(n, s)
      BY <3>1, <3>2 DEF Adds
    <3>4. Guarded(n, q, s)
      BY <3>1, <3>3 DEF Guarded
    <3> QED BY <3>4 DEF q, s
  <2> QED BY <2>1, PlainKinds, GuardedPair
<1> QED BY <1>1 DEF AddColumn, TryAddColumn

(* V3 - V9 add columns to the orders table V10 will rebuild.               *)
LEMMA EarlyAlter ==
    /\ \A n \in 1 .. 5 : \A c \in TriedColumns : Plains(TryAddColumn("orders", c), n)
    /\ \A c \in {"encrypted_order_blob", "day_bucket", "expiry_bucket"} : Plains(TryAddColumn("orders", c), 9)
<1>1. ASSUME NEW n \in 1 .. 5, NEW c \in TriedColumns PROVE Plains(TryAddColumn("orders", c), n)
  <2>1. n \notin {10, 11} /\ n \in Exclusive /\ "orders" \in Rebuilt /\ ~ (n > RebuildOf("orders"))
    BY DEF Rebuilt, RebuildOf, Exclusive
  <2> QED BY <2>1, GuardedAlter
<1>2. ASSUME NEW c \in {"encrypted_order_blob", "day_bucket", "expiry_bucket"}
      PROVE  Plains(TryAddColumn("orders", c), 9)
  <2>1. 9 \notin {10, 11} /\ "orders" \in Rebuilt /\ c \in TriedColumns /\ c \in Model["orders"]
    BY DEF Rebuilt, TriedColumns, Model, OrderColumns
  <2>2. AddedIn("orders", c) = 9
    BY DEF AddedIn
  <2> QED BY <2>1, <2>2, GuardedAlter
<1> QED BY <1>1, <1>2

(* V12 - V17 add the columns the models have beyond those of the copies.   *)
LEMMA LateAlter ==
    /\ Plains(TryAddColumn("orders", "version"), 12)
    /\ Plains(AddColumn("orders", "has_dispute"), 13)
    /\ Plains(AddColumn("listings", "status"), 14)
    /\ Plains(AddColumn("listings", "currency"), 14)
    /\ Plains(AddColumn("listings", "version"), 14)
    /\ Plains(AddColumn("orders", "client_encrypted_blob"), 15)
    /\ Plains(AddColumn("orders", "dispute_client_blob"), 16)
    /\ Plains(AddColumn("orders", "chat_encrypted_blob"), 17)
<1>1. /\ "orders" \in Rebuilt /\ "listings" \in Rebuilt
      /\ {"version", "has_dispute", "client_encrypted_blob", "dispute_client_blob",
          "chat_encrypted_blob"} \subseteq Model["orders"]
      /\ {"status", "currency", "version"} \subseteq Model["listings"]
  BY DEF Rebuilt, Model
<1>2. RebuildOf("orders") = 10 /\ RebuildOf("listings") = 11 /\ "version" \in TriedColumns
  BY DEF RebuildOf, TriedColumns
<1>7. /\ AddedIn("orders", "version") = 12 /\ AddedIn("orders", "has_dispute") = 13
      /\ AddedIn("orders", "client_encrypted_blob") = 15
      /\ AddedIn("orders", "dispute_client_blob") = 16
      /\ AddedIn("orders", "chat_encrypted_blob") = 17 /\ \A c : AddedIn("listings", c) = 14
  BY DEF AddedIn
<1>3. Plains(TryAddColumn("orders", "version"), 12)
  BY <1>1, <1>2, <1>7, GuardedAlter
<1>4. \A n \in 12 .. 17 : \A c \in {"has_dispute", "client_encrypted_blob", "dispute_client_blob",
                                 "chat_encrypted_blob"} :
          AddedIn("orders", c) = n => Plains(AddColumn("orders", c), n)
  <2>1. \A n \in 12 .. 17 : n \notin {10, 11} /\ n > 10
    OBVIOUS
  <2> QED BY <1>1, <1>2, <2>1, GuardedAlter
<1>5. \A c \in {"status", "currency", "version"} : Plains(AddColumn("listings", c), 14)
  BY <1>1, <1>2, <1>7, GuardedAlter
<1>6. 13 \in 12 .. 17 /\ 15 \in 12 .. 17 /\ 16 \in 12 .. 17 /\ 17 \in 12 .. 17
  OBVIOUS
<1> QED BY <1>3, <1>4, <1>5, <1>6, <1>7

(* The tables V1 - V3 create and V6 - V8 drop.                             *)
LEMMA Passing ==
    /\ Plain(1, CreateTable("users", {"pubkey_hash", "legacy"}))
    /\ Plain(1, CreateTable("chat_messages", {"id", "order_id", "legacy"}))
    /\ Plain(2, CreateTable("audit_logs", {"id", "timestamp", "event_type", "legacy"}))
    /\ Plain(2, CreateTable("payment_audits", {"id", "tx_hash", "order_id", "legacy"}))
    /\ Plain(3, CreateTable("disputes", {"id", "order_id", "legacy"}))
    /\ Plain(3, CreateTable("dispute_evidence", {"id", "dispute_id", "legacy"}))
    /\ Plain(6, DropIfExists("audit_logs")) /\ Plain(6, DropIfExists("payment_audits"))
    /\ Plain(7, DropIfExists("users"))
    /\ Plain(8, DropIfExists("chat_messages")) /\ Plain(8, DropIfExists("disputes"))
    /\ Plain(8, DropIfExists("dispute_evidence"))
<1>1. {"users", "chat_messages", "audit_logs", "payment_audits", "disputes", "dispute_evidence"} \subseteq Temporary
  BY DEF Temporary
<1>2. /\ Created("users") = {"pubkey_hash", "legacy"}
      /\ Created("chat_messages") = {"id", "order_id", "legacy"}
      /\ Created("audit_logs") = {"id", "timestamp", "event_type", "legacy"}
      /\ Created("payment_audits") = {"id", "tx_hash", "order_id", "legacy"}
      /\ Created("disputes") = {"id", "order_id", "legacy"}
      /\ Created("dispute_evidence") = {"id", "dispute_id", "legacy"}
  BY DEF Created
<1>3. /\ Plain(1, CreateTable("users", Created("users")))
      /\ Plain(1, CreateTable("chat_messages", Created("chat_messages")))
      /\ Plain(2, CreateTable("audit_logs", Created("audit_logs")))
      /\ Plain(2, CreateTable("payment_audits", Created("payment_audits")))
      /\ Plain(3, CreateTable("disputes", Created("disputes")))
      /\ Plain(3, CreateTable("dispute_evidence", Created("dispute_evidence")))
  BY <1>1, OtherTables, PlainKinds
<1>4. /\ Plain(6, DropIfExists("audit_logs")) /\ Plain(6, DropIfExists("payment_audits"))
      /\ Plain(7, DropIfExists("users"))
      /\ Plain(8, DropIfExists("chat_messages")) /\ Plain(8, DropIfExists("disputes"))
      /\ Plain(8, DropIfExists("dispute_evidence"))
  BY <1>1, OtherTables, PlainKinds
<1> QED BY <1>2, <1>3, <1>4

(* The table V18 creates.                                                  *)
LEMMA TrackerCreated ==
    Plain(18, CreateTable("notification_tracker", {"tx_hash", "order_id", "buyer_pubkey", "processed_at"}))
<1> DEFINE c == {"tx_hash", "order_id", "buyer_pubkey", "processed_at"}
           a == CreateTable("notification_tracker", c)
<1>1. CreatedIn("notification_tracker") = 18 /\ Created("notification_tracker") = c
  BY DEF CreatedIn, Created
<1> HIDE DEF c
<1>2. a.op = "create table" /\ a.t = "notification_tracker" /\ a.cols = c
  BY DEF CreateTable
<1> HIDE DEF a
<1>3. Plain(18, a)
  BY <1>1, <1>2, OtherTables DEF Plain
<1> QED BY <1>3 DEF a, c

(* One statement, the last a record.                                       *)
LEMMA RecordedOne ==
    ASSUME NEW n, NEW r, r = Record(n)
    PROVE  Recorded(<<r>>, n)
<1> DEFINE v == <<r>>
<1>1. v \in Seq({r}) /\ Len(v) = 1 /\ v[1] = r
  OBVIOUS
<1>2. \A k \in 1 .. 1 : k < 1 => Plain(n, v[k])
  OBVIOUS
<1> HIDE DEF v
<1>3. Recorded(v, n)
  BY <1>1, <1>2 DEF Recorded, PlainAt, IsSeq
<1> QED BY <1>3 DEF v

(* Two statements, the last a record.                                      *)
LEMMA RecordedTwo ==
    ASSUME NEW n, NEW r, r = Record(n),
           NEW a, Plain(n, a)
    PROVE  Recorded(<<a, r>>, n)
<1> DEFINE v == <<a, r>>
<1>1. v \in Seq({a, r}) /\ Len(v) = 2 /\ v[2] = r
  OBVIOUS
<1>2. \A k \in 1 .. 2 : k < 2 => Plain(n, v[k])
  OBVIOUS
<1> HIDE DEF v
<1>3. Recorded(v, n)
  BY <1>1, <1>2 DEF Recorded, PlainAt, IsSeq
<1> QED BY <1>3 DEF v

(* Three statements, the last a record.                                    *)
LEMMA RecordedThree ==
    ASSUME NEW n, NEW r, r = Record(n),
           NEW a, Plain(n, a), NEW b, Plain(n, b)
    PROVE  Recorded(<<a, b, r>>, n)
<1> DEFINE v == <<a, b, r>>
<1>1. v \in Seq({a, b, r}) /\ Len(v) = 3 /\ v[3] = r
  OBVIOUS
<1>2. \A k \in 1 .. 3 : k < 3 => Plain(n, v[k])
  OBVIOUS
<1> HIDE DEF v
<1>3. Recorded(v, n)
  BY <1>1, <1>2 DEF Recorded, PlainAt, IsSeq
<1> QED BY <1>3 DEF v

(* Four statements, the last a record.                                     *)
LEMMA RecordedFour ==
    ASSUME NEW n, NEW r, r = Record(n),
           NEW a, Plain(n, a), NEW b, Plain(n, b), NEW c, Plain(n, c)
    PROVE  Recorded(<<a, b, c, r>>, n)
<1> DEFINE v == <<a, b, c, r>>
<1>1. v \in Seq({a, b, c, r}) /\ Len(v) = 4 /\ v[4] = r
  OBVIOUS
<1>2. \A k \in 1 .. 4 : k < 4 => Plain(n, v[k])
  OBVIOUS
<1> HIDE DEF v
<1>3. Recorded(v, n)
  BY <1>1, <1>2 DEF Recorded, PlainAt, IsSeq
<1> QED BY <1>3 DEF v

(* Seven statements, the last a record.                                    *)
LEMMA RecordedSeven ==
    ASSUME NEW n, NEW r, r = Record(n),
           NEW a, Plain(n, a), NEW b, Plain(n, b), NEW c, Plain(n, c), NEW d, Plain(n, d), NEW e, Plain(n, e), NEW f, Plain(n, f)
    PROVE  Recorded(<<a, b, c, d, e, f, r>>, n)
<1> DEFINE v == <<a, b, c, d, e, f, r>>
<1>1. v \in Seq({a, b, c, d, e, f, r}) /\ Len(v) = 7 /\ v[7] = r
  OBVIOUS
<1>2. \A k \in 1 .. 7 : k < 7 => Plain(n, v[k])
  OBVIOUS
<1> HIDE DEF v
<1>3. Recorded(v, n)
  BY <1>1, <1>2 DEF Recorded, PlainAt, IsSeq
<1> QED BY <1>3 DEF v

(* V2 is plain statements and its record.                                  *)
LEMMA V2Shape == Recorded(V2, 2)
<1> DEFINE c1 == CreateTable("audit_logs", {"id", "timestamp", "event_type", "legacy"})
           c2 == CreateTable("payment_audits", {"id", "tx_hash", "order_id", "legacy"})
           i1 == CreateIndex("idx_orders_escrow", "orders", "escrow_address")
           i2 == CreateIndex("idx_listings_search", "listings", "encrypted_search")
           i3 == CreateIndex("idx_audit_timestamp", "audit_logs", "timestamp")
           i4 == CreateIndex("idx_audit_event", "audit_logs", "event_type")
           i5 == CreateIndex("idx_payment_audit_tx", "payment_audits", "tx_hash")
           i6 == CreateIndex("idx_payment_audit_order", "payment_audits", "order_id")
           i7 == CreateIndex("idx_listings_expires", "listings", "expires_at")
           r == Record(2)
<1>1. Plain(2, c1) /\ Plain(2, c2)
  BY Passing
<1>2. Plain(2, i1) /\ Plain(2, i2) /\ Plain(2, i3) /\ Plain(2, i4) /\ Plain(2, i5) /\ Plain(2, i6) /\ Plain(2, i7)
  BY IndexKinds
<1>3. V2 = <<c1, c2, i1, i2, i3, i4, i5, i6, i7, r>>
  BY DEF V2
<1>4. r = Record(2)
  OBVIOUS
<1> HIDE DEF c1, c2, i1, i2, i3, i4, i5, i6, i7, r
<1>5. V2 \in Seq({c1, c2, i1, i2, i3, i4, i5, i6, i7, r}) /\ Len(V2) = 10 /\ V2[10] = r
  BY <1>3
<1>6. \A k \in 1 .. 10 : k < 10 => Plain(2, V2[k])
  BY <1>1, <1>2, <1>3
<1> QED BY <1>4, <1>5, <1>6 DEF Recorded, PlainAt, IsSeq

(* V3 - V9, V12 - V18: plain statements and their record.                  *)
LEMMA PlainShapes ==
    /\ Recorded(V3, 3) /\ Recorded(V4, 4) /\ Recorded(V5, 5) /\ Recorded(V6, 6)
    /\ Recorded(V7, 7) /\ Recorded(V8, 8) /\ Recorded(V9, 9) /\ Recorded(V12, 12)
    /\ Recorded(V13, 13) /\ Recorded(V14, 14) /\ Recorded(V15, 15)
    /\ Recorded(V16, 16) /\ Recorded(V17, 17) /\ Recorded(V18, 18)
<1> USE EarlyAlter, LateAlter, PlainKinds, IndexKinds, Passing
<1>3. Recorded(V3, 3)
  <2> DEFINE a == << CreateTable("disputes", {"id", "order_id", "legacy"}),
         CreateTable("dispute_evidence", {"id", "dispute_id", "legacy"}),
         CreateIndex("idx_disputes_order", "disputes", "order_id"),
         CreateIndex("idx_dispute_evidence_dispute", "dispute_evidence", "dispute_id") >>
             b == TryAddColumn("orders", "disputed_at")
             c == TryAddColumn("orders", "dispute_id")
  <2>1. Plains(a, 3)
    BY PlainsFour
  <2>2. Plains(b, 3) /\ Plains(c, 3)
    BY DEF TriedColumns
  <2>3. V3 = ((a \o b) \o c) \o <<Record(3)>>
    BY DEF V3
  <2> HIDE DEF a, b, c
  <2>4. Plains((a \o b) \o c, 3)
    BY <2>1, <2>2, PlainsJoin
  <2> QED BY <2>3, <2>4, RecordedAfter, RecordedOne
<1>4. Recorded(V4, 4)
  <2> DEFINE a == TryAddColumn("orders", "owner_pubkey")
             b == TryAddColumn("orders", "fee_percent")
             c == TryAddColumn("orders", "fee_address")
             d == TryAddColumn("orders", "multi_sig_key")
             e == TryAddColumn("orders", "multi_sig_redeem_script")
             f == TryAddColumn("orders", "buyer_sig")
             g == TryAddColumn("orders", "seller_sig")
  <2>1. Plains(a, 4) /\ Plains(b, 4) /\ Plains(c, 4) /\ Plains(d, 4) /\ Plains(e, 4) /\ Plains(f, 4) /\ Plains(g, 4)
    BY DEF TriedColumns
  <2>2. V4 = ((((((a \o b) \o c) \o d) \o e) \o f) \o g) \o <<Record(4)>>
    BY DEF V4
  <2> HIDE DEF a, b, c, d, e, f, g
  <2>3. Plains(((((a \o b) \o c) \o d) \o e) \o f, 4)
    BY <2>1, PlainsJoin
  <2>4. Plains((((((a \o b) \o c) \o d) \o e) \o f) \o g, 4)
    BY <2>1, <2>3, PlainsJoin
  <2> QED BY <2>2, <2>4, RecordedAfter, RecordedOne
<1>5. Recorded(V5, 5)
  BY RecordedAfter, RecordedOne DEF V5, TriedColumns
<1>6. Recorded(V6, 6)
  BY RecordedThree DEF V6
<1>7. Recorded(V7, 7)
  BY RecordedTwo DEF V7
<1>8. Recorded(V8, 8)
  BY RecordedSeven DEF V8
<1>9. Recorded(V9, 9)
  <2> DEFINE a == TryAddColumn("orders", "encrypted_order_blob")
             b == TryAddColumn("orders", "day_bucket")
             c == TryAddColumn("orders", "expiry_bucket")
             d == << DropIndex("idx_orders_buyer"), DropIndex("idx_orders_seller"),
                     DropIndex("idx_orders_state"), DropIndex("idx_orders_escrow"),
                     CreateIndex("idx_orders_day_bucket", "orders", "day_bucket"),
                     CreateIndex("idx_orders_expiry_bucket", "orders", "expiry_bucket"),
                     Record(9) >>
  <2>1. Plains(a, 9) /\ Plains(b, 9) /\ Plains(c, 9)
    OBVIOUS
  <2>2. Recorded(d, 9)
    BY RecordedSeven
  <2>3. V9 = ((a \o b) \o c) \o d
    BY DEF V9
  <2> HIDE DEF a, b, c, d
  <2>4. Plains((a \o b) \o c, 9)
    BY <2>1, PlainsJoin
  <2> QED BY <2>2, <2>3, <2>4, RecordedAfter
<1>12. Recorded(V12, 12)
  BY RecordedAfter, RecordedOne DEF V12
<1>13. Recorded(V13, 13)
  BY RecordedAfter, RecordedTwo DEF V13
<1>14. Recorded(V14, 14)
  <2> DEFINE a == AddColumn("listings", "status")
             b == AddColumn("listings", "currency")
             c == AddColumn("listings", "version")
             d == << CreateIndex("idx_listings_status", "listings", "status"),
                     CreateIndex("idx_listings_currency", "listings", "currency"),
                     CreateIndex("idx_listings_status_currency", "listings", "currency"),
                     Record(14) >>
  <2>1. Plains(a, 14) /\ Plains(b, 14) /\ Plains(c, 14)
    OBVIOUS
  <2>2. Recorded(d, 14)
    BY RecordedFour
  <2>3. V14 = ((a \o b) \o c) \o d
    BY DEF V14
  <2> HIDE DEF a, b, c, d
  <2>4. Plains((a \o b) \o c, 14)
    BY <2>1, PlainsJoin
  <2> QED BY <2>2, <2>3, <2>4, RecordedAfter
<1>15. Recorded(V15, 15)
  BY RecordedAfter, RecordedOne DEF V15
<1>16. Recorded(V16, 16)
  BY RecordedAfter, RecordedOne DEF V16
<1>17. Recorded(V17, 17)
  BY RecordedAfter, RecordedOne DEF V17
<1>18. Recorded(V18, 18)
  <2> DEFINE a == CreateTable("notification_tracker", {"tx_hash", "order_id", "buyer_pubkey", "processed_at"})
  <2>1. Plain(18, a)
    BY TrackerCreated
  <2>2. V18 = <<a, Record(18)>>
    BY DEF V18
  <2> HIDE DEF a
  <2> QED BY <2>1, <2>2, RecordedTwo
<1> QED BY <1>3, <1>4, <1>5, <1>6, <1>7, <1>8, <1>9, <1>12, <1>13, <1>14, <1>15, <1>16, <1>17, <1>18
-----------------------------------------------------------------------------
(* The rebuilds *)

(* Statement s is where the rebuild of t creates, fills, drops or renames. *)
RebuildStep(t, k, s) ==
    \/ k = 1 /\ s.op = "create table" /\ s.t = Copy(t) /\ s.cols = Created(Copy(t))
    \/ k = 2 /\ s.op = "insert select" /\ s.t = Copy(t) /\ s.from = t /\ s.cols = Selected(t)
    \/ k = DropAt(t) /\ s.op = "drop table" /\ s.t = t
    \/ k = DropAt(t) + 1 /\ s.op = "rename" /\ s.t = Copy(t) /\ s.to = t

(* What statement s, the k-th of version n, is. *)
PlainStep(n, k, s) ==
    /\ Plain(n, s) \/ Adds(n, s)
    /\ \A t \in Rebuilt : n = RebuildOf(t) => k \notin {1, 2, DropAt(t), DropAt(t) + 1}

StepOf(n, k, s) ==
    \/ PlainStep(n, k, s)
    \/ n = 1 /\ s.op = "create table" /\ s.t \in Rebuilt /\ s.cols = Created(s.t)
    \/ \E t \in Rebuilt : n = RebuildOf(t) /\ RebuildStep(t, k, s)

(* Before each ALTER of v is the column_exists of that column. *)
Guards(v, n) ==
    \A k \in 1 .. Len(v) : v[k].op = "add column" => k > 1 /\ Guarded(n, v[k - 1], v[k])

(* v is the migration to version n. *)
Migrates(v, n) ==
    /\ Len(v) \in Nat /\ Len(v) >= 1 /\ DOMAIN v = 1 .. Len(v)
    /\ \A k \in 1 .. Len(v) : k < Len(v) => StepOf(n, k, v[k])
    /\ Guards(v, n)
    /\ v[Len(v)] = Record(n)
    /\ \A t \in Rebuilt : n = RebuildOf(t) => DropAt(t) + 1 < Len(v)

(* A sequence has its length and its domain.                               *)
LEMMA SeqDomain ==
    ASSUME NEW v, IsSeq(v)
    PROVE  Len(v) \in Nat /\ DOMAIN v = 1 .. Len(v)
<1>1. PICK S : v \in Seq(S)
  BY DEF IsSeq
<1> QED BY <1>1, LenProperties

(* The migrations of plain statements.                                     *)
LEMMA PlainMigrates ==
    ASSUME NEW n \in Nat, n \notin {10, 11}, NEW v, Recorded(v, n)
    PROVE  Migrates(v, n)
<1>1. IsSeq(v) /\ Len(v) >= 1
  BY DEF Recorded
<1>2. Len(v) \in Nat /\ DOMAIN v = 1 .. Len(v)
  BY <1>1, SeqDomain
<1>3. \A t \in Rebuilt : n # RebuildOf(t)
  BY DEF RebuildOf
<1>4. \A k \in 1 .. Len(v) : k < Len(v) => PlainAt(n, v, k)
  BY DEF Recorded
<1>9. \A k \in 1 .. Len(v) : k < Len(v) => Plain(n, v[k]) \/ Adds(n, v[k])
  BY <1>4 DEF PlainAt, Guarded
<1>5. \A k \in 1 .. Len(v) : k < Len(v) => StepOf(n, k, v[k])
  <2> SUFFICES ASSUME NEW k \in 1 .. Len(v), k < Len(v) PROVE StepOf(n, k, v[k])
    OBVIOUS
  <2>1. Plain(n, v[k]) \/ Adds(n, v[k])
    BY <1>9
  <2>2. PlainStep(n, k, v[k])
    BY <1>3, <2>1, Zenon DEF PlainStep
  <2> QED BY <2>2 DEF StepOf
<1>7. \A k \in 1 .. Len(v) : k < Len(v) \/ k = Len(v)
  <2>1. \A m \in Nat : \A k \in 1 .. m : k < m \/ k = m
    OBVIOUS
  <2> QED BY <1>2, <2>1
<1>6. ASSUME NEW k \in 1 .. Len(v), v[k].op = "add column"
      PROVE  k > 1 /\ Guarded(n, v[k - 1], v[k])
  <2>1. CASE k < Len(v)
    BY <1>4, <1>6, <2>1 DEF PlainAt, Plain
  <2>2. CASE k = Len(v)
    <3>1. v[k] = Record(n)
      BY <2>2 DEF Recorded
    <3> QED BY <1>6, <3>1 DEF Record
  <2> QED BY <1>7, <2>1, <2>2
<1>8. Guards(v, n)
  BY <1>6 DEF Guards
<1> QED BY <1>1, <1>2, <1>3, <1>5, <1>8 DEF Migrates, Recorded

(* V1 creates the two tables that are rebuilt later.                       *)
LEMMA V1Shape == Migrates(V1, 1)
<1> DEFINE c1 == CreateTable("users", {"pubkey_hash", "legacy"})
           c2 == CreateTable("listings", {"id", "seller_pubkey_hash", "encrypted_search", "currency",
                                  "status", "expires_at", "legacy"})
           c3 == CreateTable("orders", {"id", "buyer_pubkey_hash", "seller_pubkey_hash", "state",
                                "escrow_address", "disputed_at", "legacy"})
           c4 == CreateTable("chat_messages", {"id", "order_id", "legacy"})
           i1 == CreateIndex("idx_listings_seller", "listings", "seller_pubkey_hash")
           i2 == CreateIndex("idx_listings_status", "listings", "status")
           i3 == CreateIndex("idx_orders_buyer", "orders", "buyer_pubkey_hash")
           i4 == CreateIndex("idx_orders_seller", "orders", "seller_pubkey_hash")
           i5 == CreateIndex("idx_orders_state", "orders", "state")
           i6 == CreateIndex("idx_chat_order", "chat_messages", "order_id")
           r == Record(1)
           P(s) == Plain(1, s) \/ (s.op = "create table" /\ s.t \in Rebuilt /\ s.cols = Created(s.t))
<1>1. Plain(1, c1) /\ Plain(1, c4)
  BY Passing
<1>2. Plain(1, i1) /\ Plain(1, i2) /\ Plain(1, i3) /\ Plain(1, i4) /\ Plain(1, i5) /\ Plain(1, i6)
  BY IndexKinds
<1>3. /\ c2.op = "create table" /\ c2.t \in Rebuilt /\ c2.cols = Created(c2.t)
      /\ c3.op = "create table" /\ c3.t \in Rebuilt /\ c3.cols = Created(c3.t)
  BY DEF CreateTable, Rebuilt, Created
<1>4. P(c1) /\ P(c2) /\ P(c3) /\ P(c4) /\ P(i1) /\ P(i2) /\ P(i3) /\ P(i4) /\ P(i5) /\ P(i6)
  BY <1>1, <1>2, <1>3
<1>5. V1 = <<c1, c2, c3, c4, i1, i2, i3, i4, i5, i6, r>>
  BY DEF V1
<1>6. \A s : P(s) => (Plain(1, s) \/ (s.op = "create table" /\ s.t \in Rebuilt /\ s.cols = Created(s.t))) /\ s.op # "add column"
  BY DEF Plain
<1>10. r = Record(1)
  OBVIOUS
<1> HIDE DEF c1, c2, c3, c4, i1, i2, i3, i4, i5, i6, r, P
<1>7. /\ Len(V1) = 11 /\ DOMAIN V1 = 1 .. 11 /\ V1[11] = r
      /\ \A k \in 1 .. 11 : k < 11 => P(V1[k])
  BY <1>4, <1>5
<1>8. \A t \in Rebuilt : 1 # RebuildOf(t)
  BY DEF RebuildOf
<1>9. \A k \in 1 .. 11 : k < 11 => StepOf(1, k, V1[k])
  BY <1>6, <1>7, <1>8 DEF StepOf, PlainStep
<1>11. \A k \in 1 .. 11 : V1[k].op # "add column"
  <2>1. \A k \in 1 .. 11 : k < 11 \/ k = 11
    OBVIOUS
  <2>2. r.op # "add column"
    BY <1>10 DEF Record
  <2> QED BY <1>6, <1>7, <2>1, <2>2
<1>12. Guards(V1, 1)
  BY <1>7, <1>11 DEF Guards
<1> QED BY <1>7, <1>8, <1>9, <1>10, <1>12 DEF Migrates

(* V10 rebuilds orders.                                                    *)
LEMMA V10Shape == Migrates(V10, 10)
<1> DEFINE c == CreateTable("orders_new", OrderColumns)
           f == InsertFrom("orders_new", "orders", OrderColumns)
           d == DropTable("orders")
           m == Rename("orders_new", "orders")
           i1 == CreateIndex("idx_orders_day_bucket", "orders", "day_bucket")
           i2 == CreateIndex("idx_orders_expiry_bucket", "orders", "expiry_bucket")
           r == Record(10)
           A(e) == e.op # "add column"
<1>1. Plain(10, i1) /\ Plain(10, i2)
  BY IndexKinds
<1>2. /\ RebuildStep("orders", 1, c) /\ RebuildStep("orders", 2, f)
      /\ RebuildStep("orders", 3, d) /\ RebuildStep("orders", 4, m)
  BY DEF RebuildStep, Copy, DropAt, Created, Selected, CreateTable, InsertFrom, DropTable, Rename, OrderColumns
<1>3. V10 = <<c, f, d, m, i1, i2, r>> /\ r = Record(10)
  BY DEF V10
<1>4. /\ "orders" \in Rebuilt /\ RebuildOf("orders") = 10 /\ DropAt("orders") = 3
      /\ \A t \in Rebuilt : 10 = RebuildOf(t) => t = "orders"
  BY DEF Rebuilt, RebuildOf, DropAt
<1>9. /\ A(c) /\ A(f) /\ A(d)
      /\ A(m) /\ A(i1) /\ A(i2) /\ A(r)
  BY DEF CreateTable, InsertFrom, DropTable, Rename, CreateIndex, DropIndex, Record
<1> HIDE DEF c, f, d, m, i1, i2, r, A
<1>5. StepOf(10, 1, c) /\ StepOf(10, 2, f) /\ StepOf(10, 3, d) /\ StepOf(10, 4, m)
  BY <1>2, <1>4 DEF StepOf
<1>6. StepOf(10, 5, i1) /\ StepOf(10, 6, i2)
  BY <1>1, <1>4 DEF StepOf, PlainStep
<1>7. /\ Len(V10) = 7 /\ DOMAIN V10 = 1 .. 7 /\ V10[7] = r
      /\ \A k \in 1 .. 7 : k < 7 => StepOf(10, k, V10[k])
  BY <1>3, <1>5, <1>6
<1>8. \A t \in Rebuilt : 10 = RebuildOf(t) => DropAt(t) + 1 < 7
  BY <1>4
<1>10. \A k \in 1 .. 7 : A(V10[k])
  BY <1>3, <1>9
<1>11. Guards(V10, 10)
  BY <1>7, <1>10 DEF Guards, A
<1> QED BY <1>3, <1>7, <1>8, <1>11 DEF Migrates

(* V11 rebuilds listings.                                                  *)
LEMMA V11Shape == Migrates(V11, 11)
<1> DEFINE c == CreateTable("listings_new", {"id", "encrypted_listing_blob", "day_bucket", "search_token"})
           f == InsertFrom("listings_new", "listings", {"id", "encrypted_search"})
           x1 == DropIndex("idx_listings_seller")
           x2 == DropIndex("idx_listings_status")
           x3 == DropIndex("idx_listings_search")
           x4 == DropIndex("idx_listings_expires")
           d == DropTable("listings")
           m == Rename("listings_new", "listings")
           i == CreateIndex("idx_listings_day_bucket", "listings", "day_bucket")
           r == Record(11)
           A(e) == e.op # "add column"
<1>1. Plain(11, x1) /\ Plain(11, x2) /\ Plain(11, x3) /\ Plain(11, x4) /\ Plain(11, i)
  BY PlainKinds, IndexKinds
<1>2. /\ RebuildStep("listings", 1, c) /\ RebuildStep("listings", 2, f)
      /\ RebuildStep("listings", 7, d) /\ RebuildStep("listings", 8, m)
  BY DEF RebuildStep, Copy, DropAt, Created, Selected, CreateTable, InsertFrom, DropTable, Rename
<1>3. V11 = <<c, f, x1, x2, x3, x4, d, m, i, r>> /\ r = Record(11)
  BY DEF V11
<1>4. /\ "listings" \in Rebuilt /\ RebuildOf("listings") = 11 /\ DropAt("listings") = 7
      /\ \A t \in Rebuilt : 11 = RebuildOf(t) => t = "listings"
  BY DEF Rebuilt, RebuildOf, DropAt
<1>9. /\ A(c) /\ A(f) /\ A(x1) /\ A(x2) /\ A(x3)
      /\ A(x4) /\ A(d) /\ A(m) /\ A(i) /\ A(r)
  BY DEF CreateTable, InsertFrom, DropTable, Rename, CreateIndex, DropIndex, Record
<1> HIDE DEF c, f, x1, x2, x3, x4, d, m, i, r, A
<1>5. StepOf(11, 1, c) /\ StepOf(11, 2, f) /\ StepOf(11, 7, d) /\ StepOf(11, 8, m)
  BY <1>2, <1>4 DEF StepOf
<1>6. StepOf(11, 3, x1) /\ StepOf(11, 4, x2) /\ StepOf(11, 5, x3) /\ StepOf(11, 6, x4) /\ StepOf(11, 9, i)
  BY <1>1, <1>4 DEF StepOf, PlainStep
<1>7. /\ Len(V11) = 10 /\ DOMAIN V11 = 1 .. 10 /\ V11[10] = r
      /\ \A k \in 1 .. 10 : k < 10 => StepOf(11, k, V11[k])
  BY <1>3, <1>5, <1>6
<1>8. \A t \in Rebuilt : 11 = RebuildOf(t) => DropAt(t) + 1 < 10
  BY <1>4
<1>10. \A k \in 1 .. 10 : A(V11[k])
  BY <1>3, <1>9
<1>11. Guards(V11, 11)
  BY <1>7, <1>10 DEF Guards, A
<1> QED BY <1>3, <1>7, <1>8, <1>11 DEF Migrates

(* Every migration.                                                        *)
LEMMA Shapes == Latest = 18 /\ \A n \in 1 .. Latest : Migrates(Migration[n], n)
<1>1. Latest = 18
  BY DEF Latest, Migration
<1>2. /\ Migrates(V1, 1) /\ Migrates(V10, 10) /\ Migrates(V11, 11)
      /\ Migrates(V2, 2) /\ Migrates(V3, 3) /\ Migrates(V4, 4) /\ Migrates(V5, 5) /\ Migrates(V6, 6)
  BY V1Shape, V10Shape, V11Shape, V2Shape, PlainShapes, PlainMigrates
<1>3. /\ Migrates(V7, 7) /\ Migrates(V8, 8) /\ Migrates(V9, 9) /\ Migrates(V12, 12)
      /\ Migrates(V13, 13) /\ Migrates(V14, 14) /\ Migrates(V15, 15)
      /\ Migrates(V16, 16) /\ Migrates(V17, 17) /\ Migrates(V18, 18)
  BY PlainShapes, PlainMigrates
<1>4. \A n \in 1 .. 18 : Migrates(Migration[n], n)
  BY <1>2, <1>3 DEF Migration
<1> QED BY <1>1, <1>4
-----------------------------------------------------------------------------
(* The inductive invariants *)

(* Types; proc is a function of the processes. *)
MigTyped == MigTypeOK /\ DOMAIN proc = Processes

Migrating(p) == proc[p].status = "migrating"

(* With v versions recorded: who migrates works on the next one, alone,    *)
(* or in a version where start-ups overlapped, perhaps one recorded since; *)
(* who is up has nothing left to do.                                       *)
Versions(v) ==
    /\ recorded = 1 .. v
    /\ \A p \in Processes : Migrating(p) =>
          /\ proc[p].version <= v + 1
          /\ proc[p].version \notin overlapped => proc[p].version = v + 1
    /\ \A p, q \in Processes : /\ Migrating(p) /\ Migrating(q) /\ proc[p].version = proc[q].version
                              /\ proc[p].version \notin overlapped
                              => p = q
    /\ \A p \in Processes : proc[p] = Up => v >= release

(* Once a client knows of a row of t, nobody creates the table while it is *)
(* being rebuilt: a process still in V1 is of a release that is complete.  *)
First(t, v) ==
    created[t] # {} =>
        /\ v >= 1
        /\ \A p \in Processes : Migrating(p) /\ proc[p].version = 1 => v >= release

(* The rows of t clients know of are in t while t exists.  Between its     *)
(* DROP and its RENAME they are in the copy, and if there are any the      *)
(* installed release still has this rebuild ahead.                         *)
Held(t, v) ==
    /\ t \in DOMAIN tables => created[t] \subseteq rows[t]
    /\ t \notin DOMAIN tables => created[t] \subseteq rows[Copy(t)]
    /\ t \notin DOMAIN tables /\ created[t] # {} => v = RebuildOf(t) - 1 /\ release > v

(* Where a process in the rebuild of t is: the copy is complete between    *)
(* the INSERT and the DROP, and t is back after the RENAME.                *)
Midway(t, p) ==
    Migrating(p) /\ proc[p].version = RebuildOf(t) =>
        /\ proc[p].stmt > 2 /\ proc[p].stmt <= DropAt(t) =>
              t \in DOMAIN tables /\ rows[t] \subseteq rows[Copy(t)]
        /\ proc[p].stmt > DropAt(t) + 1 => t \in DOMAIN tables

Kept(t, v) == Held(t, v) /\ \A p \in Processes : Midway(t, p)

KeptAt(v) ==
    /\ Versions(v)
    /\ \A t \in Rebuilt : First(t, v)
    /\ \A t \in Rebuilt : RebuildOf(t) \notin overlapped => Kept(t, v)

MigKept == \E v \in 0 .. Latest : KeptAt(v)

(* A bounded set of versions has a greatest one, or is empty.              *)
LEMMA Greatest ==
    ASSUME NEW b \in Nat, NEW R \in SUBSET (1 .. b)
    PROVE  \E n \in R \cup {0} : \A m \in R : m <= n
<1> DEFINE U == {n \in Nat : \A m \in R : m <= n}
<1>1. b \in U
  OBVIOUS
<1>2. PICK u \in U : \A w \in U : ~ (<<w, u>> \in OpToRel(<, Nat))
  <2>1. U \in SUBSET Nat
    OBVIOUS
  <2> HIDE DEF U
  <2> QED BY <1>1, <2>1, NatLessThanWellFounded, WFMin
<1>3. \A w \in U : ~ (w < u)
  BY <1>2 DEF OpToRel
<1>4. u \in R \cup {0}
  <2> SUFFICES ASSUME u \notin R, u # 0 PROVE FALSE
    OBVIOUS
  <2>1. u \in Nat /\ u - 1 \in Nat /\ u - 1 < u /\ R \subseteq Nat
    OBVIOUS
  <2>2. \A m \in R : m <= u /\ m # u
    OBVIOUS
  <2>3. \A m \in R : m <= u - 1
    BY <2>1, <2>2
  <2>4. u - 1 \in U
    BY <2>1, <2>3
  <2> QED BY <1>3, <2>1, <2>4
<1> QED BY <1>4

(* SELECT MAX(version) is a recorded version no other exceeds, or 0.       *)
LEMMA VersionRead ==
    ASSUME MigTyped
    PROVE  /\ get_schema_version \in recorded \cup {0}
           /\ \A m \in recorded : m <= get_schema_version
<1>1. Latest \in Nat /\ recorded \in SUBSET (1 .. Latest)
  BY Shapes DEF MigTyped, MigTypeOK
<1>2. \E n \in recorded \cup {0} : \A m \in recorded : m <= n
  BY <1>1, Greatest
<1> QED BY <1>2 DEF get_schema_version

(* The release is one of the versions.                                     *)
LEMMA ReleaseIs ==
    ASSUME MigTyped
    PROVE  release \in 1 .. Latest /\ release \in Nat /\ Latest = 18
<1>1. release \in Releases \cup {Latest} /\ Latest = 18
  BY Shapes DEF MigTyped, MigTypeOK
<1> QED BY <1>1, ReleasesAssumption

(* The statement a migrating process is at.                                *)
LEMMA Current ==
    ASSUME MigTyped, NEW p \in Processes, Migrating(p),
           NEW n, n = proc[p].version, NEW k, k = proc[p].stmt
    PROVE  /\ n \in 1 .. release /\ n \in 1 .. Latest
           /\ Len(Migration[n]) \in Nat /\ k \in 1 .. Len(Migration[n])
           /\ k < Len(Migration[n]) => StepOf(n, k, Migration[n][k])
           /\ k = Len(Migration[n]) => Migration[n][k] = Record(n)
           /\ \A t \in Rebuilt : n = RebuildOf(t) => DropAt(t) + 1 < Len(Migration[n])
<1>1. proc[p].status = "migrating"
  BY DEF Migrating
<1>2. Down.status # "migrating" /\ Up.status # "migrating"
  BY DEF Down, Up
<1>3. n \in 1 .. release /\ k \in DOMAIN Migration[n]
  BY <1>1, <1>2 DEF MigTyped, MigTypeOK
<1>4. n \in 1 .. Latest
  BY <1>3, ReleaseIs
<1>5. Migrates(Migration[n], n)
  BY <1>4, Shapes
<1> QED BY <1>3, <1>4, <1>5 DEF Migrates

(* The tables and their copies.                                            *)
LEMMA Copies ==
    ASSUME NEW t \in Rebuilt
    PROVE  /\ t \in Holders /\ Copy(t) \in Holders /\ t \in TableNames /\ Copy(t) \in TableNames
           /\ \A u \in Rebuilt : Copy(t) # u /\ (Copy(t) = Copy(u) => t = u)
           /\ \A u \in Rebuilt : RebuildOf(t) = RebuildOf(u) => t = u
           /\ RebuildOf(t) \in {10, 11} /\ DropAt(t) \in 3 .. 7
BY DEF Rebuilt, Copy, Holders, TableNames, RebuildOf, DropAt

(* A rebuild selects some column.                                          *)
LEMMA SomeSelected == \A t : Selected(t) # {}
BY DEF Selected, OrderColumns

(* What a statement before the record is, as far as types go.              *)
LEMMA StepKinds ==
    ASSUME NEW n, NEW k, NEW s, StepOf(n, k, s)
    PROVE  \/ s.op = "create table" /\ s.t \in TableNames
           \/ s.op \in {"drop table", "drop table if exists"}
           \/ s.op = "rename" /\ s.t \in Holders /\ s.to \in Holders /\ s.to \in TableNames
           \/ s.op = "insert select" /\ s.t \in Holders /\ s.from \in Holders
           \/ s.op \in {"create index", "drop index", "column exists", "add column"}
<1>1. CASE PlainStep(n, k, s)
  BY <1>1 DEF PlainStep, Plain, Adds
<1>2. CASE n = 1 /\ s.op = "create table" /\ s.t \in Rebuilt /\ s.cols = Created(s.t)
  BY <1>2, Copies
<1>3. CASE \E t \in Rebuilt : n = RebuildOf(t) /\ RebuildStep(t, k, s)
  BY <1>3, Copies DEF RebuildStep
<1> QED BY <1>1, <1>2, <1>3 DEF StepOf

(* The schema's part of the types. *)
SchemaTyped ==
    /\ DOMAIN tables \subseteq TableNames
    /\ \A x \in indexes : x[2] \in DOMAIN tables
    /\ rows \in [Holders -> SUBSET Ids]
    /\ recorded \subseteq 1 .. Latest

(* A statement that does not fail keeps the schema's types.                *)
LEMMA ExecuteTyped ==
    ASSUME SchemaTyped, NEW n \in 1 .. Latest, NEW k, NEW s, NEW found,
           StepOf(n, k, s) \/ s = Record(n), ~ Fails(s, found), Execute(s, found)
    PROVE  SchemaTyped'
<1>1. CASE s = Record(n)
  <2>1. s.op = "record" /\ s.version = n
    BY <1>1 DEF Record
  <2>2. recorded' = recorded \cup {n} /\ UNCHANGED <<tables, indexes, rows>>
    BY <2>1 DEF Execute
  <2> QED BY <2>2 DEF SchemaTyped
<1>2. CASE StepOf(n, k, s) /\ s.op = "create table"
  <2>1. s.t \in TableNames
    BY <1>2, StepKinds
  <2>2. DOMAIN tables' = DOMAIN tables \cup {s.t} /\ UNCHANGED <<indexes, rows, recorded>>
    BY <1>2 DEF Execute
  <2> QED BY <2>1, <2>2 DEF SchemaTyped
<1>3. CASE StepOf(n, k, s) /\ s.op \in {"drop table", "drop table if exists"}
  <2>1. Drop(s.t)
    BY <1>3 DEF Execute
  <2>2. DOMAIN tables' = DOMAIN tables \ {s.t}
    BY <2>1 DEF Drop, Without
  <2>3. indexes' = {x \in indexes : x[2] # s.t} /\ recorded' = recorded
    BY <2>1 DEF Drop
  <2>4. rows' \in [Holders -> SUBSET Ids]
    BY <2>1 DEF Drop, SchemaTyped
  <2> QED BY <2>2, <2>3, <2>4 DEF SchemaTyped
<1>4. CASE StepOf(n, k, s) /\ s.op = "rename"
  <2>1. s.t \in Holders /\ s.to \in Holders /\ s.to \in TableNames
    BY <1>4, StepKinds
  <2>2. /\ DOMAIN tables' = (DOMAIN tables \ {s.t}) \cup {s.to}
        /\ indexes' = {<<x[1], IF x[2] = s.t THEN s.to ELSE x[2]>> : x \in indexes}
        /\ rows' = [rows EXCEPT ![s.to] = rows[s.t], ![s.t] = {}]
        /\ recorded' = recorded
    BY <1>4 DEF Execute
  <2>3. rows' \in [Holders -> SUBSET Ids]
    BY <2>1, <2>2 DEF SchemaTyped
  <2>4. \A y \in indexes' : y[2] \in DOMAIN tables'
    BY <2>2 DEF SchemaTyped
  <2> QED BY <2>1, <2>2, <2>3, <2>4 DEF SchemaTyped
<1>5. CASE StepOf(n, k, s) /\ s.op = "insert select"
  <2>1. s.t \in Holders /\ s.from \in Holders
    BY <1>5, StepKinds
  <2>2. rows' = [rows EXCEPT ![s.t] = @ \cup rows[s.from]] /\ UNCHANGED <<tables, indexes, recorded>>
    BY <1>5 DEF Execute
  <2> QED BY <2>1, <2>2 DEF SchemaTyped
<1>6. CASE StepOf(n, k, s) /\ s.op = "create index"
  <2>1. s.t \in DOMAIN tables
    BY <1>6 DEF Fails
  <2>2. /\ \A x \in indexes' : x \in indexes \/ x = <<s.i, s.t>>
        /\ UNCHANGED <<tables, rows, recorded>>
    BY <1>6 DEF Execute
  <2> QED BY <2>1, <2>2 DEF SchemaTyped
<1>7. CASE StepOf(n, k, s) /\ s.op = "drop index"
  <2>1. indexes' \subseteq indexes /\ UNCHANGED <<tables, rows, recorded>>
    BY <1>7 DEF Execute
  <2> QED BY <2>1 DEF SchemaTyped
<1>8. CASE StepOf(n, k, s) /\ s.op = "add column"
  <2>1. DOMAIN tables' = DOMAIN tables /\ UNCHANGED <<indexes, rows, recorded>>
    BY <1>8 DEF Execute
  <2> QED BY <2>1 DEF SchemaTyped
<1>9. CASE StepOf(n, k, s) /\ s.op = "column exists"
  <2>1. UNCHANGED schema
    BY <1>9 DEF Execute
  <2> QED BY <2>1 DEF schema, SchemaTyped
<1> QED BY <1>1, <1>2, <1>3, <1>4, <1>5, <1>6, <1>7, <1>8, <1>9, StepKinds
-----------------------------------------------------------------------------
(* Types *)

(* What a process may be. *)
ProcOK(x, r) ==
    \/ x \in {Down, Up}
    \/ x.status = "migrating" /\ x.version \in 1 .. r /\ x.stmt \in DOMAIN Migration[x.version]

(* The history's part of the types. *)
HistoryTyped == overlapped \subseteq 1 .. Latest /\ refused \subseteq {"orders"} \X TriedColumns

(* The types, part by part.                                                *)
LEMMA TypeParts ==
    MigTyped <=> /\ SchemaTyped /\ HistoryTyped
                 /\ created \in [Rebuilt -> SUBSET Ids]
                 /\ \A p \in Processes : ProcOK(proc[p], release)
                 /\ DOMAIN proc = Processes
                 /\ release \in Releases \cup {Latest}
                 /\ faults \in 0 .. MaxFaults
BY DEF MigTyped, MigTypeOK, SchemaTyped, ProcOK, HistoryTyped

(* A start of migration n, of those up to the release.                     *)
LEMMA FirstStatement ==
    ASSUME NEW n \in 1 .. Latest, NEW r, n \in 1 .. r
    PROVE  ProcOK(At(n, 1, FALSE), r)
<1>1. Migrates(Migration[n], n)
  BY Shapes
<1>2. 1 \in DOMAIN Migration[n]
  BY <1>1 DEF Migrates
<1> QED BY <1>2 DEF ProcOK, At

(* The initial states have their types.                                    *)
LEMMA MigInitTyped == MigInit => MigTyped
<1> SUFFICES ASSUME MigInit PROVE MigTyped
  OBVIOUS
<1>1. DOMAIN tables = {}
  BY DEF MigInit
<1>2. SchemaTyped
  BY <1>1 DEF MigInit, SchemaTyped
<1>3. faults \in 0 .. MaxFaults
  BY MigAssumption DEF MigInit
<1>4. \A p \in Processes : ProcOK(proc[p], release)
  BY DEF MigInit, ProcOK
<1>5. created \in [Rebuilt -> SUBSET Ids] /\ DOMAIN proc = Processes /\ release \in Releases /\ HistoryTyped
  BY DEF MigInit, HistoryTyped
<1> QED BY <1>2, <1>3, <1>4, <1>5, TypeParts

(* Process p is at statement k of version n. *)
IsAt(p, n, k) == proc[p].version = n /\ proc[p].stmt = k

(* Process p, at statement k of version n, goes on past a query SQLite     *)
(* refused: a column_exists, or an ALTER whose column is then noted.       *)
Refuses(p, n, k) ==
    LET s == Migration[n][k]
    IN  /\ Migrating(p) /\ IsAt(p, n, k) /\ k < Len(Migration[n]) /\ StepOf(n, k, s)
        /\ proc' = [proc EXCEPT ![p] = At(n, k + 1, FALSE)]
        /\ UNCHANGED <<schema, created, release, overlapped>>
        /\ \/ s.op = "column exists" /\ refused' = refused
           \/ /\ s.op = "add column" /\ ~ proc[p].found /\ refused' = refused \cup {<<s.t, s.c>>}
              /\ <<s.t, s.c>> \in {"orders"} \X TriedColumns

(* That is what Refuse does.                                               *)
LEMMA Refusal ==
    ASSUME MigTyped, NEW p \in Processes, Refuse(p)
    PROVE  \E n \in 1 .. Latest : \E k \in 1 .. Len(Migration[n]) : Refuses(p, n, k)
<1> DEFINE n == proc[p].version
           k == proc[p].stmt
           s == Migration[n][k]
<1>1. Migrating(p) /\ IsAt(p, n, k)
  BY DEF Refuse, Migrating, IsAt
<1>2. /\ n \in 1 .. Latest /\ Len(Migration[n]) \in Nat /\ k \in 1 .. Len(Migration[n])
      /\ k < Len(Migration[n]) => StepOf(n, k, s)
      /\ k = Len(Migration[n]) => s = Record(n)
  BY <1>1, Current
<1>3. /\ proc' = [proc EXCEPT ![p] = After(p, FALSE)]
      /\ UNCHANGED <<schema, created, release, overlapped>>
      /\ \/ s.op = "column exists" /\ refused' = refused
         \/ s.op = "add column" /\ ~ s.strict /\ ~ proc[p].found /\ refused' = refused \cup {<<s.t, s.c>>}
  BY DEF Refuse
<1>4. k < Len(Migration[n]) => After(p, FALSE) = At(n, k + 1, FALSE)
  BY DEF After
<1>5. s = Migration[n][k]
  OBVIOUS
<1> HIDE DEF n, k, s
<1>6. s # Record(n)
  <2>1. Record(n).op = "record"
    BY DEF Record
  <2> QED BY <1>3, <2>1
<1>7. k < Len(Migration[n])
  BY <1>2, <1>6
<1>8. s.op = "add column" /\ ~ s.strict => <<s.t, s.c>> \in {"orders"} \X TriedColumns
  <2>1. s.op = "add column" => Adds(n, s)
    BY <1>2, <1>7 DEF StepOf, PlainStep, Plain, RebuildStep
  <2> QED BY <2>1 DEF Adds
<1>9. Refuses(p, n, k)
  BY <1>1, <1>2, <1>3, <1>4, <1>5, <1>7, <1>8 DEF Refuses
<1> QED BY <1>2, <1>9

(* Every step keeps the types.                                             *)
LEMMA MigNextTyped == MigTyped /\ [MigNext]_vars => MigTyped'
<1> SUFFICES ASSUME MigTyped, [MigNext]_vars PROVE MigTyped'
  OBVIOUS
<1>0. /\ SchemaTyped /\ HistoryTyped /\ created \in [Rebuilt -> SUBSET Ids]
      /\ \A p \in Processes : ProcOK(proc[p], release)
      /\ DOMAIN proc = Processes /\ release \in Releases \cup {Latest} /\ faults \in 0 .. MaxFaults
  BY TypeParts
<1>R. release \in 1 .. Latest /\ release \in Nat /\ Latest = 18
  BY ReleaseIs
<1>P. /\ SchemaTyped' /\ HistoryTyped' /\ created' \in [Rebuilt -> SUBSET Ids]
      /\ \A q \in Processes : ProcOK(proc'[q], release')
      /\ DOMAIN proc' = Processes /\ release' \in Releases \cup {Latest} /\ faults' \in 0 .. MaxFaults
      => MigTyped'
  BY DEF MigTyped, MigTypeOK, SchemaTyped, ProcOK, HistoryTyped
<1>H. UNCHANGED history => HistoryTyped'
  BY <1>0 DEF history, HistoryTyped
<1>D. ProcOK(Down, release) /\ ProcOK(Down, Latest) /\ ProcOK(Up, release)
  BY DEF ProcOK
<1>1. ASSUME NEW p \in Processes, Begin(p) PROVE MigTyped'
  <2>1. SchemaTyped' /\ created' = created /\ release' = release /\ faults' = faults
    BY <1>0, <1>1 DEF Begin, schema, SchemaTyped
  <2>5. HistoryTyped'
    <3>1. ASSUME NEW q \in Processes, Migrating(q) PROVE proc[q].version \in 1 .. Latest
      BY <3>1, Current
    <3>2. /\ refused' = refused
          /\ overlapped' = overlapped \cup {proc[q].version : q \in {x \in Processes : proc[x].status = "migrating"}}
      BY <1>1 DEF Begin
    <3> QED BY <1>0, <3>1, <3>2 DEF HistoryTyped, Migrating
  <2>2. Pending => ProcOK(At(get_schema_version + 1, 1, FALSE), release)
    <3> SUFFICES ASSUME Pending PROVE ProcOK(At(get_schema_version + 1, 1, FALSE), release)
      OBVIOUS
    <3>1. get_schema_version \in recorded \cup {0}
      BY VersionRead
    <3>5. recorded \subseteq 1 .. Latest /\ Latest = 18
      BY <1>0, <1>R DEF SchemaTyped
    <3>4. get_schema_version \in Nat
      BY <3>1, <3>5
    <3>2. get_schema_version \in Nat /\ get_schema_version < release
      BY <3>4 DEF Pending
    <3>3. get_schema_version + 1 \in 1 .. release /\ get_schema_version + 1 \in 1 .. Latest
      BY <1>R, <3>2
    <3> QED BY <3>3, FirstStatement
  <2>3. proc' = [proc EXCEPT ![p] = IF Pending THEN At(get_schema_version + 1, 1, FALSE) ELSE Up]
    BY <1>1 DEF Begin
  <2>4. DOMAIN proc' = Processes /\ \A q \in Processes : ProcOK(proc'[q], release)
    BY <1>0, <1>D, <2>2, <2>3
  <2> QED BY <1>0, <1>P, <2>1, <2>4, <2>5
<1>2. ASSUME NEW p \in Processes, Statement(p) PROVE MigTyped'
  <2> DEFINE n == proc[p].version
             k == proc[p].stmt
             s == Migration[n][k]
             next == IF k < Len(Migration[n]) THEN At(n, k + 1, s.op = "column exists" /\ Has(s.t, s.c))
                     ELSE IF n < release THEN At(n + 1, 1, FALSE) ELSE Up
  <2>1. Migrating(p)
    BY <1>2 DEF Statement, Migrating
  <2>2. /\ n \in 1 .. release /\ n \in 1 .. Latest
        /\ Len(Migration[n]) \in Nat /\ k \in 1 .. Len(Migration[n])
        /\ k < Len(Migration[n]) => StepOf(n, k, s)
        /\ k = Len(Migration[n]) => s = Record(n)
    BY <2>1, Current
  <2>3. IF Fails(s, proc[p].found)
          THEN proc' = [proc EXCEPT ![p] = Down] /\ UNCHANGED schema
          ELSE proc' = [proc EXCEPT ![p] = next] /\ Execute(s, proc[p].found)
    BY <1>2 DEF Statement, After
  <2>4. created' = created /\ release' = release /\ faults' = faults /\ HistoryTyped'
    BY <1>2, <1>H DEF Statement
  <2>5. ProcOK(next, release)
    <3>1. CASE k < Len(Migration[n])
      <4>1. Migrates(Migration[n], n)
        BY <2>2, Shapes
      <4>2. k + 1 \in DOMAIN Migration[n]
        BY <2>2, <3>1, <4>1 DEF Migrates
      <4> HIDE DEF n, k, s
      <4> QED BY <2>2, <3>1, <4>2 DEF ProcOK, At
    <3>2. CASE ~ (k < Len(Migration[n])) /\ n < release
      <4> HIDE DEF n, k, s
      <4>1. n + 1 \in 1 .. release /\ n + 1 \in 1 .. Latest
        BY <1>R, <2>2, <3>2
      <4> QED BY <3>2, <4>1, FirstStatement
    <3>3. CASE ~ (k < Len(Migration[n])) /\ ~ (n < release)
      BY <1>D, <3>3
    <3> QED BY <3>1, <3>2, <3>3
  <2> HIDE DEF n, k, s, next
  <2>6. CASE Fails(s, proc[p].found)
    <3>1. SchemaTyped'
      BY <1>0, <2>3, <2>6 DEF schema, SchemaTyped
    <3>2. DOMAIN proc' = Processes /\ \A q \in Processes : ProcOK(proc'[q], release)
      BY <1>0, <1>D, <2>3, <2>6
    <3> QED BY <1>0, <1>P, <2>4, <3>1, <3>2
  <2>7. CASE ~ Fails(s, proc[p].found)
    <3>1. SchemaTyped'
      BY <1>0, <2>2, <2>3, <2>7, ExecuteTyped
    <3>2. DOMAIN proc' = Processes /\ \A q \in Processes : ProcOK(proc'[q], release)
      BY <1>0, <2>3, <2>5, <2>7
    <3> QED BY <1>0, <1>P, <2>4, <3>1, <3>2
  <2> QED BY <2>6, <2>7
<1>3. ASSUME NEW p \in Processes, Crash(p) PROVE MigTyped'
  <2>1. SchemaTyped' /\ created' = created /\ release' = release /\ HistoryTyped'
    BY <1>0, <1>3, <1>H DEF Crash, schema, SchemaTyped
  <2>2. faults' \in 0 .. MaxFaults
    BY <1>0, <1>3, MigAssumption DEF Crash
  <2>3. DOMAIN proc' = Processes /\ \A q \in Processes : ProcOK(proc'[q], release)
    BY <1>0, <1>3, <1>D DEF Crash
  <2> QED BY <1>0, <1>P, <2>1, <2>2, <2>3
<1>4. ASSUME NEW t \in Rebuilt, NEW id \in Ids, CreateRow(t, id) PROVE MigTyped'
  <2>1. created' \in [Rebuilt -> SUBSET Ids] /\ proc' = proc /\ release' = release /\ faults' = faults /\ HistoryTyped'
    BY <1>0, <1>4, <1>H DEF CreateRow
  <2>2. SchemaTyped'
    BY <1>0, <1>4, Copies DEF CreateRow, SchemaTyped
  <2> QED BY <1>0, <1>P, <2>1, <2>2
<1>5. ASSUME Upgrade PROVE MigTyped'
  <2>1. SchemaTyped' /\ created' = created /\ release' = Latest /\ faults' = faults /\ HistoryTyped'
    BY <1>0, <1>5, <1>H DEF Upgrade, schema, SchemaTyped
  <2>2. DOMAIN proc' = Processes /\ \A q \in Processes : ProcOK(proc'[q], Latest)
    BY <1>5, <1>D DEF Upgrade
  <2> QED BY <1>0, <1>P, <2>1, <2>2
<1>6. ASSUME UNCHANGED vars PROVE MigTyped'
  <2>1. SchemaTyped' /\ created' = created /\ proc' = proc /\ release' = release /\ faults' = faults /\ HistoryTyped'
    BY <1>0, <1>6, <1>H DEF vars, schema, SchemaTyped
  <2> QED BY <1>0, <1>P, <2>1
<1>7. ASSUME NEW p \in Processes, Refuse(p) PROVE MigTyped'
  <2>1. PICK n \in 1 .. Latest : \E k \in 1 .. Len(Migration[n]) : Refuses(p, n, k)
    BY <1>7, Refusal
  <2>2. PICK k \in 1 .. Len(Migration[n]) : Refuses(p, n, k)
    BY <2>1
  <2>3. n \in 1 .. release
    BY <2>2, Current DEF Refuses, IsAt
  <2>4. /\ proc' = [proc EXCEPT ![p] = At(n, k + 1, FALSE)] /\ UNCHANGED <<schema, created, release, overlapped>>
        /\ refused' \subseteq refused \cup {<<Migration[n][k].t, Migration[n][k].c>>}
        /\ refused' = refused \/ <<Migration[n][k].t, Migration[n][k].c>> \in {"orders"} \X TriedColumns
    BY <2>2 DEF Refuses
  <2>8. faults' \in 0 .. MaxFaults
    <3>1. faults < MaxFaults /\ faults' = faults + 1
      BY <1>7 DEF Refuse
    <3> QED BY <1>0, <3>1, MigAssumption
  <2>5. ProcOK(At(n, k + 1, FALSE), release)
    <3>1. Migrates(Migration[n], n)
      BY Shapes
    <3>3. k < Len(Migration[n])
      BY <2>2 DEF Refuses
    <3>2. k + 1 \in DOMAIN Migration[n]
      BY <3>1, <3>3 DEF Migrates
    <3> QED BY <2>3, <3>2 DEF ProcOK, At
  <2>6. DOMAIN proc' = Processes /\ \A q \in Processes : ProcOK(proc'[q], release)
    BY <1>0, <2>4, <2>5
  <2>7. SchemaTyped' /\ HistoryTyped'
    BY <1>0, <2>4 DEF schema, SchemaTyped, HistoryTyped
  <2> QED BY <1>0, <1>P, <2>4, <2>6, <2>7, <2>8
<1> QED BY <1>1, <1>2, <1>3, <1>4, <1>5, <1>6, <1>7 DEF MigNext

(* The types are an invariant, however start-ups overlap.                  *)
THEOREM MigInvariant == MigSpec => []MigTyped
BY MigInitTyped, MigNextTyped, PTL DEF MigSpec

(* MigTypeOK for every number of processes, rows and faults: among it,     *)
(* that an index is always on an existing table, that a process is always  *)
(* at a statement of a migration of its release, and so that the version   *)
(* run_sqlite_migrations reads is one it has a successor for.              *)
THEOREM MigTypeCorrect == MigSpec => []MigTypeOK
<1>1. MigTyped => MigTypeOK
  BY DEF MigTyped
<1> QED BY <1>1, MigInvariant, PTL
-----------------------------------------------------------------------------
(* No row is lost *)

(* The states a process can be in are distinct.                            *)
LEMMA Statuses ==
    /\ Down.status # "migrating" /\ Up.status # "migrating" /\ Down # Up
    /\ \A n, k, b : /\ At(n, k, b).status = "migrating" /\ At(n, k, b) # Up
                    /\ At(n, k, b).version = n /\ At(n, k, b).stmt = k
<1>1. Down.status = "down" /\ Up.status = "up"
  BY DEF Down, Up
<1>2. \A n, k, b : /\ At(n, k, b).status = "migrating"
                   /\ At(n, k, b).version = n /\ At(n, k, b).stmt = k
  BY DEF At
<1> QED BY <1>1, <1>2

(* Nothing is recorded and no row known when the program is first run.     *)
LEMMA KeptInit == MigInit => MigKept
<1> SUFFICES ASSUME MigInit PROVE KeptAt(0)
  BY Shapes DEF MigKept
<1>1. \A p \in Processes : proc[p] = Down
  BY DEF MigInit
<1>2. \A p \in Processes : ~ Migrating(p) /\ proc[p] # Up
  BY <1>1, Statuses DEF Migrating
<1>3. Versions(0)
  BY <1>2 DEF MigInit, Versions
<1>4. \A t \in Rebuilt : created[t] = {}
  BY DEF MigInit
<1>5. \A t \in Rebuilt : First(t, 0)
  BY <1>4 DEF First
<1>6. \A t \in Rebuilt : Held(t, 0) /\ \A p \in Processes : Midway(t, p)
  BY <1>2, <1>4 DEF Held, Midway
<1> QED BY <1>3, <1>5, <1>6 DEF KeptAt, Kept

(* The rebuilt table t as another state has it. *)
SameTable(t) ==
    /\ UNCHANGED <<created, release>>
    /\ rows'[t] = rows[t] /\ rows'[Copy(t)] = rows[Copy(t)]
    /\ t \in DOMAIN tables' <=> t \in DOMAIN tables

(* A process stops, by a crash or because its statement failed.            *)
LEMMA Stopped ==
    ASSUME NEW v, KeptAt(v), DOMAIN proc = Processes, NEW p \in Processes,
           proc' = [proc EXCEPT ![p] = Down], UNCHANGED <<schema, created, release, overlapped>>
    PROVE  KeptAt(v)'
<1>1. /\ \A q \in Processes : proc'[q] = proc[q] \/ proc'[q] = Down
      /\ UNCHANGED <<tables, rows, recorded, created, release, overlapped>>
  BY DEF schema
<1>2. \A q \in Processes : (proc'[q].status = "migrating" \/ proc'[q] = Up) => proc'[q] = proc[q]
  BY <1>1, Statuses
<1>3. Versions(v)'
  BY <1>1, <1>2 DEF KeptAt, Versions, Migrating
<1>4. \A t \in Rebuilt : First(t, v)'
  BY <1>1, <1>2 DEF KeptAt, First, Migrating
<1>5. ASSUME NEW t \in Rebuilt, RebuildOf(t) \notin overlapped PROVE Kept(t, v)'
  <2>1. Held(t, v) /\ \A q \in Processes : Midway(t, q)
    BY <1>5 DEF KeptAt, Kept
  <2>2. Held(t, v)'
    BY <1>1, <2>1 DEF Held
  <2>3. \A q \in Processes : Midway(t, q)'
    BY <1>1, <1>2, <2>1 DEF Midway, Migrating
  <2> QED BY <2>2, <2>3 DEF Kept
<1> QED BY <1>1, <1>3, <1>4, <1>5 DEF KeptAt

(* A process starts.  Where another one is, start-ups overlap from now on. *)
LEMMA KeptBegin ==
    ASSUME MigTyped, NEW v \in Nat, KeptAt(v), NEW p \in Processes, Begin(p)
    PROVE  KeptAt(v)'
<1>1. ~ Migrating(p) /\ release \in Nat
  BY ReleaseIs, Statuses DEF Begin, Migrating
<1>2. /\ UNCHANGED <<tables, rows, recorded, created, release>>
      /\ overlapped \subseteq overlapped'
      /\ \A q \in Processes : Migrating(q) => proc[q].version \in overlapped'
  BY DEF Begin, schema, Migrating
<1>3. get_schema_version = v
  <2>1. recorded = 1 .. v
    BY DEF KeptAt, Versions
  <2>2. get_schema_version \in recorded \cup {0} /\ \A m \in recorded : m <= get_schema_version
    BY VersionRead
  <2>3. v = 0 => get_schema_version = v
    BY <2>1, <2>2
  <2>4. v # 0 => (v \in recorded /\ get_schema_version <= v /\ get_schema_version \in Nat)
    BY <2>1, <2>2
  <2> QED BY <2>2, <2>3, <2>4
<1>5. /\ proc'[p] = IF v < release THEN At(v + 1, 1, FALSE) ELSE Up
      /\ \A q \in Processes : q # p => proc'[q] = proc[q]
  BY <1>3 DEF Begin, Pending, MigTyped
<1>6. ASSUME proc'[p].status = "migrating"
      PROVE  proc'[p].version = v + 1 /\ proc'[p].stmt = 1
  <2>1. CASE v < release
    <3>1. proc'[p] = At(v + 1, 1, FALSE)
      BY <1>5, <2>1
    <3> QED BY <3>1 DEF At
  <2>2. CASE ~ (v < release)
    <3>1. proc'[p] = Up
      BY <1>5, <2>2
    <3> QED BY <1>6, <3>1, Statuses
  <2> QED BY <2>1, <2>2
<1>7. ASSUME NEW q \in Processes, q # p, proc'[q].status = "migrating"
      PROVE  /\ Migrating(q) /\ proc'[q] = proc[q] /\ proc'[q].version \in overlapped'
             /\ proc'[q].version <= v + 1
  BY <1>2, <1>5, <1>7 DEF Migrating, KeptAt, Versions
<1>8. ASSUME NEW q \in Processes, proc'[q] = Up PROVE v >= release
  <2>1. CASE q # p
    BY <1>5, <1>8, <2>1 DEF KeptAt, Versions
  <2>2. CASE q = p
    <3>1. v < release => proc'[q] = At(v + 1, 1, FALSE)
      BY <1>5, <2>2
    <3>2. ~ (v < release)
      BY <1>8, <3>1 DEF At, Up
    <3> QED BY <1>1, <3>2
  <2> QED BY <2>1, <2>2
<1>9. Versions(v)'
  <2>1. recorded' = 1 .. v
    BY <1>2 DEF KeptAt, Versions
  <2>2. \A q \in Processes : proc'[q].status = "migrating" =>
          /\ proc'[q].version <= v + 1
          /\ proc'[q].version \notin overlapped' => q = p /\ proc'[q].version = v + 1
    BY <1>6, <1>7
  <2> QED BY <1>2, <1>8, <2>1, <2>2 DEF Versions, Migrating
<1>10. ASSUME NEW t \in Rebuilt PROVE First(t, v)'
  <2>1. First(t, v)
    BY DEF KeptAt
  <2>2. ASSUME created[t] # {}, NEW q \in Processes, proc'[q].status = "migrating", proc'[q].version = 1
        PROVE  v >= release
    <3>1. q # p
      <4> SUFFICES ASSUME q = p PROVE FALSE
        OBVIOUS
      <4>1. v + 1 = 1 /\ v >= 1
        BY <1>6, <2>1, <2>2 DEF First
      <4> QED BY <4>1
    <3> QED BY <1>7, <2>1, <2>2, <3>1 DEF First
  <2> QED BY <1>2, <2>1, <2>2 DEF First, Migrating
<1>11. ASSUME NEW t \in Rebuilt, RebuildOf(t) \notin overlapped' PROVE Kept(t, v)'
  <2>1. Held(t, v) /\ \A q \in Processes : Midway(t, q)
    BY <1>2, <1>11 DEF KeptAt, Kept
  <2>2. Held(t, v)'
    BY <1>2, <2>1 DEF Held
  <2>3. \A q \in Processes : proc'[q].status = "migrating" /\ proc'[q].version = RebuildOf(t) => proc'[q].stmt = 1
    BY <1>6, <1>7, <1>11
  <2>4. DropAt(t) \in 3 .. 7
    BY Copies
  <2>5. ~ (1 > 2) /\ ~ (1 > DropAt(t) + 1)
    BY <2>4
  <2>6. \A q \in Processes : Midway(t, q)'
    BY <2>3, <2>5 DEF Midway, Migrating
  <2> QED BY <2>2, <2>6 DEF Kept
<1> QED BY <1>9, <1>10, <1>11 DEF KeptAt

(* A row is stored: somebody is up, so nobody is in a rebuild, unless      *)
(* start-ups overlapped there.                                             *)
LEMMA KeptCreate ==
    ASSUME MigTyped, NEW v \in Nat, KeptAt(v), NEW t \in Rebuilt, NEW id \in Ids, CreateRow(t, id)
    PROVE  KeptAt(v)'
<1>1. UNCHANGED <<tables, recorded, proc, release, overlapped>>
  BY DEF CreateRow, history
<1>2. v >= release /\ release \in 1 .. Latest /\ release \in Nat
  BY ReleaseIs DEF CreateRow, KeptAt, Versions
<1>3. ASSUME NEW q \in Processes, Migrating(q) PROVE proc[q].version \in overlapped
  <2>1. proc[q].version \in 1 .. release
    BY <1>3, Current
  <2>2. proc[q].version # v + 1
    BY <1>2, <2>1
  <2> QED BY <1>3, <2>2 DEF KeptAt, Versions
<1>4. Versions(v)'
  BY <1>1 DEF KeptAt, Versions, Migrating
<1>5. rows \in [Holders -> SUBSET Ids] /\ created \in [Rebuilt -> SUBSET Ids]
  BY DEF MigTyped, MigTypeOK
<1>6. /\ rows' = [rows EXCEPT ![t] = @ \cup {id}] /\ created' = [created EXCEPT ![t] = @ \cup {id}]
      /\ t \in DOMAIN tables
  BY DEF CreateRow
<1>7. ASSUME NEW u \in Rebuilt, Held(u, v) PROVE Held(u, v)'
  <2>1. CASE u = t
    <3>1. created[t] \subseteq rows[t]
      BY <1>6, <1>7, <2>1 DEF Held
    <3>2. created'[t] \subseteq rows'[t]
      BY <1>5, <1>6, <3>1, Copies
    <3> QED BY <1>1, <1>6, <2>1, <3>2 DEF Held
  <2>2. CASE u # t
    <3>1. created'[u] = created[u] /\ rows'[u] = rows[u] /\ rows'[Copy(u)] = rows[Copy(u)]
      BY <1>5, <1>6, <2>2, Copies
    <3> QED BY <1>1, <1>7, <3>1 DEF Held
  <2> QED BY <2>1, <2>2
<1>8. v >= 1
  BY <1>2
<1>9. \A u \in Rebuilt : First(u, v)'
  BY <1>1, <1>2, <1>8 DEF First, Migrating
<1>10. ASSUME NEW u \in Rebuilt, RebuildOf(u) \notin overlapped PROVE Kept(u, v)'
  <2>1. Held(u, v)'
    BY <1>7, <1>10 DEF KeptAt, Kept
  <2>2. \A q \in Processes : Midway(u, q)'
    BY <1>1, <1>3, <1>10 DEF Midway, Migrating
  <2> QED BY <2>1, <2>2 DEF Kept
<1> QED BY <1>1, <1>4, <1>9, <1>10 DEF KeptAt

(* Everything is stopped and the current release installed.                *)
LEMMA KeptUpgrade ==
    ASSUME MigTyped, NEW v \in Nat, KeptAt(v), Upgrade
    PROVE  KeptAt(v)'
<1>1. /\ UNCHANGED <<tables, rows, recorded, created, overlapped>> /\ release < release'
      /\ \A q \in Processes : proc'[q] = Down
  BY DEF Upgrade, schema, history
<1>2. \A q \in Processes : proc'[q].status # "migrating" /\ proc'[q] # Up
  BY <1>1, Statuses
<1>3. release \in Nat /\ release' \in Nat
  BY ReleaseIs DEF Upgrade
<1>4. Versions(v)'
  BY <1>1, <1>2 DEF KeptAt, Versions, Migrating
<1>5. \A t \in Rebuilt : First(t, v)'
  BY <1>1, <1>2 DEF KeptAt, First, Migrating
<1>6. ASSUME NEW t \in Rebuilt, RebuildOf(t) \notin overlapped PROVE Kept(t, v)'
  <2>1. Held(t, v)
    BY <1>6 DEF KeptAt, Kept
  <2>2. Held(t, v)'
    BY <1>1, <1>3, <2>1 DEF Held
  <2>3. \A q \in Processes : Midway(t, q)'
    BY <1>2 DEF Midway, Migrating
  <2> QED BY <2>2, <2>3 DEF Kept
<1> QED BY <1>1, <1>4, <1>5, <1>6 DEF KeptAt

(* Process p goes from statement k of version n to the next statement.     *)
Advances(p, n, k) ==
    /\ \A q \in Processes : q # p => proc'[q] = proc[q]
    /\ proc'[p].status = "migrating" /\ proc'[p].version = n /\ proc'[p].stmt = k + 1

(* Going to the next statement leaves the versions as they are.            *)
LEMMA VersionsAdvance ==
    ASSUME NEW v, Versions(v), NEW p \in Processes, Migrating(p), NEW k, NEW n, IsAt(p, n, k),
           Advances(p, n, k), UNCHANGED <<recorded, created, release, overlapped>>
    PROVE  Versions(v)' /\ \A t \in Rebuilt : First(t, v) => First(t, v)'
<1>1. \A q \in Processes : proc'[q].status = "migrating" =>
          proc[q].status = "migrating" /\ proc'[q].version = proc[q].version
  BY DEF Advances, Migrating, IsAt
<1>2. \A q \in Processes : proc'[q] = Up => proc[q] = Up
  BY Statuses DEF Advances
<1>3. Versions(v)'
  BY <1>1, <1>2 DEF Versions, Migrating
<1> QED BY <1>1, <1>3 DEF First, Migrating

(* Where nothing overlapped, whoever is in a rebuild is in it alone.       *)
LEMMA AloneIn ==
    ASSUME NEW v, Versions(v), NEW p \in Processes, Migrating(p), NEW n, NEW k, IsAt(p, n, k), n \notin overlapped
    PROVE  n = v + 1 /\ \A q \in Processes : Migrating(q) /\ proc[q].version = n => q = p
BY DEF Versions, IsAt

(* Where the next statement is, from the creation and from the DROP.       *)
LEMMA NextStatement ==
    ASSUME NEW k \in Nat, NEW d \in Nat, d > 2
    PROVE  /\ k = 1 => ~ (k + 1 > 2) /\ ~ (k + 1 > d + 1)
           /\ k = d => k > 2 /\ k <= d /\ ~ (k + 1 <= d) /\ ~ (k + 1 > d + 1)
           /\ k \notin {2, d, d + 1} => /\ k + 1 > 2 /\ k + 1 <= d => k > 2 /\ k <= d
                                        /\ k + 1 > d + 1 => k > d + 1
OBVIOUS

(* A statement that leaves t as it is and is no step of its rebuild.       *)
LEMMA KeptSame ==
    ASSUME NEW v, Versions(v), NEW t \in Rebuilt, Kept(t, v), RebuildOf(t) \notin overlapped, SameTable(t),
           NEW p \in Processes, Migrating(p), NEW n, NEW k \in Nat, IsAt(p, n, k), Advances(p, n, k),
           n = RebuildOf(t) => k \notin {2, DropAt(t), DropAt(t) + 1}
    PROVE  Kept(t, v)'
<1>1. Held(t, v) /\ \A q \in Processes : Midway(t, q)
  BY DEF Kept
<1>2. Held(t, v)'
  BY <1>1 DEF Held, SameTable
<1>3. DropAt(t) \in Nat /\ DropAt(t) > 2
  BY Copies
<1>4. n = RebuildOf(t) => /\ k + 1 > 2 /\ k + 1 <= DropAt(t) => k > 2 /\ k <= DropAt(t)
                          /\ k + 1 > DropAt(t) + 1 => k > DropAt(t) + 1
  BY <1>3, NextStatement
<1>5. Midway(t, p)'
  <2>1. n = RebuildOf(t) =>
          /\ k > 2 /\ k <= DropAt(t) => t \in DOMAIN tables /\ rows[t] \subseteq rows[Copy(t)]
          /\ k > DropAt(t) + 1 => t \in DOMAIN tables
    BY <1>1 DEF Midway, IsAt
  <2>2. n = RebuildOf(t) =>
          /\ k + 1 > 2 /\ k + 1 <= DropAt(t) => t \in DOMAIN tables' /\ rows'[t] \subseteq rows'[Copy(t)]
          /\ k + 1 > DropAt(t) + 1 => t \in DOMAIN tables'
    BY <1>4, <2>1 DEF SameTable
  <2> QED BY <2>2 DEF Midway, Advances
<1>6. ASSUME NEW q \in Processes, q # p PROVE Midway(t, q)'
  <2>1. Midway(t, q) /\ proc'[q] = proc[q]
    BY <1>1, <1>6 DEF Advances
  <2> QED BY <2>1 DEF Midway, Migrating, SameTable
<1>7. \A q \in Processes : Midway(t, q)'
  BY <1>5, <1>6
<1> QED BY <1>2, <1>7 DEF Kept

(* A plain statement leaves the rebuilt tables and the versions alone.     *)
LEMMA PlainEffect ==
    ASSUME MigTyped, NEW n, NEW s, NEW found, Plain(n, s) \/ Adds(n, s), Execute(s, found),
           UNCHANGED <<created, release>>
    PROVE  recorded' = recorded /\ \A t \in Rebuilt : SameTable(t)
<1>1. rows \in [Holders -> SUBSET Ids]
  BY DEF MigTyped, MigTypeOK
<1>2. \A t \in Rebuilt : t \in Holders /\ Copy(t) \in Holders
  BY Copies
<1>3. CASE s.op = "create table" /\ s.t \in TableNames \ Holders
  <2>1. DOMAIN tables' = DOMAIN tables \cup {s.t} /\ UNCHANGED <<rows, recorded>>
    BY <1>3 DEF Execute
  <2> QED BY <1>2, <1>3, <2>1 DEF SameTable
<1>4. CASE s.op = "drop table if exists" /\ s.t \in TableNames \ Holders
  <2>1. Drop(s.t)
    BY <1>4 DEF Execute
  <2>2. DOMAIN tables' = DOMAIN tables \ {s.t} /\ recorded' = recorded
    BY <2>1 DEF Drop, Without
  <2>3. \A h \in Holders : rows'[h] = rows[h]
    BY <1>4, <2>1 DEF Drop
  <2> QED BY <1>2, <1>4, <2>2, <2>3 DEF SameTable
<1>5. CASE s.op \in {"create index", "drop index", "column exists"}
  <2>1. UNCHANGED <<tables, rows, recorded>>
    BY <1>5 DEF Execute, schema
  <2> QED BY <2>1 DEF SameTable
<1>6. CASE s.op = "add column"
  <2>1. DOMAIN tables' = DOMAIN tables /\ UNCHANGED <<rows, recorded>>
    BY <1>6 DEF Execute
  <2> QED BY <2>1 DEF SameTable
<1> QED BY <1>3, <1>4, <1>5, <1>6, OtherTables DEF Plain, Adds

(* A step of the rebuild of u leaves the versions and the other table      *)
(* alone, and its first one also u.                                        *)
LEMMA OtherRebuilt ==
    ASSUME MigTyped, NEW u \in Rebuilt, NEW k \in Nat, NEW s, NEW found, RebuildStep(u, k, s), Execute(s, found),
           UNCHANGED <<created, release>>
    PROVE  recorded' = recorded /\ \A t \in Rebuilt : (t # u \/ k = 1) => SameTable(t)
<1>1. /\ rows \in [Holders -> SUBSET Ids] /\ DropAt(u) \in 3 .. 7
      /\ u \in Holders /\ Copy(u) \in Holders
      /\ \A t \in Rebuilt : /\ t \in Holders /\ Copy(t) \in Holders /\ Copy(u) # t /\ Copy(t) # u
                            /\ t # u => Copy(t) # Copy(u)
  BY Copies DEF MigTyped, MigTypeOK
<1>6. k = 2 \/ k = DropAt(u) \/ k = DropAt(u) + 1 => k # 1
  BY <1>1
<1>2. CASE k = 1 /\ s.op = "create table" /\ s.t = Copy(u)
  <2>1. DOMAIN tables' = DOMAIN tables \cup {Copy(u)} /\ UNCHANGED <<rows, recorded>>
    BY <1>2 DEF Execute
  <2> QED BY <1>1, <2>1 DEF SameTable
<1>3. CASE k = 2 /\ s.op = "insert select" /\ s.t = Copy(u) /\ s.from = u
  <2>1. /\ rows' = [rows EXCEPT ![Copy(u)] = @ \cup rows[u]] /\ UNCHANGED <<tables, recorded>>
    BY <1>3 DEF Execute
  <2>2. \A h \in Holders : h # Copy(u) => rows'[h] = rows[h]
    BY <1>1, <2>1
  <2>3. k # 1
    BY <1>3, <1>6, Zenon
  <2> QED BY <1>1, <2>1, <2>2, <2>3 DEF SameTable
<1>4. CASE k = DropAt(u) /\ s.op = "drop table" /\ s.t = u
  <2>4. k # 1
    BY <1>4, <1>6, Zenon
  <2>1. Drop(u)
    BY <1>4 DEF Execute
  <2>2. /\ DOMAIN tables' = DOMAIN tables \ {u} /\ recorded' = recorded
        /\ \A h \in Holders : rows'[h] = IF h = u THEN {} ELSE rows[h]
    BY <2>1 DEF Drop, Without
  <2> QED BY <1>1, <2>2, <2>4 DEF SameTable
<1>5. CASE k = DropAt(u) + 1 /\ s.op = "rename" /\ s.t = Copy(u) /\ s.to = u
  <2>1. k # 1
    BY <1>1, <1>5
  <2>2. /\ DOMAIN tables' = (DOMAIN tables \ {Copy(u)}) \cup {u} /\ recorded' = recorded
        /\ rows' = [rows EXCEPT ![u] = rows[Copy(u)], ![Copy(u)] = {}]
    BY <1>5 DEF Execute
  <2>3. \A h \in Holders : h # u /\ h # Copy(u) => rows'[h] = rows[h]
    BY <1>1, <2>2
  <2> QED BY <1>1, <2>1, <2>2, <2>3 DEF SameTable
<1> QED BY <1>2, <1>3, <1>4, <1>5 DEF RebuildStep

(* A step of the rebuild of u that does not fail, with no other process in *)
(* that rebuild.                                                           *)
LEMMA KeptRebuild ==
    ASSUME MigTyped, NEW v \in Nat, Versions(v), NEW u \in Rebuilt, Kept(u, v), RebuildOf(u) \notin overlapped,
           NEW p \in Processes, Migrating(p), NEW n, NEW k \in Nat, IsAt(p, n, k), NEW s, NEW found,
           n = RebuildOf(u), RebuildStep(u, k, s), k # 1,
           ~ Fails(s, found), Execute(s, found), UNCHANGED <<created, release>>, Advances(p, n, k)
    PROVE  Kept(u, v)'
<1>1. /\ rows \in [Holders -> SUBSET Ids] /\ n \in 1 .. release /\ release \in Nat
      /\ n = v + 1 /\ \A q \in Processes : Migrating(q) /\ proc[q].version = n => q = p
  BY Current, ReleaseIs, AloneIn DEF IsAt, MigTyped, MigTypeOK
<1>2. Held(u, v) /\ Midway(u, p)
  BY DEF Kept
<1>3. u \in Holders /\ Copy(u) \in Holders /\ Copy(u) # u /\ DropAt(u) \in 3 .. 7
  BY Copies
<1>9. DropAt(u) \in Nat /\ DropAt(u) > 2
  BY <1>3
<1>4. ASSUME Held(u, v)',
             k + 1 > 2 /\ k + 1 <= DropAt(u) =>
                u \in DOMAIN tables' /\ rows'[u] \subseteq rows'[Copy(u)],
             k + 1 > DropAt(u) + 1 => u \in DOMAIN tables'
      PROVE  Kept(u, v)'
  <2>1. Midway(u, p)'
    BY <1>4 DEF Midway, Advances
  <2>2. ASSUME NEW q \in Processes, q # p PROVE Midway(u, q)'
    <3>1. proc'[q] = proc[q] /\ ~ (Migrating(q) /\ proc[q].version = n)
      BY <1>1, <2>2 DEF Advances
    <3> QED BY <3>1 DEF Midway, Migrating
  <2> QED BY <1>4, <2>1, <2>2 DEF Kept
<1>6. CASE k = 2 /\ s.op = "insert select" /\ s.t = Copy(u) /\ s.from = u /\ s.cols = Selected(u)
  <2>1. rows' = [rows EXCEPT ![Copy(u)] = @ \cup rows[u]] /\ UNCHANGED <<tables, recorded>>
    BY <1>6 DEF Execute
  <2>2. u \in DOMAIN tables
    BY <1>6, SomeSelected DEF Fails, Has
  <2>3. rows'[Copy(u)] = rows[Copy(u)] \cup rows[u] /\ rows'[u] = rows[u]
    BY <1>1, <1>3, <2>1
  <2>5. Held(u, v)'
    BY <1>2, <2>1, <2>2, <2>3 DEF Held
  <2> QED BY <1>3, <1>4, <1>6, <2>1, <2>2, <2>3, <2>5
<1>7. CASE k = DropAt(u) /\ s.op = "drop table" /\ s.t = u
  <2>1. Drop(u)
    BY <1>7 DEF Execute
  <2>2. /\ DOMAIN tables' = DOMAIN tables \ {u} /\ recorded' = recorded
        /\ \A h \in Holders : rows'[h] = IF h = u THEN {} ELSE rows[h]
    BY <2>1 DEF Drop, Without
  <2>3. u \in DOMAIN tables /\ rows[u] \subseteq rows[Copy(u)]
    <3>1. k > 2 /\ k <= DropAt(u)
      BY <1>7, <1>9, NextStatement
    <3> QED BY <1>2, <3>1 DEF IsAt, Midway
  <2>4. created[u] \subseteq rows[Copy(u)]
    BY <1>2, <2>3 DEF Held
  <2>5. rows'[Copy(u)] = rows[Copy(u)] /\ v = RebuildOf(u) - 1 /\ release > v
    BY <1>1, <1>3, <2>2
  <2>6. Held(u, v)'
    BY <2>2, <2>4, <2>5 DEF Held
  <2>9. ~ (k + 1 <= DropAt(u)) /\ ~ (k + 1 > DropAt(u) + 1)
    BY <1>7, <1>9, NextStatement
  <2> QED BY <1>4, <2>6, <2>9
<1>8. CASE k = DropAt(u) + 1 /\ s.op = "rename" /\ s.t = Copy(u) /\ s.to = u
  <2>1. u \notin DOMAIN tables
    BY <1>8 DEF Fails
  <2>2. /\ DOMAIN tables' = (DOMAIN tables \ {Copy(u)}) \cup {u} /\ recorded' = recorded
        /\ rows' = [rows EXCEPT ![u] = rows[Copy(u)], ![Copy(u)] = {}]
    BY <1>8 DEF Execute
  <2>3. rows'[u] = rows[Copy(u)]
    BY <1>1, <1>3, <2>2
  <2>4. created[u] \subseteq rows[Copy(u)]
    BY <1>2, <2>1 DEF Held
  <2>5. Held(u, v)'
    BY <2>2, <2>3, <2>4 DEF Held
  <2>8. ~ (k + 1 <= DropAt(u)) /\ u \in DOMAIN tables'
    BY <1>3, <1>8, <2>2
  <2> QED BY <1>4, <2>5, <2>8
<1> QED BY <1>6, <1>7, <1>8 DEF RebuildStep

(* V1's CREATE TABLE of a table to be rebuilt, perhaps by a process others *)
(* have overtaken.                                                         *)
LEMMA KeptFirst ==
    ASSUME MigTyped, NEW v \in Nat, KeptAt(v), NEW p \in Processes, Migrating(p),
           NEW n, n = 1, NEW k \in Nat, IsAt(p, n, k), Advances(p, n, k), NEW u \in Rebuilt,
           DOMAIN tables' = DOMAIN tables \cup {u}, UNCHANGED <<rows, created, release>>,
           NEW t \in Rebuilt, RebuildOf(t) \notin overlapped
    PROVE  Kept(t, v)'
<1>2. Held(t, v) /\ (\A q \in Processes : Midway(t, q)) /\ First(t, v) /\ release \in Nat
  BY ReleaseIs DEF KeptAt, Kept
<1>3. t \notin DOMAIN tables => created[t] = {}
  <2> SUFFICES ASSUME t \notin DOMAIN tables, created[t] # {} PROVE FALSE
    OBVIOUS
  <2>1. v >= release
    BY <1>2 DEF First, IsAt
  <2>2. release > v
    BY <1>2 DEF Held
  <2>3. \A a, b \in Nat : ~ (a >= b /\ b > a)
    OBVIOUS
  <2> QED BY <1>2, <2>1, <2>2, <2>3
<1>4. Held(t, v)'
  BY <1>2, <1>3 DEF Held
<1>5. RebuildOf(t) # 1
  BY DEF RebuildOf
<1>6. Midway(t, p)'
  BY <1>5 DEF Midway, Advances
<1>7. ASSUME NEW q \in Processes, q # p PROVE Midway(t, q)'
  <2>1. Midway(t, q) /\ proc'[q] = proc[q]
    BY <1>2, <1>7 DEF Advances
  <2> QED BY <2>1 DEF Midway, Migrating
<1> QED BY <1>4, <1>6, <1>7 DEF Kept

(* A statement before the record that does not fail.                       *)
LEMMA KeptStep ==
    ASSUME MigTyped, NEW v \in Nat, KeptAt(v), NEW p \in Processes, Migrating(p),
           NEW n, NEW k \in Nat, IsAt(p, n, k), NEW s, NEW found,
           StepOf(n, k, s), ~ Fails(s, found), Execute(s, found),
           UNCHANGED <<created, release, overlapped>>, Advances(p, n, k)
    PROVE  KeptAt(v)'
<1>1. Versions(v) /\ \A t \in Rebuilt : First(t, v) /\ (RebuildOf(t) \notin overlapped => Kept(t, v))
  BY DEF KeptAt
<1>2. ASSUME recorded' = recorded, \A t \in Rebuilt : RebuildOf(t) \notin overlapped => Kept(t, v)'
      PROVE  KeptAt(v)'
  <2>1. Versions(v)' /\ \A t \in Rebuilt : First(t, v)'
    BY <1>1, <1>2, VersionsAdvance
  <2> QED BY <1>2, <2>1 DEF KeptAt
<1>3. CASE PlainStep(n, k, s)
  <2>1. /\ Plain(n, s) \/ Adds(n, s)
        /\ \A t \in Rebuilt : n = RebuildOf(t) => k \notin {2, DropAt(t), DropAt(t) + 1}
    BY <1>3 DEF PlainStep
  <2>2. recorded' = recorded /\ \A t \in Rebuilt : SameTable(t)
    BY <2>1, PlainEffect
  <2>3. \A t \in Rebuilt : RebuildOf(t) \notin overlapped => Kept(t, v)'
    BY <1>1, <2>1, <2>2, KeptSame
  <2> QED BY <1>2, <2>2, <2>3
<1>4. CASE n = 1 /\ s.op = "create table" /\ s.t \in Rebuilt /\ s.cols = Created(s.t)
  <2>1. DOMAIN tables' = DOMAIN tables \cup {s.t} /\ UNCHANGED <<rows, recorded>>
    BY <1>4 DEF Execute
  <2>2. PICK u \in Rebuilt : DOMAIN tables' = DOMAIN tables \cup {u}
    BY <1>4, <2>1
  <2>3. n = 1
    BY <1>4
  <2>4. \A t \in Rebuilt : RebuildOf(t) \notin overlapped => Kept(t, v)'
    BY <2>1, <2>2, <2>3, KeptFirst
  <2> QED BY <1>2, <2>1, <2>4
<1>5. CASE \E t \in Rebuilt : n = RebuildOf(t) /\ RebuildStep(t, k, s)
  <2>1. PICK u \in Rebuilt : n = RebuildOf(u) /\ RebuildStep(u, k, s)
    BY <1>5
  <2>2. recorded' = recorded /\ \A t \in Rebuilt : (t # u \/ k = 1) => SameTable(t)
    BY <2>1, OtherRebuilt
  <2>3. ASSUME NEW t \in Rebuilt, RebuildOf(t) \notin overlapped PROVE Kept(t, v)'
    <3>1. CASE t = u /\ k # 1
      BY <1>1, <2>1, <2>3, <3>1, KeptRebuild
    <3>2. CASE t # u \/ k = 1
      <4>1. n = RebuildOf(t) => t = u
        BY <2>1, Copies
      <4>2. 1 \notin {2, DropAt(t), DropAt(t) + 1}
        <5>1. DropAt(t) \in 3 .. 7
          BY Copies
        <5> QED BY <5>1
      <4>3. n = RebuildOf(t) => k \notin {2, DropAt(t), DropAt(t) + 1}
        BY <3>2, <4>1, <4>2
      <4>4. SameTable(t) /\ Kept(t, v)
        BY <1>1, <2>2, <2>3, <3>2
      <4> QED BY <1>1, <2>3, <4>3, <4>4, KeptSame
    <3> QED BY <3>1, <3>2
  <2> QED BY <1>2, <2>2, <2>3
<1> QED BY <1>3, <1>4, <1>5 DEF StepOf

(* A version is recorded, and so the next one.  Had a rebuild of known     *)
(* rows not come to its RENAME, this would not be its record.              *)
LEMMA KeptRecord ==
    ASSUME MigTyped, NEW v \in Nat, KeptAt(v), NEW p \in Processes, Migrating(p),
           NEW n, n = proc[p].version, n \notin recorded,
           \A t \in Rebuilt : n = RebuildOf(t) => proc[p].stmt > DropAt(t) + 1,
           recorded' = recorded \cup {n}, UNCHANGED <<tables, rows, created, release, overlapped>>,
           \A q \in Processes : q # p => proc'[q] = proc[q],
           proc'[p] = IF n < release THEN At(n + 1, 1, FALSE) ELSE Up
    PROVE  n = v + 1 /\ KeptAt(v + 1)'
<1>0. recorded = 1 .. v /\ release \in Nat /\ n \in 1 .. release /\ n <= v + 1 /\ Versions(v)
  BY ReleaseIs, Current DEF KeptAt, Versions
<1>1. n = v + 1
  BY <1>0
<1>2. recorded' = 1 .. v + 1
  BY <1>0, <1>1
<1>3. ASSUME proc'[p].status = "migrating"
      PROVE  proc'[p].version = (v + 1) + 1 /\ proc'[p].stmt = 1
  <2>1. n < release
    <3>1. ~ (n < release) => proc'[p] = Up
      OBVIOUS
    <3> QED BY <1>3, <3>1, Statuses
  <2>2. proc'[p] = At(n + 1, 1, FALSE)
    BY <2>1
  <2> QED BY <1>1, <2>2 DEF At
<1>4. ASSUME NEW q \in Processes, q # p, proc'[q].status = "migrating"
      PROVE  /\ proc'[q] = proc[q] /\ Migrating(q) /\ proc'[q].version <= v + 1
             /\ proc'[q].version \in Nat /\ proc'[q].version \in overlapped
  <2>1. proc'[q] = proc[q] /\ Migrating(q)
    BY <1>4 DEF Migrating
  <2>2. proc[q].version \in 1 .. release /\ proc[q].version <= v + 1
    BY <1>0, <2>1, Current DEF Versions
  <2>3. proc[q].version \in overlapped
    <3> SUFFICES ASSUME proc[q].version \notin overlapped PROVE FALSE
      OBVIOUS
    <3>1. proc[q].version = proc[p].version
      BY <1>0, <1>1, <2>1 DEF Versions
    <3> QED BY <1>0, <1>4, <2>1, <3>1 DEF Versions
  <2> QED BY <1>0, <2>1, <2>2, <2>3
<1>5. ASSUME NEW q \in Processes, proc'[q] = Up PROVE v + 1 >= release
  <2>1. CASE q # p
    <3>1. v >= release
      BY <1>0, <1>5, <2>1 DEF Versions
    <3> QED BY <1>0, <3>1
  <2>2. CASE q = p
    <3>1. ~ (n < release)
      BY <1>5, <2>2 DEF At, Up
    <3> QED BY <1>0, <1>1, <3>1
  <2> QED BY <2>1, <2>2
<1>6. Versions(v + 1)'
  <2>1. \A q \in Processes : proc'[q].status = "migrating" =>
          /\ proc'[q].version <= (v + 1) + 1
          /\ proc'[q].version \notin overlapped' => q = p /\ proc'[q].version = (v + 1) + 1
    <3>1. \A m \in Nat : m <= v + 1 => m <= (v + 1) + 1
      OBVIOUS
    <3>2. (v + 1) + 1 <= (v + 1) + 1
      OBVIOUS
    <3> QED BY <1>3, <1>4, <3>1, <3>2
  <2> QED BY <1>2, <1>5, <2>1 DEF Versions, Migrating
<1>7. ASSUME NEW t \in Rebuilt PROVE First(t, v + 1)'
  <2>1. First(t, v)
    BY DEF KeptAt
  <2>2. ASSUME created[t] # {}, NEW q \in Processes, proc'[q].status = "migrating", proc'[q].version = 1
        PROVE  v + 1 >= release
    <3>1. q # p
      <4>1. (v + 1) + 1 # 1
        OBVIOUS
      <4> QED BY <1>3, <2>2, <4>1
    <3>2. v >= release
      BY <1>4, <2>1, <2>2, <3>1 DEF First
    <3> QED BY <1>0, <3>2
  <2>3. v + 1 >= 1
    OBVIOUS
  <2> QED BY <2>2, <2>3 DEF First, Migrating
<1>8. ASSUME NEW t \in Rebuilt, RebuildOf(t) \notin overlapped PROVE Kept(t, v + 1)'
  <2>1. Held(t, v) /\ (\A q \in Processes : Midway(t, q)) /\ DropAt(t) \in 3 .. 7 /\ RebuildOf(t) \in Nat
    BY <1>8, Copies DEF KeptAt, Kept
  <2>2. ~ (t \notin DOMAIN tables /\ created[t] # {})
    <3> SUFFICES ASSUME t \notin DOMAIN tables, created[t] # {} PROVE FALSE
      OBVIOUS
    <3>1. v = RebuildOf(t) - 1
      BY <2>1 DEF Held
    <3>2. n = RebuildOf(t)
      BY <1>1, <2>1, <3>1
    <3> QED BY <2>1, <3>2 DEF Midway
  <2>3. Held(t, v + 1)'
    BY <2>1, <2>2 DEF Held
  <2>4. \A q \in Processes : proc'[q].status = "migrating" /\ proc'[q].version = RebuildOf(t) => proc'[q].stmt = 1
    BY <1>3, <1>4, <1>8
  <2>5. ~ (1 > 2) /\ ~ (1 > DropAt(t) + 1)
    BY <2>1
  <2>6. \A q \in Processes : Midway(t, q)'
    BY <2>4, <2>5 DEF Midway, Migrating
  <2> QED BY <2>3, <2>6 DEF Kept
<1> QED BY <1>1, <1>6, <1>7, <1>8 DEF KeptAt

(* The next statement of a process.                                        *)
LEMMA KeptStatement ==
    ASSUME MigTyped, NEW v \in 0 .. Latest, KeptAt(v), NEW p \in Processes, Statement(p)
    PROVE  MigKept'
<1> DEFINE n == proc[p].version
           k == proc[p].stmt
           s == Migration[n][k]
           next == IF k < Len(Migration[n]) THEN At(n, k + 1, s.op = "column exists" /\ Has(s.t, s.c))
                   ELSE IF n < release THEN At(n + 1, 1, FALSE) ELSE Up
<1>1. Migrating(p)
  BY DEF Statement, Migrating
<1>2. /\ n \in 1 .. release /\ n \in 1 .. Latest
      /\ Len(Migration[n]) \in Nat /\ k \in 1 .. Len(Migration[n])
      /\ k < Len(Migration[n]) => StepOf(n, k, s)
      /\ k = Len(Migration[n]) => s = Record(n)
      /\ \A t \in Rebuilt : n = RebuildOf(t) => DropAt(t) + 1 < Len(Migration[n])
  BY <1>1, Current
<1>3. IF Fails(s, proc[p].found)
        THEN proc' = [proc EXCEPT ![p] = Down] /\ UNCHANGED schema
        ELSE proc' = [proc EXCEPT ![p] = next] /\ Execute(s, proc[p].found)
  BY DEF Statement, After
<1>4. UNCHANGED <<created, release, overlapped>> /\ DOMAIN proc = Processes /\ IsAt(p, n, k)
  BY DEF Statement, MigTyped, IsAt, history
<1>5. v \in Nat /\ Latest \in Nat
  BY Shapes
<1>6. ~ (k < Len(Migration[n])) => next = IF n < release THEN At(n + 1, 1, FALSE) ELSE Up
  OBVIOUS
<1>7. k < Len(Migration[n]) => next.status = "migrating" /\ next.version = n /\ next.stmt = k + 1
  BY DEF At
<1>8. n = proc[p].version /\ k = proc[p].stmt
  OBVIOUS
<1> HIDE DEF n, k, s, next
<1>9. CASE Fails(s, proc[p].found)
  <2>1. KeptAt(v)'
    BY <1>3, <1>4, <1>9, Stopped
  <2> QED BY <2>1, Shapes DEF MigKept
<1>10. CASE ~ Fails(s, proc[p].found) /\ k < Len(Migration[n])
  <2>1. proc' = [proc EXCEPT ![p] = next] /\ Execute(s, proc[p].found) /\ StepOf(n, k, s) /\ k \in Nat
    BY <1>2, <1>3, <1>10
  <2>2. Advances(p, n, k)
    BY <1>4, <1>7, <1>10, <2>1 DEF Advances
  <2>3. KeptAt(v)'
    BY <1>1, <1>4, <1>5, <1>10, <2>1, <2>2, KeptStep
  <2> QED BY <2>3, Shapes DEF MigKept
<1>11. CASE ~ Fails(s, proc[p].found) /\ ~ (k < Len(Migration[n]))
  <2>1. k = Len(Migration[n])
    BY <1>2, <1>11
  <2>2. s = Record(n) /\ Execute(s, proc[p].found) /\ proc' = [proc EXCEPT ![p] = next]
    BY <1>2, <1>3, <1>11, <2>1
  <2>3. s.op = "record" /\ s.version = n
    BY <2>2 DEF Record
  <2>4. recorded' = recorded \cup {n} /\ UNCHANGED <<tables, rows>> /\ n \notin recorded
    BY <1>11, <2>2, <2>3 DEF Execute, Fails
  <2>5. /\ \A q \in Processes : q # p => proc'[q] = proc[q]
        /\ proc'[p] = IF n < release THEN At(n + 1, 1, FALSE) ELSE Up
    BY <1>4, <1>6, <1>11, <2>2
  <2>6. \A t \in Rebuilt : n = RebuildOf(t) => proc[p].stmt > DropAt(t) + 1
    <3>1. \A t \in Rebuilt : DropAt(t) \in Nat
      BY Copies
    <3>2. \A t \in Rebuilt : n = RebuildOf(t) => k > DropAt(t) + 1
      BY <1>2, <2>1, <3>1
    <3> QED BY <1>8, <3>2
  <2>7. n = v + 1 /\ KeptAt(v + 1)'
    BY <1>1, <1>4, <1>5, <1>8, <2>4, <2>5, <2>6, KeptRecord
  <2>8. v + 1 \in 0 .. Latest
    BY <1>2, <1>5, <2>7
  <2> QED BY <2>7, <2>8, Shapes DEF MigKept
<1> QED BY <1>9, <1>10, <1>11

(* A query SQLite refuses is, for the schema, a guarded ALTER skipped.     *)
LEMMA RefusedSkips ==
    ASSUME DOMAIN proc = Processes, NEW p \in Processes, NEW n, NEW k, Refuses(p, n, k)
    PROVE  /\ StepOf(n, k, Migration[n][k])
           /\ ~ Fails(Migration[n][k], TRUE) /\ Execute(Migration[n][k], TRUE)
           /\ Advances(p, n, k) /\ UNCHANGED <<created, release, overlapped>>
           /\ refused \subseteq refused'
<1> DEFINE s == Migration[n][k]
<1>1. /\ s.op = "column exists" \/ s.op = "add column"
      /\ UNCHANGED schema /\ StepOf(n, k, s) /\ UNCHANGED <<created, release, overlapped>>
      /\ refused \subseteq refused' /\ proc' = [proc EXCEPT ![p] = At(n, k + 1, FALSE)]
  BY DEF Refuses
<1> HIDE DEF s
<1>2. Advances(p, n, k)
  <2>1. proc'[p] = At(n, k + 1, FALSE) /\ \A q \in Processes : q # p => proc'[q] = proc[q]
    BY <1>1
  <2> QED BY <2>1 DEF Advances, At
<1>3. ~ Fails(s, TRUE)
  BY <1>1 DEF Fails
<1>4. Execute(s, TRUE)
  BY <1>1 DEF Execute, schema
<1> QED BY <1>1, <1>2, <1>3, <1>4 DEF s

(* Every step keeps the rows.                                              *)
LEMMA KeptNext == MigTyped /\ MigKept /\ [MigNext]_vars => MigKept'
<1> SUFFICES ASSUME MigTyped, MigKept, [MigNext]_vars PROVE MigKept'
  OBVIOUS
<1>1. PICK v \in 0 .. Latest : KeptAt(v)
  BY DEF MigKept
<1>2. v \in Nat
  BY <1>1, Shapes
<1>3. KeptAt(v)' => MigKept'
  BY <1>1, Shapes DEF MigKept
<1>4. ASSUME NEW p \in Processes, Begin(p) PROVE MigKept'
  BY <1>1, <1>2, <1>3, <1>4, KeptBegin
<1>5. ASSUME NEW p \in Processes, Statement(p) PROVE MigKept'
  BY <1>1, <1>5, KeptStatement
<1>6. ASSUME NEW p \in Processes, Crash(p) PROVE MigKept'
  <2>1. /\ DOMAIN proc = Processes /\ proc' = [proc EXCEPT ![p] = Down]
        /\ UNCHANGED <<schema, created, release, overlapped>>
    BY <1>6 DEF Crash, MigTyped, history
  <2> QED BY <1>1, <1>3, <2>1, Stopped
<1>7. ASSUME NEW t \in Rebuilt, NEW id \in Ids, CreateRow(t, id) PROVE MigKept'
  BY <1>1, <1>2, <1>3, <1>7, KeptCreate
<1>8. ASSUME Upgrade PROVE MigKept'
  BY <1>1, <1>2, <1>3, <1>8, KeptUpgrade
<1>9. ASSUME UNCHANGED vars PROVE MigKept'
  <2>1. UNCHANGED <<tables, rows, recorded, created, proc, release, overlapped>>
    BY <1>9 DEF vars, schema, history
  <2>2. KeptAt(v)'
    BY <1>1, <2>1 DEF KeptAt, Versions, First, Kept, Held, Midway, Migrating
  <2> QED BY <1>3, <2>2
<1>10. ASSUME NEW p \in Processes, Refuse(p) PROVE MigKept'
  <2>1. PICK n \in 1 .. Latest : \E k \in 1 .. Len(Migration[n]) : Refuses(p, n, k)
    BY <1>10, Refusal
  <2>2. PICK k \in 1 .. Len(Migration[n]) : Refuses(p, n, k)
    BY <2>1
  <2>3. Migrating(p) /\ IsAt(p, n, k) /\ k \in Nat /\ DOMAIN proc = Processes
    <3>1. k \in Nat
      OBVIOUS
    <3> QED BY <2>2, <3>1 DEF Refuses, MigTyped
  <2>4. /\ StepOf(n, k, Migration[n][k])
        /\ ~ Fails(Migration[n][k], TRUE) /\ Execute(Migration[n][k], TRUE)
        /\ Advances(p, n, k) /\ UNCHANGED <<created, release, overlapped>>
    BY <2>2, <2>3, RefusedSkips
  <2>5. KeptAt(v)'
    BY <1>1, <1>2, <2>3, <2>4, KeptStep
  <2> QED BY <1>3, <2>5
<1> QED BY <1>4, <1>5, <1>6, <1>7, <1>8, <1>9, <1>10 DEF MigNext

(* What the invariant says of the rows.                                    *)
LEMMA KeptIsNoLoss == MigTyped /\ MigKept => NoRowLost
<1> SUFFICES ASSUME MigTyped, MigKept, NEW t \in Rebuilt, RebuildOf(t) \notin overlapped
             PROVE  /\ created[t] \subseteq rows[t] \cup rows[Copy(t)]
                    /\ (\E p \in Processes : proc[p] = Up) => created[t] \subseteq rows[t]
  BY DEF NoRowLost
<1>1. PICK v \in 0 .. Latest : KeptAt(v)
  BY DEF MigKept
<1>2. Held(t, v) /\ v \in Nat /\ release \in Nat
  BY <1>1, ReleaseIs, Shapes DEF KeptAt, Kept
<1>3. ASSUME NEW p \in Processes, proc[p] = Up PROVE created[t] \subseteq rows[t]
  <2>1. v >= release
    BY <1>1, <1>3 DEF KeptAt, Versions
  <2>2. ~ (release > v)
    BY <1>2, <2>1
  <2> QED BY <1>2, <2>2 DEF Held
<1>4. created[t] \subseteq rows[t] \cup rows[Copy(t)]
  BY <1>2 DEF Held
<1> QED BY <1>3, <1>4

(* NoRowLost for every number of processes: however start-ups overlap,     *)
(* however often V10 and V11 are cut off and run again, from whatever      *)
(* release, no row a client was told of is lost, unless two processes were *)
(* in the rebuild of its table at the same time.                           *)
THEOREM MigNoRowLost == MigSpec => []NoRowLost
<1>1. MigInit => MigTyped /\ MigKept
  BY MigInitTyped, KeptInit
<1>2. MigTyped /\ MigKept /\ [MigNext]_vars => MigTyped' /\ MigKept'
  BY MigNextTyped, KeptNext
<1> QED BY <1>1, <1>2, KeptIsNoLoss, PTL DEF MigSpec
-----------------------------------------------------------------------------
(* The schema that is served on *)

(* Statement k of version n has run, in a migration that was not cut off.  *)
Ran(n, k) ==
    \/ n \in recorded
    \/ \E p \in Processes : Migrating(p) /\ proc[p].version = n /\ proc[p].stmt > k

(* What statement s of version n leaves behind for good: its column, for   *)
(* an ALTER, unless it failed and was only logged.                         *)
Lasts(n, s) ==
    /\ s.op = "drop table if exists" => s.t \notin DOMAIN tables
    /\ s.op = "create table" /\ s.t = "notification_tracker" => s.t \in DOMAIN tables
    /\ s.op = "add column" /\ n > RebuildOf(s.t) => Has(s.t, s.c) \/ <<s.t, s.c>> \in refused
    /\ s.op = "rename" => /\ s.t \notin DOMAIN tables /\ s.to \in DOMAIN tables
                          /\ Created(s.t) \subseteq tables[s.to]
                          /\ tables[s.to] \subseteq Model[s.to]

AllLast ==
    \A n \in 1 .. Latest : \A k \in 1 .. Len(Migration[n]) : Ran(n, k) => Lasts(n, Migration[n][k])

(* What column_exists found is still so when its ALTER comes, to a rebuilt *)
(* table or with no other process about.                                   *)
Saw(q) == q.op = "column exists" /\ Has(q.t, q.c)
FoundIs(p) ==
    LET s == Migration[proc[p].version][proc[p].stmt]
    IN  /\ Migrating(p) /\ proc[p].found /\ s.op = "add column"
        /\ proc[p].version > RebuildOf(s.t) \/ overlapped = {}
        => Has(s.t, s.c)

(* tables is a function, and who is only created has the columns for it. *)
TablesOK ==
    /\ tables = [x \in DOMAIN tables |-> tables[x]]
    /\ \A t \in AsCreated : t \in DOMAIN tables => tables[t] = Created(t)

MigLaid == AllLast /\ TablesOK /\ \A p \in Processes : FoundIs(p)

(* No two processes were in a version that must be run alone. *)
Tidy == overlapped \cap Exclusive = {}

(* The rebuilds, and what creates a table dropped later, must be run alone.*)
LEMMA ExclusiveIs ==
    /\ \A u \in Rebuilt : RebuildOf(u) \in Exclusive
    /\ \A t \in Temporary : CreatedIn(t) \in Exclusive /\ CreatedIn(t) \in Nat
BY DEF Rebuilt, RebuildOf, Exclusive, Temporary, CreatedIn

(* What a step does to the tables: one more, one less, a copy in place of  *)
(* its original, one column more.                                          *)
Grows(t, cols) ==
    /\ DOMAIN tables' = DOMAIN tables \cup {t}
    /\ \A x \in DOMAIN tables : tables'[x] = tables[x]
    /\ t \notin DOMAIN tables => tables'[t] = cols
Shrinks(t) ==
    /\ DOMAIN tables' = DOMAIN tables \ {t}
    /\ \A x \in DOMAIN tables' : tables'[x] = tables[x]
Replaces(u) ==
    /\ Copy(u) \in DOMAIN tables /\ u \notin DOMAIN tables
    /\ DOMAIN tables' = (DOMAIN tables \ {Copy(u)}) \cup {u}
    /\ tables'[u] = tables[Copy(u)]
    /\ \A x \in DOMAIN tables : x # Copy(u) => tables'[x] = tables[x]
Widens(t, c) ==
    /\ DOMAIN tables' = DOMAIN tables
    /\ \A x \in DOMAIN tables : tables[x] \subseteq tables'[x] /\ (x # t => tables'[x] = tables[x])
    /\ t \in DOMAIN tables => tables'[t] \subseteq tables[t] \cup {c}

(* The CREATE TABLEs: version, columns, place. *)
CreateIs(n, k, s) ==
    /\ CreatedIn(s.t) = n
    /\ s.cols = Created(s.t)
    /\ \A u \in Rebuilt : s.t = Copy(u) => k = 1

(* Statement s, the k-th of version n, did this to the tables. *)
Did(n, k, s) ==
    \/ /\ s.op \in {"create index", "drop index", "column exists", "insert select"}
       /\ tables' = tables
    \/ s.op = "create table" /\ CreateIs(n, k, s) /\ Grows(s.t, s.cols)
    \/ s.op = "drop table if exists" /\ s.t \in Temporary /\ Shrinks(s.t)
    \/ s.op = "drop table" /\ \E u \in Rebuilt : n = RebuildOf(u) /\ k = DropAt(u) /\ Shrinks(u)
    \/ /\ s.op = "rename" /\ s.to \in Rebuilt /\ s.t = Copy(s.to)
       /\ n = RebuildOf(s.to) /\ k = DropAt(s.to) + 1 /\ Replaces(s.to)
    \/ s.op = "add column" /\ Adds(n, s) /\ Widens(s.t, s.c)

(* When the rebuilt tables and their copies are created.                   *)
LEMMA CreatedInIs ==
    ASSUME NEW u \in Rebuilt
    PROVE  /\ CreatedIn(u) = 1 /\ CreatedIn(Copy(u)) = RebuildOf(u)
           /\ u \notin AsCreated /\ u \notin Temporary /\ Copy(u) \notin Temporary /\ Copy(u) \in AsCreated
           /\ u # "notification_tracker" /\ Copy(u) # "notification_tracker"
           /\ \A t \in AsCreated : t \in Holders => \E w \in Rebuilt : t = Copy(w)
BY DEF Rebuilt, Copy, CreatedIn, RebuildOf, AsCreated, Temporary, Holders

(* The copies have only columns of the models.                             *)
LEMMA CopiesInModel ==
    ASSUME NEW u \in Rebuilt
    PROVE  Created(Copy(u)) \subseteq Model[u]
BY DEF Rebuilt, Copy, Created, Model

(* The CREATE TABLEs.                                                      *)
LEMMA CreateKinds ==
    ASSUME NEW n, NEW k, NEW s, StepOf(n, k, s), s.op = "create table"
    PROVE  CreateIs(n, k, s)
<1>1. CASE PlainStep(n, k, s)
  <2>1. Plain(n, s)
    BY <1>1 DEF PlainStep, Adds
  <2>2. s.t \notin Holders /\ CreatedIn(s.t) = n /\ s.cols = Created(s.t)
    BY <2>1 DEF Plain
  <2> QED BY <2>2, Copies DEF CreateIs
<1>2. CASE n = 1 /\ s.op = "create table" /\ s.t \in Rebuilt /\ s.cols = Created(s.t)
  BY <1>2, CreatedInIs, Copies DEF CreateIs
<1>3. CASE \E t \in Rebuilt : n = RebuildOf(t) /\ RebuildStep(t, k, s)
  <2>1. PICK t \in Rebuilt : n = RebuildOf(t) /\ RebuildStep(t, k, s)
    BY <1>3
  <2>2. k = 1 /\ s.t = Copy(t) /\ s.cols = Created(Copy(t))
    BY <2>1 DEF RebuildStep
  <2> QED BY <2>1, <2>2, CreatedInIs DEF CreateIs
<1> QED BY <1>1, <1>2, <1>3 DEF StepOf

(* The statements that remove or rename a table, and the ALTERs.           *)
LEMMA OtherKinds ==
    ASSUME NEW n, NEW k, NEW s, StepOf(n, k, s)
    PROVE  /\ s.op = "drop table if exists" => s.t \in Temporary /\ CreatedIn(s.t) < n
           /\ s.op = "drop table" => s.t \in Rebuilt /\ n = RebuildOf(s.t) /\ k = DropAt(s.t)
           /\ s.op = "rename" => /\ s.to \in Rebuilt /\ s.t = Copy(s.to)
                                 /\ n = RebuildOf(s.to) /\ k = DropAt(s.to) + 1
           /\ s.op = "add column" => Adds(n, s)
<1>1. CASE PlainStep(n, k, s)
  BY <1>1 DEF PlainStep, Plain, Adds
<1>2. CASE n = 1 /\ s.op = "create table" /\ s.t \in Rebuilt /\ s.cols = Created(s.t)
  BY <1>2
<1>3. CASE \E t \in Rebuilt : n = RebuildOf(t) /\ RebuildStep(t, k, s)
  BY <1>3 DEF RebuildStep
<1> QED BY <1>1, <1>2, <1>3 DEF StepOf

(* What an executed statement does to the tables.                          *)
LEMMA StepDid ==
    ASSUME TablesOK, NEW n, NEW k, NEW s, NEW found, StepOf(n, k, s),
           ~ Fails(s, found), Execute(s, found)
    PROVE  Did(n, k, s) /\ tables' = [x \in DOMAIN tables' |-> tables'[x]]
<1>1. tables = [x \in DOMAIN tables |-> tables[x]]
  BY DEF TablesOK
<1>2. CASE s.op \in {"create index", "drop index", "column exists", "insert select"}
  <2>1. tables' = tables
    BY <1>2 DEF Execute, schema
  <2> QED BY <1>1, <1>2, <2>1 DEF Did
<1>3. CASE s.op = "create table"
  <2>1. tables' = [x \in DOMAIN tables \cup {s.t} |-> IF x \in DOMAIN tables THEN tables[x] ELSE s.cols]
    BY <1>3 DEF Execute
  <2>2. Grows(s.t, s.cols) /\ tables' = [x \in DOMAIN tables' |-> tables'[x]]
    BY <2>1 DEF Grows
  <2>3. CreateIs(n, k, s)
    BY <1>3, CreateKinds
  <2>4. Did(n, k, s)
    BY <1>3, <2>2, <2>3 DEF Did
  <2> QED BY <2>2, <2>4
<1>4. CASE s.op \in {"drop table if exists", "drop table"}
  <2>1. tables' = [x \in DOMAIN tables \ {s.t} |-> tables[x]]
    BY <1>4 DEF Execute, Drop, Without
  <2>2. Shrinks(s.t) /\ tables' = [x \in DOMAIN tables' |-> tables'[x]]
    BY <2>1 DEF Shrinks
  <2> QED BY <1>4, <2>2, OtherKinds DEF Did
<1>5. CASE s.op = "rename"
  <2>1. tables' = [x \in (DOMAIN tables \ {s.t}) \cup {s.to} |-> tables[IF x = s.to THEN s.t ELSE x]]
    BY <1>5 DEF Execute
  <2>2. s.t \in DOMAIN tables /\ s.to \notin DOMAIN tables
    BY <1>5 DEF Fails
  <2>3. s.to \in Rebuilt /\ s.t = Copy(s.to) /\ n = RebuildOf(s.to) /\ k = DropAt(s.to) + 1
    BY <1>5, OtherKinds
  <2>4. Replaces(s.to) /\ tables' = [x \in DOMAIN tables' |-> tables'[x]]
    BY <2>1, <2>2, <2>3 DEF Replaces
  <2> QED BY <1>5, <2>3, <2>4 DEF Did
<1>6. CASE s.op = "add column"
  <2>1. tables' = IF found \/ s.t \notin DOMAIN tables THEN tables
                  ELSE [tables EXCEPT ![s.t] = @ \cup {s.c}]
    BY <1>6 DEF Execute
  <2>2. CASE found \/ s.t \notin DOMAIN tables
    <3>1. tables' = tables
      BY <2>1, <2>2
    <3>2. Widens(s.t, s.c)
      BY <3>1 DEF Widens
    <3> QED BY <1>1, <1>6, <3>1, <3>2, OtherKinds DEF Did
  <2>3. CASE ~ (found \/ s.t \notin DOMAIN tables)
    <3>1. tables' = [tables EXCEPT ![s.t] = @ \cup {s.c}]
      BY <2>1, <2>3
    <3>2. Widens(s.t, s.c) /\ tables' = [x \in DOMAIN tables' |-> tables'[x]]
      BY <1>1, <3>1 DEF Widens
    <3> QED BY <1>6, <3>2, OtherKinds DEF Did
  <2> QED BY <2>2, <2>3
<1> QED BY <1>2, <1>3, <1>4, <1>5, <1>6, StepKinds

(* Whatever a step creates, no dropped table comes back: its CREATE TABLE  *)
(* is in another version.                                                  *)
LEMMA StaysGone ==
    ASSUME NEW n \in Nat, NEW k, NEW s, Did(n, k, s),
           NEW t \in Temporary, CreatedIn(t) # n, t \notin DOMAIN tables
    PROVE  t \notin DOMAIN tables'
<1>1. CreatedIn(t) # n
  OBVIOUS
<1>2. \A u \in Rebuilt : t # u
  BY CreatedInIs
<1>3. CASE s.op = "create table" /\ CreateIs(n, k, s) /\ Grows(s.t, s.cols)
  BY <1>1, <1>3 DEF Grows, CreateIs
<1>4. CASE tables' = tables
  BY <1>4
<1>5. CASE \E u : Shrinks(u)
  BY <1>5 DEF Shrinks
<1>6. CASE s.to \in Rebuilt /\ Replaces(s.to)
  BY <1>2, <1>6 DEF Replaces
<1>7. CASE Widens(s.t, s.c)
  BY <1>7 DEF Widens
<1> QED BY <1>3, <1>4, <1>5, <1>6, <1>7 DEF Did

(* No step removes the table the last migration creates.                   *)
LEMMA TrackerStays ==
    ASSUME NEW n, NEW k, NEW s, Did(n, k, s), "notification_tracker" \in DOMAIN tables
    PROVE  "notification_tracker" \in DOMAIN tables'
<1>1. "notification_tracker" \notin Temporary /\ \A u \in Rebuilt : u # "notification_tracker" /\ Copy(u) # "notification_tracker"
  BY OtherTables, CreatedInIs
<1>2. CASE s.op = "create table" /\ Grows(s.t, s.cols)
  BY <1>2 DEF Grows
<1>3. CASE tables' = tables
  BY <1>3
<1>4. CASE \E u : (u \in Temporary \/ u \in Rebuilt) /\ Shrinks(u)
  BY <1>1, <1>4 DEF Shrinks
<1>5. CASE s.to \in Rebuilt /\ Replaces(s.to)
  BY <1>1, <1>5 DEF Replaces
<1>6. CASE Widens(s.t, s.c)
  BY <1>6 DEF Widens
<1> QED BY <1>2, <1>3, <1>4, <1>5, <1>6 DEF Did

(* After its rebuild a table is only widened, by columns of its model, and *)
(* no version that may overlap others does more.                           *)
LEMMA OnlyWidened ==
    ASSUME NEW n \in Nat, NEW k \in Nat, NEW s, Did(n, k, s), NEW u \in Rebuilt, u \in DOMAIN tables,
           n \in Exclusive => RebuildOf(u) <= n /\ (n = RebuildOf(u) => k > DropAt(u) + 1)
    PROVE  /\ u \in DOMAIN tables' /\ tables[u] \subseteq tables'[u]
           /\ tables[u] \subseteq Model[u] => tables'[u] \subseteq Model[u]
           /\ Copy(u) \notin DOMAIN tables => Copy(u) \notin DOMAIN tables'
<1>1. /\ RebuildOf(u) \in Nat /\ DropAt(u) \in Nat /\ u \notin Temporary
      /\ \A w \in Rebuilt : Copy(w) # u /\ Copy(u) # w /\ (Copy(w) = Copy(u) => w = u)
      /\ CreatedIn(Copy(u)) = RebuildOf(u)
  BY Copies, CreatedInIs
<1>9. RebuildOf(u) \in Exclusive
  BY ExclusiveIs
<1>2. ~ (n = RebuildOf(u) /\ (k = 1 \/ k = DropAt(u) \/ k = DropAt(u) + 1))
  BY <1>1, <1>9
<1>3. CASE s.op = "create table" /\ CreateIs(n, k, s) /\ Grows(s.t, s.cols)
  <2>1. s.t # Copy(u)
    BY <1>1, <1>2, <1>3 DEF CreateIs
  <2> QED BY <1>3, <2>1 DEF Grows
<1>4. CASE tables' = tables
  BY <1>4
<1>5. CASE s.t \in Temporary /\ Shrinks(s.t)
  BY <1>1, <1>5 DEF Shrinks
<1>6. CASE \E w \in Rebuilt : n = RebuildOf(w) /\ k = DropAt(w) /\ Shrinks(w)
  <2>1. PICK w \in Rebuilt : n = RebuildOf(w) /\ k = DropAt(w) /\ Shrinks(w)
    BY <1>6
  <2>2. w # u
    BY <1>2, <2>1
  <2> QED BY <2>1, <2>2 DEF Shrinks
<1>7. CASE s.to \in Rebuilt /\ n = RebuildOf(s.to) /\ k = DropAt(s.to) + 1 /\ Replaces(s.to)
  <2>1. s.to # u
    BY <1>2, <1>7
  <2> QED BY <1>1, <1>7, <2>1 DEF Replaces
<1>8. CASE s.op = "add column" /\ Adds(n, s) /\ Widens(s.t, s.c)
  <2>1. u \in DOMAIN tables' /\ tables[u] \subseteq tables'[u] /\ (Copy(u) \notin DOMAIN tables => Copy(u) \notin DOMAIN tables')
    BY <1>8 DEF Widens
  <2>2. CASE s.t # u
    BY <1>8, <2>1, <2>2 DEF Widens
  <2>3. CASE s.t = u
    <3>1. n \notin {10, 11} /\ RebuildOf(u) \in {10, 11}
      BY <1>8, Copies DEF Adds
    <3>2. n > RebuildOf(u) \/ n \notin Exclusive
      BY <1>1, <3>1
    <3>3. s.c \in Model[u]
      BY <1>8, <2>3, <3>2 DEF Adds
    <3>4. tables'[u] \subseteq tables[u] \cup {s.c}
      BY <1>8, <2>3 DEF Widens
    <3> QED BY <2>1, <3>3, <3>4
  <2> QED BY <2>2, <2>3
<1> QED BY <1>3, <1>4, <1>5, <1>6, <1>7, <1>8 DEF Did

(* What a statement left behind outlives every later one: r is the j-th of *)
(* version m, s the k-th of version n.                                     *)
LEMMA LastsOn ==
    ASSUME NEW n \in Nat, NEW k \in Nat, NEW s, Did(n, k, s),
           NEW m \in Nat, NEW j \in Nat, NEW r, StepOf(m, j, r),
           n \in Exclusive => m <= n /\ (m = n => j < k), Lasts(m, r), refused \subseteq refused'
    PROVE  Lasts(m, r)'
<1>1. ASSUME r.op = "drop table if exists" PROVE r.t \notin DOMAIN tables'
  <2>1. r.t \in Temporary /\ CreatedIn(r.t) < m /\ r.t \notin DOMAIN tables
    BY <1>1, OtherKinds DEF Lasts
  <2>2. CreatedIn(r.t) \in Nat /\ CreatedIn(r.t) \in Exclusive
    BY <2>1, ExclusiveIs
  <2>3. \A b \in Nat : b < m => b # n \/ ~ (m <= n)
    OBVIOUS
  <2>4. CreatedIn(r.t) # n
    BY <2>1, <2>2, <2>3
  <2> QED BY <2>1, <2>4, StaysGone
<1>2. ASSUME r.op = "create table", r.t = "notification_tracker" PROVE r.t \in DOMAIN tables'
  BY <1>2, TrackerStays DEF Lasts
<1>3. ASSUME r.op = "add column", m > RebuildOf(r.t) PROVE Has(r.t, r.c)' \/ <<r.t, r.c>> \in refused'
  <2>1. (Has(r.t, r.c) \/ <<r.t, r.c>> \in refused) /\ r.t \in Rebuilt
    BY <1>3, OtherKinds DEF Lasts, Adds
  <2>2. RebuildOf(r.t) \in Nat
    BY DEF RebuildOf
  <2>3. \A b \in Nat : m > b /\ m <= n => b <= n /\ n # b
    OBVIOUS
  <2>4. n \in Exclusive => RebuildOf(r.t) <= n /\ n # RebuildOf(r.t)
    BY <1>3, <2>2, <2>3
  <2>5. CASE <<r.t, r.c>> \in refused
    BY <2>5
  <2>6. CASE Has(r.t, r.c)
    BY <2>1, <2>4, <2>6, OnlyWidened DEF Has
  <2> QED BY <2>1, <2>5, <2>6
<1>4. ASSUME r.op = "rename"
      PROVE  /\ r.t \notin DOMAIN tables' /\ r.to \in DOMAIN tables'
             /\ Created(r.t) \subseteq tables'[r.to]
             /\ tables'[r.to] \subseteq Model[r.to]
  <2>1. r.to \in Rebuilt /\ r.t = Copy(r.to) /\ m = RebuildOf(r.to) /\ j = DropAt(r.to) + 1
    BY <1>4, OtherKinds
  <2>2. /\ r.t \notin DOMAIN tables /\ r.to \in DOMAIN tables
        /\ Created(r.t) \subseteq tables[r.to] /\ tables[r.to] \subseteq Model[r.to]
    BY <1>4 DEF Lasts
  <2>3. n \in Exclusive => RebuildOf(r.to) <= n /\ (n = RebuildOf(r.to) => k > DropAt(r.to) + 1)
    BY <2>1
  <2> QED BY <2>1, <2>2, <2>3, OnlyWidened
<1> QED BY <1>1, <1>2, <1>3, <1>4 DEF Lasts

(* What the statement itself leaves behind.  An ALTER whose guard found    *)
(* the column leaves it there, and its table is there since its rebuild;   *)
(* one SQLite refused is one skipped.                                      *)
LEMMA LastsNow ==
    ASSUME TablesOK, NEW n, NEW k, NEW s, NEW found, StepOf(n, k, s),
           ~ Fails(s, found), Execute(s, found), Did(n, k, s),
           s.op = "add column" /\ n > RebuildOf(s.t) /\ found => Has(s.t, s.c) \/ <<s.t, s.c>> \in refused',
           s.op = "add column" /\ n > RebuildOf(s.t) => s.t \in DOMAIN tables
    PROVE  Lasts(n, s)'
<1>1. ASSUME s.op = "drop table if exists" PROVE s.t \notin DOMAIN tables'
  BY <1>1 DEF Did, Shrinks
<1>2. ASSUME s.op = "create table" PROVE s.t \in DOMAIN tables'
  BY <1>2 DEF Did, Grows
<1>3. ASSUME s.op = "add column", n > RebuildOf(s.t) PROVE Has(s.t, s.c)' \/ <<s.t, s.c>> \in refused'
  <2>1. tables' = IF found \/ s.t \notin DOMAIN tables THEN tables
                  ELSE [tables EXCEPT ![s.t] = @ \cup {s.c}]
    BY <1>3 DEF Execute
  <2>2. s.t \in DOMAIN tables
    BY <1>3
  <2>3. CASE found
    BY <1>3, <2>1, <2>3 DEF Has
  <2>4. CASE ~ found
    <3>1. tables' = [tables EXCEPT ![s.t] = @ \cup {s.c}]
      BY <2>1, <2>2, <2>4
    <3>2. s.t \in DOMAIN tables' /\ s.c \in tables'[s.t]
      BY <2>2, <3>1
    <3> QED BY <3>2 DEF Has
  <2> QED BY <2>3, <2>4
<1>4. ASSUME s.op = "rename"
      PROVE  /\ s.t \notin DOMAIN tables' /\ s.to \in DOMAIN tables'
             /\ Created(s.t) \subseteq tables'[s.to]
             /\ tables'[s.to] \subseteq Model[s.to]
  <2>1. s.to \in Rebuilt /\ s.t = Copy(s.to) /\ Replaces(s.to)
    BY <1>4 DEF Did
  <2>2. Copy(s.to) \in AsCreated /\ Copy(s.to) # s.to
    BY <2>1, CreatedInIs, Copies
  <2>3. tables'[s.to] = Created(s.t)
    BY <2>1, <2>2 DEF Replaces, TablesOK
  <2>4. Created(s.t) \subseteq Model[s.to]
    BY <2>1, CopiesInModel
  <2> QED BY <2>1, <2>2, <2>3, <2>4 DEF Replaces
<1> QED BY <1>1, <1>2, <1>3, <1>4 DEF Lasts

(* Who is only created keeps its columns.                                  *)
LEMMA TablesStay ==
    ASSUME TablesOK, NEW n, NEW k, NEW s, Did(n, k, s), tables' = [x \in DOMAIN tables' |-> tables'[x]]
    PROVE  TablesOK'
<1> SUFFICES ASSUME NEW t \in AsCreated, t \in DOMAIN tables' PROVE tables'[t] = Created(t)
  BY DEF TablesOK
<1>1. \A u \in Rebuilt : t # u
  BY CreatedInIs
<1>2. t \in DOMAIN tables => tables[t] = Created(t)
  BY DEF TablesOK
<1>3. CASE Grows(s.t, s.cols) /\ CreateIs(n, k, s)
  BY <1>2, <1>3 DEF Grows, CreateIs
<1>4. CASE tables' = tables
  BY <1>2, <1>4
<1>5. CASE \E u : Shrinks(u)
  BY <1>2, <1>5 DEF Shrinks
<1>6. CASE s.to \in Rebuilt /\ Replaces(s.to)
  BY <1>1, <1>2, <1>6 DEF Replaces
<1>7. CASE s.t \in Rebuilt /\ Widens(s.t, s.c)
  BY <1>1, <1>2, <1>7 DEF Widens
<1> QED BY <1>3, <1>4, <1>5, <1>6, <1>7 DEF Did, Adds

-----------------------------------------------------------------------------
(* Some statement of v is s. *)
Contains(v, s) == \E k \in 1 .. Len(v) : v[k] = s

(* Joining sequences loses no statement.                                   *)
LEMMA ContainsJoin ==
    ASSUME NEW s, IsSeq(s), NEW v, IsSeq(v), NEW x
    PROVE  IsSeq(s \o v) /\ (Contains(s, x) \/ Contains(v, x) => Contains(s \o v, x))
<1> DEFINE w == s \o v
<1>1. /\ IsSeq(w) /\ Len(s) \in Nat /\ Len(v) \in Nat /\ Len(w) = Len(s) + Len(v)
      /\ \A k \in 1 .. Len(s) + Len(v) : w[k] = IF k <= Len(s) THEN s[k] ELSE v[k - Len(s)]
  BY Joined
<1> HIDE DEF w
<1>2. ASSUME Contains(s, x) PROVE Contains(w, x)
  <2>1. PICK k \in 1 .. Len(s) : s[k] = x
    BY <1>2 DEF Contains
  <2>2. k \in 1 .. Len(w) /\ w[k] = x
    BY <1>1, <2>1
  <2> QED BY <2>2 DEF Contains
<1>3. ASSUME Contains(v, x) PROVE Contains(w, x)
  <2>1. PICK k \in 1 .. Len(v) : v[k] = x
    BY <1>3 DEF Contains
  <2> DEFINE j == k + Len(s)
  <2>2. j \in 1 .. Len(s) + Len(v) /\ ~ (j <= Len(s)) /\ j - Len(s) = k
    BY <1>1
  <2> HIDE DEF j
  <2>3. j \in 1 .. Len(w) /\ w[j] = x
    BY <1>1, <2>1, <2>2
  <2> QED BY <2>3 DEF Contains
<1>4. IsSeq(w) /\ (Contains(s, x) \/ Contains(v, x) => Contains(w, x))
  BY <1>1, <1>2, <1>3
<1> QED BY <1>4 DEF w

(* The ALTER of a guarded ALTER, with whatever follows it.                 *)
LEMMA AlterIn ==
    ASSUME NEW t, NEW c, NEW v, IsSeq(v)
    PROVE  /\ IsSeq(AddColumn(t, c)) /\ Contains(AddColumn(t, c), Alter(t, c, TRUE))
           /\ Contains(AddColumn(t, c) \o v, Alter(t, c, TRUE))
           /\ Contains(TryAddColumn(t, c) \o v, Alter(t, c, FALSE))
<1>1. ASSUME NEW q, NEW s PROVE IsSeq(<<q, s>>) /\ Contains(<<q, s>>, s)
  <2> DEFINE w == <<q, s>>
  <2>1. w \in Seq({q, s}) /\ Len(w) = 2 /\ w[2] = s
    OBVIOUS
  <2> HIDE DEF w
  <2>2. IsSeq(w) /\ Contains(w, s)
    BY <2>1 DEF IsSeq, Contains
  <2> QED BY <2>2 DEF w
<1>2. IsSeq(AddColumn(t, c)) /\ Contains(AddColumn(t, c), Alter(t, c, TRUE))
  BY <1>1 DEF AddColumn
<1>3. IsSeq(TryAddColumn(t, c)) /\ Contains(TryAddColumn(t, c), Alter(t, c, FALSE))
  BY <1>1 DEF TryAddColumn
<1> QED BY <1>2, <1>3, ContainsJoin

(* The tables that V6 - V8 drop.                                           *)
LEMMA DropsIn ==
    /\ Contains(V6, DropIfExists("audit_logs")) /\ Contains(V6, DropIfExists("payment_audits"))
    /\ Contains(V7, DropIfExists("users"))
    /\ Contains(V8, DropIfExists("chat_messages")) /\ Contains(V8, DropIfExists("disputes"))
    /\ Contains(V8, DropIfExists("dispute_evidence"))
<1>1. ASSUME NEW a, NEW b, NEW c
      PROVE  /\ Contains(<<a, c>>, a)
             /\ Contains(<<a, b, c>>, a) /\ Contains(<<a, b, c>>, b)
             /\ \A d, e, f, g : LET w == <<a, b, c, d, e, f, g>>
                                IN  Contains(w, a) /\ Contains(w, b) /\ Contains(w, c)
  BY DEF Contains
<1>2. Contains(V6, DropIfExists("audit_logs")) /\ Contains(V6, DropIfExists("payment_audits"))
  BY <1>1 DEF V6
<1>3. Contains(V7, DropIfExists("users"))
  BY <1>1 DEF V7
<1>4. /\ Contains(V8, DropIfExists("chat_messages")) /\ Contains(V8, DropIfExists("disputes"))
      /\ Contains(V8, DropIfExists("dispute_evidence"))
  BY <1>1 DEF V8
<1> QED BY <1>2, <1>3, <1>4

(* The columns that V12 - V17 add.                                         *)
LEMMA AddsIn ==
    /\ Contains(V12, Alter("orders", "version", FALSE))
    /\ Contains(V13, Alter("orders", "has_dispute", TRUE))
    /\ Contains(V14, Alter("listings", "status", TRUE))
    /\ Contains(V14, Alter("listings", "currency", TRUE))
    /\ Contains(V14, Alter("listings", "version", TRUE))
    /\ Contains(V15, Alter("orders", "client_encrypted_blob", TRUE))
    /\ Contains(V16, Alter("orders", "dispute_client_blob", TRUE))
    /\ Contains(V17, Alter("orders", "chat_encrypted_blob", TRUE))
<1>1. \A n : IsSeq(<<Record(n)>>)
  BY RecordedOne DEF Recorded
<1>2. /\ Contains(V12, Alter("orders", "version", FALSE))
      /\ Contains(V15, Alter("orders", "client_encrypted_blob", TRUE))
      /\ Contains(V16, Alter("orders", "dispute_client_blob", TRUE))
      /\ Contains(V17, Alter("orders", "chat_encrypted_blob", TRUE))
  BY <1>1, AlterIn DEF V12, V15, V16, V17
<1>3. Contains(V13, Alter("orders", "has_dispute", TRUE))
  <2> DEFINE d == << CreateIndex("idx_orders_has_dispute", "orders", "has_dispute"), Record(13) >>
  <2>1. IsSeq(d)
    BY IndexKinds, RecordedTwo DEF Recorded
  <2>2. V13 = AddColumn("orders", "has_dispute") \o d
    BY DEF V13
  <2> HIDE DEF d
  <2> QED BY <2>1, <2>2, AlterIn
<1>4. /\ Contains(V14, Alter("listings", "status", TRUE))
      /\ Contains(V14, Alter("listings", "currency", TRUE))
      /\ Contains(V14, Alter("listings", "version", TRUE))
  <2> DEFINE a == AddColumn("listings", "status")
             b == AddColumn("listings", "currency")
             c == AddColumn("listings", "version")
             d == << CreateIndex("idx_listings_status", "listings", "status"),
                     CreateIndex("idx_listings_currency", "listings", "currency"),
                     CreateIndex("idx_listings_status_currency", "listings", "currency"),
                     Record(14) >>
  <2>1. IsSeq(d)
    BY IndexKinds, RecordedFour DEF Recorded
  <2>2. V14 = ((a \o b) \o c) \o d
    BY DEF V14
  <2>3. /\ IsSeq(a) /\ Contains(a, Alter("listings", "status", TRUE))
        /\ IsSeq(b) /\ Contains(b, Alter("listings", "currency", TRUE))
        /\ IsSeq(c) /\ Contains(c, Alter("listings", "version", TRUE))
    BY <2>1, AlterIn
  <2> HIDE DEF a, b, c, d
  <2>4. /\ IsSeq(a \o b) /\ Contains(a \o b, Alter("listings", "status", TRUE))
        /\ Contains(a \o b, Alter("listings", "currency", TRUE))
    BY <2>3, ContainsJoin
  <2>5. /\ IsSeq((a \o b) \o c) /\ Contains((a \o b) \o c, Alter("listings", "status", TRUE))
        /\ Contains((a \o b) \o c, Alter("listings", "currency", TRUE))
        /\ Contains((a \o b) \o c, Alter("listings", "version", TRUE))
    BY <2>3, <2>4, ContainsJoin
  <2> QED BY <2>1, <2>2, <2>5, ContainsJoin
<1> QED BY <1>2, <1>3, <1>4

(* Each rebuild has its RENAME.                                            *)
LEMMA RenameAt ==
    ASSUME NEW u \in Rebuilt, NEW n, n = RebuildOf(u), NEW k, k = DropAt(u) + 1
    PROVE  /\ n \in 1 .. Latest /\ k \in 1 .. Len(Migration[n])
           /\ Migration[n][k].op = "rename" /\ Migration[n][k].t = Copy(u) /\ Migration[n][k].to = u
<1>1. n \in {10, 11} /\ DropAt(u) \in 3 .. 7 /\ \A t \in Rebuilt : n = RebuildOf(t) => t = u
  BY Copies
<1>2. n \in 1 .. Latest /\ n # 1
  BY <1>1, Shapes
<1>3. Migrates(Migration[n], n)
  BY <1>2, Shapes
<1>4. Len(Migration[n]) \in Nat /\ k < Len(Migration[n])
  BY <1>3 DEF Migrates
<1>5. k \in 1 .. Len(Migration[n]) /\ k # 1 /\ k # 2 /\ k # DropAt(u)
  BY <1>1, <1>4
<1>6. StepOf(n, k, Migration[n][k])
  BY <1>3, <1>4, <1>5 DEF Migrates
<1>7. RebuildStep(u, k, Migration[n][k])
  BY <1>1, <1>2, <1>6 DEF StepOf, PlainStep
<1> QED BY <1>2, <1>5, <1>7 DEF RebuildStep

(* Every statement of a migration is a step of it or its record.           *)
LEMMA EveryStatement ==
    ASSUME NEW n \in 1 .. Latest, NEW k \in 1 .. Len(Migration[n])
    PROVE  /\ n \in Nat /\ n >= 1 /\ k \in Nat /\ ~ (1 > k) /\ Len(Migration[n]) \in Nat
           /\ k < Len(Migration[n]) => StepOf(n, k, Migration[n][k])
           /\ ~ (k < Len(Migration[n])) => k = Len(Migration[n]) /\ Migration[n][k] = Record(n)
           /\ Migration[n][k].op = "add column" => k > 1 /\ Guarded(n, Migration[n][k - 1], Migration[n][k])
<1>1. Migrates(Migration[n], n) /\ Latest \in Nat
  BY Shapes
<1>2. Len(Migration[n]) \in Nat
  BY <1>1 DEF Migrates
<1>3. n \in Nat /\ n >= 1 /\ k \in Nat /\ ~ (1 > k) /\ (~ (k < Len(Migration[n])) => k = Len(Migration[n]))
  BY <1>1, <1>2
<1>4. k < Len(Migration[n]) => StepOf(n, k, Migration[n][k])
  BY <1>1 DEF Migrates
<1>5. Migration[n][Len(Migration[n])] = Record(n)
  BY <1>1 DEF Migrates
<1>6. Migration[n][k].op = "add column" => k > 1 /\ Guarded(n, Migration[n][k - 1], Migration[n][k])
  BY <1>1 DEF Migrates, Guards
<1> QED BY <1>2, <1>3, <1>4, <1>5, <1>6

(* A table is there once its rebuild is recorded.                          *)
LEMMA RebuiltIsThere ==
    ASSUME AllLast, NEW u \in Rebuilt, RebuildOf(u) \in recorded
    PROVE  /\ u \in DOMAIN tables /\ Copy(u) \notin DOMAIN tables
           /\ Created(Copy(u)) \subseteq tables[u] /\ tables[u] \subseteq Model[u]
<1> DEFINE m == RebuildOf(u)
           j == DropAt(u) + 1
<1>1. /\ m \in 1 .. Latest /\ j \in 1 .. Len(Migration[m])
      /\ Migration[m][j].op = "rename" /\ Migration[m][j].t = Copy(u) /\ Migration[m][j].to = u
  BY RenameAt
<1>2. m \in recorded
  OBVIOUS
<1> HIDE DEF m, j
<1>3. Lasts(m, Migration[m][j])
  BY <1>1, <1>2 DEF AllLast, Ran
<1> QED BY <1>1, <1>3 DEF Lasts

(* The record leaves nothing behind in the tables.                         *)
LEMMA RecordLasts ==
    ASSUME NEW n, NEW s, s = Record(n)
    PROVE  Lasts(n, s)'
BY DEF Lasts, Record

(* What lasts is about the tables, and the ALTERs that failed.             *)
LEMMA LastsSame ==
    ASSUME NEW n, NEW s, Lasts(n, s), tables' = tables, refused \subseteq refused'
    PROVE  Lasts(n, s)'
BY DEF Lasts, Has

(* The tables stay and no more has run.                                    *)
LEMMA LaidSame ==
    ASSUME MigLaid, tables' = tables, refused \subseteq refused',
           \A n \in 1 .. Latest : \A k \in 1 .. Len(Migration[n]) : Ran(n, k)' => Ran(n, k),
           \A p \in Processes : FoundIs(p)'
    PROVE  MigLaid'
<1>2. AllLast'
  BY LastsSame DEF MigLaid, AllLast
<1>3. TablesOK'
  BY DEF MigLaid, TablesOK
<1> QED BY <1>2, <1>3 DEF MigLaid

(* Nothing has run and nothing is there when the program is first run.     *)
LEMMA LaidInit == MigInit => MigLaid
<1> SUFFICES ASSUME MigInit PROVE MigLaid
  OBVIOUS
<1>1. \A p \in Processes : proc[p] = Down
  BY DEF MigInit
<1>2. \A p \in Processes : ~ Migrating(p)
  BY <1>1, Statuses DEF Migrating
<1>3. AllLast
  BY <1>2 DEF MigInit, AllLast, Ran
<1>4. DOMAIN tables = {} /\ tables = [x \in DOMAIN tables |-> tables[x]]
  BY DEF MigInit
<1> QED BY <1>2, <1>3, <1>4 DEF MigLaid, TablesOK, FoundIs

(* Processes stop: no more has run.                                        *)
LEMMA RanStopped ==
    ASSUME \A q \in Processes : proc'[q] = proc[q] \/ proc'[q] = Down, recorded' = recorded
    PROVE  /\ \A q \in Processes : proc'[q].status = "migrating" => proc'[q] = proc[q]
           /\ \A n \in 1 .. Latest : \A k \in 1 .. Len(Migration[n]) : Ran(n, k)' => Ran(n, k)
<1>1. \A q \in Processes : proc'[q].status = "migrating" => proc'[q] = proc[q]
  BY Statuses
<1> QED BY <1>1 DEF Ran, Migrating

(* Processes stop, by faults, failing statements or an upgrade.            *)
LEMMA LaidStopped ==
    ASSUME MigLaid, \A q \in Processes : proc'[q] = proc[q] \/ proc'[q] = Down,
           UNCHANGED <<tables, recorded, overlapped, refused>>
    PROVE  MigLaid'
<1>1. ASSUME NEW p \in Processes PROVE FoundIs(p)'
  BY RanStopped DEF MigLaid, FoundIs, Migrating, Has
<1> QED BY <1>1, RanStopped, LaidSame

(* A process starts at the first statement, having found nothing.          *)
LEMMA Begins ==
    ASSUME MigTyped, NEW p \in Processes, Begin(p)
    PROVE  /\ UNCHANGED <<tables, recorded, refused>> /\ overlapped \subseteq overlapped'
           /\ \A q \in Processes : q # p => proc'[q] = proc[q]
           /\ proc'[p].status = "migrating" => proc'[p].stmt = 1 /\ ~ proc'[p].found
           /\ \A n \in 1 .. Latest : \A k \in 1 .. Len(Migration[n]) : Ran(n, k)' => Ran(n, k)
<1>1. /\ UNCHANGED <<tables, recorded, refused>> /\ overlapped \subseteq overlapped'
      /\ \A q \in Processes : q # p => proc'[q] = proc[q]
  BY DEF Begin, schema, MigTyped
<1>2. proc'[p] = IF Pending THEN At(get_schema_version + 1, 1, FALSE) ELSE Up
  BY DEF Begin, MigTyped
<1>3. proc'[p].status = "migrating" => proc'[p].stmt = 1 /\ ~ proc'[p].found
  <2>1. CASE Pending
    <3>1. proc'[p] = At(get_schema_version + 1, 1, FALSE)
      BY <1>2, <2>1
    <3>2. proc'[p].stmt = 1 /\ proc'[p].found = FALSE
      BY <3>1 DEF At
    <3> QED BY <3>2
  <2>2. CASE ~ Pending
    BY <1>2, <2>2, Statuses
  <2> QED BY <2>1, <2>2
<1>4. ASSUME NEW n \in 1 .. Latest, NEW k \in 1 .. Len(Migration[n]), Ran(n, k)' PROVE Ran(n, k)
  <2>1. ~ (1 > k)
    BY EveryStatement
  <2> QED BY <1>1, <1>3, <1>4, <2>1 DEF Ran, Migrating
<1> QED BY <1>1, <1>3, <1>4

(* Starting lays nothing down.                                             *)
LEMMA LaidBegin ==
    ASSUME MigTyped, MigLaid, NEW p \in Processes, Begin(p)
    PROVE  MigLaid'
<1>2. overlapped' = {} => overlapped = {}
  BY Begins
<1>1. ASSUME NEW q \in Processes PROVE FoundIs(q)'
  BY <1>2, Begins DEF MigLaid, FoundIs, Migrating, Has
<1> QED BY <1>1, Begins, LaidSame

(* What has run after a statement has run before it, or is that statement; *)
(* of a version run alone, it has run earlier.                             *)
LEMMA RanStep ==
    ASSUME NEW v \in Nat, Versions(v), Tidy, NEW p \in Processes, Migrating(p),
           NEW n \in 1 .. Latest, NEW k \in 1 .. Len(Migration[n]), IsAt(p, n, k),
           Advances(p, n, k), recorded' = recorded
    PROVE  \A m \in 1 .. Latest : \A j \in 1 .. Len(Migration[m]) : Ran(m, j)' =>
              (m = n /\ j = k) \/ (Ran(m, j) /\ (n \in Exclusive => m <= n /\ (m = n => j < k)))
<1>1. n \in Nat /\ k \in Nat /\ recorded = 1 .. v
  BY EveryStatement DEF Versions
<1>2. n \in Exclusive => n = v + 1 /\ \A q \in Processes : Migrating(q) /\ proc[q].version = n => q = p
  BY AloneIn DEF Tidy
<1>9. ASSUME NEW m \in 1 .. Latest, NEW j \in 1 .. Len(Migration[m]), Ran(m, j)'
      PROVE  (m = n /\ j = k) \/ (Ran(m, j) /\ (n \in Exclusive => m <= n /\ (m = n => j < k)))
  <2>1. m \in Nat /\ j \in Nat
    BY EveryStatement
  <2>2. CASE m \in recorded
    <3>1. m <= v
      BY <1>1, <2>2
    <3>2. n = v + 1 => m <= n /\ m # n
      BY <2>1, <3>1
    <3> QED BY <1>2, <2>2, <3>2 DEF Ran
  <2>3. CASE m \notin recorded
    <3>1. PICK q \in Processes : proc'[q].status = "migrating" /\ proc'[q].version = m /\ proc'[q].stmt > j
      BY <1>9, <2>3 DEF Ran, Migrating
    <3>2. CASE q = p
      <4>1. m = n /\ k + 1 > j
        BY <3>1, <3>2 DEF Advances
      <4>2. (j = k \/ j < k) /\ (j < k => k > j) /\ m <= n
        BY <1>1, <2>1, <4>1
      <4>3. j < k => Ran(m, j)
        BY <4>1, <4>2 DEF Ran, IsAt
      <4> QED BY <4>1, <4>2, <4>3
    <3>3. CASE q # p
      <4>1. proc'[q] = proc[q] /\ Migrating(q)
        BY <3>1, <3>3 DEF Advances, Migrating
      <4>2. Ran(m, j)
        BY <3>1, <4>1 DEF Ran
      <4>3. m <= v + 1
        BY <3>1, <4>1 DEF Versions
      <4>4. n \in Exclusive => m # n
        BY <1>2, <3>1, <3>3, <4>1
      <4>5. n \in Exclusive => m <= n
        BY <1>2, <4>3
      <4> QED BY <4>2, <4>4, <4>5
    <3> QED BY <3>2, <3>3
  <2> QED BY <2>2, <2>3
<1> QED BY <1>9

(* A rebuild before a version up to w + 1 is one of the first w versions.  *)
LEMMA Earlier ==
    ASSUME NEW w \in Nat, NEW b \in {10, 11}, NEW n \in Nat, n <= w + 1, n > b
    PROVE  b \in 1 .. w
OBVIOUS

(* A table is there for the ALTERs of the versions after its rebuild.      *)
LEMMA AlterFinds ==
    ASSUME AllLast, NEW v \in Nat, Versions(v), NEW p \in Processes, Migrating(p),
           NEW n \in Nat, NEW k, IsAt(p, n, k), NEW s, StepOf(n, k, s), s.op = "add column", n > RebuildOf(s.t)
    PROVE  s.t \in DOMAIN tables
<1>1. s.t \in Rebuilt
  BY OtherKinds DEF Adds
<1>2. RebuildOf(s.t) \in {10, 11}
  BY <1>1, Copies
<1>3. n <= v + 1 /\ recorded = 1 .. v
  BY DEF IsAt, Versions
<1>4. RebuildOf(s.t) \in recorded
  BY <1>2, <1>3, Earlier
<1> QED BY <1>1, <1>4, RebuiltIsThere

(* Numbers: a version past b, and the statement after k.                   *)
LEMMA NextNumbers ==
    /\ \A v, m, n, b \in Nat : m > b /\ m <= v + 1 /\ n = v + 1 => b <= n /\ n # b
    /\ \A k, l \in Nat : k < l => k + 1 \in 1 .. l /\ (k + 1) - 1 = k /\ k # l
    /\ \A v, m \in Nat : m \in 1 .. v => m <= v + 1
    /\ \A f \in Nat : f + 1 > 0
    /\ \A u \in Rebuilt : RebuildOf(u) \in Nat
BY DEF Rebuilt, RebuildOf

(* What other processes found is still so after a statement.               *)
LEMMA FoundStays ==
    ASSUME NEW v \in Nat, Versions(v), Tidy, MigLaid, NEW p \in Processes, Migrating(p),
           NEW n \in 1 .. Latest, NEW k \in 1 .. Len(Migration[n]), IsAt(p, n, k), NEW s, Did(n, k, s),
           NEW q \in Processes, q # p, Migrating(q), proc[q].found, proc'[q] = proc[q], overlapped' = overlapped,
           NEW m \in 1 .. Latest, NEW j \in 1 .. Len(Migration[m]), IsAt(q, m, j),
           NEW r, r = Migration[m][j], r.op = "add column", m > RebuildOf(r.t) \/ overlapped = {}
    PROVE  Has(r.t, r.c)'
<1>1. n \in Nat /\ k \in Nat /\ m \in Nat
  BY EveryStatement
<1>2. overlapped # {}
  <2> SUFFICES ASSUME overlapped = {} PROVE FALSE
    OBVIOUS
  <2>1. n = v + 1 /\ m = v + 1
    BY AloneIn DEF IsAt
  <2> QED BY <2>1, AloneIn DEF IsAt
<1>3. Has(r.t, r.c) /\ m > RebuildOf(r.t)
  BY <1>2 DEF MigLaid, FoundIs, IsAt
<1>4. r.t \in Rebuilt /\ RebuildOf(r.t) \in Nat
  <2>1. r.t \in Rebuilt
    BY EveryStatement DEF Guarded, Adds
  <2> QED BY <2>1, NextNumbers
<1>5. n \in Exclusive => n = v + 1 /\ m # n
  BY AloneIn DEF Tidy, IsAt
<1>6. m <= v + 1
  BY DEF Versions, IsAt
<1>7. \A b \in Nat : m > b /\ m <= v + 1 /\ n = v + 1 => b <= n /\ n # b
  BY <1>1, NextNumbers
<1>8. n \in Exclusive => RebuildOf(r.t) <= n /\ n # RebuildOf(r.t)
  BY <1>3, <1>4, <1>5, <1>6, <1>7
<1> QED BY <1>1, <1>3, <1>4, <1>8, OnlyWidened DEF Has

(* A statement before the record that does not fail, or is skipped for     *)
(* having been refused: everything that had run lasts, and so does what    *)
(* this one leaves behind.                                                 *)
LEMMA LaidStep ==
    ASSUME MigTyped, MigLaid, NEW v \in Nat, Versions(v), Tidy, NEW p \in Processes, Migrating(p),
           NEW n \in 1 .. Latest, NEW k \in 1 .. Len(Migration[n]), IsAt(p, n, k), k < Len(Migration[n]),
           NEW s, s = Migration[n][k], NEW found, ~ Fails(s, found), Execute(s, found),
           s.op = "add column" /\ n > RebuildOf(s.t) /\ found => Has(s.t, s.c) \/ <<s.t, s.c>> \in refused',
           Advances(p, n, k), proc'[p].found => Saw(s), recorded' = recorded, overlapped' = overlapped,
           refused \subseteq refused'
    PROVE  MigLaid'
<1>1. StepOf(n, k, s) /\ n \in Nat /\ k \in Nat
  BY EveryStatement
<1>2. TablesOK /\ AllLast /\ \A q \in Processes : FoundIs(q)
  BY DEF MigLaid
<1>3. Did(n, k, s) /\ tables' = [x \in DOMAIN tables' |-> tables'[x]]
  BY <1>1, <1>2, StepDid
<1>4. TablesOK'
  BY <1>2, <1>3, TablesStay
<1>6. s.op = "add column" /\ n > RebuildOf(s.t) => s.t \in DOMAIN tables
  BY <1>1, <1>2, AlterFinds
<1>7. Lasts(n, s)'
  BY <1>1, <1>2, <1>3, <1>6, LastsNow
<1>9. ASSUME NEW m \in 1 .. Latest, NEW j \in 1 .. Len(Migration[m]), Ran(m, j)'
      PROVE  (m = n /\ j = k) \/ (Ran(m, j) /\ (n \in Exclusive => m <= n /\ (m = n => j < k)))
  BY <1>9, RanStep
<1>10. ASSUME NEW m \in 1 .. Latest, NEW j \in 1 .. Len(Migration[m]), Ran(m, j)'
       PROVE  Lasts(m, Migration[m][j])'
  <2>1. CASE m = n /\ j = k
    BY <1>7, <2>1
  <2>2. CASE Ran(m, j) /\ (n \in Exclusive => m <= n /\ (m = n => j < k))
    <3>1. Lasts(m, Migration[m][j])
      BY <1>2, <2>2 DEF AllLast
    <3>2. CASE j < Len(Migration[m])
      <4>1. m \in Nat /\ j \in Nat /\ StepOf(m, j, Migration[m][j])
        BY <3>2, EveryStatement
      <4> QED BY <1>1, <1>3, <2>2, <3>1, <4>1, LastsOn
    <3>3. CASE ~ (j < Len(Migration[m]))
      <4>1. Migration[m][j] = Record(m)
        BY <3>3, EveryStatement
      <4> QED BY <4>1, RecordLasts
    <3> QED BY <3>2, <3>3
  <2> QED BY <1>9, <1>10, <2>1, <2>2
<1>11. AllLast'
  BY <1>10 DEF AllLast
<1>12. FoundIs(p)'
  <2>1. k + 1 \in 1 .. Len(Migration[n]) /\ (k + 1) - 1 = k
    BY <1>1, EveryStatement, NextNumbers
  <2> DEFINE r == Migration[n][k + 1]
  <2>2. r.op = "add column" => Guarded(n, s, r)
    BY <2>1, EveryStatement
  <2>3. Saw(s) => tables' = tables
    BY <1>3 DEF Did, Saw
  <2>4. r.op = "add column" /\ Saw(s) => Has(r.t, r.c)'
    BY <2>2, <2>3 DEF Saw, Guarded, Has
  <2> QED BY <2>4 DEF FoundIs, Advances
<1>13. ASSUME NEW q \in Processes, q # p PROVE FoundIs(q)'
  <2>1. proc'[q] = proc[q]
    BY <1>13 DEF Advances
  <2>2. CASE ~ Migrating(q)
    BY <2>1, <2>2 DEF FoundIs, Migrating
  <2>3. CASE Migrating(q)
    <3>1. PICK m \in 1 .. Latest : m = proc[q].version
      BY <2>3, Current
    <3>2. PICK j \in 1 .. Len(Migration[m]) : j = proc[q].stmt
      BY <2>3, <3>1, Current
    <3>3. IsAt(q, m, j)
      BY <3>1, <3>2 DEF IsAt
    <3> DEFINE r == Migration[m][j]
    <3>4. r.op = "add column" /\ proc[q].found /\ (m > RebuildOf(r.t) \/ overlapped = {}) => Has(r.t, r.c)'
      BY <1>3, <1>13, <2>1, <2>3, <3>3, FoundStays
    <3> QED BY <2>1, <3>1, <3>2, <3>4 DEF FoundIs, Migrating
  <2> QED BY <2>2, <2>3
<1>14. \A q \in Processes : FoundIs(q)'
  BY <1>12, <1>13
<1> QED BY <1>4, <1>11, <1>14 DEF MigLaid

(* The record: all statements of its version have run.                     *)
LEMMA LaidRecord ==
    ASSUME MigTyped, MigLaid, NEW p \in Processes, Migrating(p),
           NEW n \in 1 .. Latest, NEW k \in 1 .. Len(Migration[n]), IsAt(p, n, k), k = Len(Migration[n]),
           recorded' = recorded \cup {n}, UNCHANGED <<tables, overlapped, refused>>,
           \A q \in Processes : q # p => proc'[q] = proc[q],
           proc'[p].status = "migrating" => proc'[p].stmt = 1 /\ ~ proc'[p].found
    PROVE  MigLaid'
<1>2. ASSUME NEW m \in 1 .. Latest, NEW j \in 1 .. Len(Migration[m]), Ran(m, j)'
      PROVE  Lasts(m, Migration[m][j])'
  <2>1. m \in Nat /\ j \in Nat /\ ~ (1 > j)
    BY EveryStatement
  <2>2. m = n \/ Ran(m, j)
    BY <1>2, <2>1 DEF Ran, Migrating
  <2>3. CASE ~ (j < Len(Migration[m]))
    <3>1. Migration[m][j] = Record(m)
      BY <2>3, EveryStatement
    <3> QED BY <3>1, RecordLasts
  <2>4. CASE j < Len(Migration[m])
    <3>0. Len(Migration[m]) \in Nat
      BY EveryStatement
    <3>3. Len(Migration[m]) > j
      BY <2>1, <2>4, <3>0
    <3>1. Ran(m, j)
      BY <2>2, <3>3 DEF Ran, IsAt
    <3>2. Lasts(m, Migration[m][j])
      BY <3>1 DEF MigLaid, AllLast
    <3> QED BY <3>2, LastsSame
  <2> QED BY <2>3, <2>4
<1>3. AllLast'
  BY <1>2 DEF AllLast
<1>4. TablesOK'
  BY DEF MigLaid, TablesOK
<1>5. \A q \in Processes : FoundIs(q)'
  BY DEF MigLaid, FoundIs, Migrating, Has
<1> QED BY <1>3, <1>4, <1>5 DEF MigLaid

(* Process p, at statement k of version n, executes it and goes on to the  *)
(* next, or it is the record.                                              *)
GoesOn(p, n, k) ==
    \/ /\ k < Len(Migration[n]) /\ Advances(p, n, k)
       /\ ~ Fails(Migration[n][k], proc[p].found)
       /\ Execute(Migration[n][k], proc[p].found)
       /\ proc'[p].found <=> Saw(Migration[n][k])
       /\ recorded' = recorded
    \/ /\ k = Len(Migration[n])
       /\ recorded' = recorded \cup {n} /\ tables' = tables
       /\ \A q \in Processes : q # p => proc'[q] = proc[q]
       /\ proc'[p].status = "migrating" => proc'[p].stmt = 1 /\ ~ proc'[p].found
Goes(p) ==
    Migrating(p) /\ \E n \in 1 .. Latest : \E k \in 1 .. Len(Migration[n]) : IsAt(p, n, k) /\ GoesOn(p, n, k)

(* A statement fails and the process stops, or the process goes on.        *)
LEMMA StatementDoes ==
    ASSUME MigTyped, NEW p \in Processes, Statement(p)
    PROVE  /\ UNCHANGED <<overlapped, refused, faults>>
           /\ \/ /\ \A q \in Processes : proc'[q] = proc[q] \/ proc'[q] = Down
                 /\ UNCHANGED <<tables, recorded>>
              \/ Goes(p)
<1> DEFINE n == proc[p].version
           k == proc[p].stmt
           s == Migration[n][k]
           next == IF k < Len(Migration[n]) THEN At(n, k + 1, s.op = "column exists" /\ Has(s.t, s.c))
                   ELSE IF n < release THEN At(n + 1, 1, FALSE) ELSE Up
<1>1. Migrating(p) /\ IsAt(p, n, k) /\ DOMAIN proc = Processes
  BY DEF Statement, Migrating, IsAt, MigTyped
<1>0. UNCHANGED <<overlapped, refused, faults>>
  BY DEF Statement, history
<1>2. n \in 1 .. Latest /\ k \in 1 .. Len(Migration[n])
  BY <1>1, Current
<1>3. IF Fails(s, proc[p].found)
        THEN proc' = [proc EXCEPT ![p] = Down] /\ UNCHANGED schema
        ELSE proc' = [proc EXCEPT ![p] = next] /\ Execute(s, proc[p].found)
  BY DEF Statement, After
<1>4. k < Len(Migration[n]) =>
          /\ next.status = "migrating" /\ next.version = n /\ next.stmt = k + 1
          /\ next.found <=> Saw(s)
  BY DEF At, Saw
<1>5. ~ (k < Len(Migration[n])) /\ next.status = "migrating" => next.stmt = 1 /\ ~ next.found
  <2> SUFFICES ASSUME ~ (k < Len(Migration[n])), next.status = "migrating" PROVE next.stmt = 1 /\ ~ next.found
    OBVIOUS
  <2>1. CASE n < release
    <3>1. next = At(n + 1, 1, FALSE)
      BY <2>1
    <3> HIDE DEF next
    <3>2. next.stmt = 1 /\ next.found = FALSE
      BY <3>1 DEF At
    <3> QED BY <3>2
  <2>2. CASE ~ (n < release)
    <3>1. next = Up
      BY <2>2
    <3> HIDE DEF next
    <3> QED BY <3>1, Statuses
  <2> QED BY <2>1, <2>2
<1>6. s = Migration[n][k]
  OBVIOUS
<1> HIDE DEF n, k, s, next
<1>7. CASE Fails(s, proc[p].found)
  <2>1. /\ \A q \in Processes : proc'[q] = proc[q] \/ proc'[q] = Down
        /\ UNCHANGED <<tables, recorded>>
    BY <1>1, <1>3, <1>7 DEF schema
  <2> QED BY <1>0, <2>1
<1>8. CASE ~ Fails(s, proc[p].found) /\ k < Len(Migration[n])
  <2>1. proc' = [proc EXCEPT ![p] = next] /\ Execute(s, proc[p].found)
    BY <1>3, <1>8
  <2>2. Advances(p, n, k) /\ (proc'[p].found <=> Saw(s))
    BY <1>1, <1>4, <1>8, <2>1 DEF Advances
  <2>3. StepOf(n, k, s)
    BY <1>2, <1>6, <1>8, EveryStatement
  <2>4. recorded' = recorded
    BY <2>1, <2>3, StepKinds DEF Execute, Drop, schema
  <2>5. GoesOn(p, n, k)
    BY <1>6, <1>8, <2>1, <2>2, <2>4 DEF GoesOn
  <2> QED BY <1>0, <1>1, <1>2, <2>5 DEF Goes
<1>9. CASE ~ Fails(s, proc[p].found) /\ ~ (k < Len(Migration[n]))
  <2>1. proc' = [proc EXCEPT ![p] = next] /\ Execute(s, proc[p].found)
    BY <1>3, <1>9
  <2>2. k = Len(Migration[n]) /\ s = Record(n)
    BY <1>2, <1>6, <1>9, EveryStatement
  <2>3. s.op = "record" /\ s.version = n
    BY <2>2 DEF Record
  <2>4. recorded' = recorded \cup {n} /\ tables' = tables
    BY <2>1, <2>3 DEF Execute
  <2>5. /\ \A q \in Processes : q # p => proc'[q] = proc[q]
        /\ proc'[p] = next
    BY <1>1, <2>1
  <2>6. proc'[p].status = "migrating" => proc'[p].stmt = 1 /\ ~ proc'[p].found
    BY <1>5, <1>9, <2>5
  <2>7. GoesOn(p, n, k)
    BY <2>2, <2>4, <2>5, <2>6 DEF GoesOn
  <2> QED BY <1>0, <1>1, <1>2, <2>7 DEF Goes
<1> QED BY <1>7, <1>8, <1>9

(* The next statement of a process.                                        *)
LEMMA LaidStatement ==
    ASSUME MigTyped, MigLaid, NEW v \in Nat, Versions(v), Tidy, NEW p \in Processes, Statement(p)
    PROVE  MigLaid'
<1>1. /\ UNCHANGED <<overlapped, refused>>
      /\ \/ /\ \A q \in Processes : proc'[q] = proc[q] \/ proc'[q] = Down
            /\ UNCHANGED <<tables, recorded>>
         \/ Goes(p)
  BY StatementDoes
<1>2. CASE Goes(p)
  <2>1. PICK n \in 1 .. Latest : \E k \in 1 .. Len(Migration[n]) : Migrating(p) /\ IsAt(p, n, k) /\ GoesOn(p, n, k)
    BY <1>2 DEF Goes
  <2>2. PICK k \in 1 .. Len(Migration[n]) : Migrating(p) /\ IsAt(p, n, k) /\ GoesOn(p, n, k)
    BY <2>1
  <2> DEFINE s == Migration[n][k]
  <2>3. s.op = "add column" /\ n > RebuildOf(s.t) /\ proc[p].found => Has(s.t, s.c)
    BY <2>2 DEF MigLaid, FoundIs, IsAt
  <2>4. s = Migration[n][k]
    OBVIOUS
  <2> HIDE DEF s
  <2>5. CASE k < Len(Migration[n])
    <3>1. /\ Advances(p, n, k) /\ recorded' = recorded
          /\ ~ Fails(s, proc[p].found) /\ Execute(s, proc[p].found)
          /\ proc'[p].found <=> Saw(s)
      <4>1. k # Len(Migration[n])
        BY <2>5, EveryStatement, NextNumbers
      <4> QED BY <2>2, <2>4, <4>1, Zenon DEF GoesOn
    <3> QED BY <1>1, <2>2, <2>3, <2>4, <2>5, <3>1, LaidStep
  <2>6. CASE ~ (k < Len(Migration[n]))
    <3>1. /\ k = Len(Migration[n])
          /\ recorded' = recorded \cup {n} /\ tables' = tables
          /\ \A q \in Processes : q # p => proc'[q] = proc[q]
          /\ proc'[p].status = "migrating" => proc'[p].stmt = 1 /\ ~ proc'[p].found
      BY <2>2, <2>6 DEF GoesOn
    <3> QED BY <1>1, <2>2, <3>1, LaidRecord
  <2> QED BY <2>5, <2>6
<1> QED BY <1>1, <1>2, LaidStopped

(* A query SQLite refuses: the column of a logged ALTER is noted.          *)
LEMMA LaidRefuse ==
    ASSUME MigTyped, MigLaid, NEW v \in Nat, Versions(v), Tidy, NEW p \in Processes, Refuse(p)
    PROVE  MigLaid'
<1>1. PICK n \in 1 .. Latest : \E k \in 1 .. Len(Migration[n]) : Refuses(p, n, k)
  BY Refusal
<1>2. PICK k \in 1 .. Len(Migration[n]) : Refuses(p, n, k)
  BY <1>1
<1> DEFINE s == Migration[n][k]
<1>3. DOMAIN proc = Processes
  BY DEF MigTyped
<1>4. /\ Migrating(p) /\ IsAt(p, n, k) /\ k < Len(Migration[n])
      /\ s.op = "add column" => <<s.t, s.c>> \in refused'
  BY <1>2 DEF Refuses
<1>5. recorded' = recorded /\ proc' = [proc EXCEPT ![p] = At(n, k + 1, FALSE)]
  BY <1>2 DEF Refuses, schema
<1>6. proc'[p].found = FALSE
  BY <1>3, <1>5 DEF At
<1>7. /\ ~ Fails(s, TRUE) /\ Execute(s, TRUE)
      /\ Advances(p, n, k) /\ overlapped' = overlapped /\ refused \subseteq refused'
  BY <1>2, <1>3, RefusedSkips
<1>8. s = Migration[n][k] /\ ~ proc'[p].found
  BY <1>6
<1> HIDE DEF s
<1> QED BY <1>4, <1>5, <1>7, <1>8, LaidStep

(* Every step keeps what was laid down, as long as what must be run alone  *)
(* is.                                                                     *)
LEMMA LaidNext == MigTyped /\ MigKept /\ (Tidy => MigLaid) /\ [MigNext]_vars => (Tidy => MigLaid)'
<1> SUFFICES ASSUME MigTyped, MigKept, Tidy => MigLaid, [MigNext]_vars, Tidy' PROVE MigLaid'
  OBVIOUS
<1>1. PICK v \in 0 .. Latest : KeptAt(v)
  BY DEF MigKept
<1>2. v \in Nat /\ Versions(v)
  BY <1>1, Shapes DEF KeptAt
<1>3. ASSUME NEW p \in Processes, Begin(p) PROVE MigLaid'
  <2>1. overlapped \subseteq overlapped'
    BY <1>3, Begins
  <2>2. MigLaid
    BY <2>1 DEF Tidy
  <2> QED BY <1>3, <2>2, LaidBegin
<1>U. UNCHANGED overlapped => Tidy /\ MigLaid
  BY DEF Tidy
<1>4. ASSUME NEW p \in Processes, Statement(p) PROVE MigLaid'
  <2>1. Tidy /\ MigLaid
    BY <1>4, <1>U DEF Statement, history
  <2> QED BY <1>2, <1>4, <2>1, LaidStatement
<1>5. ASSUME NEW p \in Processes, Crash(p) PROVE MigLaid'
  <2>1. /\ \A q \in Processes : proc'[q] = proc[q] \/ proc'[q] = Down
        /\ UNCHANGED <<tables, recorded, overlapped, refused>>
    BY <1>5 DEF Crash, MigTyped, schema, history
  <2> QED BY <1>U, <2>1, LaidStopped
<1>6. ASSUME NEW t \in Rebuilt, NEW id \in Ids, CreateRow(t, id) PROVE MigLaid'
  <2>1. UNCHANGED <<tables, recorded, proc, overlapped, refused>>
    BY <1>6 DEF CreateRow, history
  <2> QED BY <1>U, <2>1, LaidStopped
<1>7. ASSUME Upgrade PROVE MigLaid'
  <2>1. /\ \A q \in Processes : proc'[q] = Down
        /\ UNCHANGED <<tables, recorded, overlapped, refused>>
    BY <1>7 DEF Upgrade, schema, history
  <2> QED BY <1>U, <2>1, LaidStopped
<1>8. ASSUME UNCHANGED vars PROVE MigLaid'
  <2>1. UNCHANGED <<tables, recorded, proc, overlapped, refused>>
    BY <1>8 DEF vars, schema, history
  <2> QED BY <1>U, <2>1, LaidStopped
<1>9. ASSUME NEW p \in Processes, Refuse(p) PROVE MigLaid'
  <2>1. Tidy /\ MigLaid
    BY <1>9, <1>U DEF Refuse
  <2> QED BY <1>2, <1>9, <2>1, LaidRefuse
<1> QED BY <1>3, <1>4, <1>5, <1>6, <1>7, <1>8, <1>9 DEF MigNext

(* With all versions recorded, what any of their statements left is there. *)
LEMMA AllRan ==
    ASSUME AllLast, recorded = 1 .. Latest, NEW n \in 1 .. Latest, NEW s, Contains(Migration[n], s)
    PROVE  Lasts(n, s)
BY DEF Contains, AllLast, Ran

(* Then the tables are those of the models, but for the columns refused.   *)
LEMMA LaidIsModel ==
    ASSUME MigTyped, MigLaid, recorded = 1 .. Latest
    PROVE  /\ DOMAIN tables = DOMAIN Model
           /\ \A t \in DOMAIN Model :
                 /\ tables[t] \subseteq Model[t]
                 /\ \A c \in Model[t] \ tables[t] : <<t, c>> \in refused
<1>1. AllLast /\ TablesOK /\ Latest = 18
  BY Shapes DEF MigLaid
<1>2. \A t \in Temporary : t \notin DOMAIN tables
  <2>1. ASSUME NEW n \in 1 .. Latest, NEW t, Contains(Migration[n], DropIfExists(t))
        PROVE  t \notin DOMAIN tables
    <3>1. Lasts(n, DropIfExists(t))
      BY <1>1, <2>1, AllRan
    <3> QED BY <3>1 DEF Lasts, DropIfExists
  <2>2. /\ Migration[6] = V6 /\ Migration[7] = V7 /\ Migration[8] = V8
        /\ 6 \in 1 .. Latest /\ 7 \in 1 .. Latest /\ 8 \in 1 .. Latest
    BY <1>1 DEF Migration
  <2> QED BY <2>1, <2>2, DropsIn DEF Temporary
<1>3. \A u \in Rebuilt : /\ u \in DOMAIN tables /\ Copy(u) \notin DOMAIN tables
                         /\ Created(Copy(u)) \subseteq tables[u] /\ tables[u] \subseteq Model[u]
  <2>1. \A u \in Rebuilt : RebuildOf(u) \in recorded
    BY <1>1, Copies
  <2> QED BY <1>1, <2>1, RebuiltIsThere
<1>4. "notification_tracker" \in DOMAIN tables
  <2> DEFINE a == CreateTable("notification_tracker", {"tx_hash", "order_id", "buyer_pubkey", "processed_at"})
             w == Migration[18]
  <2>1. a.op = "create table" /\ a.t = "notification_tracker"
    BY DEF CreateTable
  <2>2. w = <<a, Record(18)>> /\ 18 \in 1 .. Latest
    BY <1>1 DEF Migration, V18
  <2> HIDE DEF a
  <2>3. Len(w) = 2 /\ w[1] = a
    BY <2>2
  <2>4. Contains(w, a)
    BY <2>3 DEF Contains
  <2>5. Lasts(18, a)
    BY <1>1, <2>2, <2>4, AllRan
  <2> QED BY <2>1, <2>5 DEF Lasts
<1> DEFINE Known(t, c) == c \in tables[t] \/ <<t, c>> \in refused
<1>5. /\ \A c \in {"version", "has_dispute", "client_encrypted_blob", "dispute_client_blob",
                  "chat_encrypted_blob"} : Known("orders", c)
      /\ \A c \in {"status", "currency", "version"} : Known("listings", c)
  <2>1. ASSUME NEW n \in 12 .. 17, NEW t \in Rebuilt, NEW c, NEW b, Contains(Migration[n], Alter(t, c, b))
        PROVE  Known(t, c)
    <3>1. n \in 1 .. Latest
      BY <1>1
    <3>2. n > RebuildOf(t)
      BY DEF RebuildOf
    <3>3. Lasts(n, Alter(t, c, b))
      BY <1>1, <2>1, <3>1, AllRan
    <3> QED BY <3>2, <3>3 DEF Lasts, Has, Alter
  <2>2. /\ Migration[12] = V12 /\ Migration[13] = V13 /\ Migration[14] = V14
        /\ Migration[15] = V15 /\ Migration[16] = V16 /\ Migration[17] = V17
        /\ {12, 13, 14, 15, 16, 17} \subseteq 12 .. 17 /\ "orders" \in Rebuilt /\ "listings" \in Rebuilt
    BY DEF Migration, Rebuilt
  <2> HIDE DEF Known
  <2>3. /\ Known("orders", "version") /\ Known("orders", "has_dispute")
        /\ Known("orders", "client_encrypted_blob") /\ Known("orders", "dispute_client_blob")
        /\ Known("orders", "chat_encrypted_blob")
    BY <2>1, <2>2, AddsIn
  <2>4. Known("listings", "status") /\ Known("listings", "currency") /\ Known("listings", "version")
    BY <2>1, <2>2, AddsIn
  <2> QED BY <2>3, <2>4
<1>6. DOMAIN tables = {"orders", "listings", "notification_tracker"}
  <2>1. DOMAIN tables \subseteq TableNames
    BY DEF MigTyped, MigTypeOK
  <2>2. TableNames = Temporary \cup {"orders", "listings", "orders_new", "listings_new", "notification_tracker"}
    BY DEF TableNames, Temporary
  <2>3. "orders" \in DOMAIN tables /\ "listings" \in DOMAIN tables
        /\ "orders_new" \notin DOMAIN tables /\ "listings_new" \notin DOMAIN tables
    BY <1>3 DEF Rebuilt, Copy
  <2> QED BY <1>2, <1>4, <2>1, <2>2, <2>3
<1>7. tables["orders"] \subseteq Model["orders"] /\ \A c \in Model["orders"] \ tables["orders"] : <<"orders", c>> \in refused
  <2>1. OrderColumns \subseteq tables["orders"] /\ tables["orders"] \subseteq Model["orders"]
    BY <1>3 DEF Rebuilt, Copy, Created
  <2>2. Model["orders"] = OrderColumns \cup {"version", "has_dispute", "client_encrypted_blob",
                                             "dispute_client_blob", "chat_encrypted_blob"}
    BY DEF Model
  <2> QED BY <1>5, <2>1, <2>2
<1>8. tables["listings"] \subseteq Model["listings"] /\ \A c \in Model["listings"] \ tables["listings"] : <<"listings", c>> \in refused
  <2> DEFINE c == {"id", "encrypted_listing_blob", "day_bucket", "search_token"}
  <2>1. c \subseteq tables["listings"] /\ tables["listings"] \subseteq Model["listings"]
    BY <1>3 DEF Rebuilt, Copy, Created
  <2>2. Model["listings"] = c \cup {"status", "currency", "version"}
    BY DEF Model
  <2> HIDE DEF c
  <2> QED BY <1>5, <2>1, <2>2
<1>9. tables["notification_tracker"] = Model["notification_tracker"]
  BY <1>1, <1>4 DEF TablesOK, AsCreated, Created, Model
<1>10. DOMAIN Model = {"orders", "listings", "notification_tracker"}
  BY DEF Model
<1> HIDE DEF Known
<1> QED BY <1>6, <1>7, <1>8, <1>9, <1>10

(* What the invariant says of who serves.                                  *)
LEMMA LaidIsServed == MigTyped /\ MigKept /\ (Tidy => MigLaid) => ServesOnModelSchema
<1> SUFFICES ASSUME MigTyped, MigKept, MigLaid, release = Latest, NEW p \in Processes, proc[p] = Up
             PROVE  /\ DOMAIN tables = DOMAIN Model
                    /\ \A t \in DOMAIN Model :
                          /\ tables[t] \subseteq Model[t]
                          /\ \A c \in Model[t] \ tables[t] : <<t, c>> \in refused
  BY DEF ServesOnModelSchema, Tidy
<1>1. PICK v \in 0 .. Latest : KeptAt(v)
  BY DEF MigKept
<1>2. v >= release /\ recorded = 1 .. v
  BY <1>1 DEF KeptAt, Versions
<1>3. v = Latest
  BY <1>1, <1>2, Shapes
<1> QED BY <1>2, <1>3, LaidIsModel

(* ServesOnModelSchema for every number of processes, rows and faults:     *)
(* from whatever release, a process of the current one serves on the       *)
(* tables db/models.rs reads, those dropped for privacy being gone, and on *)
(* all their columns but those whose ALTER failed and was only logged,     *)
(* as long as start-ups overlapped in no version that must be run alone.   *)
THEOREM MigServesOnModelSchema == MigSpec => []ServesOnModelSchema
<1>1. MigInit => MigTyped /\ MigKept /\ (Tidy => MigLaid)
  BY MigInitTyped, KeptInit, LaidInit
<1>2. MigTyped /\ MigKept /\ (Tidy => MigLaid) /\ [MigNext]_vars => MigTyped' /\ MigKept' /\ (Tidy => MigLaid)'
  BY MigNextTyped, KeptNext, LaidNext
<1> QED BY <1>1, <1>2, LaidIsServed, PTL DEF MigSpec
-----------------------------------------------------------------------------
(* Where start-up can fail *)

(* The number of statements of version n before its first index.           *)
Ready(n) ==
    IF n \in {2, 3, 13} THEN 2 ELSE IF n \in {1, 10} THEN 4 ELSE IF n = 11 THEN 8 ELSE 6

(* Its values.                                                             *)
LEMMA ReadyIs ==
    /\ Ready(1) = 4 /\ Ready(2) = 2 /\ Ready(3) = 2 /\ Ready(9) = 6 /\ Ready(10) = 4
    /\ Ready(11) = 8 /\ Ready(13) = 2 /\ Ready(14) = 6
BY DEF Ready

(* V1 - V3 begin with their CREATE TABLEs.                                 *)
LEMMA FirstTables ==
    /\ \A k \in 1 .. 4 : V1[k].op = "create table"
    /\ V1[1].t = "users" /\ V1[2].t = "listings" /\ V1[3].t = "orders" /\ V1[4].t = "chat_messages"
    /\ \A k \in 1 .. 2 : V2[k].op = "create table" /\ V3[k].op = "create table"
    /\ V2[1].t = "audit_logs" /\ V2[2].t = "payment_audits"
    /\ V3[1].t = "disputes" /\ V3[2].t = "dispute_evidence"
    /\ Len(V1) = 11 /\ Len(V2) = 10 /\ Len(V3) = 9
<1> DEFINE a1 == CreateTable("users", {"pubkey_hash", "legacy"})
           a2 == CreateTable("listings", {"id", "seller_pubkey_hash", "encrypted_search", "currency",
                                  "status", "expires_at", "legacy"})
           a3 == CreateTable("orders", {"id", "buyer_pubkey_hash", "seller_pubkey_hash", "state",
                                "escrow_address", "disputed_at", "legacy"})
           a4 == CreateTable("chat_messages", {"id", "order_id", "legacy"})
           b1 == CreateTable("audit_logs", {"id", "timestamp", "event_type", "legacy"})
           b2 == CreateTable("payment_audits", {"id", "tx_hash", "order_id", "legacy"})
           c1 == CreateTable("disputes", {"id", "order_id", "legacy"})
           c2 == CreateTable("dispute_evidence", {"id", "dispute_id", "legacy"})
           K(s, t) == s.op = "create table" /\ s.t = t
<1>1. /\ K(a1, "users") /\ K(a2, "listings") /\ K(a3, "orders") /\ K(a4, "chat_messages")
      /\ K(b1, "audit_logs") /\ K(b2, "payment_audits") /\ K(c1, "disputes") /\ K(c2, "dispute_evidence")
  BY DEF CreateTable
<1>2. /\ \E d, e, f, g, h, i, j : V1 = <<a1, a2, a3, a4, d, e, f, g, h, i, j>>
      /\ \E d, e, f, g, h, i, j, k : V2 = <<b1, b2, d, e, f, g, h, i, j, k>>
      /\ \E d, e, f, g, h, i, j : V3 = ((<<c1, c2, d, e>> \o <<f, g>>) \o <<h, i>>) \o <<j>>
  BY DEF V1, V2, V3, TryAddColumn
<1> HIDE DEF a1, a2, a3, a4, b1, b2, c1, c2, K
<1>3. V1[1] = a1 /\ V1[2] = a2 /\ V1[3] = a3 /\ V1[4] = a4 /\ Len(V1) = 11
  BY <1>2
<1>4. V2[1] = b1 /\ V2[2] = b2 /\ Len(V2) = 10
  BY <1>2
<1>5. V3[1] = c1 /\ V3[2] = c2 /\ Len(V3) = 9
  BY <1>2
<1>6. (\A k \in 1 .. 4 : k \in {1, 2, 3, 4}) /\ (\A k \in 1 .. 2 : k \in {1, 2})
  OBVIOUS
<1> QED BY <1>1, <1>3, <1>4, <1>5, <1>6 DEF K

(* V9, V13 and V14 begin with their ALTERs, each after its guard.          *)
LEMMA FirstAlters ==
    /\ \A k \in 1 .. 6 : V9[k].op # "create index" /\ V14[k].op # "create index"
    /\ V9[2] = Alter("orders", "encrypted_order_blob", FALSE)
    /\ V9[4] = Alter("orders", "day_bucket", FALSE) /\ V9[6] = Alter("orders", "expiry_bucket", FALSE)
    /\ V14[2] = Alter("listings", "status", TRUE) /\ V14[4] = Alter("listings", "currency", TRUE)
    /\ \A k \in 1 .. 2 : V13[k].op # "create index"
    /\ V13[2] = Alter("orders", "has_dispute", TRUE)
    /\ Len(V9) = 13 /\ Len(V13) = 4 /\ Len(V14) = 10
<1> DEFINE q1 == ColumnExists("orders", "encrypted_order_blob")
           a1 == Alter("orders", "encrypted_order_blob", FALSE)
           q2 == ColumnExists("orders", "day_bucket")
           a2 == Alter("orders", "day_bucket", FALSE)
           q3 == ColumnExists("orders", "expiry_bucket")
           a3 == Alter("orders", "expiry_bucket", FALSE)
           q4 == ColumnExists("orders", "has_dispute")
           a4 == Alter("orders", "has_dispute", TRUE)
           q5 == ColumnExists("listings", "status")
           a5 == Alter("listings", "status", TRUE)
           q6 == ColumnExists("listings", "currency")
           a6 == Alter("listings", "currency", TRUE)
           q7 == ColumnExists("listings", "version")
           a7 == Alter("listings", "version", TRUE)
           A(s) == s.op # "create index"
<1>1. /\ A(q1) /\ A(q2) /\ A(q3) /\ A(q4) /\ A(q5) /\ A(q6) /\ A(q7)
      /\ A(a1) /\ A(a2) /\ A(a3) /\ A(a4) /\ A(a5) /\ A(a6) /\ A(a7)
  BY DEF ColumnExists, Alter
<1>2. /\ \E d, e, f, g, h, i, j : V9 = ((<<q1, a1>> \o <<q2, a2>>) \o <<q3, a3>>) \o <<d, e, f, g, h, i, j>>
      /\ \E d, e : V13 = <<q4, a4>> \o <<d, e>>
      /\ \E d, e, f, g : V14 = ((<<q5, a5>> \o <<q6, a6>>) \o <<q7, a7>>) \o <<d, e, f, g>>
  BY DEF V9, V13, V14, TryAddColumn, AddColumn
<1>3. /\ a1 = Alter("orders", "encrypted_order_blob", FALSE) /\ a2 = Alter("orders", "day_bucket", FALSE)
      /\ a3 = Alter("orders", "expiry_bucket", FALSE) /\ a4 = Alter("orders", "has_dispute", TRUE)
      /\ a5 = Alter("listings", "status", TRUE) /\ a6 = Alter("listings", "currency", TRUE)
  OBVIOUS
<1> HIDE DEF q1, q2, q3, q4, q5, q6, q7, a1, a2, a3, a4, a5, a6, a7, A
<1>4. /\ V9[1] = q1 /\ V9[2] = a1 /\ V9[3] = q2 /\ V9[4] = a2 /\ V9[5] = q3 /\ V9[6] = a3
      /\ Len(V9) = 13
  BY <1>2
<1>5. /\ V14[1] = q5 /\ V14[2] = a5 /\ V14[3] = q6 /\ V14[4] = a6 /\ V14[5] = q7 /\ V14[6] = a7
      /\ Len(V14) = 10
  BY <1>2
<1>6. V13[1] = q4 /\ V13[2] = a4 /\ Len(V13) = 4
  BY <1>2
<1>7. (\A k \in 1 .. 6 : k \in {1, 2, 3, 4, 5, 6}) /\ (\A k \in 1 .. 2 : k \in {1, 2})
  OBVIOUS
<1>8. \A k \in 1 .. 6 : A(V9[k]) /\ A(V14[k])
  BY <1>1, <1>4, <1>5, <1>7
<1>9. \A k \in 1 .. 2 : A(V13[k])
  BY <1>1, <1>6, <1>7
<1> QED BY <1>3, <1>4, <1>5, <1>6, <1>8, <1>9 DEF A

(* The rebuilds create their indexes after their RENAME.                   *)
LEMMA FirstRebuild ==
    /\ \A k \in 1 .. 4 : V10[k].op # "create index"
    /\ \A k \in 1 .. 8 : V11[k].op # "create index"
<1> DEFINE a1 == CreateTable("orders_new", OrderColumns)
           a2 == InsertFrom("orders_new", "orders", OrderColumns)
           a3 == DropTable("orders")
           a4 == Rename("orders_new", "orders")
           b1 == CreateTable("listings_new", {"id", "encrypted_listing_blob", "day_bucket", "search_token"})
           b2 == InsertFrom("listings_new", "listings", {"id", "encrypted_search"})
           b3 == DropIndex("idx_listings_seller")
           b4 == DropIndex("idx_listings_status")
           b5 == DropIndex("idx_listings_search")
           b6 == DropIndex("idx_listings_expires")
           b7 == DropTable("listings")
           b8 == Rename("listings_new", "listings")
           A(s) == s.op # "create index"
<1>1. A(a1) /\ A(a2) /\ A(a3) /\ A(a4) /\ A(b1) /\ A(b2) /\ A(b3) /\ A(b4) /\ A(b5) /\ A(b6) /\ A(b7) /\ A(b8)
  BY DEF CreateTable, InsertFrom, DropTable, Rename, DropIndex
<1>2. /\ \E d, e, f : V10 = <<a1, a2, a3, a4, d, e, f>>
      /\ \E d, e : V11 = <<b1, b2, b3, b4, b5, b6, b7, b8, d, e>>
  BY DEF V10, V11
<1> HIDE DEF a1, a2, a3, a4, b1, b2, b3, b4, b5, b6, b7, b8, A
<1>3. \A k \in 1 .. 4 : A(V10[k])
  BY <1>1, <1>2
<1>4. \A k \in 1 .. 8 : A(V11[k])
  BY <1>1, <1>2
<1> QED BY <1>3, <1>4 DEF A

(* Beyond the first b statements.                                          *)
LEMMA Past ==
    ASSUME NEW k \in Nat, ~ (1 > k), NEW b \in Nat, k \notin 1 .. b
    PROVE  k > b
OBVIOUS

(* Before an index of version n are its CREATE TABLEs, RENAME and ALTERs.  *)
LEMMA IndexKnown ==
    ASSUME NEW n \in 1 .. Latest, NEW k \in 1 .. Len(Migration[n]), Migration[n][k].op = "create index"
    PROVE  Indexes(n, Migration[n][k]) /\ k > Ready(n)
<1> DEFINE s == Migration[n][k]
<1>1. /\ n \in Nat /\ k \in Nat /\ ~ (1 > k) /\ (k < Len(Migration[n]) => StepOf(n, k, s))
      /\ (~ (k < Len(Migration[n])) => s = Record(n))
  BY EveryStatement
<1>2. StepOf(n, k, s)
  <2>1. Record(n).op # "create index"
    BY DEF Record
  <2> QED BY <1>1, <2>1
<1>3. Indexes(n, s)
  <2>1. s.op = "create index"
    OBVIOUS
  <2> HIDE DEF s
  <2> QED BY <1>2, <2>1 DEF StepOf, PlainStep, Plain, Adds, RebuildStep
<1>4. n \in {1, 2, 3, 9, 10, 11, 13, 14}
  <2>1. \A t \in Temporary : CreatedIn(t) \in {1, 2, 3}
    BY DEF Temporary, CreatedIn
  <2>2. \A t \in Rebuilt : RebuildOf(t) \in {10, 11}
    BY Copies
  <2> HIDE DEF s
  <2> QED BY <1>3, <2>1, <2>2 DEF Indexes
<1>5. /\ Migration[1] = V1 /\ Migration[2] = V2 /\ Migration[3] = V3 /\ Migration[9] = V9
      /\ Migration[10] = V10 /\ Migration[11] = V11 /\ Migration[13] = V13 /\ Migration[14] = V14
  BY DEF Migration
<1>6. \A j \in 1 .. Ready(n) : Migration[n][j].op # "create index"
  <2>1. \A j \in 1 .. 4 : V1[j].op # "create index"
    BY FirstTables
  <2>2. \A j \in 1 .. 2 : V2[j].op # "create index" /\ V3[j].op # "create index"
    BY FirstTables
  <2> QED BY <1>4, <1>5, <2>1, <2>2, ReadyIs, FirstAlters, FirstRebuild, ZenonT(60)
<1>7. Ready(n) \in Nat
  BY DEF Ready
<1>8. k \in Nat /\ ~ (1 > k) /\ k \notin 1 .. Ready(n)
  BY <1>1, <1>6
<1>9. k > Ready(n)
  BY <1>7, <1>8, Past
<1> QED BY <1>3, <1>9

(* A table that a version creates has its CREATE TABLE at this place.      *)
LEMMA CreatedBefore ==
    ASSUME NEW t \in Temporary \cup Rebuilt, NEW m, m = CreatedIn(t)
    PROVE  /\ m \in {1, 2, 3}
           /\ \E j \in 1 .. Len(Migration[m]) :
                 /\ j \in 1 .. Ready(m)
                 /\ Migration[m][j].op = "create table" /\ Migration[m][j].t = t
<1>1. Migration[1] = V1 /\ Migration[2] = V2 /\ Migration[3] = V3
  BY DEF Migration
<1>2. t \in {"users", "listings", "orders", "chat_messages", "audit_logs", "payment_audits",
             "disputes", "dispute_evidence"}
  BY DEF Temporary, Rebuilt
<1> DEFINE Makes(n, j) == /\ j \in 1 .. Len(Migration[n]) /\ j \in 1 .. Ready(n)
                       /\ Migration[n][j].op = "create table"
<1>3. /\ Makes(1, 1) /\ Makes(1, 2) /\ Makes(1, 3) /\ Makes(1, 4)
      /\ Migration[1][1].t = "users" /\ Migration[1][2].t = "listings"
      /\ Migration[1][3].t = "orders" /\ Migration[1][4].t = "chat_messages"
  <2>1. Len(Migration[1]) = 11 /\ Ready(1) = 4 /\ \A j \in 1 .. 4 : Migration[1][j].op = "create table"
    BY <1>1, FirstTables, ReadyIs, Zenon
  <2>2. \A j \in 1 .. 4 : j \in 1 .. 11
    OBVIOUS
  <2>3. \A j \in 1 .. 4 : Makes(1, j)
    BY <2>1, <2>2, Zenon
  <2>4. 1 \in 1 .. 4 /\ 2 \in 1 .. 4 /\ 3 \in 1 .. 4 /\ 4 \in 1 .. 4
    OBVIOUS
  <2> QED BY <1>1, <2>3, <2>4, FirstTables, Zenon
<1>4. /\ Makes(2, 1) /\ Makes(2, 2) /\ Makes(3, 1) /\ Makes(3, 2)
      /\ Migration[2][1].t = "audit_logs" /\ Migration[2][2].t = "payment_audits"
      /\ Migration[3][1].t = "disputes" /\ Migration[3][2].t = "dispute_evidence"
  <2>1. /\ Len(Migration[2]) = 10 /\ Len(Migration[3]) = 9 /\ Ready(2) = 2 /\ Ready(3) = 2
        /\ \A j \in 1 .. 2 : Migration[2][j].op = "create table" /\ Migration[3][j].op = "create table"
    BY <1>1, FirstTables, ReadyIs, Zenon
  <2>2. \A j \in 1 .. 2 : j \in 1 .. 10 /\ j \in 1 .. 9
    OBVIOUS
  <2>3. \A j \in 1 .. 2 : Makes(2, j) /\ Makes(3, j)
    BY <2>1, <2>2, Zenon
  <2>4. 1 \in 1 .. 2 /\ 2 \in 1 .. 2
    OBVIOUS
  <2> QED BY <1>1, <2>3, <2>4, FirstTables, Zenon
<1>6. CreatedIn("listings") = 1 /\ CreatedIn("orders") = 1
  BY DEF CreatedIn
<1>7. m \in {1, 2, 3}
  BY <1>2, <1>6, OtherTables
<1>8. \E j : Makes(m, j) /\ Migration[m][j].t = t
  <2> HIDE DEF Makes
  <2> QED BY <1>2, <1>3, <1>4, <1>6, OtherTables, Zenon
<1> QED BY <1>7, <1>8
-----------------------------------------------------------------------------
(* The columns of table u are those of its copy, its rebuild having begun. *)
Passed(u) == RebuildOf(u) - 1 \in recorded /\ Created(Copy(u)) \subseteq tables[u]

(* A table has the columns it is created with, or its rebuild.             *)
Founded == \A t \in DOMAIN tables : Created(t) \subseteq tables[t] \/ (t \in Rebuilt /\ Passed(t))

(* What statement s of version n leaves behind for a while: a table until  *)
(* the version is recorded or, if it is to be rebuilt, until the rebuild;  *)
(* a column until the rebuild, unless its ALTER was refused.               *)
Stands(n, s) ==
    /\ s.op = "create table" /\ s.t \in Temporary /\ n \notin recorded => s.t \in DOMAIN tables
    /\ s.op = "create table" /\ s.t \in Rebuilt /\ RebuildOf(s.t) - 1 \notin recorded =>
          s.t \in DOMAIN tables
    /\ s.op = "add column" /\ n > 1 /\ n < RebuildOf(s.t) /\ s.t \in DOMAIN tables =>
          s.c \in tables[s.t] \/ Passed(s.t) \/ <<s.t, s.c>> \in refused

AllStand ==
    \A n \in 1 .. Latest : \A k \in 1 .. Len(Migration[n]) : Ran(n, k) => Stands(n, Migration[n][k])

(* Where a process in the rebuild of u is: the copy is there from its      *)
(* CREATE to its RENAME, and u is gone for the latter.                     *)
Between(u, p) ==
    Migrating(p) /\ proc[p].version = RebuildOf(u) =>
        /\ proc[p].stmt > 1 /\ proc[p].stmt <= DropAt(u) + 1 => Copy(u) \in DOMAIN tables
        /\ proc[p].stmt = DropAt(u) + 1 => u \notin DOMAIN tables

(* A column that column_exists found stands at its ALTER.                  *)
FoundStands(p) ==
    LET s == Migration[proc[p].version][proc[p].stmt]
    IN  Migrating(p) /\ proc[p].found /\ s.op = "add column" => Stands(proc[p].version, s)

(* A column of a rebuilt table that column_exists did not find is still    *)
(* missing at its ALTER, when nobody else is in the version; unless there  *)
(* was a fault, the query itself refused for one.                          *)
Missed(p) ==
    LET s == Migration[proc[p].version][proc[p].stmt]
    IN  /\ Migrating(p) /\ proc[p].version \notin overlapped
        /\ ~ proc[p].found /\ proc[p].stmt > 1
        /\ s.op = "add column" /\ proc[p].version > RebuildOf(s.t)
        => ~ Has(s.t, s.c) \/ faults > 0

MigStands ==
    /\ Founded /\ AllStand
    /\ \A p \in Processes : FoundStands(p) /\ Missed(p) /\ \A u \in Rebuilt : Between(u, p)

(* Statement s needs a column whose ALTER failed and was only logged, or   *)
(* adds one again after a fault.                                           *)
Unadded(s) ==
    \/ s.op = "create index" /\ <<s.t, s.c>> \in refused
    \/ s.op = "insert select" /\ \E c \in s.cols : <<s.from, c>> \in refused
    \/ s.op = "add column" /\ faults > 0 /\ Has(s.t, s.c)

(* Where start-ups did not overlap, no statement of one fails but the      *)
(* INSERT of a rebuild that an earlier start-up was torn out of, and what  *)
(* an earlier fault took the column from.                                  *)
OnlyTornFails ==
    Tidy => \A p \in Processes : Migrating(p) /\ proc[p].version \notin overlapped =>
        LET s == Migration[proc[p].version][proc[p].stmt]
        IN  Fails(s, proc[p].found) => (Torn /\ s.op = "insert select") \/ Unadded(s)

(* Numbers around the rebuild of u.                                        *)
LEMMA BeforeRebuild ==
    ASSUME NEW v \in Nat, NEW b \in {10, 11}
    PROVE  /\ v + 1 = b => b - 1 \in 1 .. v
           /\ b - 1 \notin 1 .. v => v + 1 < b
           /\ v + 1 \notin 1 .. v
           /\ v < 9 => b - 1 \notin 1 .. v
           /\ b \notin 1 .. v /\ b - 1 \in 1 .. v => v + 1 = b
OBVIOUS

(* A version up to v + 1 that is not among the first v is the next one.    *)
LEMMA NextVersion ==
    ASSUME NEW v \in Nat, NEW m \in Nat, m >= 1, m <= v + 1
    PROVE  /\ m \notin 1 .. v => m = v + 1
           /\ v + 1 = 1 => ~ (m > 1)
           /\ \A b \in Nat : v + 1 < b => m # b
OBVIOUS

(* A table created before n is not one created in n or later.              *)
LEMMA NotBefore == \A a, n, b \in Nat : a < n /\ n <= b => a # b
OBVIOUS

(* Where no table is dropped: a table of version m before m is recorded.   *)
LEMMA TableStands ==
    ASSUME NEW n \in Nat, NEW k, NEW s, StepOf(n, k, s), Did(n, k, s), NEW t \in DOMAIN tables,
           \/ t \in Temporary /\ n <= CreatedIn(t)
           \/ t \in Rebuilt /\ n # RebuildOf(t)
    PROVE  t \in DOMAIN tables'
<1>1. /\ t \in Rebuilt => t \notin Temporary
      /\ \A u \in Rebuilt : t # Copy(u) /\ (RebuildOf(u) \in {10, 11})
      /\ t \in Temporary => \A u \in Rebuilt : t # u
  BY Copies, CreatedInIs
<1>2. CASE s.op = "create table" /\ Grows(s.t, s.cols)
  BY <1>2 DEF Grows
<1>3. CASE tables' = tables
  BY <1>3
<1>4. CASE s.op = "drop table if exists" /\ s.t \in Temporary /\ Shrinks(s.t)
  <2>1. CreatedIn(s.t) < n
    BY <1>4, OtherKinds
  <2>2. s.t # t
    <3>1. CASE t \in Rebuilt
      BY <1>1, <1>4, <3>1
    <3>2. CASE t \in Temporary /\ n <= CreatedIn(t)
      <4>1. \A x : CreatedIn(x) \in Nat
        BY DEF CreatedIn
      <4> QED BY <2>1, <3>2, <4>1, NotBefore
    <3> QED BY <3>1, <3>2
  <2> QED BY <1>4, <2>2 DEF Shrinks
<1>5. CASE \E u \in Rebuilt : n = RebuildOf(u) /\ Shrinks(u)
  BY <1>1, <1>5 DEF Shrinks
<1>6. CASE s.to \in Rebuilt /\ Replaces(s.to)
  BY <1>1, <1>6 DEF Replaces
<1>7. CASE Widens(s.t, s.c)
  BY <1>7 DEF Widens
<1> QED BY <1>2, <1>3, <1>4, <1>5, <1>6, <1>7 DEF Did

(* A table that stays loses no column; one that is new has those it is     *)
(* created with, or is a copy renamed.                                     *)
LEMMA ColumnsStand ==
    ASSUME TablesOK, NEW n, NEW k, NEW s, Did(n, k, s), NEW t \in DOMAIN tables'
    PROVE  \/ t \in DOMAIN tables /\ tables[t] \subseteq tables'[t]
           \/ t \notin DOMAIN tables /\ CreatedIn(t) = n /\ Created(t) \subseteq tables'[t]
           \/ /\ t \notin DOMAIN tables /\ t \in Rebuilt /\ n = RebuildOf(t)
              /\ Created(Copy(t)) \subseteq tables'[t]
<1>1. CASE s.op = "create table" /\ CreateIs(n, k, s) /\ Grows(s.t, s.cols)
  BY <1>1 DEF Grows, CreateIs
<1>2. CASE tables' = tables
  BY <1>2
<1>3. CASE \E u : Shrinks(u)
  BY <1>3 DEF Shrinks
<1>4. CASE s.to \in Rebuilt /\ n = RebuildOf(s.to) /\ Replaces(s.to)
  <2>1. Copy(s.to) \in AsCreated
    BY <1>4, CreatedInIs
  <2>2. tables'[s.to] = Created(Copy(s.to))
    BY <1>4, <2>1 DEF Replaces, TablesOK
  <2> QED BY <1>4, <2>2 DEF Replaces
<1>5. CASE Widens(s.t, s.c)
  BY <1>5 DEF Widens
<1> QED BY <1>1, <1>2, <1>3, <1>4, <1>5 DEF Did

(* What stands outlives a step of version n: r is the j-th statement of    *)
(* version m.                                                              *)
LEMMA StandsOn ==
    ASSUME TablesOK, NEW v \in Nat, recorded = 1 .. v, recorded' = recorded, refused \subseteq refused',
           NEW n \in Nat, n >= 1, n <= v + 1, n \in Exclusive => n = v + 1,
           NEW k, NEW s, StepOf(n, k, s), Did(n, k, s),
           NEW m \in Nat, m >= 1, m <= v + 1, NEW j, NEW r, StepOf(m, j, r), Stands(m, r)
    PROVE  Stands(m, r)'
<1>1. ASSUME r.op = "create table", r.t \in Temporary, m \notin recorded PROVE r.t \in DOMAIN tables'
  <2>1. m = v + 1
    BY <1>1, NextVersion
  <2>2. r.t \in DOMAIN tables
    BY <1>1 DEF Stands
  <2>3. CreatedIn(r.t) = m
    BY <1>1, CreateKinds DEF CreateIs
  <2>4. n <= CreatedIn(r.t)
    BY <2>1, <2>3
  <2> QED BY <1>1, <2>2, <2>4, TableStands
<1>2. ASSUME r.op = "create table", r.t \in Rebuilt, RebuildOf(r.t) - 1 \notin recorded
      PROVE  r.t \in DOMAIN tables'
  <2>1. r.t \in DOMAIN tables
    BY <1>2 DEF Stands
  <2> DEFINE b == RebuildOf(r.t)
  <2>2. b \in {10, 11} /\ b - 1 \notin 1 .. v
    BY <1>2, Copies
  <2> HIDE DEF b
  <2>3. b \in Nat /\ v + 1 < b
    BY <2>2, BeforeRebuild
  <2>4. n # b
    BY <2>3, NextVersion
  <2> QED BY <1>2, <2>1, <2>4, TableStands DEF b
<1>3. ASSUME r.op = "add column", m > 1, m < RebuildOf(r.t), r.t \in DOMAIN tables'
      PROVE  r.c \in tables'[r.t] \/ Passed(r.t)' \/ <<r.t, r.c>> \in refused'
  <2>1. r.t \in Rebuilt
    BY <1>3, OtherKinds DEF Adds
  <2>2. CASE r.t \in DOMAIN tables /\ tables[r.t] \subseteq tables'[r.t]
    <3>1. r.c \in tables[r.t] \/ Passed(r.t) \/ <<r.t, r.c>> \in refused
      BY <1>3, <2>2 DEF Stands
    <3> QED BY <2>2, <3>1 DEF Passed
  <2>3. CASE CreatedIn(r.t) = n
    <3>1. n = 1
      BY <2>1, <2>3, CreatedInIs
    <3>2. v + 1 = 1
      BY <3>1 DEF Exclusive
    <3>3. ~ (m > 1)
      BY <3>2, NextVersion
    <3> QED BY <1>3, <3>3
  <2>4. CASE n = RebuildOf(r.t) /\ Created(Copy(r.t)) \subseteq tables'[r.t]
    <3> DEFINE b == RebuildOf(r.t)
    <3>1. b \in {10, 11} /\ v + 1 = b
      BY <2>1, <2>4, Copies, ExclusiveIs
    <3> HIDE DEF b
    <3>2. b - 1 \in recorded
      BY <3>1, BeforeRebuild
    <3> QED BY <2>4, <3>2 DEF b, Passed
  <2> QED BY <1>3, <2>2, <2>3, <2>4, ColumnsStand
<1> QED BY <1>1, <1>2, <1>3 DEF Stands

(* The statement itself.                                                   *)
LEMMA StandsNow ==
    ASSUME NEW n, NEW k, NEW s, NEW found, Execute(s, found), Did(n, k, s),
           recorded' = recorded, refused \subseteq refused',
           s.op = "add column" /\ found => Stands(n, s) \/ <<s.t, s.c>> \in refused'
    PROVE  Stands(n, s)'
<1>1. ASSUME s.op = "create table" PROVE s.t \in DOMAIN tables'
  BY <1>1 DEF Did, Grows
<1>2. ASSUME s.op = "add column", n > 1, n < RebuildOf(s.t), s.t \in DOMAIN tables'
      PROVE  s.c \in tables'[s.t] \/ Passed(s.t)' \/ <<s.t, s.c>> \in refused'
  <2>1. tables' = IF found \/ s.t \notin DOMAIN tables THEN tables
                  ELSE [tables EXCEPT ![s.t] = @ \cup {s.c}]
    BY <1>2 DEF Execute
  <2>2. CASE found
    <3>1. tables' = tables
      BY <2>1, <2>2
    <3> QED BY <1>2, <2>2, <3>1 DEF Stands, Passed
  <2>3. CASE ~ found /\ s.t \in DOMAIN tables
    <3>1. tables' = [tables EXCEPT ![s.t] = @ \cup {s.c}]
      BY <2>1, <2>3
    <3> QED BY <2>3, <3>1
  <2>4. CASE ~ found /\ s.t \notin DOMAIN tables
    BY <1>2, <2>1, <2>4
  <2> QED BY <2>2, <2>3, <2>4
<1> QED BY <1>1, <1>2 DEF Stands

(* Every table keeps the columns it was founded with.                      *)
LEMMA FoundedOn ==
    ASSUME TablesOK, Founded, NEW v \in Nat, recorded = 1 .. v, recorded' = recorded,
           NEW n, n \in Exclusive => n = v + 1, NEW k, NEW s, Did(n, k, s)
    PROVE  Founded'
<1> SUFFICES ASSUME NEW t \in DOMAIN tables'
             PROVE  Created(t) \subseteq tables'[t] \/ (t \in Rebuilt /\ Passed(t)')
  BY DEF Founded
<1>1. CASE t \in DOMAIN tables /\ tables[t] \subseteq tables'[t]
  <2>1. Created(t) \subseteq tables[t] \/ (t \in Rebuilt /\ Passed(t))
    BY <1>1 DEF Founded
  <2> QED BY <1>1, <2>1 DEF Passed
<1>2. CASE Created(t) \subseteq tables'[t]
  BY <1>2
<1>3. CASE t \in Rebuilt /\ n = RebuildOf(t) /\ Created(Copy(t)) \subseteq tables'[t]
  <2> DEFINE b == RebuildOf(t)
  <2>1. b \in {10, 11} /\ v + 1 = b
    BY <1>3, Copies, ExclusiveIs
  <2> HIDE DEF b
  <2>2. b - 1 \in recorded
    BY <2>1, BeforeRebuild
  <2> QED BY <1>3, <2>2 DEF b, Passed
<1> QED BY <1>1, <1>2, <1>3, ColumnsStand

(* The record leaves nothing behind in the tables.                         *)
LEMMA RecordStands ==
    ASSUME NEW n, NEW s, s = Record(n)
    PROVE  Stands(n, s)'
BY DEF Stands, Record

(* What stands is about the tables and the versions, and stays when a      *)
(* version is recorded.                                                    *)
LEMMA StandsSame ==
    ASSUME tables' = tables, recorded \subseteq recorded', refused \subseteq refused'
    PROVE  /\ \A n, s : Stands(n, s) => Stands(n, s)'
           /\ Founded => Founded'
<1>1. \A u : Passed(u) => Passed(u)'
  BY DEF Passed
<1>2. ASSUME NEW n, NEW s, Stands(n, s) PROVE Stands(n, s)'
  BY <1>1, <1>2 DEF Stands
<1> QED BY <1>1, <1>2 DEF Founded

(* Nothing has to stand when the program is first run.                     *)
LEMMA StandsInit == MigInit => MigStands
<1> SUFFICES ASSUME MigInit PROVE MigStands
  OBVIOUS
<1>1. \A p \in Processes : proc[p] = Down
  BY DEF MigInit
<1>2. \A p \in Processes : ~ Migrating(p)
  BY <1>1, Statuses DEF Migrating
<1>3. AllStand
  BY <1>2 DEF MigInit, AllStand, Ran
<1>4. DOMAIN tables = {}
  BY DEF MigInit
<1> QED BY <1>2, <1>3, <1>4 DEF MigStands, Founded, FoundStands, Missed, Between

(* The tables stay and no more has run.                                    *)
LEMMA StandsRest ==
    ASSUME MigStands, UNCHANGED <<tables, recorded>>, refused \subseteq refused',
           \A n \in 1 .. Latest : \A k \in 1 .. Len(Migration[n]) : Ran(n, k)' => Ran(n, k),
           \A p \in Processes : FoundStands(p)' /\ Missed(p)' /\ \A u \in Rebuilt : Between(u, p)'
    PROVE  MigStands'
<1>1. \A n, s : Stands(n, s) => Stands(n, s)'
  BY StandsSame
<1>2. AllStand'
  BY <1>1 DEF MigStands, AllStand
<1>3. Founded'
  BY StandsSame DEF MigStands
<1> QED BY <1>2, <1>3 DEF MigStands

(* A process that stays where it is, with the tables.                      *)
LEMMA StandsWaiting ==
    ASSUME NEW q, FoundStands(q), Missed(q), \A u \in Rebuilt : Between(u, q), proc'[q] = proc[q],
           tables' = tables, recorded \subseteq recorded', refused \subseteq refused',
           overlapped \subseteq overlapped', faults > 0 => faults' > 0
    PROVE  FoundStands(q)' /\ Missed(q)' /\ \A u \in Rebuilt : Between(u, q)'
<1>1. \A n, s : Stands(n, s) => Stands(n, s)'
  BY StandsSame
<1>2. FoundStands(q)'
  BY <1>1 DEF FoundStands, Migrating
<1>3. Missed(q)'
  BY DEF Missed, Migrating, Has
<1>4. \A u \in Rebuilt : Between(u, q)'
  BY DEF Between, Migrating
<1> QED BY <1>2, <1>3, <1>4

(* Processes stop.                                                         *)
LEMMA StandsStopped ==
    ASSUME MigStands, \A q \in Processes : proc'[q] = proc[q] \/ proc'[q] = Down,
           UNCHANGED <<tables, recorded, overlapped, refused>>, faults > 0 => faults' > 0
    PROVE  MigStands'
<1>1. \A q \in Processes : proc'[q].status = "migrating" => proc'[q] = proc[q]
  BY RanStopped
<1>2. ASSUME NEW p \in Processes PROVE FoundStands(p)' /\ Missed(p)' /\ \A u \in Rebuilt : Between(u, p)'
  <2>1. CASE proc'[p].status = "migrating"
    BY <1>1, <2>1, StandsWaiting DEF MigStands
  <2>2. CASE proc'[p].status # "migrating"
    BY <2>2 DEF FoundStands, Missed, Between, Migrating
  <2> QED BY <2>1, <2>2
<1> QED BY <1>2, RanStopped, StandsRest

(* At the first statement nothing was looked for and no rebuild has begun. *)
LEMMA AtFirst ==
    ASSUME NEW p \in Processes, proc'[p].status = "migrating" => proc'[p].stmt = 1 /\ ~ proc'[p].found
    PROVE  FoundStands(p)' /\ Missed(p)' /\ \A u \in Rebuilt : Between(u, p)'
<1>1. \A u \in Rebuilt : DropAt(u) \in 3 .. 7
  BY Copies
<1>2. ~ (1 > 1) /\ \A d \in 3 .. 7 : d + 1 # 1
  OBVIOUS
<1> QED BY <1>1, <1>2 DEF FoundStands, Missed, Between, Migrating

(* A process starts.                                                       *)
LEMMA StandsBegin ==
    ASSUME MigTyped, MigStands, NEW p \in Processes, Begin(p)
    PROVE  MigStands'
<1>1. /\ UNCHANGED <<tables, recorded, refused>> /\ \A q \in Processes : q # p => proc'[q] = proc[q]
      /\ overlapped \subseteq overlapped' /\ faults' = faults
  BY Begins DEF Begin
<1>2. FoundStands(p)' /\ Missed(p)' /\ \A u \in Rebuilt : Between(u, p)'
  BY Begins, AtFirst
<1>3. ASSUME NEW q \in Processes, q # p
      PROVE  FoundStands(q)' /\ Missed(q)' /\ \A u \in Rebuilt : Between(u, q)'
  BY <1>1, <1>3, StandsWaiting DEF MigStands
<1> QED BY <1>1, <1>2, <1>3, Begins, StandsRest

(* From one statement of a rebuild to the next.                            *)
LEMMA NextInRebuild ==
    ASSUME NEW k \in Nat, ~ (1 > k), NEW d \in 3 .. 7
    PROVE  /\ k + 1 <= d + 1 => k = 1 \/ k = 2 \/ (k > 1 /\ k <= d + 1 /\ k # d + 1)
           /\ k + 1 = d + 1 => k = d
           /\ k = 2 => k > 1 /\ k <= d + 1
           /\ k = d => k > 1 /\ k # 2 /\ k # 1
OBVIOUS

(* The copy is there until its RENAME, and the original gone before it.    *)
LEMMA BetweenStep ==
    ASSUME NEW p \in Processes, Migrating(p), NEW u \in Rebuilt, Between(u, p), NEW n, n = RebuildOf(u),
           NEW k \in Nat, ~ (1 > k), IsAt(p, n, k), NEW s, StepOf(n, k, s), Did(n, k, s),
           NEW found, ~ Fails(s, found)
    PROVE  /\ k + 1 <= DropAt(u) + 1 => Copy(u) \in DOMAIN tables'
           /\ k + 1 = DropAt(u) + 1 => u \notin DOMAIN tables'
<1>1. DropAt(u) \in 3 .. 7 /\ Copy(u) \notin Temporary /\ n # 1
      /\ \A w \in Rebuilt : Copy(u) # w /\ (RebuildOf(w) = n => w = u)
  BY Copies, CreatedInIs
<1>2. k \in {1, 2, DropAt(u), DropAt(u) + 1} => RebuildStep(u, k, s)
  BY <1>1 DEF StepOf, PlainStep
<1>3. ASSUME k + 1 <= DropAt(u) + 1 PROVE Copy(u) \in DOMAIN tables'
  <2>1. CASE k = 1
    <3>1. s.op = "create table" /\ s.t = Copy(u)
      <4>1. k # 2 /\ k # DropAt(u) /\ k # DropAt(u) + 1
        BY <1>1, <2>1
      <4> QED BY <1>2, <2>1, <4>1 DEF RebuildStep
    <3> QED BY <3>1 DEF Did, Grows
  <2>2. CASE k > 1 /\ k <= DropAt(u) + 1 /\ k # DropAt(u) + 1
    <3>1. Copy(u) \in DOMAIN tables
      BY <2>2 DEF Between, IsAt
    <3>2. CASE s.op = "create table" /\ Grows(s.t, s.cols)
      BY <3>1, <3>2 DEF Grows
    <3>3. CASE tables' = tables
      BY <3>1, <3>3
    <3>4. CASE s.t \in Temporary /\ Shrinks(s.t)
      BY <1>1, <3>1, <3>4 DEF Shrinks
    <3>5. CASE \E w \in Rebuilt : Shrinks(w)
      BY <1>1, <3>1, <3>5 DEF Shrinks
    <3>6. CASE s.to \in Rebuilt /\ n = RebuildOf(s.to) /\ k = DropAt(s.to) + 1
      BY <1>1, <2>2, <3>6
    <3>7. CASE Widens(s.t, s.c)
      BY <3>1, <3>7 DEF Widens
    <3> QED BY <3>2, <3>3, <3>4, <3>5, <3>6, <3>7 DEF Did
  <2>3. k = 2 => k > 1 /\ k <= DropAt(u) + 1 /\ k # DropAt(u) + 1
    BY <1>1
  <2> QED BY <1>1, <1>3, <2>1, <2>2, <2>3, NextInRebuild
<1>4. ASSUME k + 1 = DropAt(u) + 1 PROVE u \notin DOMAIN tables'
  <2>1. k = DropAt(u)
    BY <1>1, <1>4, NextInRebuild
  <2>2. s.op = "drop table"
    <3>1. k # 1 /\ k # 2 /\ k # DropAt(u) + 1
      BY <1>1, <2>1
    <3> QED BY <1>2, <2>1, <3>1 DEF RebuildStep
  <2>3. PICK w \in Rebuilt : n = RebuildOf(w) /\ Shrinks(w)
    BY <2>2 DEF Did
  <2> QED BY <1>1, <2>3 DEF Shrinks
<1> QED BY <1>3, <1>4

(* A version that need not be run alone: it creates no rebuilt table, no   *)
(* copy leaves, and no column comes to a table but by the ALTER for it.    *)
LEMMA Elsewhere ==
    ASSUME NEW n, n \notin Exclusive, NEW k, NEW s, Did(n, k, s), NEW u \in Rebuilt
    PROVE  /\ u \notin DOMAIN tables => u \notin DOMAIN tables'
           /\ Copy(u) \in DOMAIN tables => Copy(u) \in DOMAIN tables'
           /\ \A c : /\ ~ Has(u, c) /\ ~ (s.op = "add column" /\ s.t = u /\ s.c = c)
                     => ~ Has(u, c)'
<1>1. /\ CreatedIn(u) = 1 /\ u \notin Temporary /\ Copy(u) \notin Temporary
      /\ \A w \in Rebuilt : Copy(u) # w /\ RebuildOf(w) \in Exclusive
  BY Copies, CreatedInIs, ExclusiveIs
<1>2. 1 \in Exclusive
  BY DEF Exclusive
<1>3. CASE tables' = tables
  BY <1>3 DEF Has
<1>4. CASE CreateIs(n, k, s) /\ Grows(s.t, s.cols)
  <2>1. s.t # u
    BY <1>1, <1>2, <1>4 DEF CreateIs
  <2> QED BY <1>4, <2>1 DEF Grows, Has
<1>5. CASE s.t \in Temporary /\ Shrinks(s.t)
  BY <1>1, <1>5 DEF Shrinks, Has
<1>6. CASE s.op = "add column" /\ Widens(s.t, s.c)
  <2>1. ASSUME NEW c, ~ Has(u, c), ~ (s.t = u /\ s.c = c) PROVE ~ Has(u, c)'
    BY <1>6, <2>1 DEF Widens, Has
  <2>2. DOMAIN tables' = DOMAIN tables
    BY <1>6 DEF Widens
  <2> QED BY <1>6, <2>1, <2>2
<1> QED BY <1>1, <1>3, <1>4, <1>5, <1>6 DEF Did

(* Two versions do not add the same column.                                *)
LEMMA AddedOnce ==
    ASSUME NEW n, n \notin Exclusive, NEW s, Adds(n, s), NEW m \in Nat, m # n, NEW r, Adds(m, r), m > RebuildOf(r.t)
    PROVE  ~ (s.t = r.t /\ s.c = r.c)
<1>1. AddedIn(s.t, s.c) = n
  BY DEF Adds
<1>2. RebuildOf(r.t) \in {10, 11} /\ m \notin {10, 11}
  BY Copies DEF Adds
<1>3. \A b \in {10, 11} : m > b => ~ (m \in 1 .. 5)
  OBVIOUS
<1>4. m \notin Exclusive
  BY <1>2, <1>3 DEF Exclusive
<1>5. AddedIn(r.t, r.c) = m
  BY <1>4 DEF Adds
<1> QED BY <1>1, <1>5

(* Only one process is in a version where start-ups did not overlap; and   *)
(* another version that is executed need not be run alone.                 *)
LEMMA TwoVersions ==
    ASSUME NEW v \in Nat, Versions(v), Tidy, NEW p \in Processes, Migrating(p), NEW n, NEW k, IsAt(p, n, k),
           NEW q \in Processes, q # p, Migrating(q), NEW m, NEW j, IsAt(q, m, j), m \notin overlapped
    PROVE  m # n /\ n \notin Exclusive
<1>1. m = v + 1 /\ \A x \in Processes : Migrating(x) /\ proc[x].version = m => x = q
  BY AloneIn
<1>2. m # n
  BY <1>1 DEF IsAt
<1>3. n \in Exclusive => n = v + 1
  BY AloneIn DEF Tidy
<1> QED BY <1>1, <1>2, <1>3

(* Another process q at statement j of version m, when p executes s.       *)
LEMMA StandsOther ==
    ASSUME TablesOK, NEW v \in Nat, Versions(v), Tidy, NEW p \in Processes, Migrating(p),
           NEW n \in Nat, n >= 1, n <= v + 1, n \in Exclusive => n = v + 1, NEW k, IsAt(p, n, k),
           NEW s, StepOf(n, k, s), Did(n, k, s),
           recorded = 1 .. v, recorded' = recorded, overlapped' = overlapped,
           refused \subseteq refused', faults > 0 => faults' > 0,
           NEW q \in Processes, q # p, Migrating(q), proc'[q] = proc[q],
           NEW m \in 1 .. Latest, NEW j \in 1 .. Len(Migration[m]), IsAt(q, m, j),
           FoundStands(q), Missed(q), \A u \in Rebuilt : Between(u, q)
    PROVE  FoundStands(q)' /\ Missed(q)' /\ \A u \in Rebuilt : Between(u, q)'
<1> DEFINE r == Migration[m][j]
<1>1. /\ m \in Nat /\ m >= 1 /\ j \in Nat /\ (j < Len(Migration[m]) => StepOf(m, j, r))
      /\ (~ (j < Len(Migration[m])) => r = Record(m)) /\ (r.op = "add column" => Adds(m, r))
  BY EveryStatement DEF Guarded
<1>2. m <= v + 1
  BY DEF Versions, IsAt
<1>3. r.op = "add column" => StepOf(m, j, r)
  <2>1. Record(m).op # "add column"
    BY DEF Record
  <2> QED BY <1>1, <2>1
<1>4. m \notin overlapped => m # n /\ n \notin Exclusive
  BY TwoVersions
<1>5. proc[q].version = m /\ proc[q].stmt = j
  BY DEF IsAt
<1> HIDE DEF r
<1>6. FoundStands(q)'
  <2> SUFFICES ASSUME proc[q].found, r.op = "add column" PROVE Stands(m, r)'
    BY <1>5 DEF FoundStands, Migrating, r
  <2>1. Stands(m, r)
    BY <1>5 DEF FoundStands, r
  <2> QED BY <1>1, <1>2, <1>3, <2>1, StandsOn
<1>7. Missed(q)'
  <2> SUFFICES ASSUME m \notin overlapped, ~ proc[q].found, j > 1, r.op = "add column", m > RebuildOf(r.t)
               PROVE  ~ Has(r.t, r.c)' \/ faults' > 0
    BY <1>5 DEF Missed, Migrating, r
  <2>1. ~ Has(r.t, r.c) \/ faults > 0
    BY <1>5 DEF Missed, r
  <2>2. s.op = "add column" => Adds(n, s)
    BY OtherKinds
  <2>3. ~ (s.op = "add column" /\ s.t = r.t /\ s.c = r.c)
    BY <1>1, <1>4, <2>2, AddedOnce
  <2>4. r.t \in Rebuilt
    BY <1>1 DEF Adds
  <2> QED BY <1>4, <2>1, <2>3, <2>4, Elsewhere
<1>8. ASSUME NEW u \in Rebuilt PROVE Between(u, q)'
  <2> SUFFICES ASSUME m = RebuildOf(u)
               PROVE  /\ j > 1 /\ j <= DropAt(u) + 1 => Copy(u) \in DOMAIN tables'
                      /\ j = DropAt(u) + 1 => u \notin DOMAIN tables'
    BY <1>5 DEF Between, Migrating
  <2>1. m \notin overlapped
    BY ExclusiveIs DEF Tidy
  <2>2. /\ j > 1 /\ j <= DropAt(u) + 1 => Copy(u) \in DOMAIN tables
        /\ j = DropAt(u) + 1 => u \notin DOMAIN tables
    BY <1>5 DEF Between
  <2> QED BY <1>4, <2>1, <2>2, Elsewhere
<1> QED BY <1>6, <1>7, <1>8

(* The process itself goes on from s to r.                                 *)
LEMMA StandsOwn ==
    ASSUME NEW p \in Processes, Migrating(p), NEW n \in 1 .. Latest, NEW k \in 1 .. Len(Migration[n]),
           IsAt(p, n, k), k < Len(Migration[n]), NEW s, s = Migration[n][k], Did(n, k, s),
           Advances(p, n, k), proc'[p].found => Saw(s), ~ proc'[p].found => ~ Saw(s) \/ faults' > 0
    PROVE  FoundStands(p)' /\ Missed(p)'
<1>1. k + 1 \in 1 .. Len(Migration[n]) /\ (k + 1) - 1 = k
  BY EveryStatement, NextNumbers
<1> DEFINE r == Migration[n][k + 1]
<1>2. r.op = "add column" => Guarded(n, s, r)
  BY <1>1, EveryStatement
<1>3. proc'[p].version = n /\ proc'[p].stmt = k + 1
  BY DEF Advances
<1> HIDE DEF r
<1>4. s.op = "column exists" => tables' = tables
  BY DEF Did
<1>5. r.op = "add column" => (Saw(s) <=> Has(r.t, r.c)')
  BY <1>2, <1>4 DEF Saw, Guarded, Has
<1>6. FoundStands(p)'
  <2> SUFFICES ASSUME proc'[p].found, r.op = "add column" PROVE Stands(n, r)'
    BY <1>3 DEF FoundStands, Migrating, r
  <2>1. Has(r.t, r.c)'
    BY <1>5
  <2> QED BY <2>1 DEF Stands, Has
<1>7. Missed(p)'
  <2> SUFFICES ASSUME ~ proc'[p].found, r.op = "add column" PROVE ~ Has(r.t, r.c)' \/ faults' > 0
    BY <1>3 DEF Missed, Migrating, r
  <2> QED BY <1>5
<1> QED BY <1>6, <1>7

(* A statement before the record that does not fail, or is skipped for     *)
(* having been refused.                                                    *)
LEMMA StandsStep ==
    ASSUME MigTyped, MigLaid, MigStands, NEW v \in Nat, Versions(v), Tidy, NEW p \in Processes, Migrating(p),
           NEW n \in 1 .. Latest, NEW k \in 1 .. Len(Migration[n]), IsAt(p, n, k), k < Len(Migration[n]),
           NEW s, s = Migration[n][k], NEW found, ~ Fails(s, found), Execute(s, found),
           s.op = "add column" /\ found => Stands(n, s) \/ <<s.t, s.c>> \in refused',
           Advances(p, n, k), proc'[p].found => Saw(s), ~ proc'[p].found => ~ Saw(s) \/ faults' > 0,
           recorded' = recorded, overlapped' = overlapped, refused \subseteq refused', faults > 0 => faults' > 0
    PROVE  MigStands'
<1>1. StepOf(n, k, s) /\ n \in Nat /\ n >= 1 /\ k \in Nat /\ ~ (1 > k)
  BY EveryStatement
<1>2. recorded = 1 .. v /\ n <= v + 1 /\ (n \in Exclusive => n = v + 1)
  BY AloneIn DEF IsAt, Versions, Tidy
<1>3. TablesOK /\ Founded /\ AllStand
  BY DEF MigLaid, MigStands
<1>4. Did(n, k, s)
  BY <1>1, <1>3, StepDid
<1>5. Stands(n, s)'
  BY <1>4, StandsNow
<1>6. ASSUME NEW m \in 1 .. Latest, NEW j \in 1 .. Len(Migration[m]), Ran(m, j)'
      PROVE  (m = n /\ j = k) \/ Ran(m, j)
  BY <1>6, RanStep
<1>7. ASSUME NEW m \in 1 .. Latest, NEW j \in 1 .. Len(Migration[m]), Ran(m, j)'
      PROVE  Stands(m, Migration[m][j])'
  <2>1. CASE m = n /\ j = k
    BY <1>5, <2>1
  <2>2. CASE Ran(m, j)
    <3>1. Stands(m, Migration[m][j])
      BY <1>3, <2>2 DEF AllStand
    <3>2. m \in Nat /\ m >= 1 /\ (j < Len(Migration[m]) => StepOf(m, j, Migration[m][j]))
          /\ (~ (j < Len(Migration[m])) => Migration[m][j] = Record(m))
      BY EveryStatement
    <3>3. m <= v + 1
      <4>1. m \in 1 .. v \/ m <= v + 1
        BY <1>2, <2>2 DEF Ran, Versions
      <4> QED BY <3>2, <4>1, NextNumbers
    <3>4. CASE j < Len(Migration[m])
      BY <1>1, <1>2, <1>3, <1>4, <3>1, <3>2, <3>3, <3>4, StandsOn
    <3>5. CASE ~ (j < Len(Migration[m]))
      BY <3>2, <3>5, RecordStands
    <3> QED BY <3>4, <3>5
  <2> QED BY <1>6, <1>7, <2>1, <2>2
<1>8. AllStand'
  BY <1>7 DEF AllStand
<1>9. Founded'
  BY <1>2, <1>3, <1>4, FoundedOn
<1>10. FoundStands(p)' /\ Missed(p)'
  BY <1>4, StandsOwn
<1>11. ASSUME NEW u \in Rebuilt PROVE Between(u, p)'
  <2> SUFFICES ASSUME n = RebuildOf(u)
               PROVE  /\ k + 1 <= DropAt(u) + 1 => Copy(u) \in DOMAIN tables'
                      /\ k + 1 = DropAt(u) + 1 => u \notin DOMAIN tables'
    BY DEF Between, Migrating, Advances
  <2>1. Between(u, p)
    BY DEF MigStands
  <2> QED BY <1>1, <1>4, <2>1, BetweenStep
<1>12. ASSUME NEW q \in Processes, q # p
       PROVE  FoundStands(q)' /\ Missed(q)' /\ \A u \in Rebuilt : Between(u, q)'
  <2>1. proc'[q] = proc[q]
    BY <1>12 DEF Advances
  <2>2. CASE ~ Migrating(q)
    BY <2>1, <2>2 DEF FoundStands, Missed, Between, Migrating
  <2>3. CASE Migrating(q)
    <3>1. PICK m \in 1 .. Latest : m = proc[q].version
      BY <2>3, Current
    <3>2. PICK j \in 1 .. Len(Migration[m]) : j = proc[q].stmt
      BY <2>3, <3>1, Current
    <3>3. IsAt(q, m, j)
      BY <3>1, <3>2 DEF IsAt
    <3>4. FoundStands(q) /\ Missed(q) /\ \A u \in Rebuilt : Between(u, q)
      BY DEF MigStands
    <3> QED BY <1>1, <1>2, <1>3, <1>4, <1>12, <2>1, <2>3, <3>3, <3>4, StandsOther
  <2> QED BY <2>2, <2>3
<1> QED BY <1>8, <1>9, <1>10, <1>11, <1>12 DEF MigStands

(* The record.                                                             *)
LEMMA StandsRecord ==
    ASSUME MigTyped, MigStands, NEW p \in Processes, Migrating(p),
           NEW n \in 1 .. Latest, NEW k \in 1 .. Len(Migration[n]), IsAt(p, n, k), k = Len(Migration[n]),
           recorded' = recorded \cup {n}, UNCHANGED <<tables, overlapped, refused, faults>>,
           \A q \in Processes : q # p => proc'[q] = proc[q],
           proc'[p].status = "migrating" => proc'[p].stmt = 1 /\ ~ proc'[p].found
    PROVE  MigStands'
<1>2. ASSUME NEW m \in 1 .. Latest, NEW j \in 1 .. Len(Migration[m]), Ran(m, j)'
      PROVE  Stands(m, Migration[m][j])'
  <2>1. m \in Nat /\ j \in Nat /\ ~ (1 > j)
    BY EveryStatement
  <2>2. m = n \/ Ran(m, j)
    BY <1>2, <2>1 DEF Ran, Migrating
  <2>3. CASE ~ (j < Len(Migration[m]))
    <3>1. Migration[m][j] = Record(m)
      BY <2>3, EveryStatement
    <3> QED BY <3>1, RecordStands
  <2>4. CASE j < Len(Migration[m])
    <3>0. Len(Migration[m]) \in Nat
      BY EveryStatement
    <3>3. Len(Migration[m]) > j
      BY <2>1, <2>4, <3>0
    <3>1. Ran(m, j)
      BY <2>2, <3>3 DEF Ran, IsAt
    <3>2. Stands(m, Migration[m][j])
      BY <3>1 DEF MigStands, AllStand
    <3> QED BY <3>2, StandsSame
  <2> QED BY <2>3, <2>4
<1>3. AllStand'
  BY <1>2 DEF AllStand
<1>4. Founded'
  BY StandsSame DEF MigStands
<1>5. ASSUME NEW q \in Processes PROVE FoundStands(q)' /\ Missed(q)' /\ \A u \in Rebuilt : Between(u, q)'
  <2>1. CASE q = p
    BY <2>1, AtFirst
  <2>2. CASE q # p
    BY <2>2, StandsWaiting DEF MigStands
  <2> QED BY <2>1, <2>2
<1> QED BY <1>3, <1>4, <1>5 DEF MigStands

(* The next statement of a process.                                        *)
LEMMA StandsStatement ==
    ASSUME MigTyped, MigLaid, MigStands, NEW v \in Nat, Versions(v), Tidy, NEW p \in Processes, Statement(p)
    PROVE  MigStands'
<1>1. /\ UNCHANGED <<overlapped, refused, faults>>
      /\ \/ /\ \A q \in Processes : proc'[q] = proc[q] \/ proc'[q] = Down
            /\ UNCHANGED <<tables, recorded>>
         \/ Goes(p)
  BY StatementDoes
<1>2. CASE Goes(p)
  <2>1. PICK n \in 1 .. Latest : \E k \in 1 .. Len(Migration[n]) : Migrating(p) /\ IsAt(p, n, k) /\ GoesOn(p, n, k)
    BY <1>2 DEF Goes
  <2>2. PICK k \in 1 .. Len(Migration[n]) : Migrating(p) /\ IsAt(p, n, k) /\ GoesOn(p, n, k)
    BY <2>1
  <2> DEFINE s == Migration[n][k]
  <2>3. s.op = "add column" /\ proc[p].found => Stands(n, s)
    BY <2>2 DEF MigStands, FoundStands, IsAt
  <2>4. s = Migration[n][k]
    OBVIOUS
  <2> HIDE DEF s
  <2>5. CASE k < Len(Migration[n])
    <3>1. /\ Advances(p, n, k) /\ recorded' = recorded
          /\ ~ Fails(s, proc[p].found) /\ Execute(s, proc[p].found)
          /\ proc'[p].found <=> Saw(s)
      <4>1. k # Len(Migration[n])
        BY <2>5, EveryStatement, NextNumbers
      <4> QED BY <2>2, <2>4, <4>1, Zenon DEF GoesOn
    <3> QED BY <1>1, <2>2, <2>3, <2>4, <2>5, <3>1, StandsStep
  <2>6. CASE ~ (k < Len(Migration[n]))
    <3>1. /\ k = Len(Migration[n])
          /\ recorded' = recorded \cup {n} /\ tables' = tables
          /\ \A q \in Processes : q # p => proc'[q] = proc[q]
          /\ proc'[p].status = "migrating" => proc'[p].stmt = 1 /\ ~ proc'[p].found
      BY <2>2, <2>6 DEF GoesOn
    <3> QED BY <1>1, <2>2, <3>1, StandsRecord
  <2> QED BY <2>5, <2>6
<1> QED BY <1>1, <1>2, StandsStopped

(* A query SQLite refuses.                                                 *)
LEMMA StandsRefuse ==
    ASSUME MigTyped, MigLaid, MigStands, NEW v \in Nat, Versions(v), Tidy, NEW p \in Processes, Refuse(p)
    PROVE  MigStands'
<1>1. PICK n \in 1 .. Latest : \E k \in 1 .. Len(Migration[n]) : Refuses(p, n, k)
  BY Refusal
<1>2. PICK k \in 1 .. Len(Migration[n]) : Refuses(p, n, k)
  BY <1>1
<1> DEFINE s == Migration[n][k]
<1>3. DOMAIN proc = Processes
  BY DEF MigTyped
<1>4. /\ Migrating(p) /\ IsAt(p, n, k) /\ k < Len(Migration[n])
      /\ s.op = "add column" => <<s.t, s.c>> \in refused'
  BY <1>2 DEF Refuses
<1>5. recorded' = recorded /\ proc' = [proc EXCEPT ![p] = At(n, k + 1, FALSE)]
  BY <1>2 DEF Refuses, schema
<1>6. proc'[p].found = FALSE
  BY <1>3, <1>5 DEF At
<1>7. /\ ~ Fails(s, TRUE) /\ Execute(s, TRUE)
      /\ Advances(p, n, k) /\ overlapped' = overlapped /\ refused \subseteq refused'
  BY <1>2, <1>3, RefusedSkips
<1>8. s = Migration[n][k] /\ ~ proc'[p].found
  BY <1>6
<1>9. faults' > 0
  <2>1. faults \in 0 .. MaxFaults
    BY DEF MigTyped, MigTypeOK
  <2>2. faults \in Nat
    BY <2>1, MigAssumption
  <2>3. faults' = faults + 1
    BY DEF Refuse
  <2> QED BY <2>2, <2>3, NextNumbers
<1> HIDE DEF s
<1> QED BY <1>4, <1>5, <1>7, <1>8, <1>9, StandsStep

(* Every step keeps what stands, as long as what must be run alone is.     *)
LEMMA StandsNext ==
    MigTyped /\ MigKept /\ (Tidy => MigLaid) /\ (Tidy => MigStands) /\ [MigNext]_vars => (Tidy => MigStands)'
<1> SUFFICES ASSUME MigTyped, MigKept, Tidy => MigLaid, Tidy => MigStands, [MigNext]_vars, Tidy'
             PROVE  MigStands'
  OBVIOUS
<1>1. PICK v \in 0 .. Latest : KeptAt(v)
  BY DEF MigKept
<1>2. v \in Nat /\ Versions(v)
  BY <1>1, Shapes DEF KeptAt
<1>3. ASSUME NEW p \in Processes, Begin(p) PROVE MigStands'
  <2>1. overlapped \subseteq overlapped'
    BY <1>3, Begins
  <2>2. MigStands
    BY <2>1 DEF Tidy
  <2> QED BY <1>3, <2>2, StandsBegin
<1>U. UNCHANGED overlapped => Tidy /\ MigLaid /\ MigStands
  BY DEF Tidy
<1>4. ASSUME NEW p \in Processes, Statement(p) PROVE MigStands'
  <2>1. Tidy /\ MigLaid /\ MigStands
    BY <1>4, <1>U DEF Statement, history
  <2> QED BY <1>2, <1>4, <2>1, StandsStatement
<1>5. ASSUME NEW p \in Processes, Crash(p) PROVE MigStands'
  <2>1. /\ \A q \in Processes : proc'[q] = proc[q] \/ proc'[q] = Down
        /\ UNCHANGED <<tables, recorded, overlapped, refused>>
    BY <1>5 DEF Crash, MigTyped, schema, history
  <2>2. faults \in Nat /\ faults' = faults + 1
    BY <1>5, MigAssumption DEF Crash, MigTyped, MigTypeOK
  <2>3. faults > 0 => faults' > 0
    BY <2>2
  <2> QED BY <1>U, <2>1, <2>3, StandsStopped
<1>6. ASSUME NEW t \in Rebuilt, NEW id \in Ids, CreateRow(t, id) PROVE MigStands'
  <2>1. UNCHANGED <<tables, recorded, proc, overlapped, refused, faults>>
    BY <1>6 DEF CreateRow, history
  <2> QED BY <1>U, <2>1, StandsStopped
<1>7. ASSUME Upgrade PROVE MigStands'
  <2>1. /\ \A q \in Processes : proc'[q] = Down
        /\ UNCHANGED <<tables, recorded, overlapped, refused, faults>>
    BY <1>7 DEF Upgrade, schema, history
  <2> QED BY <1>U, <2>1, StandsStopped
<1>8. ASSUME UNCHANGED vars PROVE MigStands'
  <2>1. UNCHANGED <<tables, recorded, proc, overlapped, refused, faults>>
    BY <1>8 DEF vars, schema, history
  <2> QED BY <1>U, <2>1, StandsStopped
<1>9. ASSUME NEW p \in Processes, Refuse(p) PROVE MigStands'
  <2>1. Tidy /\ MigLaid /\ MigStands
    BY <1>9, <1>U DEF Refuse
  <2> QED BY <1>2, <1>9, <2>1, StandsRefuse
<1> QED BY <1>3, <1>4, <1>5, <1>6, <1>7, <1>8, <1>9 DEF MigNext
-----------------------------------------------------------------------------
(* A statement before the k-th has run, and what it left behind is there.  *)
LEMMA RanEarlier ==
    ASSUME MigTyped, MigLaid, MigStands, NEW v \in Nat, Versions(v), NEW p \in Processes, Migrating(p),
           NEW n \in 1 .. Latest, NEW k \in 1 .. Len(Migration[n]), IsAt(p, n, k), n \notin overlapped
    PROVE  /\ n = v + 1 /\ recorded = 1 .. v
           /\ \A m \in 1 .. Latest : \A j \in 1 .. Len(Migration[m]) :
                 m \in 1 .. v \/ (m = n /\ k > j) => Lasts(m, Migration[m][j]) /\ Stands(m, Migration[m][j])
<1>1. n = v + 1 /\ recorded = 1 .. v
  BY AloneIn DEF Versions
<1>2. ASSUME NEW m \in 1 .. Latest, NEW j \in 1 .. Len(Migration[m]), m \in 1 .. v \/ (m = n /\ k > j)
      PROVE  Ran(m, j)
  BY <1>1, <1>2 DEF Ran, IsAt
<1> QED BY <1>1, <1>2 DEF MigLaid, MigStands, AllLast, AllStand

(* Beyond the first b statements is beyond each of them.                   *)
LEMMA Beyond ==
    ASSUME NEW k \in Nat, NEW b \in Nat, k > b, NEW j \in 1 .. b
    PROVE  k > j
OBVIOUS

(* A table that V1 - V3 create is there while its version is not recorded, *)
(* or, rebuilt later, until the rebuild.                                   *)
LEMMA TableIsThere ==
    ASSUME MigTyped, MigLaid, MigStands, NEW v \in Nat, Versions(v), NEW p \in Processes, Migrating(p),
           NEW n \in 1 .. Latest, NEW k \in 1 .. Len(Migration[n]), IsAt(p, n, k), n \notin overlapped,
           NEW t, \/ t \in Temporary /\ CreatedIn(t) = n /\ k > Ready(n)
                  \/ t \in Rebuilt /\ n \in 1 .. 9 /\ (n = 1 => k > Ready(1))
    PROVE  t \in DOMAIN tables /\ Created(t) \subseteq tables[t]
<1> DEFINE m == CreatedIn(t)
<1>1. /\ n = v + 1 /\ recorded = 1 .. v
      /\ \A i \in 1 .. Latest : \A j \in 1 .. Len(Migration[i]) :
                 i \in 1 .. v \/ (i = n /\ k > j) => Stands(i, Migration[i][j])
  BY RanEarlier
<1>2. PICK j \in 1 .. Len(Migration[m]) :
          /\ j \in 1 .. Ready(m) /\ Migration[m][j].op = "create table" /\ Migration[m][j].t = t
  BY CreatedBefore, ZenonT(60)
<1>3. m \in 1 .. Latest /\ (t \in Rebuilt => m = 1)
  <2>1. m \in {1, 2, 3} /\ Latest = 18
    BY CreatedBefore, Shapes
  <2>2. t \in Rebuilt => m = 1
    BY CreatedInIs
  <2>3. {1, 2, 3} \subseteq 1 .. 18
    OBVIOUS
  <2> HIDE DEF m
  <2> QED BY <2>1, <2>2, <2>3
<1>4. k \in Nat /\ Ready(n) \in Nat /\ Ready(1) \in Nat
  BY EveryStatement DEF Ready
<1>5. m \in 1 .. v \/ (m = n /\ k > j)
  <2>1. CASE t \in Temporary /\ m = n /\ k > Ready(n)
    BY <1>2, <1>4, <2>1, Beyond
  <2>2. CASE t \in Rebuilt /\ n = 1 /\ k > Ready(1)
    BY <1>2, <1>3, <1>4, <2>2, Beyond
  <2>3. CASE t \in Rebuilt /\ n # 1
    <3>1. v # 0
      BY <1>1, <2>3
    <3>2. 1 \in 1 .. v
      BY <3>1
    <3> QED BY <1>3, <2>3, <3>2
  <2> QED BY <2>1, <2>2, <2>3
<1>6. Stands(m, Migration[m][j])
  BY <1>1, <1>3, <1>5
<1>7. CASE t \in Temporary /\ m = n
  <2>1. n \notin recorded
    BY <1>1, BeforeRebuild
  <2>2. t \in DOMAIN tables
    BY <1>2, <1>6, <1>7, <2>1 DEF Stands
  <2>3. t \notin Rebuilt
    BY <1>7, CreatedInIs
  <2> QED BY <2>2, <2>3 DEF MigStands, Founded
<1>8. CASE t \in Rebuilt /\ n \in 1 .. 9
  <2>1. RebuildOf(t) - 1 \notin recorded
    <3> DEFINE b == RebuildOf(t)
    <3>1. b \in {10, 11}
      BY <1>8, Copies
    <3> HIDE DEF b
    <3>2. v < 9
      BY <1>1, <1>8
    <3>3. b - 1 \notin 1 .. v
      BY <3>1, <3>2, BeforeRebuild
    <3> QED BY <1>1, <3>3 DEF b
  <2>2. t \in DOMAIN tables
    BY <1>2, <1>6, <1>8, <2>1 DEF Stands
  <2> QED BY <2>1, <2>2 DEF MigStands, Founded, Passed
<1> QED BY <1>7, <1>8

(* The places of the statements the later indexes depend on.               *)
LEMMA Places ==
    /\ 1 \in 1 .. 9 /\ 2 \in 1 .. 9 /\ 9 \in 1 .. 9 /\ 9 # 1 /\ 2 # 1
    /\ \A u \in Rebuilt : DropAt(u) + 1 \in 1 .. Ready(RebuildOf(u))
    /\ Migration[9] = V9 /\ Migration[13] = V13 /\ Migration[14] = V14
    /\ \A j \in {2, 4, 6} : j \in 1 .. Len(V9) /\ j \in 1 .. Ready(9)
    /\ \A j \in {2, 4} : j \in 1 .. Len(V14) /\ j \in 1 .. Ready(14)
    /\ 2 \in 1 .. Len(V13) /\ 2 \in 1 .. Ready(13)
    /\ 9 > 1 /\ 9 < RebuildOf("orders") /\ 13 > RebuildOf("orders") /\ 14 > RebuildOf("listings")
    /\ "orders" \in Rebuilt /\ OrderColumns = Created(Copy("orders"))
<1>1. 1 \in 1 .. 9 /\ 2 \in 1 .. 9 /\ 9 \in 1 .. 9 /\ 9 # 1 /\ 2 # 1
  OBVIOUS
<1>2. \A u \in Rebuilt : DropAt(u) + 1 \in 1 .. Ready(RebuildOf(u))
  <2>1. Ready(RebuildOf("orders")) = 4 /\ Ready(RebuildOf("listings")) = 8
    BY ReadyIs DEF RebuildOf
  <2>2. DropAt("orders") = 3 /\ DropAt("listings") = 7
    BY DEF DropAt
  <2> QED BY <2>1, <2>2 DEF Rebuilt
<1>3. Migration[9] = V9 /\ Migration[13] = V13 /\ Migration[14] = V14
  BY DEF Migration
<1>4. \A j \in {2, 4, 6} : j \in 1 .. 13 /\ j \in 1 .. 6 /\ j \in 1 .. 10
  OBVIOUS
<1>5. 2 \in 1 .. 4 /\ 2 \in 1 .. 2
  OBVIOUS
<1>6. 9 > 1 /\ 9 < RebuildOf("orders") /\ 13 > RebuildOf("orders") /\ 14 > RebuildOf("listings")
  BY DEF RebuildOf
<1>7. "orders" \in Rebuilt /\ OrderColumns = Created(Copy("orders"))
  BY DEF Rebuilt, Copy, Created
<1> QED BY <1>1, <1>2, <1>3, <1>4, <1>5, <1>6, <1>7, FirstAlters, ReadyIs

(* Where the RENAME of a rebuild lasts, the table has its new columns.     *)
LEMMA RenameLasts ==
    ASSUME NEW u \in Rebuilt, NEW n, n = RebuildOf(u),
           \A j \in 1 .. Len(Migration[n]) : j \in 1 .. Ready(n) => Lasts(n, Migration[n][j])
    PROVE  u \in DOMAIN tables /\ Created(Copy(u)) \subseteq tables[u]
<1>1. PICK j : j = DropAt(u) + 1
  OBVIOUS
<1>2. /\ j \in 1 .. Len(Migration[n]) /\ Migration[n][j].op = "rename"
      /\ Migration[n][j].t = Copy(u) /\ Migration[n][j].to = u
  BY <1>1, RenameAt
<1>3. j \in 1 .. Ready(n)
  BY <1>1, Places, Zenon
<1>4. Lasts(n, Migration[n][j])
  BY <1>2, <1>3
<1> QED BY <1>2, <1>4 DEF Lasts

(* An index finds its column, unless that was refused.                     *)
LEMMA IndexHas ==
    ASSUME MigTyped, MigLaid, MigStands, NEW v \in Nat, Versions(v), NEW p \in Processes, Migrating(p),
           NEW n \in 1 .. Latest, NEW k \in 1 .. Len(Migration[n]), IsAt(p, n, k), n \notin overlapped,
           NEW s, s = Migration[n][k], s.op = "create index"
    PROVE  Has(s.t, s.c) \/ <<s.t, s.c>> \in refused
<1>1. Indexes(n, s) /\ k > Ready(n)
  BY IndexKnown
<1>2. /\ n = v + 1 /\ recorded = 1 .. v
      /\ \A m \in 1 .. Latest : \A j \in 1 .. Len(Migration[m]) :
            m \in 1 .. v \/ (m = n /\ k > j) => Lasts(m, Migration[m][j]) /\ Stands(m, Migration[m][j])
  BY RanEarlier
<1>3. k \in Nat /\ Ready(n) \in Nat
  BY EveryStatement DEF Ready
<1>4. ASSUME NEW j \in 1 .. Len(Migration[n]), j \in 1 .. Ready(n)
      PROVE  Lasts(n, Migration[n][j]) /\ Stands(n, Migration[n][j])
  BY <1>1, <1>2, <1>3, <1>4, Beyond
<1>5. ASSUME NEW j \in 1 .. Len(Migration[n]), j \in 1 .. Ready(n), NEW b,
             Migration[n][j] = Alter(s.t, s.c, b), n > RebuildOf(s.t)
      PROVE  Has(s.t, s.c) \/ <<s.t, s.c>> \in refused
  <2> DEFINE a == Alter(s.t, s.c, b)
  <2>1. a.op = "add column" /\ a.t = s.t /\ a.c = s.c
    BY DEF Alter
  <2>2. Lasts(n, a)
    BY <1>4, <1>5
  <2> HIDE DEF a
  <2> QED BY <1>5, <2>1, <2>2 DEF Lasts
<1>6. CASE s.t \in Temporary /\ CreatedIn(s.t) = n /\ s.c \in Created(s.t)
  BY <1>1, <1>6, TableIsThere DEF Has
<1>7. CASE s.t \in Rebuilt /\ n \in {1, 2} /\ s.c \in Created(s.t)
  <2>1. n \in 1 .. 9 /\ (n = 1 => k > Ready(1))
    BY <1>1, <1>7, Places
  <2> QED BY <1>7, <2>1, TableIsThere DEF Has
<1>8. CASE s.t \in Rebuilt /\ n = RebuildOf(s.t) /\ s.c \in Created(Copy(s.t))
  <2>1. PICK u \in Rebuilt : u = s.t
    BY <1>8
  <2>2. n = RebuildOf(u)
    BY <1>8, <2>1
  <2>3. \A j \in 1 .. Len(Migration[n]) : j \in 1 .. Ready(n) => Lasts(n, Migration[n][j])
    BY <1>4
  <2>4. u \in DOMAIN tables /\ Created(Copy(u)) \subseteq tables[u]
    BY <2>2, <2>3, RenameLasts
  <2> QED BY <1>8, <2>1, <2>4 DEF Has
<1>9. CASE n = 9 /\ s.t = "orders" /\ s.c \in {"day_bucket", "expiry_bucket"}
  <2>1. Migration[9] = V9 /\ "orders" \in Rebuilt /\ 9 \in 1 .. 9 /\ 9 # 1
    BY Places
  <2>2. "orders" \in DOMAIN tables
    BY <1>9, <2>1, TableIsThere
  <2>3. \A j \in {4, 6} : j \in 1 .. Len(Migration[n]) /\ j \in 1 .. Ready(n)
    BY <1>9, <2>1, Places
  <2>4. PICK j \in {4, 6} : Migration[n][j] = Alter(s.t, s.c, FALSE)
    BY <1>9, <2>1, FirstAlters
  <2> DEFINE a == Alter(s.t, s.c, FALSE)
  <2>5. a.op = "add column" /\ a.t = "orders" /\ a.c = s.c
    BY <1>9 DEF Alter
  <2>6. Stands(n, a)
    BY <1>4, <2>3, <2>4
  <2>7. 9 > 1 /\ 9 < RebuildOf("orders") /\ s.c \in Created(Copy("orders"))
    BY <1>9, Places DEF OrderColumns
  <2> HIDE DEF a
  <2>8. s.c \in tables["orders"] \/ Passed("orders") \/ <<"orders", s.c>> \in refused
    BY <1>9, <2>2, <2>5, <2>6, <2>7 DEF Stands
  <2> QED BY <1>9, <2>2, <2>7, <2>8 DEF Passed, Has
<1>10. CASE n = 13 /\ s.t = "orders" /\ s.c = "has_dispute"
  <2>1. Migration[13] = V13 /\ 13 > RebuildOf("orders")
    BY Places
  <2>2. 2 \in 1 .. Len(Migration[n]) /\ 2 \in 1 .. Ready(n) /\ Migration[n][2] = Alter(s.t, s.c, TRUE)
    BY <1>10, <2>1, FirstAlters, Places
  <2> QED BY <1>5, <1>10, <2>1, <2>2
<1>11. CASE n = 14 /\ s.t = "listings" /\ s.c \in {"status", "currency"}
  <2>1. Migration[14] = V14 /\ 14 > RebuildOf("listings")
    BY Places
  <2>2. \A j \in {2, 4} : j \in 1 .. Len(Migration[n]) /\ j \in 1 .. Ready(n)
    BY <1>11, <2>1, Places
  <2>3. PICK j \in {2, 4} : Migration[n][j] = Alter(s.t, s.c, TRUE)
    BY <1>11, <2>1, FirstAlters
  <2> QED BY <1>5, <1>11, <2>1, <2>2, <2>3
<1> QED BY <1>1, <1>6, <1>7, <1>8, <1>9, <1>10, <1>11 DEF Indexes

(* V9 gave orders the columns the rebuild selects that were not refused,   *)
(* or an earlier rebuild did.                                              *)
LEMMA OrdersSelected ==
    ASSUME MigTyped, MigLaid, MigStands, NEW v \in Nat, Versions(v), NEW p \in Processes, Migrating(p),
           NEW k \in 1 .. Len(Migration[10]), IsAt(p, 10, k), 10 \notin overlapped, "orders" \in DOMAIN tables
    PROVE  \A c \in OrderColumns : c \in tables["orders"] \/ <<"orders", c>> \in refused
<1>1. 10 \in 1 .. Latest /\ 9 \in 1 .. Latest
  BY Shapes
<1>2. /\ 10 = v + 1
      /\ \A m \in 1 .. Latest : \A j \in 1 .. Len(Migration[m]) :
            m \in 1 .. v => Stands(m, Migration[m][j])
  BY <1>1, RanEarlier
<1>3. 9 \in 1 .. v
  BY <1>2
<1>4. "id" \in tables["orders"] \/ Passed("orders")
  <2>1. "id" \in Created("orders")
    BY DEF Created
  <2> QED BY <2>1 DEF MigStands, Founded
<1>5. ASSUME NEW j \in {2, 4, 6}, NEW c, Migration[9][j] = Alter("orders", c, FALSE)
      PROVE  c \in tables["orders"] \/ Passed("orders") \/ <<"orders", c>> \in refused
  <2> DEFINE a == Alter("orders", c, FALSE)
  <2>1. a.op = "add column" /\ a.t = "orders" /\ a.c = c
    BY DEF Alter
  <2>2. j \in 1 .. Len(Migration[9])
    BY Places
  <2>3. Stands(9, a)
    BY <1>1, <1>2, <1>3, <1>5, <2>2
  <2> HIDE DEF a
  <2> QED BY <2>1, <2>3, Places DEF Stands
<1>6. "encrypted_order_blob" \in tables["orders"] \/ Passed("orders") \/ <<"orders", "encrypted_order_blob">> \in refused
  BY <1>5, FirstAlters, Places
<1>7. "day_bucket" \in tables["orders"] \/ Passed("orders") \/ <<"orders", "day_bucket">> \in refused
  BY <1>5, FirstAlters, Places
<1>8. "expiry_bucket" \in tables["orders"] \/ Passed("orders") \/ <<"orders", "expiry_bucket">> \in refused
  BY <1>5, FirstAlters, Places
<1>9. Passed("orders") => OrderColumns \subseteq tables["orders"]
  BY Places DEF Passed
<1> QED BY <1>4, <1>6, <1>7, <1>8, <1>9 DEF OrderColumns

(* The second statement of a rebuild is between its CREATE and its RENAME. *)
LEMMA SecondStep ==
    ASSUME NEW k, k = 2, NEW d \in 3 .. 7
    PROVE  k > 1 /\ k <= d + 1
OBVIOUS

(* The INSERT of a rebuild fails only if an earlier start-up was torn out  *)
(* of it, or a column it selects was refused.                              *)
LEMMA InsertTorn ==
    ASSUME MigTyped, MigLaid, MigStands, NEW v \in Nat, Versions(v), NEW p \in Processes, Migrating(p),
           NEW u \in Rebuilt, NEW n \in 1 .. Latest, n = RebuildOf(u),
           NEW k \in 1 .. Len(Migration[n]), k = 2, IsAt(p, n, k), n \notin overlapped,
           NEW s, s.op = "insert select", s.t = Copy(u), s.from = u, s.cols = Selected(u),
           NEW found, Fails(s, found)
    PROVE  Torn \/ \E c \in Selected(u) : <<u, c>> \in refused
<1>1. /\ Copy(u) \notin DOMAIN tables
         \/ (\E c \in Selected(u) : ~ Has(u, c))
         \/ rows[Copy(u)] \cap rows[u] # {}
  BY DEF Fails
<1>2. Copy(u) \in DOMAIN tables
  <2>1. DropAt(u) \in 3 .. 7
    BY Copies
  <2>2. k > 1 /\ k <= DropAt(u) + 1
    BY <2>1, SecondStep
  <2>3. proc[p].version = n /\ proc[p].stmt = k /\ Between(u, p)
    BY DEF MigStands, IsAt
  <2> QED BY <2>2, <2>3 DEF Between
<1>3. CASE u \notin DOMAIN tables \/ rows[Copy(u)] # {}
  BY <1>2, <1>3 DEF Torn
<1>4. CASE u \in DOMAIN tables /\ \E c \in Selected(u) : ~ Has(u, c)
  <2>1. CASE u = "orders"
    <3>1. n = 10
      BY <2>1 DEF RebuildOf
    <3>2. \A c \in OrderColumns : c \in tables["orders"] \/ <<"orders", c>> \in refused
      BY <1>4, <2>1, <3>1, OrdersSelected
    <3> QED BY <1>4, <2>1, <3>2 DEF Selected, Has
  <2>2. CASE u = "listings"
    <3>1. n = 11 /\ n = v + 1 /\ recorded = 1 .. v
      <4>1. RebuildOf("listings") = 11 /\ n = RebuildOf("listings")
        BY <2>2 DEF RebuildOf
      <4> QED BY <4>1, AloneIn DEF Versions
    <3>2. 11 \notin recorded
      BY <3>1, BeforeRebuild
    <3>3. Selected("listings") \subseteq Created("listings") /\ "search_token" \in Created(Copy("listings"))
      BY DEF Selected, Created, Copy
    <3>4. ~ (Created("listings") \subseteq tables["listings"])
      BY <1>4, <2>2, <3>3 DEF Has
    <3>5. Passed("listings")
      BY <1>4, <2>2, <3>4 DEF MigStands, Founded
    <3>6. Has("listings", "search_token")
      BY <1>4, <2>2, <3>3, <3>5 DEF Passed, Has
    <3> QED BY <3>2, <3>6 DEF Torn
  <2> QED BY <2>1, <2>2 DEF Rebuilt
<1> QED BY <1>1, <1>2, <1>3, <1>4

(* The DROP of a rebuild finds the table.                                  *)
LEMMA DropFinds ==
    ASSUME NEW p, Migrating(p), NEW u \in Rebuilt, Midway(u, p),
           NEW n, n = RebuildOf(u), NEW k, k = DropAt(u), IsAt(p, n, k)
    PROVE  u \in DOMAIN tables
<1>1. DropAt(u) \in 3 .. 7
  BY Copies
<1>2. k > 2 /\ k <= DropAt(u)
  BY <1>1
<1> QED BY <1>2 DEF Midway, IsAt

(* The RENAME of a rebuild finds the copy, and its name is free.           *)
LEMMA RenameFinds ==
    ASSUME NEW p, Migrating(p), NEW u \in Rebuilt, Between(u, p),
           NEW n, n = RebuildOf(u), NEW k, k = DropAt(u) + 1, IsAt(p, n, k)
    PROVE  Copy(u) \in DOMAIN tables /\ u \notin DOMAIN tables
<1>1. DropAt(u) \in 3 .. 7
  BY Copies
<1>2. k > 1 /\ k <= DropAt(u) + 1
  BY <1>1
<1> QED BY <1>2 DEF Between, IsAt

(* The other statements before the record do not fail.                     *)
LEMMA StatementSafe ==
    ASSUME MigTyped, MigLaid, MigStands, NEW v \in Nat, Versions(v), NEW p \in Processes, Migrating(p),
           \A t \in Rebuilt : Midway(t, p),
           NEW n \in 1 .. Latest, NEW k \in 1 .. Len(Migration[n]), IsAt(p, n, k), k < Len(Migration[n]),
           n \notin overlapped, NEW s, s = Migration[n][k], Fails(s, proc[p].found)
    PROVE  (Torn /\ s.op = "insert select") \/ Unadded(s)
<1>1. StepOf(n, k, s)
  <2>1. StepOf(n, k, Migration[n][k])
    BY EveryStatement
  <2> QED BY <2>1
<1>2. CASE s.op \in {"create table", "drop table if exists", "drop index", "column exists"}
  BY <1>2 DEF Fails
<1>3. CASE s.op = "drop table"
  <2>1. s.t \in Rebuilt /\ n = RebuildOf(s.t) /\ k = DropAt(s.t)
    BY <1>1, <1>3, OtherKinds, ZenonT(60)
  <2>2. PICK u \in Rebuilt : u = s.t /\ n = RebuildOf(u) /\ k = DropAt(u) /\ Midway(u, p)
    BY <2>1, Zenon
  <2>3. s.t \in DOMAIN tables
    BY <2>2, DropFinds, Zenon
  <2> QED BY <1>3, <2>3 DEF Fails
<1>4. CASE s.op = "rename"
  <2>1. s.to \in Rebuilt /\ s.t = Copy(s.to) /\ n = RebuildOf(s.to) /\ k = DropAt(s.to) + 1
    BY <1>1, <1>4, OtherKinds, ZenonT(60)
  <2>2. PICK u \in Rebuilt : u = s.to /\ s.t = Copy(u) /\ n = RebuildOf(u) /\ k = DropAt(u) + 1
    BY <2>1, Zenon
  <2>3. Between(u, p)
    BY <2>2, Zenon DEF MigStands
  <2>4. s.t \in DOMAIN tables /\ s.to \notin DOMAIN tables
    BY <2>2, <2>3, RenameFinds, Zenon
  <2> QED BY <1>4, <2>4 DEF Fails
<1>5. CASE s.op = "create index"
  <2>1. Has(s.t, s.c) \/ <<s.t, s.c>> \in refused
    BY <1>5, IndexHas
  <2> QED BY <1>5, <2>1 DEF Fails, Has, Unadded
<1>6. CASE s.op = "add column"
  <2>1. ~ proc[p].found /\ s.strict /\ (s.t \notin DOMAIN tables \/ Has(s.t, s.c))
    BY <1>6 DEF Fails
  <2>2. k > 1 /\ Guarded(n, Migration[n][k - 1], s)
    <3>1. Migration[n][k].op = "add column"
      BY <1>6
    <3>2. k > 1 /\ Guarded(n, Migration[n][k - 1], Migration[n][k])
      BY <3>1, EveryStatement
    <3> QED BY <3>2
  <2>3. s.t \in Rebuilt /\ n > RebuildOf(s.t)
    BY <2>1, <2>2 DEF Guarded, Adds
  <2>6. s.t \in DOMAIN tables
    <3>1. AllLast /\ n \in Nat
      BY EveryStatement DEF MigLaid
    <3> QED BY <1>1, <1>6, <2>3, <3>1, AlterFinds
  <2>7. ~ Has(s.t, s.c) \/ faults > 0
    BY <1>6, <2>1, <2>2, <2>3 DEF MigStands, Missed, IsAt
  <2> QED BY <1>6, <2>1, <2>6, <2>7 DEF Unadded
<1>7. CASE s.op = "insert select"
  <2>1. PICK u \in Rebuilt : n = RebuildOf(u) /\ RebuildStep(u, k, s)
    BY <1>1, <1>7 DEF StepOf, PlainStep, Plain, Adds
  <2>2. k = 2 /\ s.t = Copy(u) /\ s.from = u /\ s.cols = Selected(u)
    BY <1>7, <2>1 DEF RebuildStep
  <2>3. Torn \/ \E c \in Selected(u) : <<u, c>> \in refused
    BY <1>7, <2>1, <2>2, InsertTorn
  <2> QED BY <1>7, <2>2, <2>3 DEF Unadded
<1> QED BY <1>1, <1>2, <1>3, <1>4, <1>5, <1>6, <1>7, StepKinds

(* Nor does the record.                                                    *)
LEMMA StandsIsSafe == MigTyped /\ MigKept /\ (Tidy => MigLaid /\ MigStands) => OnlyTornFails
<1> SUFFICES ASSUME MigTyped, MigKept, MigLaid, MigStands, Tidy, NEW p \in Processes, Migrating(p),
                    proc[p].version \notin overlapped,
                    NEW s, s = Migration[proc[p].version][proc[p].stmt], Fails(s, proc[p].found)
             PROVE  (Torn /\ s.op = "insert select") \/ Unadded(s)
  BY DEF OnlyTornFails
<1>1. PICK v \in 0 .. Latest : KeptAt(v)
  BY DEF MigKept
<1>2. v \in Nat /\ Versions(v) /\ \A t \in Rebuilt : Midway(t, p)
  BY <1>1, Shapes, ExclusiveIs DEF KeptAt, Kept, Tidy
<1>3. PICK n \in 1 .. Latest : \E k \in 1 .. Len(Migration[n]) : n = proc[p].version /\ k = proc[p].stmt
  BY Current DEF IsAt
<1>4. PICK k \in 1 .. Len(Migration[n]) : IsAt(p, n, k) /\ s = Migration[n][k] /\ n \notin overlapped
  BY <1>3 DEF IsAt
<1>5. n = v + 1 /\ recorded = 1 .. v
  BY <1>2, <1>4, AloneIn DEF Versions
<1>6. CASE ~ (k < Len(Migration[n]))
  <2>1. s = Record(n)
    BY <1>4, <1>6, EveryStatement
  <2>2. s.op = "record" /\ s.version = n
    BY <2>1 DEF Record
  <2>3. n \in recorded
    BY <2>2 DEF Fails
  <2> QED BY <1>2, <1>5, <2>3, BeforeRebuild
<1>7. CASE k < Len(Migration[n])
  BY <1>2, <1>4, <1>7, StatementSafe
<1> QED BY <1>6, <1>7

(* OnlyTornFails: from whatever release and wherever earlier start-ups     *)
(* were cut off, run_sqlite_migrations returns an error only at the INSERT *)
(* of V10 or V11, in a state that a crash inside a rebuild left torn, or   *)
(* where an earlier fault took a column from a statement.  Any other       *)
(* statement finds the tables and columns it names, no ALTER whose error   *)
(* counts meets a column that is there already, and no version is recorded *)
(* twice.  This for a process in a version where start-ups did not         *)
(* overlap, as long as they did in none that must be run alone.            *)
THEOREM MigOnlyTornFails == MigSpec => []OnlyTornFails
<1> DEFINE I == MigTyped /\ MigKept /\ (Tidy => MigLaid) /\ (Tidy => MigStands)
<1>1. MigInit => I
  BY MigInitTyped, KeptInit, LaidInit, StandsInit
<1>2. I /\ [MigNext]_vars => I'
  BY MigNextTyped, KeptNext, LaidNext, StandsNext
<1>3. I => OnlyTornFails
  BY StandsIsSafe
<1> QED BY <1>1, <1>2, <1>3, PTL DEF MigSpec
=============================================================================
