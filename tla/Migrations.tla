---------------------------- MODULE Migrations ----------------------------
(***************************************************************************)
(* db/mod.rs: run_sqlite_migrations, which the API (main.rs) and the worker*)
(* (bin/worker.rs) each run when they start.  The version is read once;    *)
(* then every migration above it runs statement by statement, each         *)
(* statement a transaction of its own, and records its version last.  A    *)
(* process may stop between any two statements and is started again;       *)
(* nothing keeps the two from migrating at the same time.                  *)
(*                                                                         *)
(* Of the schema the model keeps what statements depend on: which tables   *)
(* exist, the columns some statement names ("legacy" stands for the rest), *)
(* the indexes, and which rows a rebuilt table holds.                      *)
(***************************************************************************)
EXTENDS Naturals, Sequences

CONSTANTS
    Processes,    \* the processes that run the migrations
    Releases,     \* last migration of the release first installed: a set of choices
    Ids,          \* ids of the rows clients create
    MaxFaults     \* bound on crashes and refused queries

ASSUME MigAssumption == MaxFaults \in Nat

VARIABLES
    tables,    \* name of an existing table |-> its columns
    indexes,   \* existing indexes, as <<name, table>>
    rows,      \* rows of the two tables that are rebuilt, and of their copies
    recorded,  \* versions in schema_migrations
    created,   \* rows whose creation a client was told of, per table
    proc,      \* the start-up of each process
    release,   \* last migration of the installed release
    faults,    \* crashes and refused queries so far
    overlapped,   \* history: versions a process was in when another one began
    refused       \* history: <<table, column>> whose ALTER failed and was only logged

schema == <<tables, indexes, rows, recorded>>
history == <<overlapped, refused>>
vars == <<schema, created, proc, release, faults, history>>

Rebuilt == {"orders", "listings"}
Copy(t) == IF t = "orders" THEN "orders_new" ELSE "listings_new"
RebuildOf(t) == IF t = "orders" THEN 10 ELSE 11
Holders == Rebuilt \cup {Copy(t) : t \in Rebuilt}

-----------------------------------------------------------------------------
(* Statements *)

CreateTable(t, cols) == [op |-> "create table", t |-> t, cols |-> cols]
DropIfExists(t)      == [op |-> "drop table if exists", t |-> t]
DropTable(t)         == [op |-> "drop table", t |-> t]
Rename(t, to)        == [op |-> "rename", t |-> t, to |-> to]
CreateIndex(i, t, c) == [op |-> "create index", i |-> i, t |-> t, c |-> c]
DropIndex(i)         == [op |-> "drop index", i |-> i]
InsertFrom(t, from, cols) == [op |-> "insert select", t |-> t, from |-> from, cols |-> cols]
Record(n)            == [op |-> "record", version |-> n]

(* `if !column_exists(..) { ALTER TABLE .. ADD COLUMN }`: two queries.  In *)
(* V3 - V12 a failing ALTER is only logged, from V13 on it ends start-up.  *)
ColumnExists(t, c)    == [op |-> "column exists", t |-> t, c |-> c]
Alter(t, c, strict)   == [op |-> "add column", t |-> t, c |-> c, strict |-> strict]
AddColumn(t, c)       == <<ColumnExists(t, c), Alter(t, c, TRUE)>>
TryAddColumn(t, c)    == <<ColumnExists(t, c), Alter(t, c, FALSE)>>

-----------------------------------------------------------------------------
(* The migrations *)

V1 == << CreateTable("users", {"pubkey_hash", "legacy"}),
         CreateTable("listings", {"id", "seller_pubkey_hash", "encrypted_search", "currency",
                                  "status", "expires_at", "legacy"}),
         CreateTable("orders", {"id", "buyer_pubkey_hash", "seller_pubkey_hash", "state",
                                "escrow_address", "disputed_at", "legacy"}),
         CreateTable("chat_messages", {"id", "order_id", "legacy"}),
         CreateIndex("idx_listings_seller", "listings", "seller_pubkey_hash"),
         CreateIndex("idx_listings_status", "listings", "status"),
         CreateIndex("idx_orders_buyer", "orders", "buyer_pubkey_hash"),
         CreateIndex("idx_orders_seller", "orders", "seller_pubkey_hash"),
         CreateIndex("idx_orders_state", "orders", "state"),
         CreateIndex("idx_chat_order", "chat_messages", "order_id"),
         Record(1) >>

V2 == << CreateTable("audit_logs", {"id", "timestamp", "event_type", "legacy"}),
         CreateTable("payment_audits", {"id", "tx_hash", "order_id", "legacy"}),
         CreateIndex("idx_orders_escrow", "orders", "escrow_address"),
         CreateIndex("idx_listings_search", "listings", "encrypted_search"),
         CreateIndex("idx_audit_timestamp", "audit_logs", "timestamp"),
         CreateIndex("idx_audit_event", "audit_logs", "event_type"),
         CreateIndex("idx_payment_audit_tx", "payment_audits", "tx_hash"),
         CreateIndex("idx_payment_audit_order", "payment_audits", "order_id"),
         CreateIndex("idx_listings_expires", "listings", "expires_at"),
         Record(2) >>

V3 == << CreateTable("disputes", {"id", "order_id", "legacy"}),
         CreateTable("dispute_evidence", {"id", "dispute_id", "legacy"}),
         CreateIndex("idx_disputes_order", "disputes", "order_id"),
         CreateIndex("idx_dispute_evidence_dispute", "dispute_evidence", "dispute_id") >>
      \o TryAddColumn("orders", "disputed_at")
      \o TryAddColumn("orders", "dispute_id")
      \o << Record(3) >>

V4 == TryAddColumn("orders", "owner_pubkey")
      \o TryAddColumn("orders", "fee_percent")
      \o TryAddColumn("orders", "fee_address")
      \o TryAddColumn("orders", "multi_sig_key")
      \o TryAddColumn("orders", "multi_sig_redeem_script")
      \o TryAddColumn("orders", "buyer_sig")
      \o TryAddColumn("orders", "seller_sig")
      \o << Record(4) >>

V5 == TryAddColumn("orders", "updated_at") \o << Record(5) >>

V6 == << DropIfExists("audit_logs"), DropIfExists("payment_audits"), Record(6) >>

V7 == << DropIfExists("users"), Record(7) >>

V8 == << DropIfExists("chat_messages"), DropIfExists("disputes"),
         DropIfExists("dispute_evidence"),
         DropIndex("idx_chat_order"), DropIndex("idx_disputes_order"),
         DropIndex("idx_dispute_evidence_dispute"),
         Record(8) >>

V9 == TryAddColumn("orders", "encrypted_order_blob")
      \o TryAddColumn("orders", "day_bucket")
      \o TryAddColumn("orders", "expiry_bucket")
      \o << DropIndex("idx_orders_buyer"), DropIndex("idx_orders_seller"),
            DropIndex("idx_orders_state"), DropIndex("idx_orders_escrow"),
            CreateIndex("idx_orders_day_bucket", "orders", "day_bucket"),
            CreateIndex("idx_orders_expiry_bucket", "orders", "expiry_bucket"),
            Record(9) >>

OrderColumns == {"id", "encrypted_order_blob", "day_bucket", "expiry_bucket"}

V10_FreshCopy ==
       << DropIfExists("orders_new"),
          CreateTable("orders_new", OrderColumns),
          InsertFrom("orders_new", "orders", OrderColumns),
          DropTable("orders"),
          Rename("orders_new", "orders"),
          CreateIndex("idx_orders_day_bucket", "orders", "day_bucket"),
          CreateIndex("idx_orders_expiry_bucket", "orders", "expiry_bucket"),
          Record(10) >>
V10 == << CreateTable("orders_new", OrderColumns),
          InsertFrom("orders_new", "orders", OrderColumns),
          DropTable("orders"),
          Rename("orders_new", "orders"),
          CreateIndex("idx_orders_day_bucket", "orders", "day_bucket"),
          CreateIndex("idx_orders_expiry_bucket", "orders", "expiry_bucket"),
          Record(10) >>

V11 == << CreateTable("listings_new", {"id", "encrypted_listing_blob", "day_bucket", "search_token"}),
          InsertFrom("listings_new", "listings", {"id", "encrypted_search"}),
          DropIndex("idx_listings_seller"), DropIndex("idx_listings_status"),
          DropIndex("idx_listings_search"), DropIndex("idx_listings_expires"),
          DropTable("listings"),
          Rename("listings_new", "listings"),
          CreateIndex("idx_listings_day_bucket", "listings", "day_bucket"),
          Record(11) >>

V12_RecordedFirst == << Record(12) >> \o TryAddColumn("orders", "version")
V12 == TryAddColumn("orders", "version") \o << Record(12) >>

V13_Unguarded == << Alter("orders", "has_dispute", TRUE),
                    CreateIndex("idx_orders_has_dispute", "orders", "has_dispute"),
                    Record(13) >>
V13 == AddColumn("orders", "has_dispute")
       \o << CreateIndex("idx_orders_has_dispute", "orders", "has_dispute"), Record(13) >>

V14 == AddColumn("listings", "status")
       \o AddColumn("listings", "currency")
       \o AddColumn("listings", "version")
       \o << CreateIndex("idx_listings_status", "listings", "status"),
             CreateIndex("idx_listings_currency", "listings", "currency"),
             CreateIndex("idx_listings_status_currency", "listings", "currency"),
             Record(14) >>

V15 == AddColumn("orders", "client_encrypted_blob") \o << Record(15) >>

V16 == AddColumn("orders", "dispute_client_blob") \o << Record(16) >>

V17 == AddColumn("orders", "chat_encrypted_blob") \o << Record(17) >>

V18 == << CreateTable("notification_tracker", {"tx_hash", "order_id", "buyer_pubkey", "processed_at"}),
          Record(18) >>

Migration == << V1, V2, V3, V4, V5, V6, V7, V8, V9, V10, V11, V12, V13, V14, V15, V16, V17, V18 >>
Latest == Len(Migration)

ASSUME ReleasesAssumption == Releases \subseteq 1 .. Latest

-----------------------------------------------------------------------------
(* What SQLite does with a statement.  found: what the process's last      *)
(* column_exists returned.                                                 *)
Has(t, c) == t \in DOMAIN tables /\ c \in tables[t]

Fails(s, found) ==
    CASE s.op = "drop table"    -> s.t \notin DOMAIN tables
      [] s.op = "rename"        -> s.t \notin DOMAIN tables \/ s.to \in DOMAIN tables
      [] s.op = "create index"  -> \/ s.t \notin DOMAIN tables
                                   \/ ~ Has(s.t, s.c) /\ \A x \in indexes : x[1] # s.i
      [] s.op = "add column"    -> ~ found /\ s.strict /\ (s.t \notin DOMAIN tables \/ Has(s.t, s.c))
      [] s.op = "insert select" -> \/ s.t \notin DOMAIN tables
                                   \/ \E c \in s.cols : ~ Has(s.from, c)
                                   \/ rows[s.t] \cap rows[s.from] # {}
      [] s.op = "record"        -> s.version \in recorded
      [] OTHER                  -> FALSE

Without(t) == [x \in DOMAIN tables \ {t} |-> tables[x]]

Drop(t) ==
    /\ tables' = Without(t)
    /\ indexes' = {x \in indexes : x[2] # t}
    /\ rows' = [r \in Holders |-> IF r = t THEN {} ELSE rows[r]]
    /\ UNCHANGED recorded

(* The effect of a statement that does not fail. *)
Execute(s, found) ==
    \/ /\ s.op = "create table"
       /\ tables' = [x \in DOMAIN tables \cup {s.t} |->    \* IF NOT EXISTS
                       IF x \in DOMAIN tables THEN tables[x] ELSE s.cols]
       /\ UNCHANGED <<indexes, rows, recorded>>
    \/ /\ s.op \in {"drop table", "drop table if exists"}
       /\ Drop(s.t)
    \/ /\ s.op = "rename"
       /\ tables' = [x \in (DOMAIN tables \ {s.t}) \cup {s.to} |->
                       tables[IF x = s.to THEN s.t ELSE x]]
       /\ indexes' = {<<x[1], IF x[2] = s.t THEN s.to ELSE x[2]>> : x \in indexes}
       /\ rows' = [rows EXCEPT ![s.to] = rows[s.t], ![s.t] = {}]
       /\ UNCHANGED recorded
    \/ /\ s.op = "create index"
       /\ indexes' = IF \E x \in indexes : x[1] = s.i THEN indexes ELSE indexes \cup {<<s.i, s.t>>}
       /\ UNCHANGED <<tables, rows, recorded>>
    \/ /\ s.op = "drop index"
       /\ indexes' = {x \in indexes : x[1] # s.i}
       /\ UNCHANGED <<tables, rows, recorded>>
    \/ /\ s.op = "add column"
       /\ tables' = IF found \/ s.t \notin DOMAIN tables THEN tables
                    ELSE [tables EXCEPT ![s.t] = @ \cup {s.c}]
       /\ UNCHANGED <<indexes, rows, recorded>>
    \/ /\ s.op = "insert select"
       /\ rows' = [rows EXCEPT ![s.t] = @ \cup rows[s.from]]
       /\ UNCHANGED <<tables, indexes, recorded>>
    \/ /\ s.op = "record"
       /\ recorded' = recorded \cup {s.version}
       /\ UNCHANGED <<tables, indexes, rows>>
    \/ /\ s.op = "column exists"
       /\ UNCHANGED schema

-----------------------------------------------------------------------------
Down == [status |-> "down"]
Up == [status |-> "up"]
At(n, k, found) == [status |-> "migrating", version |-> n, stmt |-> k, found |-> found]

TableNames == {"users", "listings", "orders", "chat_messages", "audit_logs", "payment_audits", "disputes",
               "dispute_evidence", "orders_new", "listings_new", "notification_tracker"}

(* The columns a tolerant ALTER adds. *)
TriedColumns == {"disputed_at", "dispute_id", "owner_pubkey", "fee_percent", "fee_address",
                 "multi_sig_key", "multi_sig_redeem_script", "buyer_sig", "seller_sig", "updated_at",
                 "encrypted_order_blob", "day_bucket", "expiry_bucket", "version"}

MigTypeOK ==
    /\ DOMAIN tables \subseteq TableNames
    /\ \A x \in indexes : x[2] \in DOMAIN tables
    /\ rows \in [Holders -> SUBSET Ids]
    /\ recorded \subseteq 1 .. Latest
    /\ created \in [Rebuilt -> SUBSET Ids]
    /\ \A p \in Processes : \/ proc[p] \in {Down, Up}
                            \/ /\ proc[p].status = "migrating"
                               /\ proc[p].version \in 1 .. release
                               /\ proc[p].stmt \in DOMAIN Migration[proc[p].version]
    /\ release \in Releases \cup {Latest}
    /\ faults \in 0 .. MaxFaults
    /\ overlapped \subseteq 1 .. Latest
    /\ refused \subseteq {"orders"} \X TriedColumns

MigInit ==
    /\ tables = <<>>
    /\ indexes = {}
    /\ rows = [t \in Holders |-> {}]
    /\ recorded = {}
    /\ created = [t \in Rebuilt |-> {}]
    /\ proc = [p \in Processes |-> Down]
    /\ release \in Releases
    /\ faults = 0
    /\ overlapped = {}
    /\ refused = {}

(* SELECT MAX(version), NULL read as 0. *)
get_schema_version == CHOOSE n \in recorded \cup {0} : \A m \in recorded : m <= n

Pending_OneMore == get_schema_version <= release
Pending == get_schema_version < release

(* run_sqlite_migrations begins: schema_migrations exists, the version is  *)
(* read.  A process that failed or crashed is started like one never run.  *)
Begin(p) ==
    /\ proc[p] = Down
    /\ proc' = [proc EXCEPT ![p] = IF Pending
                                     THEN At(get_schema_version + 1, 1, FALSE) ELSE Up]
    /\ overlapped' = overlapped \cup
                      {proc[q].version : q \in {x \in Processes : proc[x].status = "migrating"}}
    /\ UNCHANGED <<schema, created, release, faults, refused>>

(* Where a process is after its statement. *)
After(p, found) ==
    LET n == proc[p].version
        k == proc[p].stmt
    IN IF k < Len(Migration[n]) THEN At(n, k + 1, found)
       ELSE IF n < release THEN At(n + 1, 1, FALSE) ELSE Up

(* The next statement; `?` ends the process when it fails. *)
Statement(p) ==
    LET s == Migration[proc[p].version][proc[p].stmt]
        next == After(p, s.op = "column exists" /\ Has(s.t, s.c))
    IN
    /\ proc[p].status = "migrating"
    /\ IF Fails(s, proc[p].found)
         THEN proc' = [proc EXCEPT ![p] = Down] /\ UNCHANGED schema
         ELSE proc' = [proc EXCEPT ![p] = next] /\ Execute(s, proc[p].found)
    /\ UNCHANGED <<created, release, faults, history>>

(* SQLite refuses a query (locked, disk full) whose error the code does    *)
(* not pass on: column_exists says no, and an ALTER of V3 - V12 is logged. *)
Refuse(p) ==
    LET s == Migration[proc[p].version][proc[p].stmt]
    IN
    /\ faults < MaxFaults
    /\ proc[p].status = "migrating"
    /\ \/ s.op = "column exists" /\ UNCHANGED refused
       \/ /\ s.op = "add column" /\ ~ s.strict /\ ~ proc[p].found
          /\ refused' = refused \cup {<<s.t, s.c>>}
    /\ faults' = faults + 1
    /\ proc' = [proc EXCEPT ![p] = After(p, FALSE)]
    /\ UNCHANGED <<schema, created, release, overlapped>>

(* A process ends: by a crash, or since SQLite refuses any other statement. *)
Crash(p) ==
    /\ faults < MaxFaults
    /\ proc[p] # Down
    /\ faults' = faults + 1
    /\ proc' = [proc EXCEPT ![p] = Down]
    /\ UNCHANGED <<schema, created, release, history>>

(* A process that is up stores a row for a client. *)
CreateRow(t, id) ==
    /\ \E p \in Processes : proc[p] = Up
    /\ t \in DOMAIN tables
    /\ id \notin created[t]
    /\ rows' = [rows EXCEPT ![t] = @ \cup {id}]
    /\ created' = [created EXCEPT ![t] = @ \cup {id}]
    /\ UNCHANGED <<tables, indexes, recorded, proc, release, faults, history>>

(* The operator stops everything and installs the current release. *)
Upgrade ==
    /\ release < Latest
    /\ release' = Latest
    /\ proc' = [p \in Processes |-> Down]
    /\ UNCHANGED <<schema, created, faults, history>>

MigNext ==
    \/ \E p \in Processes : Begin(p) \/ Statement(p) \/ Refuse(p) \/ Crash(p)
    \/ \E t \in Rebuilt, id \in Ids : CreateRow(t, id)
    \/ Upgrade

MigSpec == MigInit /\ [][MigNext]_vars

(* A stopped process is started again and runs: the API by the restart     *)
(* policy of docker-compose.yml, the worker by whoever operates it.        *)
FairMigSpec == MigSpec /\ \A p \in Processes : WF_vars(Begin(p)) /\ WF_vars(Statement(p))

-----------------------------------------------------------------------------
(* What the code reads: the structs of db/models.rs filled by SELECT *. *)
Model == [orders |-> OrderColumns \cup {"version", "has_dispute", "client_encrypted_blob",
                                        "dispute_client_blob", "chat_encrypted_blob"},
          listings |-> {"id", "encrypted_listing_blob", "day_bucket", "search_token",
                        "status", "currency", "version"},
          notification_tracker |-> {"tx_hash", "order_id", "buyer_pubkey", "processed_at"}]

(* The versions two processes must not run at the same time: those that    *)
(* create what a later version drops, and the two rebuilds.                *)
Exclusive == (1 .. 5) \cup {10, 11}

(* Whatever crashes and failures came before, a process of the current     *)
(* release serves only on the schema its models expect: no column is       *)
(* missing because a migration was cut off, only one whose ALTER failed    *)
(* and was logged, and none of the tables and columns dropped for privacy  *)
(* is left or back.  Start-ups may overlap in the other versions.          *)
ServesOnModelSchema ==
    (release = Latest /\ overlapped \cap Exclusive = {} /\ \E p \in Processes : proc[p] = Up) =>
        /\ DOMAIN tables = DOMAIN Model
        /\ \A t \in DOMAIN Model :
              /\ tables[t] \subseteq Model[t]
              /\ \A c \in Model[t] \ tables[t] : <<t, c>> \in refused

(* No row a client was told of is lost, however often migrations are cut   *)
(* off and run again and however start-ups overlap, unless two processes   *)
(* were in the rebuild of its table at the same time: it is in the table   *)
(* or in the copy, and in the table itself whenever a process serves.      *)
NoRowLost ==
    \A t \in Rebuilt : RebuildOf(t) \notin overlapped =>
        /\ created[t] \subseteq rows[t] \cup rows[Copy(t)]
        /\ (\E p \in Processes : proc[p] = Up) => created[t] \subseteq rows[t]

(* Where a migration cannot be run a second time: a copy already filled or *)
(* its original already gone, and V11 after its RENAME, whose SELECT names *)
(* a column only the old table had.                                        *)
Torn ==
    \/ \E t \in Rebuilt : /\ Copy(t) \in DOMAIN tables
                          /\ t \notin DOMAIN tables \/ rows[Copy(t)] # {}
    \/ Has("listings", "search_token") /\ 11 \notin recorded

(* V9 was recorded although one of its ALTERs had only been logged: the    *)
(* rebuild of V10 selects a column that is never added.                    *)
Starved == {9, 10} \cap recorded = {9} /\ \E c \in OrderColumns : ~ Has("orders", c)

AllUp == \A p \in Processes : proc[p] = Up

(* A crash between any two statements and a query refused are made up for  *)
(* by the next start, except in the two rebuilds and in V9.                *)
EventuallyUpOrTorn == <>[](overlapped \cap Exclusive # {} \/ Torn \/ Starved \/ AllUp)
=============================================================================
