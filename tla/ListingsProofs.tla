--------------------------- MODULE ListingsProofs ---------------------------
(***************************************************************************)
(* Proofs about the listings table, for every set of listings, requests,   *)
(* nonces and page sizes, every length of a bucket and every number of     *)
(* restarts.  Three parts of the invariant carry the properties: what a    *)
(* handler (Reads) and the job (Snapshot) remember of a row is the row     *)
(* itself as long as its version is unchanged, the version counts the      *)
(* commits (Counted), and of what a paging client has not seen yet no more *)
(* listings have slipped before its offset than rows have left its filter  *)
(* (Ahead).                                                                *)
(***************************************************************************)
EXTENDS Listings, FiniteSetTheorems, FunctionTheorems, WellFoundedInduction, TLAPS

Rows == Row \cup {NoRow}

Progress == [pc : {"new", "created", "conflict", "not_found", "replay", "lost"}]
            \cup [pc : {"updated"}, listing : Ids]
            \cup [pc : {"fetched"}, listing : Ids, blob : Blobs]
            \cup [pc : {"read"}, listing : Ids, version : Nat, status : AllStatuses,
                  omitted : BOOLEAN, blob : Blobs]

ReaderType == [pc : {"idle", "paging", "done"}, filter : Filters \cup {None}, limit : Nat,
               offset : Nat, owed : SUBSET Ids, left : Nat]

Typed ==
    /\ listings \in [Ids -> Rows]
    /\ clock \in 0 .. MaxTime
    /\ st \in [Requests -> Progress]
    /\ boots \in 0 .. MaxRestarts
    /\ job \in [snap : [Ids -> Rows], now : Nat]
    /\ expired \in [Ids -> Nat]
    /\ reader \in ReaderType

(* A handler between its two statements: its row is still there, no older, *)
(* and if the version is the same, so is the status it will write.         *)
Reads ==
    \A r \in Requests : st[r].pc = "read" =>
        LET row == listings[st[r].listing] IN
        /\ row \in Row
        /\ st[r].version <= row.version
        /\ st[r].version = row.version /\ st[r].omitted => st[r].status = row.status

(* The same for the rows of the expiry scan.                               *)
Snapshot ==
    /\ job.now <= clock
    /\ \A l \in Ids : job.snap[l] # NoRow =>
          /\ job.snap[l].status = "active"
          /\ listings[l] \in Row
          /\ job.snap[l].version <= listings[l].version
          /\ job.snap[l].version = listings[l].version => listings[l] = job.snap[l]

(* What has been written is there.                                         *)
Written ==
    /\ \A r \in Requests : st[r].pc = "updated" => Exists(st[r].listing)
    /\ \A l \in Ids : ~ Exists(l) => expired[l] = 0

Counted == VersionCountsUpdates

(* What is owed to the reader still matches its filter, and of it no more  *)
(* lies before the offset than rows have left.                             *)
Slipped(filter) == {l \in reader.owed : Rank(l, filter) < reader.offset}
Ahead ==
    /\ reader.pc = "paging" => /\ \A l \in reader.owed : Matches(l, reader.filter)
                               /\ Cardinality(Slipped(reader.filter)) <= reader.left
    /\ reader.pc = "done" => Cardinality(reader.owed) <= reader.left
    /\ reader.filter = None => reader.left = 0

ListInv == Typed /\ Reads /\ Snapshot /\ Written /\ Counted /\ Ahead

-----------------------------------------------------------------------------
(* What a step may do to the table: a row is left alone, gets the next     *)
(* version and keeps its place among the pages, or is new.                 *)
RowMoves(l) ==
    \/ listings'[l] = listings[l]
    \/ /\ Exists(l) /\ listings'[l] \in Row
       /\ listings'[l].version = listings[l].version + 1
       /\ listings'[l].day_bucket = listings[l].day_bucket
    \/ ~ Exists(l) /\ listings'[l] \in Row /\ listings'[l].version = 1

RowsMove == \A l \in Ids : RowMoves(l)

(* A row that exists is a whole row, and stays one.                        *)
LEMMA ExistsRow ==
    ASSUME NEW l \in Ids, listings \in [Ids -> Rows]
    PROVE  Exists(l) <=> listings[l] \in Row
BY DEF Exists, Rows, Row, NoRow

(* A listing is never deleted, nor moved to another day.                   *)
LEMMA RowsStay ==
    ASSUME listings \in [Ids -> Rows], listings' \in [Ids -> Rows], RowsMove, NEW l \in Ids, Exists(l)
    PROVE  Exists(l)' /\ listings'[l].day_bucket = listings[l].day_bucket
BY ExistsRow DEF RowsMove, RowMoves, Exists, Rows, Row, NoRow

(* floor_timestamp_6h never runs ahead of the clock.                       *)
LEMMA FloorType ==
    ASSUME NEW t \in Nat
    PROVE  floor_timestamp_6h(t) \in Nat /\ floor_timestamp_6h(t) <= t
<1> DEFINE q == t \div Bucket
<1>1. q \in Nat /\ q * Bucket <= t
  BY BucketAssumption
<1>2. q * Bucket \in Nat
  BY <1>1, BucketAssumption
<1> QED BY <1>1, <1>2 DEF floor_timestamp_6h

(* Handlers that go on reading keep what they know.                        *)
LEMMA ReadsKept ==
    ASSUME Typed, Typed', Reads, RowsMove,
           \A r \in Requests : st'[r].pc = "read" => st'[r] = st[r]
    PROVE  Reads'
<1> SUFFICES ASSUME NEW r \in Requests, st'[r].pc = "read"
             PROVE  LET row == listings'[st'[r].listing] IN
                    /\ row \in Row
                    /\ st'[r].version <= row.version
                    /\ st'[r].version = row.version /\ st'[r].omitted => st'[r].status = row.status
  BY DEF Reads
<1>1. st'[r] = st[r]
  OBVIOUS
<1> DEFINE l == st[r].listing
<1>2. l \in Ids /\ st[r].version \in Nat
  BY <1>1 DEF Typed, Progress
<1>3. /\ listings[l] \in Row /\ st[r].version <= listings[l].version
      /\ st[r].version = listings[l].version /\ st[r].omitted => st[r].status = listings[l].status
  BY <1>1 DEF Reads
<1>4. listings[l].version \in Nat /\ Exists(l)
  BY <1>2, <1>3, ExistsRow DEF Row, Typed
<1>5. \/ listings'[l] = listings[l]
      \/ listings'[l] \in Row /\ listings'[l].version = listings[l].version + 1
  BY <1>2, <1>4 DEF RowsMove, RowMoves
<1> QED BY <1>1, <1>2, <1>3, <1>4, <1>5

(* A scan that takes nothing new keeps what it knows.                      *)
LEMMA SnapshotKept ==
    ASSUME Typed, Typed', Snapshot, RowsMove, clock' >= clock, job'.now = job.now,
           \A l \in Ids : job'.snap[l] \in {job.snap[l], NoRow}
    PROVE  Snapshot'
<1>1. job'.now <= clock'
  BY BoundAssumption DEF Typed, Snapshot
<1>2. ASSUME NEW l \in Ids, job'.snap[l] # NoRow
      PROVE  /\ job'.snap[l].status = "active"
             /\ listings'[l] \in Row
             /\ job'.snap[l].version <= listings'[l].version
             /\ job'.snap[l].version = listings'[l].version => listings'[l] = job'.snap[l]
  <2>1. job'.snap[l] = job.snap[l] /\ job.snap[l] # NoRow
    BY <1>2
  <2>2. job.snap[l] \in Row
    BY <2>1 DEF Typed, Rows
  <2>3. /\ job.snap[l].status = "active" /\ listings[l] \in Row
        /\ job.snap[l].version <= listings[l].version
        /\ job.snap[l].version = listings[l].version => listings[l] = job.snap[l]
    BY <2>1 DEF Snapshot
  <2>4. /\ job.snap[l].version \in Nat /\ listings[l].version \in Nat /\ Exists(l)
    BY <2>2, <2>3, ExistsRow DEF Row, Typed
  <2>5. \/ listings'[l] = listings[l]
        \/ listings'[l] \in Row /\ listings'[l].version = listings[l].version + 1
    BY <2>4 DEF RowsMove, RowMoves
  <2> QED BY <2>1, <2>3, <2>4, <2>5
<1> QED BY <1>1, <1>2 DEF Snapshot

-----------------------------------------------------------------------------
(* Pages.  Rank is a numbering of the matching listings without gaps.      *)

Earlier(j, f) == {i \in Ids : Matches(i, f) /\ Before(i, j)}

(* A rank counts a finite set of listings.                                 *)
LEMMA RankType ==
    ASSUME NEW f, NEW j \in Ids
    PROVE  Rank(j, f) = Cardinality(Earlier(j, f)) /\ Rank(j, f) \in Nat /\ IsFiniteSet(Earlier(j, f))
<1>1. IsFiniteSet(Earlier(j, f))
  BY IdsAssumption, FS_Subset DEF Earlier
<1> QED BY <1>1, FS_CardinalityType DEF Rank, Earlier

(* Before orders the listings: any two are one before the other.           *)
LEMMA BeforeOrders ==
    ASSUME listings \in [Ids -> Rows], NEW i \in Ids, NEW j \in Ids, NEW k \in Ids,
           Exists(i), Exists(j), Exists(k)
    PROVE  /\ ~ Before(i, i)
           /\ Before(i, j) /\ Before(j, k) => Before(i, k)
           /\ i = j \/ Before(i, j) \/ Before(j, i)
<1>1. /\ listings[i].day_bucket \in Nat /\ listings[j].day_bucket \in Nat
      /\ listings[k].day_bucket \in Nat /\ i \in Nat /\ j \in Nat /\ k \in Nat
  BY ExistsRow, IdsAssumption DEF Row
<1> QED BY <1>1 DEF Before

(* A listing that is sorted before another has a lower rank.               *)
LEMMA RankOrder ==
    ASSUME NEW f, listings \in [Ids -> Rows], NEW i \in Ids, NEW j \in Ids,
           Matches(i, f), Matches(j, f), Before(i, j)
    PROVE  Rank(i, f) < Rank(j, f)
<1>1. Earlier(i, f) \subseteq Earlier(j, f) \ {i} /\ i \in Earlier(j, f)
  BY BeforeOrders DEF Earlier, Matches
<1>2. Cardinality(Earlier(j, f) \ {i}) = Cardinality(Earlier(j, f)) - 1 /\ IsFiniteSet(Earlier(j, f) \ {i})
  BY <1>1, RankType, FS_RemoveElement
<1>3. Cardinality(Earlier(i, f)) <= Cardinality(Earlier(j, f) \ {i})
  BY <1>1, <1>2, FS_Subset
<1> QED BY <1>2, <1>3, RankType

(* No two listings share a rank.                                           *)
LEMMA RankInjective ==
    ASSUME NEW f, listings \in [Ids -> Rows], NEW i \in Ids, NEW j \in Ids,
           Matches(i, f), Matches(j, f), Rank(i, f) = Rank(j, f)
    PROVE  i = j
<1>1. i = j \/ Before(i, j) \/ Before(j, i)
  BY BeforeOrders DEF Matches
<1> QED BY <1>1, RankOrder, RankType

(* No more listings than ranks.                                            *)
LEMMA FewRanks ==
    ASSUME NEW f, listings \in [Ids -> Rows], NEW a \in Nat, NEW n \in Nat,
           NEW S \in SUBSET Ids, \A j \in S : Matches(j, f) /\ Rank(j, f) \in a .. a + n - 1
    PROVE  Cardinality(S) <= n
<1> DEFINE g == [j \in S |-> Rank(j, f)]
<1>1. g \in [S -> a .. a + n - 1]
  OBVIOUS
<1>2. \A i, j \in S : g[i] = g[j] => i = j
  BY RankInjective
<1>3. g \in Injection(S, a .. a + n - 1)
  BY <1>1, <1>2, Fun_IsInj
<1>4. IsFiniteSet(a .. a + n - 1) /\ Cardinality(a .. a + n - 1) = n
  BY FS_Interval
<1> HIDE DEF g
<1> QED BY <1>3, <1>4, FS_Injection

(* Where a listing lies past the offset, one lies at the offset.           *)
LEMMA NoGaps ==
    ASSUME NEW f, listings \in [Ids -> Rows], NEW offset \in Nat, NEW j \in Ids, Matches(j, f), Rank(j, f) >= offset
    PROVE  \E k \in Ids : Matches(k, f) /\ Rank(k, f) = offset
<1> DEFINE T == {n \in Nat : n >= offset /\ \E k \in Ids : Matches(k, f) /\ Rank(k, f) = n}
<1>1. T # {} /\ T \subseteq Nat
  BY RankType
<1>2. PICK n \in T : \A m \in T : ~ (<<m, n>> \in OpToRel(<, Nat))
  BY <1>1, NatLessThanWellFounded, WFMin
<1>3. \A m \in T : ~ (m < n)
  BY <1>2 DEF OpToRel
<1>4. PICK k \in Ids : Matches(k, f) /\ Rank(k, f) = n
  OBVIOUS
<1>5. ASSUME NEW i \in Earlier(k, f) PROVE Matches(i, f) /\ Rank(i, f) \in 0 .. offset - 1
  <2>1. i \in Ids /\ Matches(i, f) /\ Rank(i, f) < n /\ Rank(i, f) \in Nat
    BY <1>4, <1>5, RankOrder, RankType DEF Earlier
  <2>2. Rank(i, f) \notin T
    BY <1>3, <2>1
  <2> QED BY <2>1, <2>2
<1>6. Cardinality(Earlier(k, f)) <= offset
  <2>1. Earlier(k, f) \in SUBSET Ids
    BY DEF Earlier
  <2>2. \A i \in Earlier(k, f) : Matches(i, f) /\ Rank(i, f) \in 0 .. 0 + offset - 1
    BY <1>5
  <2> QED BY <2>1, <2>2, FewRanks
<1> QED BY <1>4, <1>6, RankType

(* A page asks for at least one listing.                                   *)
LEMMA ClampType ==
    ASSUME NEW n \in Nat
    PROVE  Clamp(n) \in Nat /\ Clamp(n) >= 1
BY LimitAssumption DEF Clamp

(* A page is empty only when nothing lies at or after its offset, and no   *)
(* page is larger than its limit.                                          *)
LEMMA PageFull ==
    ASSUME NEW f, listings \in [Ids -> Rows], NEW limit \in Nat, NEW offset \in Nat,
           NEW j \in Ids, Matches(j, f), Rank(j, f) >= offset
    PROVE  list_listings(f, limit, offset) # {}
<1>1. PICK k \in Ids : Matches(k, f) /\ Rank(k, f) = offset
  BY NoGaps
<1>2. Rank(k, f) \in offset .. offset + Clamp(limit) - 1
  BY <1>1, ClampType
<1> QED BY <1>1, <1>2 DEF list_listings

(* A page holds at most the clamped limit.                                 *)
LEMMA PageSize ==
    ASSUME NEW f, listings \in [Ids -> Rows], NEW limit \in Nat, NEW offset \in Nat
    PROVE  LET page == list_listings(f, limit, offset) IN
           page \in SUBSET Ids /\ Cardinality(page) \in Nat /\ Cardinality(page) <= Clamp(limit)
<1> DEFINE page == list_listings(f, limit, offset)
<1>1. page \in SUBSET Ids /\ \A j \in page : Matches(j, f) /\ Rank(j, f) \in offset .. offset + Clamp(limit) - 1
  BY DEF list_listings
<1>2. Cardinality(page) \in Nat
  BY <1>1, IdsAssumption, FS_Subset, FS_CardinalityType
<1>3. Cardinality(page) <= Clamp(limit)
  BY <1>1, ClampType, FewRanks
<1> QED BY <1>1, <1>2, <1>3

(* The listings that slipped can be counted.                               *)
LEMMA SlippedFinite ==
    ASSUME reader.owed \in SUBSET Ids, NEW f
    PROVE  /\ IsFiniteSet(Slipped(f)) /\ Cardinality(Slipped(f)) \in Nat
           /\ \A S \in SUBSET Slipped(f) : /\ IsFiniteSet(S) /\ Cardinality(S) \in Nat
                                            /\ Cardinality(S) <= Cardinality(Slipped(f))
<1>1. IsFiniteSet(Slipped(f))
  BY IdsAssumption, FS_Subset DEF Slipped
<1> QED BY <1>1, FS_Subset, FS_CardinalityType

(* Where neither table nor reader changes, nothing slips.                  *)
LEMMA AheadSame ==
    ASSUME Ahead, listings' = listings, reader' = reader
    PROVE  Ahead'
<1>1. \A l \in Ids : \A f : Matches(l, f)' = Matches(l, f)
  BY DEF Matches, Exists
<1>2. Slipped(reader.filter)' = Slipped(reader.filter)
  BY DEF Slipped, Rank, Matches, Exists, Before
<1> QED BY <1>1, <1>2 DEF Ahead, Matches, Exists

(* What a write notes of the reader's history is well typed.               *)
LEMMA ReaderAfterWrite ==
    ASSUME reader \in ReaderType, NEW l, NEW row, UpdateRow(l, row)
    PROVE  reader' \in ReaderType
<1> DEFINE owed == reader.owed \ {l}
           left == reader.left + 1
<1>1. owed \in SUBSET Ids /\ left \in Nat
  BY DEF ReaderType
<1>2. reader' = reader \/ reader' = [reader EXCEPT !.owed = owed, !.left = left]
  BY DEF UpdateRow, ReaderType
<1> HIDE DEF owed, left
<1> QED BY <1>1, <1>2 DEF ReaderType

(* Where no row leaves the filter and none changes its place, the listings *)
(* owed do not slip: ranks only grow.                                      *)
LEMMA AheadKept ==
    ASSUME Typed, Typed', Ahead, reader' = reader,
           \A i \in Ids : Matches(i, reader.filter) =>
              /\ listings'[i] \in Row /\ listings'[i].day_bucket = listings[i].day_bucket
              /\ reader.filter = None \/ listings'[i].status = reader.filter
    PROVE  Ahead'
<1>0. PICK f \in Filters \cup {None} : f = reader.filter
  BY DEF Typed, ReaderType
<1>1. ASSUME NEW i \in Ids, Matches(i, f)
      PROVE  Matches(i, f)' /\ listings'[i].day_bucket = listings[i].day_bucket
  <2>1. listings'[i] \in Row
    BY <1>0, <1>1
  <2>2. listings'[i] # NoRow
    BY <2>1 DEF Row, NoRow
  <2> QED BY <1>0, <1>1, <2>2 DEF Matches, Exists
<1>2. ASSUME NEW j \in Ids, Matches(j, f)
      PROVE  Rank(j, f)' \in Nat /\ Rank(j, f)' >= Rank(j, f)
  <2>1. Earlier(j, f) \subseteq Earlier(j, f)'
    BY <1>1, <1>2 DEF Earlier, Before
  <2>2. IsFiniteSet(Earlier(j, f)') /\ Rank(j, f)' = Cardinality(Earlier(j, f)')
    <3>1. IsFiniteSet(Earlier(j, f)')
      BY IdsAssumption, FS_Subset DEF Earlier
    <3> QED BY <3>1 DEF Rank, Earlier
  <2>3. Cardinality(Earlier(j, f)') \in Nat
    BY <2>2, FS_CardinalityType
  <2> QED BY <2>1, <2>2, <2>3, RankType, FS_Subset
<1>3. ASSUME reader.pc = "paging"
      PROVE  /\ \A l \in reader.owed : Matches(l, f)'
             /\ Cardinality(Slipped(f)') <= reader.left
  <2>1. /\ reader.owed \in SUBSET Ids /\ reader.offset \in Nat /\ reader.left \in Nat
        /\ \A l \in reader.owed : Matches(l, f)
        /\ Cardinality(Slipped(f)) <= reader.left
    BY <1>0, <1>3 DEF Typed, ReaderType, Ahead
  <2>2. \A l \in reader.owed : Matches(l, f)'
    BY <1>1, <2>1
  <2>3. Slipped(f)' \subseteq Slipped(f)
    <3> SUFFICES ASSUME NEW l \in reader.owed, Rank(l, f)' < reader.offset
                 PROVE  Rank(l, f) < reader.offset
      BY DEF Slipped
    <3>1. l \in Ids /\ Rank(l, f)' \in Nat /\ Rank(l, f)' >= Rank(l, f)
      BY <1>2, <2>1
    <3>2. Rank(l, f) \in Nat
      BY <3>1, RankType
    <3> QED BY <2>1, <3>1, <3>2
  <2>4. Cardinality(Slipped(f)') <= Cardinality(Slipped(f)) /\ Cardinality(Slipped(f)') \in Nat
        /\ Cardinality(Slipped(f)) \in Nat
    BY <2>1, <2>3, SlippedFinite
  <2> QED BY <2>1, <2>2, <2>4
<1>4. Slipped(reader.filter)' = Slipped(f)' /\ \A l \in Ids : Matches(l, reader.filter)' = Matches(l, f)'
  BY <1>0 DEF Slipped, Matches, Rank
<1> QED BY <1>0, <1>3, <1>4 DEF Ahead, Typed, ReaderType

(* A row that leaves the filter takes every listing after it one place     *)
(* forward, so at most one of those owed slips before the offset.          *)
LEMMA AheadLeaving ==
    ASSUME Typed, Typed', Ahead, NEW l \in Ids, NEW row \in Row, UpdateRow(l, row), Leaves(l, row),
           row.day_bucket = listings[l].day_bucket
    PROVE  Ahead'
<1>0. PICK f \in Filters \cup {None} : f = reader.filter
  BY DEF Typed, ReaderType
<1>1. /\ listings' = [listings EXCEPT ![l] = row] /\ listings \in [Ids -> Rows]
      /\ reader' = [reader EXCEPT !.owed = reader.owed \ {l}, !.left = reader.left + 1]
      /\ reader.pc = "paging" /\ f # None /\ row.status # f /\ Matches(l, f)
      /\ reader \in ReaderType
  BY <1>0 DEF UpdateRow, Leaves, Typed, ReaderType
<1>2. /\ reader'.pc = "paging" /\ reader'.filter = f /\ reader'.offset = reader.offset
      /\ reader'.owed = reader.owed \ {l} /\ reader'.left = reader.left + 1
  BY <1>0, <1>1 DEF ReaderType
<1>3. /\ reader.owed \in SUBSET Ids /\ reader.offset \in Nat /\ reader.left \in Nat
      /\ \A i \in reader.owed : Matches(i, f)
      /\ Cardinality(Slipped(f)) <= reader.left
  BY <1>0, <1>1 DEF ReaderType, Ahead
<1>4. \A i \in Ids : Matches(i, f)' <=> Matches(i, f) /\ i # l
  BY <1>1 DEF Matches, Exists
<1>5. \A i, j \in Ids : Before(i, j)' <=> Before(i, j)
  BY <1>1 DEF Before
<1>6. ASSUME NEW j \in Ids
      PROVE  Rank(j, f)' \in Nat /\ Rank(j, f)' >= Rank(j, f) - 1
  <2>1. Earlier(j, f)' = Earlier(j, f) \ {l}
    BY <1>4, <1>5 DEF Earlier
  <2>2. IsFiniteSet(Earlier(j, f)) /\ Rank(j, f) = Cardinality(Earlier(j, f)) /\ Rank(j, f) \in Nat
    BY RankType
  <2>3. Rank(j, f)' = Cardinality(Earlier(j, f)')
    BY DEF Rank, Earlier
  <2>4. IsFiniteSet(Earlier(j, f)')
    BY <2>1, <2>2, FS_Subset
  <2>5. Cardinality(Earlier(j, f)') \in Nat
    BY <2>4, FS_CardinalityType
  <2>6. Cardinality(Earlier(j, f)') >= Cardinality(Earlier(j, f)) - 1
    <3>1. CASE l \in Earlier(j, f)
      <4>1. Cardinality(Earlier(j, f) \ {l}) = Cardinality(Earlier(j, f)) - 1
        BY <2>2, <3>1, FS_RemoveElement
      <4> QED BY <2>1, <2>2, <2>5, <4>1
    <3>2. CASE l \notin Earlier(j, f)
      <4>1. Earlier(j, f)' = Earlier(j, f)
        BY <2>1, <3>2
      <4> QED BY <2>2, <4>1
    <3> QED BY <3>1, <3>2
  <2> QED BY <2>2, <2>3, <2>5, <2>6
<1>7. \A j \in reader.owed : Rank(j, f) \in Nat
  BY <1>3, RankType
<1>8. ASSUME NEW j \in Slipped(f)' PROVE j \in Slipped(f) \/ Rank(j, f) = reader.offset
  <2>1. j \in reader.owed /\ j \in Ids /\ Rank(j, f)' < reader.offset
    BY <1>2, <1>3, <1>8 DEF Slipped
  <2>2. Rank(j, f) <= reader.offset
    BY <1>3, <1>6, <1>7, <2>1
  <2> QED BY <1>3, <1>7, <2>1, <2>2 DEF Slipped
<1>9. IsFiniteSet(Slipped(f)) /\ Cardinality(Slipped(f)) \in Nat
  BY <1>3, SlippedFinite
<1>10. Cardinality(Slipped(f)') <= reader.left + 1
  <2>1. CASE \E k \in reader.owed : Rank(k, f) = reader.offset
    <3>1. PICK k \in reader.owed : Rank(k, f) = reader.offset
      BY <2>1
    <3>2. ASSUME NEW j \in Slipped(f)' PROVE j \in Slipped(f) \cup {k}
      <4>1. CASE Rank(j, f) = reader.offset
        <5>1. j \in reader.owed
          BY <1>2, <3>2 DEF Slipped
        <5>2. j \in Ids /\ k \in Ids /\ Matches(j, f) /\ Matches(k, f) /\ Rank(j, f) = Rank(k, f)
          BY <1>3, <3>1, <4>1, <5>1
        <5> QED BY <1>1, <5>2, RankInjective
      <4> QED BY <1>8, <3>2, <4>1
    <3>3. Slipped(f)' \subseteq Slipped(f) \cup {k}
      BY <3>2
    <3>4. /\ IsFiniteSet(Slipped(f) \cup {k})
          /\ Cardinality(Slipped(f) \cup {k}) <= Cardinality(Slipped(f)) + 1
          /\ Cardinality(Slipped(f) \cup {k}) \in Nat
      <4>1. CASE k \in Slipped(f)
        <5>1. Slipped(f) \cup {k} = Slipped(f)
          BY <4>1
        <5>2. Cardinality(Slipped(f)) <= Cardinality(Slipped(f)) + 1
          BY <1>9
        <5> QED BY <1>9, <5>1, <5>2, Zenon
      <4>2. CASE k \notin Slipped(f)
        <5>1. IsFiniteSet(Slipped(f) \cup {k}) /\ Cardinality(Slipped(f) \cup {k}) = Cardinality(Slipped(f)) + 1
          BY <1>9, <4>2, FS_AddElement
        <5> QED BY <1>9, <5>1
      <4> QED BY <4>1, <4>2
    <3>5. Cardinality(Slipped(f)') <= Cardinality(Slipped(f) \cup {k}) /\ Cardinality(Slipped(f)') \in Nat
      BY <3>3, <3>4, FS_Subset, FS_CardinalityType
    <3> QED BY <1>3, <1>9, <3>4, <3>5
  <2>2. CASE ~ \E k \in reader.owed : Rank(k, f) = reader.offset
    <3>1. Slipped(f)' \subseteq Slipped(f)
      BY <1>2, <1>8, <2>2 DEF Slipped
    <3>2. Cardinality(Slipped(f)') <= Cardinality(Slipped(f)) /\ Cardinality(Slipped(f)') \in Nat
      BY <1>9, <3>1, FS_Subset, FS_CardinalityType
    <3> QED BY <1>3, <1>9, <3>2
  <2> QED BY <2>1, <2>2
<1>11. \A i \in reader'.owed : Matches(i, f)'
  BY <1>2, <1>3, <1>4
<1>12. Slipped(reader.filter)' = Slipped(f)' /\ \A i \in Ids : Matches(i, reader.filter)' = Matches(i, f)'
  BY <1>2 DEF Slipped, Matches, Rank
<1> QED BY <1>1, <1>2, <1>3, <1>10, <1>11, <1>12 DEF Ahead

(* A write to a row that keeps its day.                                    *)
LEMMA AheadWritten ==
    ASSUME Typed, Typed', Ahead, NEW l \in Ids, NEW row \in Row, UpdateRow(l, row),
           row.day_bucket = listings[l].day_bucket
    PROVE  Ahead'
<1>1. CASE Leaves(l, row)
  BY <1>1, AheadLeaving
<1>2. CASE ~ Leaves(l, row) /\ reader.pc = "paging"
  <2>1. reader' = reader /\ listings' = [listings EXCEPT ![l] = row] /\ listings \in [Ids -> Rows]
    BY <1>2 DEF UpdateRow, Typed
  <2>2. ASSUME NEW i \in Ids, Matches(i, reader.filter)
        PROVE  /\ listings'[i] \in Row /\ listings'[i].day_bucket = listings[i].day_bucket
               /\ reader.filter = None \/ listings'[i].status = reader.filter
    <3>1. CASE i = l
      BY <1>2, <2>1, <2>2, <3>1 DEF Leaves
    <3>2. CASE i # l
      BY <2>1, <2>2, <3>2, ExistsRow DEF Matches
    <3> QED BY <3>1, <3>2
  <2> QED BY <2>1, <2>2, AheadKept
<1>3. CASE reader.pc # "paging"
  BY <1>3 DEF UpdateRow, Leaves, Ahead
<1> QED BY <1>1, <1>2, <1>3

-----------------------------------------------------------------------------
(* The count of commits.                                                   *)

(* The committed updates of a listing can be counted.                      *)
LEMMA CommittedFinite ==
    ASSUME NEW l \in Ids
    PROVE  IsFiniteSet(Committed(l)) /\ Cardinality(Committed(l)) \in Nat
BY RequestsAssumption, FS_Subset, FS_CardinalityType DEF Committed

(* A step in which no request commits leaves every count alone.            *)
LEMMA NoneCommits ==
    ASSUME \A r \in Requests : \/ st'[r] = st[r]
                               \/ st[r].pc # "updated" /\ st'[r].pc # "updated"
    PROVE  \A l \in Ids : Committed(l)' = Committed(l)
BY DEF Committed

(* An update that commits is one more for its listing only.                *)
LEMMA OneCommits ==
    ASSUME Typed, NEW r \in Requests, st[r].pc = "read",
           st' = [st EXCEPT ![r] = [pc |-> "updated", listing |-> st[r].listing]]
    PROVE  \A l \in Ids : Cardinality(Committed(l)') =
              IF l = st[r].listing THEN Cardinality(Committed(l)) + 1 ELSE Cardinality(Committed(l))
<1> SUFFICES ASSUME NEW l \in Ids
             PROVE  Cardinality(Committed(l)') = IF l = st[r].listing THEN Cardinality(Committed(l)) + 1
                                                 ELSE Cardinality(Committed(l))
  OBVIOUS
<1>1. st \in [Requests -> Progress]
  BY DEF Typed
<1>2. CASE l = st[r].listing
  <2>1. Committed(l)' = Committed(l) \cup {r} /\ r \notin Committed(l)
    BY <1>1, <1>2 DEF Committed
  <2> QED BY <1>2, <2>1, CommittedFinite, FS_AddElement
<1>3. CASE l # st[r].listing
  <2>1. Committed(l)' = Committed(l)
    BY <1>1, <1>3 DEF Committed
  <2> QED BY <1>3, <2>1
<1> QED BY <1>2, <1>3

-----------------------------------------------------------------------------
(* The steps that write a row.                                             *)

(* An update adds one to the version and keeps the day.                    *)
LEMMA UpdatedType ==
    ASSUME NEW row \in Row, NEW req, req.status \in AllStatuses, req.blob \in Blobs
    PROVE  /\ Updated(row, req) \in Row /\ Updated(row, req).version = row.version + 1
           /\ Updated(row, req).day_bucket = row.day_bucket
           /\ Updated(row, req).status = req.status
<1> DEFINE status == req.status
           blob == req.blob
<1>1. blob \in Blobs
  OBVIOUS
<1>2. status \in AllStatuses /\ row.version + 1 \in Nat
  BY DEF Row
<1>3. Updated(row, req) = [row EXCEPT !.version = row.version + 1, !.blob = blob, !.status = status]
  BY DEF Updated, Row
<1> HIDE DEF status, blob
<1>4. /\ Updated(row, req) \in Row /\ Updated(row, req).version = row.version + 1
      /\ Updated(row, req).day_bucket = row.day_bucket /\ Updated(row, req).status = status
  BY <1>1, <1>2, <1>3 DEF Row
<1> QED BY <1>4 DEF status

(* The write of update_listing, guarded by the version it read.            *)
LEMMA UpdateWriteKeeps ==
    ASSUME ListInv, NEW r \in Requests, update_listing_write(r)
    PROVE  ListInv'
<1> DEFINE l == st[r].listing
<1>0. Typed /\ Reads /\ Snapshot /\ Written /\ Counted /\ Ahead
  BY DEF ListInv
<1>1. /\ st[r].pc = "read" /\ l \in Ids /\ st[r].status \in AllStatuses /\ st[r].blob \in Blobs
      /\ UNCHANGED <<clock, nonces, boots, job, expired>>
  BY <1>0 DEF update_listing_write, Typed, Progress
<1>2. CASE RowsAffected(l, st[r].version)
  <2> DEFINE new == Updated(listings[l], st[r])
  <2>1. /\ listings' = [listings EXCEPT ![l] = new] /\ UpdateRow(l, new)
        /\ st' = [st EXCEPT ![r] = [pc |-> "updated", listing |-> l]]
    BY <1>2 DEF update_listing_write, UpdateRow
  <2>2. listings[l] \in Row /\ Exists(l)
    BY <1>0, <1>1, <1>2, ExistsRow DEF RowsAffected, Typed
  <2>3. /\ new \in Row /\ new.version = listings[l].version + 1
        /\ new.day_bucket = listings[l].day_bucket
    BY <1>1, <2>2, UpdatedType
  <2> HIDE DEF new
  <2>4. listings' \in [Ids -> Rows] /\ st' \in [Requests -> Progress]
    BY <1>0, <1>1, <2>1, <2>3 DEF Typed, Rows, Progress
  <2>5. Typed'
    BY <1>0, <1>1, <2>1, <2>4, ReaderAfterWrite DEF Typed
  <2>6. RowsMove
    BY <1>0, <1>1, <2>1, <2>2, <2>3 DEF RowsMove, RowMoves, Typed
  <2>7. Reads'
    BY <1>0, <2>1, <2>5, <2>6, ReadsKept DEF Typed
  <2>8. Snapshot'
    BY <1>0, <1>1, <2>5, <2>6, SnapshotKept DEF Typed
  <2>9. Ahead'
    BY <1>0, <1>1, <2>1, <2>3, <2>5, AheadWritten
  <2>10. Written'
    <3>1. \A q \in Requests : st'[q].pc = "updated" => st'[q].listing \in Ids /\ Exists(st'[q].listing)
      BY <1>0, <1>1, <2>1, <2>2 DEF Written, Typed, Progress
    <3>2. \A m \in Ids : Exists(m) => Exists(m)'
      BY <1>0, <2>4, <2>6, RowsStay DEF Typed
    <3>3. \A m \in Ids : ~ Exists(m)' => expired'[m] = 0
      BY <1>0, <1>1, <3>2 DEF Written
    <3> QED BY <3>1, <3>2, <3>3 DEF Written, Exists
  <2>11. Counted'
    <3>1. SUFFICES ASSUME NEW m \in Ids, Exists(m)'
                   PROVE  listings'[m].version = 1 + Cardinality(Committed(m)') + expired'[m]
      BY DEF Counted, VersionCountsUpdates
    <3>2. Exists(m) /\ listings[m].version = 1 + Cardinality(Committed(m)) + expired[m]
      BY <1>0, <1>1, <2>1, <2>2, <3>1 DEF Counted, VersionCountsUpdates, Exists, Typed
    <3>3. Cardinality(Committed(m)) \in Nat /\ expired[m] \in Nat
      BY <1>0, CommittedFinite DEF Typed
    <3>4. Cardinality(Committed(m)') = IF m = l THEN Cardinality(Committed(m)) + 1 ELSE Cardinality(Committed(m))
      BY <1>0, <1>1, <2>1, OneCommits
    <3> QED BY <1>0, <1>1, <2>1, <2>3, <3>2, <3>3, <3>4 DEF Typed
  <2> QED BY <2>5, <2>7, <2>8, <2>9, <2>10, <2>11 DEF ListInv
<1>3. CASE ~ RowsAffected(l, st[r].version)
  <2>1. listings' = listings /\ reader' = reader /\ st' = [st EXCEPT ![r] = [pc |-> "conflict"]]
    BY <1>3 DEF update_listing_write, Reply
  <2>2. Typed'
    BY <1>0, <1>1, <2>1 DEF Typed, Progress
  <2>3. Reads' /\ Snapshot' /\ Ahead'
    <3>1. RowsMove
      BY <2>1 DEF RowsMove, RowMoves
    <3> QED BY <1>0, <1>1, <2>1, <2>2, <3>1, ReadsKept, SnapshotKept, AheadSame DEF Typed
  <2>4. Written'
    BY <1>0, <1>1, <2>1 DEF Written, Typed, Exists
  <2>5. Counted'
    BY <1>0, <1>1, <2>1, NoneCommits DEF Counted, VersionCountsUpdates, Exists, Typed
  <2> QED BY <2>2, <2>3, <2>4, <2>5 DEF ListInv
<1> QED BY <1>2, <1>3

(* create_listing: a new row, with version 1, on the day of now.           *)
LEMMA CreateKeeps ==
    ASSUME ListInv, NEW r \in Requests, NEW req \in CreateListingRequest, create_listing(r, req)
    PROVE  ListInv'
<1>0. Typed /\ Reads /\ Snapshot /\ Written /\ Counted /\ Ahead
  BY DEF ListInv
<1>1. st[r].pc = "new" /\ UNCHANGED <<clock, boots, job, expired, reader>>
  BY DEF create_listing
<1>2. CASE Reply(r, "replay") /\ listings' = listings
  <2>1. st' = [st EXCEPT ![r] = [pc |-> "replay"]]
    BY <1>2 DEF Reply
  <2>2. Typed'
    BY <1>0, <1>1, <1>2, <2>1 DEF Typed, Progress
  <2>3. Reads' /\ Snapshot' /\ Ahead'
    <3>1. RowsMove
      BY <1>2 DEF RowsMove, RowMoves
    <3> QED BY <1>0, <1>1, <1>2, <2>1, <2>2, <3>1, ReadsKept, SnapshotKept, AheadSame DEF Typed
  <2>4. Written'
    BY <1>0, <1>1, <1>2, <2>1 DEF Written, Typed, Exists
  <2>5. Counted'
    BY <1>0, <1>1, <1>2, <2>1, NoneCommits DEF Counted, VersionCountsUpdates, Exists, Typed
  <2> QED BY <2>2, <2>3, <2>4, <2>5 DEF ListInv
<1>3. CASE Reply(r, "created") /\ \E l \in Ids : ~ Exists(l) /\ listings' = [listings EXCEPT ![l] =
                     [version |-> 1, blob |-> ClientBlob, day_bucket |-> floor_timestamp_6h(clock),
                      status |-> FinalStatus(req, "active")]]
  <2> DEFINE new == [version |-> 1, blob |-> ClientBlob, day_bucket |-> floor_timestamp_6h(clock),
                     status |-> FinalStatus(req, "active")]
  <2>1. PICK l \in Ids : ~ Exists(l) /\ listings' = [listings EXCEPT ![l] = new]
    BY <1>3
  <2>2. st' = [st EXCEPT ![r] = [pc |-> "created"]]
    BY <1>3 DEF Reply
  <2>3. new \in Row /\ new.version = 1
    <3>1. floor_timestamp_6h(clock) \in Nat
      BY <1>0, FloorType, BoundAssumption DEF Typed
    <3>2. FinalStatus(req, "active") \in AllStatuses
      BY DEF FinalStatus, AllStatuses, CreateListingRequest
    <3> QED BY <3>1, <3>2 DEF Row, Blobs
  <2> HIDE DEF new
  <2>4. Typed'
    BY <1>0, <1>1, <2>1, <2>2, <2>3 DEF Typed, Rows, Progress
  <2>5. RowsMove
    BY <1>0, <2>1, <2>3 DEF RowsMove, RowMoves, Typed
  <2>6. Reads' /\ Snapshot'
    BY <1>0, <1>1, <2>2, <2>4, <2>5, ReadsKept, SnapshotKept DEF Typed
  <2>11. Ahead'
    <3>1. \A i \in Ids : Exists(i) => listings'[i] = listings[i] /\ listings[i] \in Row
      BY <1>0, <2>1, ExistsRow DEF Typed
    <3> QED BY <1>0, <1>1, <2>4, <3>1, AheadKept DEF Matches
  <2>7. \A m \in Ids : Exists(m)' <=> Exists(m) \/ m = l
    BY <1>0, <2>1, <2>3 DEF Exists, Typed, Row, NoRow
  <2>8. Written'
    BY <1>0, <1>1, <2>2, <2>7 DEF Written, Typed, Progress, Exists
  <2>9. Committed(l) = {} /\ expired[l] = 0
    BY <1>0, <2>1 DEF Written, Committed
  <2>10. Counted'
    <3>1. \A m \in Ids : Committed(m)' = Committed(m)
      BY <1>0, <1>1, <2>2, NoneCommits DEF Typed
    <3>2. SUFFICES ASSUME NEW m \in Ids, Exists(m)'
                   PROVE  listings'[m].version = 1 + Cardinality(Committed(m)') + expired'[m]
      BY DEF Counted, VersionCountsUpdates
    <3>3. CASE m = l
      <4>1. Cardinality(Committed(m)') = 0 /\ expired'[m] = 0
        BY <1>1, <2>9, <3>1, <3>3, FS_EmptySet
      <4>2. listings'[m].version = 1
        BY <1>0, <2>1, <2>3, <3>3 DEF Typed
      <4> QED BY <4>1, <4>2
    <3>4. CASE m # l
      BY <1>0, <1>1, <2>1, <2>7, <3>1, <3>2, <3>4 DEF Typed, Counted, VersionCountsUpdates
    <3> QED BY <3>3, <3>4
  <2> QED BY <2>4, <2>6, <2>8, <2>10, <2>11 DEF ListInv
<1> QED BY <1>2, <1>3 DEF create_listing

(* The job writes the row it read, if it is still that row.                *)
LEMMA ExpireKeeps ==
    ASSUME ListInv, NEW l \in Ids, expire_listing(l)
    PROVE  ListInv'
<1>0. Typed /\ Reads /\ Snapshot /\ Written /\ Counted /\ Ahead
  BY DEF ListInv
<1> DEFINE row == job.snap[l]
<1>1. row # NoRow /\ job' = [job EXCEPT !.snap[l] = NoRow] /\ UNCHANGED <<clock, st, nonces, boots>>
  BY DEF expire_listing, apiVars
<1>2. /\ job' \in [snap : [Ids -> Rows], now : Nat] /\ job'.now = job.now
      /\ \A m \in Ids : job'.snap[m] \in {job.snap[m], NoRow}
  BY <1>0, <1>1 DEF Typed, Rows
<1>3. CASE Expires(row, job.now) /\ RowsAffected(l, row.version)
  <2> DEFINE new == [listings[l] EXCEPT !.status = "expired", !.blob = row.blob, !.version = @ + 1]
  <2>1. /\ UpdateRow(l, new) /\ listings' = [listings EXCEPT ![l] = new]
        /\ expired' = [expired EXCEPT ![l] = @ + 1]
    BY <1>3 DEF expire_listing, UpdateRow
  <2>2. listings[l] \in Row /\ Exists(l) /\ row \in Row
    BY <1>0, <1>1, <1>3, ExistsRow DEF RowsAffected, Typed, Rows
  <2>0. /\ new \in Row /\ new.version = listings[l].version + 1
        /\ new.day_bucket = listings[l].day_bucket
    <3>1. PICK blob \in Blobs : blob = row.blob
      BY <2>2 DEF Row
    <3>2. listings[l].version + 1 \in Nat /\ "expired" \in AllStatuses
      BY <2>2 DEF Row, AllStatuses
    <3>3. new = [listings[l] EXCEPT !.status = "expired", !.blob = blob, !.version = @ + 1]
      BY <3>1
    <3> QED BY <2>2, <3>2, <3>3 DEF Row
  <2> HIDE DEF new
  <2>3. /\ listings'[l] \in Row /\ listings'[l].version = listings[l].version + 1
        /\ listings'[l].day_bucket = listings[l].day_bucket
    BY <1>0, <2>0, <2>1 DEF Typed
  <2>4. \A m \in Ids \ {l} : listings'[m] = listings[m]
    BY <1>0, <2>1 DEF Typed
  <2>5. Typed'
    <3>1. listings' \in [Ids -> Rows]
      BY <1>0, <2>1, <2>3, <2>4 DEF Typed, Rows
    <3> QED BY <1>0, <1>1, <1>2, <2>1, <3>1, ReaderAfterWrite DEF Typed
  <2>6. RowsMove
    BY <2>2, <2>3, <2>4 DEF RowsMove, RowMoves
  <2>7. Reads' /\ Snapshot' /\ Ahead'
    BY <1>0, <1>1, <1>2, <2>0, <2>1, <2>5, <2>6, ReadsKept, SnapshotKept, AheadWritten, BoundAssumption DEF Typed
  <2>8. \A m \in Ids : Exists(m)' <=> Exists(m)
    BY <2>2, <2>3, <2>4 DEF Exists, Row, NoRow
  <2>9. Written'
    BY <1>0, <1>1, <2>1, <2>2, <2>8 DEF Written, Typed, Progress
  <2>10. Counted'
    <3>1. \A m \in Ids : Committed(m)' = Committed(m)
      BY <1>1 DEF Committed
    <3>2. \A m \in Ids : Cardinality(Committed(m)) \in Nat /\ expired[m] \in Nat
      BY <1>0, CommittedFinite DEF Typed
    <3> QED BY <1>0, <2>1, <2>3, <2>4, <2>8, <3>1, <3>2 DEF Counted, VersionCountsUpdates, Typed
  <2> QED BY <2>5, <2>7, <2>9, <2>10 DEF ListInv
<1>4. CASE listings' = listings /\ expired' = expired /\ reader' = reader
  <2>1. Typed' /\ RowsMove
    BY <1>0, <1>1, <1>2, <1>4 DEF Typed, RowsMove, RowMoves
  <2>2. Reads' /\ Snapshot' /\ Ahead'
    BY <1>0, <1>1, <1>2, <1>4, <2>1, ReadsKept, SnapshotKept, AheadSame, BoundAssumption DEF Typed
  <2>3. Written' /\ Counted'
    BY <1>0, <1>1, <1>4 DEF Written, Counted, VersionCountsUpdates, Committed, Exists
  <2> QED BY <2>1, <2>2, <2>3 DEF ListInv
<1> QED BY <1>3, <1>4 DEF expire_listing

-----------------------------------------------------------------------------
(* The steps that leave the table alone.                                   *)

(* The read of update_listing.                                             *)
LEMMA UpdateReadKeeps ==
    ASSUME ListInv, NEW r \in Requests, NEW req \in UpdateListingRequest, update_listing_read(r, req)
    PROVE  ListInv'
<1>0. Typed /\ Reads /\ Snapshot /\ Written /\ Counted /\ Ahead
  BY DEF ListInv
<1> DEFINE l == req.listing
           pending == [pc |-> "read", listing |-> l, version |-> listings[l].version,
                       status |-> FinalStatus(req, listings[l].status), omitted |-> req.status = None,
                       blob |-> req.blob]
<1>1. /\ st[r].pc \in {"new", "fetched"} /\ l \in Ids /\ req.blob \in Blobs
      /\ UNCHANGED <<listings, clock, boots, job, expired, reader>>
      /\ \/ \E result \in {"replay", "not_found"} : st' = [st EXCEPT ![r] = [pc |-> result]]
         \/ Exists(l) /\ st' = [st EXCEPT ![r] = pending]
  BY DEF update_listing_read, Sends, UpdateListingRequest, Reply
<1>2. Exists(l) => /\ listings[l] \in Row /\ pending \in Progress
                   /\ pending.omitted => pending.status = listings[l].status
  <2>1. SUFFICES ASSUME Exists(l) PROVE /\ listings[l] \in Row /\ pending \in Progress
                                        /\ pending.omitted => pending.status = listings[l].status
    OBVIOUS
  <2>2. listings[l] \in Row
    BY <1>0, <1>1, <2>1, ExistsRow DEF Typed
  <2>3. FinalStatus(req, listings[l].status) \in AllStatuses
    BY <2>2 DEF FinalStatus, AllStatuses, UpdateListingRequest, Row
  <2>4. pending \in Progress
    BY <1>1, <2>2, <2>3 DEF Progress, Row
  <2> QED BY <2>2, <2>4 DEF FinalStatus
<1>3. Typed'
  <2> HIDE DEF pending
  <2>1. st' \in [Requests -> Progress]
    <3>1. \A result \in {"replay", "not_found"} : [pc |-> result] \in Progress
      BY DEF Progress
    <3> QED BY <1>0, <1>1, <1>2, <3>1 DEF Typed
  <2> QED BY <1>0, <1>1, <2>1 DEF Typed
<1>4. Reads'
  <2>1. SUFFICES ASSUME NEW q \in Requests, st'[q].pc = "read"
                 PROVE  LET row == listings[st'[q].listing] IN
                        /\ row \in Row
                        /\ st'[q].version <= row.version
                        /\ st'[q].version = row.version /\ st'[q].omitted => st'[q].status = row.status
    BY <1>1 DEF Reads
  <2>2. CASE q = r
    <3>1. Exists(l) /\ st'[q] = pending
      BY <1>0, <1>1, <2>1, <2>2 DEF Typed
    <3>2. listings[l].version \in Nat
      BY <1>2, <3>1 DEF Row
    <3> QED BY <1>2, <3>1, <3>2
  <2>3. CASE q # r
    BY <1>0, <1>1, <2>1, <2>3 DEF Reads, Typed
  <2> QED BY <2>2, <2>3
<1>5. Snapshot' /\ Ahead'
  BY <1>0, <1>1, AheadSame DEF Snapshot
<1>6. Written'
  BY <1>0, <1>1 DEF Written, Typed, Exists
<1>7. Counted'
  <2>1. \A m \in Ids : Committed(m)' = Committed(m)
    BY <1>0, <1>1, NoneCommits DEF Typed
  <2> QED BY <1>0, <1>1, <2>1 DEF Counted, VersionCountsUpdates, Exists
<1> QED BY <1>3, <1>4, <1>5, <1>6, <1>7 DEF ListInv

(* A client fetches a listing.                                             *)
LEMMA FetchKeeps ==
    ASSUME ListInv, NEW r \in Requests, NEW l \in Ids, get_listing(r, l)
    PROVE  ListInv'
<1>0. Typed /\ Reads /\ Snapshot /\ Written /\ Counted /\ Ahead
  BY DEF ListInv
<1> DEFINE blob == listings[l].blob
<1>1. /\ st[r].pc = "new" /\ UNCHANGED <<listings, clock, boots, job, expired, reader>>
      /\ st' = [st EXCEPT ![r] = [pc |-> "fetched", listing |-> l, blob |-> blob]]
  BY DEF get_listing
<1>2. blob \in Blobs
  BY <1>0, ExistsRow DEF get_listing, Typed, Row
<1> HIDE DEF blob
<1>3. Typed'
  BY <1>0, <1>1, <1>2 DEF Typed, Progress
<1>4. Reads' /\ Written'
  BY <1>0, <1>1 DEF Reads, Written, Typed, Exists
<1>5. Snapshot' /\ Ahead'
  BY <1>0, <1>1, AheadSame DEF Snapshot
<1>6. Counted'
  BY <1>0, <1>1, NoneCommits DEF Counted, VersionCountsUpdates, Exists, Typed
<1> QED BY <1>3, <1>4, <1>5, <1>6 DEF ListInv

(* A reader who starts is owed what matches.                               *)
LEMMA StartPagingAhead ==
    ASSUME Typed, NEW f \in Filters, NEW n \in Limits, StartPaging(f, n)
    PROVE  reader' \in ReaderType /\ Ahead'
<1>1. /\ reader'.pc = "paging" /\ reader'.filter = f /\ reader'.offset = 0 /\ reader'.left = 0
      /\ reader'.owed = {l \in Ids : Matches(l, f)} /\ reader' \in ReaderType
      /\ listings' = listings
  BY LimitAssumption DEF StartPaging, ReaderType
<1>2. \A l \in reader'.owed : Matches(l, f)'
  BY <1>1 DEF Matches, Exists
<1>3. Slipped(reader.filter)' = {}
  <2>0. \A l \in Ids : Rank(l, f) \in Nat
    BY RankType DEF Typed
  <2>3. \A l \in Ids : Rank(l, f)' = Rank(l, f)
    BY <1>1 DEF Rank, Matches, Exists, Before
  <2>1. \A l \in Ids : Rank(l, f)' = Rank(l, f) /\ Rank(l, f) \in Nat
    BY <2>0, <2>3
  <2>2. Slipped(f)' = {}
    BY <1>1, <2>1 DEF Slipped
  <2> QED BY <1>1, <2>2 DEF Slipped, Rank, Matches
<1>4. \A l \in Ids : Matches(l, reader.filter)' = Matches(l, f)'
  BY <1>1 DEF Matches
<1>5. reader'.owed \subseteq Ids
  BY <1>1
<1> QED BY <1>1, <1>2, <1>3, <1>4, <1>5, FS_EmptySet DEF Ahead

(* A page holds the next listings without a gap, so nothing more slips;    *)
(* when it is empty, what is owed has slipped already.                     *)
LEMMA NextPageAhead ==
    ASSUME Typed, Ahead, NextPage
    PROVE  reader' \in ReaderType /\ Ahead'
<1>0. PICK f \in Filters \cup {None} : f = reader.filter
  BY DEF Typed, ReaderType
<1> DEFINE page == list_listings(f, reader.limit, reader.offset)
<1>1. /\ reader.pc = "paging" /\ reader.limit \in Nat /\ reader.offset \in Nat /\ reader.left \in Nat
      /\ reader.owed \in SUBSET Ids /\ reader \in ReaderType /\ listings \in [Ids -> Rows]
      /\ \A l \in reader.owed : Matches(l, f)
      /\ Cardinality(Slipped(f)) <= reader.left
      /\ listings' = listings
  BY <1>0 DEF Typed, ReaderType, Ahead, NextPage
<1>2. page \in SUBSET Ids /\ Cardinality(page) \in Nat /\ Cardinality(page) <= Clamp(reader.limit)
  BY <1>1, PageSize
<1>3. CASE page = {}
  <2>1. reader' = [reader EXCEPT !.pc = "done"]
    BY <1>0, <1>3 DEF NextPage
  <2>2. \A l \in reader.owed : Rank(l, f) \in Nat /\ ~ (Rank(l, f) >= reader.offset)
    BY <1>1, <1>3, PageFull, RankType
  <2>3. reader.owed = Slipped(f)
    BY <1>1, <2>2 DEF Slipped
  <2>4. /\ reader'.pc = "done" /\ reader'.owed = reader.owed /\ reader'.left = reader.left
        /\ reader'.filter = reader.filter /\ reader' \in ReaderType
    BY <1>1, <2>1 DEF ReaderType
  <2> QED BY <1>1, <2>3, <2>4 DEF Ahead
<1>4. CASE page # {}
  <2> DEFINE owed == reader.owed \ page
             offset == reader.offset + Cardinality(page)
  <2>1. reader' = [reader EXCEPT !.owed = owed, !.offset = offset]
    BY <1>0, <1>1, <1>4 DEF NextPage, ReaderType
  <2>2. owed \in SUBSET Ids /\ offset \in Nat
    BY <1>1, <1>2
  <2>3. ASSUME NEW l \in owed, Rank(l, f) < offset PROVE Rank(l, f) < reader.offset
    <3>1. Rank(l, f) \notin reader.offset .. reader.offset + Clamp(reader.limit) - 1
      BY <1>1, <2>3 DEF list_listings
    <3>2. Rank(l, f) \in Nat /\ Clamp(reader.limit) \in Nat
      BY <1>1, <2>3, RankType, ClampType
    <3> QED BY <1>1, <1>2, <2>3, <3>1, <3>2
  <2> HIDE DEF owed, offset
  <2>4. /\ reader'.pc = "paging" /\ reader'.owed = owed /\ reader'.left = reader.left
        /\ reader'.filter = f /\ reader'.offset = offset /\ reader' \in ReaderType
    BY <1>0, <1>1, <2>1, <2>2 DEF ReaderType
  <2>5. \A l \in Ids : Rank(l, f)' = Rank(l, f) /\ (Matches(l, f)' <=> Matches(l, f))
    BY <1>1 DEF Rank, Matches, Exists, Before
  <2>6. Slipped(f)' \subseteq Slipped(f)
    <3>1. owed \subseteq reader.owed
      BY DEF owed
    <3> QED BY <2>2, <2>3, <2>4, <2>5, <3>1 DEF Slipped
  <2>7. Cardinality(Slipped(f)') <= reader.left
    <3>1. /\ Cardinality(Slipped(f)') <= Cardinality(Slipped(f))
          /\ Cardinality(Slipped(f)') \in Nat /\ Cardinality(Slipped(f)) \in Nat
      BY <1>1, <2>6, SlippedFinite
    <3> QED BY <1>1, <3>1
  <2>8. \A l \in owed : Matches(l, f)'
    BY <1>1, <2>2, <2>5 DEF owed
  <2>9. Slipped(reader.filter)' = Slipped(f)' /\ \A i \in Ids : Matches(i, reader.filter)' = Matches(i, f)'
    BY <2>4 DEF Slipped, Matches, Rank
  <2> QED BY <1>0, <2>2, <2>4, <2>7, <2>8, <2>9 DEF Ahead
<1> QED BY <1>3, <1>4

(* A reader who starts, and one who asks for the next page.                *)
LEMMA PagingKeeps ==
    ASSUME ListInv, NextPage \/ \E filter \in Filters, n \in Limits : StartPaging(filter, n)
    PROVE  ListInv'
<1>0. Typed /\ Reads /\ Snapshot /\ Written /\ Counted /\ Ahead
  BY DEF ListInv
<1>1. UNCHANGED <<listings, clock, st, nonces, boots, job, expired>>
  BY DEF NextPage, StartPaging, apiVars
<1>2. Reads' /\ Snapshot' /\ Written' /\ Counted'
  BY <1>0, <1>1 DEF Reads, Snapshot, Written, Counted, VersionCountsUpdates, Committed, Exists
<1>3. reader' \in ReaderType /\ Ahead'
  BY <1>0, StartPagingAhead, NextPageAhead
<1>4. Typed'
  BY <1>0, <1>1, <1>3 DEF Typed
<1> QED BY <1>2, <1>3, <1>4 DEF ListInv

(* The expiry job reads all listings, or gives up.                         *)
LEMMA ScanKeeps ==
    ASSUME ListInv, check_listing_expiry \/ ScanAborts
    PROVE  ListInv'
<1>0. Typed /\ Reads /\ Snapshot /\ Written /\ Counted /\ Ahead
  BY DEF ListInv
<1>1. UNCHANGED <<listings, clock, st, nonces, expired, reader>> /\ boots' \in 0 .. MaxRestarts
  BY <1>0, BoundAssumption DEF check_listing_expiry, ScanAborts, apiVars, Typed
<1>2. Reads' /\ Written' /\ Counted' /\ Ahead'
  BY <1>0, <1>1, AheadSame DEF Reads, Written, Counted, VersionCountsUpdates, Committed, Exists
<1>3. CASE check_listing_expiry
  <2>1. job' = [snap |-> [l \in Ids |-> IF Exists(l) /\ listings[l].status = "active"
                                          THEN listings[l] ELSE NoRow],
                now |-> floor_timestamp_6h(clock)]
    BY <1>3 DEF check_listing_expiry
  <2>2. floor_timestamp_6h(clock) \in Nat /\ floor_timestamp_6h(clock) <= clock
    BY <1>0, FloorType, BoundAssumption DEF Typed
  <2>3. Typed'
    BY <1>0, <1>1, <2>1, <2>2 DEF Typed, Rows
  <2>4. \A l \in Ids : listings[l] \in Row => listings[l].version \in Nat
    BY DEF Row
  <2>5. Snapshot'
    BY <1>0, <1>1, <2>1, <2>2, <2>4, ExistsRow DEF Snapshot, Typed
  <2> QED BY <1>2, <2>3, <2>5 DEF ListInv
<1>4. CASE ScanAborts
  <2>1. job' = [job EXCEPT !.snap = [l \in Ids |-> NoRow]]
    BY <1>4 DEF ScanAborts
  <2>2. Typed'
    BY <1>0, <1>1, <2>1 DEF Typed, Rows
  <2>3. Snapshot'
    BY <1>0, <1>1, <2>1 DEF Snapshot, Typed
  <2> QED BY <1>2, <2>2, <2>3 DEF ListInv
<1> QED BY <1>3, <1>4

(* A restart of the API loses the requests in progress.                    *)
LEMMA RestartKeeps ==
    ASSUME ListInv, ApiRestart
    PROVE  ListInv'
<1>0. Typed /\ Reads /\ Snapshot /\ Written /\ Counted /\ Ahead
  BY DEF ListInv
<1>1. /\ UNCHANGED <<listings, clock, job, expired, reader>> /\ boots' \in 0 .. MaxRestarts
      /\ st' = [r \in Requests |-> IF st[r].pc = "read" THEN [pc |-> "lost"] ELSE st[r]]
  BY <1>0, BoundAssumption DEF ApiRestart, Typed
<1>2. Typed'
  BY <1>0, <1>1 DEF Typed, Progress
<1>3. Reads' /\ Written'
  BY <1>0, <1>1 DEF Reads, Written, Exists
<1>4. Snapshot' /\ Ahead'
  BY <1>0, <1>1, AheadSame DEF Snapshot
<1>5. \A l \in Ids : Committed(l)' = Committed(l)
  BY <1>1 DEF Committed
<1>6. Counted'
  BY <1>0, <1>1, <1>5 DEF Counted, VersionCountsUpdates, Exists
<1> QED BY <1>2, <1>3, <1>4, <1>6 DEF ListInv

(* Time, and steps of others.                                              *)
LEMMA TickKeeps ==
    ASSUME ListInv, Tick \/ UNCHANGED vars
    PROVE  ListInv'
<1>0. Typed /\ Reads /\ Snapshot /\ Written /\ Counted /\ Ahead
  BY DEF ListInv
<1>1. /\ UNCHANGED <<listings, st, nonces, boots, job, expired, reader>>
      /\ clock' \in 0 .. MaxTime /\ clock' >= clock
  BY <1>0, BoundAssumption DEF Tick, vars, apiVars, Typed
<1>2. Typed'
  BY <1>0, <1>1 DEF Typed
<1>3. Reads' /\ Written' /\ Counted' /\ Ahead'
  BY <1>0, <1>1, AheadSame DEF Reads, Written, Counted, VersionCountsUpdates, Committed, Exists
<1>4. Snapshot'
  BY <1>0, <1>1, BoundAssumption DEF Snapshot, Typed
<1> QED BY <1>2, <1>3, <1>4 DEF ListInv

-----------------------------------------------------------------------------
(* Listings as an older release left them.                                 *)
LEMMA ListInitInv == ListInit => ListInv
<1> SUFFICES ASSUME ListInit PROVE ListInv
  OBVIOUS
<1>1. listings \in [Ids -> Rows] /\ \A l \in Ids : Exists(l) => listings[l].version = 1
  <2> DEFINE old == {[version |-> 1, status |-> "active", blob |-> WorkerBlob(exp),
                      day_bucket |-> 0] : exp \in ExpiresAt \cup {Never}}
  <2>1. \A row \in old : row \in Row /\ row.version = 1
    BY DEF Row, Blobs, AllStatuses
  <2>2. listings \in [Ids -> {NoRow} \cup old]
    BY DEF ListInit
  <2> HIDE DEF old
  <2> QED BY <2>1, <2>2 DEF Rows, Exists
<1>2. Typed
  BY <1>1, BoundAssumption DEF ListInit, Typed, Rows, Progress, ReaderType
<1>3. Reads /\ Snapshot /\ Written /\ Ahead
  BY DEF ListInit, Reads, Snapshot, Written, Ahead
<1>4. \A l \in Ids : Committed(l) = {} /\ expired[l] = 0
  BY DEF ListInit, Committed
<1>5. Counted
  BY <1>1, <1>4, FS_EmptySet DEF Counted, VersionCountsUpdates
<1> QED BY <1>2, <1>3, <1>5 DEF ListInv

(* The inductive invariant of the listings table.                          *)
THEOREM ListInvariant == ListSpec => []ListInv
<1>1. ListInv /\ [ListNext]_vars => ListInv'
  BY UpdateWriteKeeps, CreateKeeps, FetchKeeps, UpdateReadKeeps, PagingKeeps, ExpireKeeps, ScanKeeps,
     RestartKeeps, TickKeeps DEF ListNext
<1> QED BY <1>1, ListInitInv, PTL DEF ListSpec

(* Every variable keeps its type: handlers and job only ever store whole   *)
(* rows.                                                                   *)
THEOREM ListTypeCorrect == ListSpec => []ListTypeOK
<1>1. ListInv => ListTypeOK
  BY DEF ListInv, Typed, ListTypeOK, Rows, Progress, Pending, Results, ReaderType
<1> QED BY <1>1, ListInvariant, PTL

(* A listing's version is one more than the commits of update_listing and  *)
(* of the expiry job together.                                             *)
THEOREM ListVersionCountsUpdates == ListSpec => []VersionCountsUpdates
<1>1. ListInv => VersionCountsUpdates
  BY DEF ListInv, Counted
<1> QED BY <1>1, ListInvariant, PTL

(* A client that reads GET /listings page after page, with any filter and  *)
(* page size, misses at most one listing for each time a row has stopped   *)
(* to match the filter meanwhile, and without a filter none.               *)
THEOREM ListPagingSkipsNothing == ListSpec => []PagingSkipsNothing
<1>1. ListInv => PagingSkipsNothing
  <2> SUFFICES ASSUME ListInv, reader.pc = "done"
               PROVE  /\ Cardinality(reader.owed) <= reader.left
                      /\ reader.filter = None => reader.owed = {}
    BY DEF PagingSkipsNothing
  <2>1. /\ reader.owed \in SUBSET Ids /\ Cardinality(reader.owed) <= reader.left
        /\ reader.filter = None => reader.left = 0
    BY DEF ListInv, Ahead, Typed, ReaderType
  <2>2. IsFiniteSet(reader.owed) /\ Cardinality(reader.owed) \in Nat
    BY <2>1, IdsAssumption, FS_Subset, FS_CardinalityType
  <2>3. Cardinality(reader.owed) = 0 => reader.owed = {}
    BY <2>2, FS_EmptySet
  <2> QED BY <2>1, <2>2, <2>3
<1> QED BY <1>1, ListInvariant, PTL

(* An update that leaves the status out writes the one the row has.        *)
THEOREM ListOmittedStatusKept == ListSpec => OmittedStatusKept
<1>1. ASSUME ListInv, [ListNext]_vars, NEW r \in Requests, Commits(r), st[r].omitted
      PROVE  listings'[st[r].listing].status = listings[st[r].listing].status
  <2>1. Typed /\ Reads /\ st[r].pc = "read" /\ st'[r].pc = "updated" /\ st'[r] # st[r]
    BY <1>1 DEF ListInv, Commits
  <2>2. update_listing_write(r)
    <3>1. ASSUME NEW q \in Requests, update_listing_write(q) PROVE q = r
      BY <2>1, <3>1 DEF update_listing_write, Reply, Typed
    <3>2. ASSUME NEW q \in Requests, NEW req \in CreateListingRequest, create_listing(q, req) PROVE FALSE
      BY <2>1, <3>2 DEF create_listing, Reply, Typed
    <3>3. ASSUME NEW q \in Requests, NEW req \in UpdateListingRequest, update_listing_read(q, req) PROVE FALSE
      BY <2>1, <3>3 DEF update_listing_read, Sends, Reply, Typed
    <3>4. ASSUME ApiRestart PROVE FALSE
      BY <2>1, <3>4, SMTT(30) DEF ApiRestart
    <3>6. ASSUME NEW q \in Requests, NEW m \in Ids, get_listing(q, m) PROVE FALSE
      BY <2>1, <3>6 DEF get_listing, Typed
    <3>5. (\E q \in Requests : update_listing_write(q)) \/ UNCHANGED st
      BY <1>1, <3>2, <3>3, <3>4, <3>6 DEF ListNext, vars, apiVars, StartPaging, NextPage,
         check_listing_expiry, expire_listing, ScanAborts, Tick
    <3> QED BY <2>1, <3>1, <3>5
  <2> DEFINE l == st[r].listing
  <2>3. RowsAffected(l, st[r].version) /\ listings' = [listings EXCEPT ![l] = Updated(listings[l], st[r])]
    BY <2>1, <2>2 DEF update_listing_write, UpdateRow, Reply, Typed
  <2>4. /\ l \in Ids /\ listings[l] \in Row /\ st[r].status \in AllStatuses /\ st[r].blob \in Blobs
        /\ st[r].status = listings[l].status
    BY <1>1, <2>1, <2>3 DEF Reads, RowsAffected, Typed, Progress
  <2>5. listings'[l].status = st[r].status
    BY <2>1, <2>3, <2>4, UpdatedType DEF Typed
  <2> QED BY <2>4, <2>5
<1>2. ListInv /\ [ListNext]_vars => [\A r \in Requests : Commits(r) /\ st[r].omitted
          => listings'[st[r].listing].status = listings[st[r].listing].status]_vars
  BY <1>1
<1> QED BY <1>2, ListInvariant, PTL DEF ListSpec, OmittedStatusKept

(* The expiry job overwrites only a row that is the one it read, active    *)
(* and past its expiry.                                                    *)
THEOREM ListExpiresOnlyWhatItRead == ListSpec => ExpiresOnlyWhatItRead
<1>1. ASSUME ListInv, [ListNext]_vars, NEW l \in Ids, expired'[l] # expired[l]
      PROVE  /\ listings[l].blob \in {WorkerBlob(exp) : exp \in {e \in ExpiresAt : e <= clock}}
             /\ listings[l].status = "active"
             /\ listings'[l].blob = listings[l].blob
  <2>1. Typed /\ Snapshot
    BY <1>1 DEF ListInv
  <2>2. PICK m \in Ids : expire_listing(m)
    BY <1>1 DEF ListNext, vars, apiVars, StartPaging, NextPage, check_listing_expiry, ScanAborts, Tick,
       ApiRestart, get_listing, update_listing_read, update_listing_write, create_listing
  <2>3. m = l
    BY <1>1, <2>1, <2>2 DEF expire_listing, Typed
  <2> DEFINE row == job.snap[l]
  <2>4. /\ row # NoRow /\ Expires(row, job.now) /\ RowsAffected(l, row.version)
        /\ listings' = [listings EXCEPT ![l] = [listings[l] EXCEPT !.status = "expired", !.blob = row.blob,
                                                                   !.version = @ + 1]]
    BY <1>1, <2>2, <2>3 DEF expire_listing, UpdateRow
  <2>5. listings[l] = row /\ row.status = "active" /\ listings[l] \in Row
    BY <2>1, <2>4 DEF Snapshot, RowsAffected
  <2>6. listings'[l].blob = row.blob
    BY <2>1, <2>4, <2>5 DEF Typed, Row
  <2>7. row.blob \in {WorkerBlob(exp) : exp \in {e \in ExpiresAt : e <= clock}}
    <3>1. row.blob \in Blobs /\ row.blob.key = "worker" /\ row.blob.expires_at # Never
          /\ job.now >= row.blob.expires_at
      BY <2>4, <2>5 DEF Row, Expires, decrypt_listing_blob_ok
    <3>2. PICK exp \in ExpiresAt \cup {Never} : row.blob = WorkerBlob(exp)
      BY <3>1 DEF Blobs, ClientBlob
    <3>3. exp \in ExpiresAt /\ exp <= job.now
      BY <3>1, <3>2 DEF WorkerBlob
    <3>4. exp <= clock
      BY <2>1, <3>3, ExpiresAssumption, BoundAssumption DEF Snapshot, Typed
    <3> QED BY <3>2, <3>3, <3>4
  <2> QED BY <2>5, <2>6, <2>7
<1>2. ListInv /\ [ListNext]_vars => [\A l \in Ids : expired'[l] # expired[l] =>
          /\ listings[l].blob \in {WorkerBlob(exp) : exp \in {e \in ExpiresAt : e <= clock}}
          /\ listings[l].status = "active"
          /\ listings'[l].blob = listings[l].blob]_vars
  BY <1>1
<1> QED BY <1>2, ListInvariant, PTL DEF ListSpec, ExpiresOnlyWhatItRead
=============================================================================
