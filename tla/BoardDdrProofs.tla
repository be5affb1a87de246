--------------------------- MODULE BoardDdrProofs ---------------------------
(***************************************************************************)
(* What sets the DDR of a board up before the drivers use it: U-Boot's     *)
(* partition table, for every set of partitions, capacity and width of     *)
(* total_size; U-Boot's controller, for every set of settings; and         *)
(* the kernel's layout in force, for any number of callers, any layouts    *)
(* they pass and any address space.                                        *)
(***************************************************************************)
EXTENDS DdrPartition, DdrInit, DdrLayout, SumTheorems

----------------------------------------------------------------------------
(* Names and ids of the table *)

PartitionInv == PartitionTypeOK /\ NamesUnique /\ IdsFollowPositions

(* The empty table that init, cleanup and the start of the program leave. *)
LEMMA EmptyKeepsInv ==
  ASSUME PartitionAssumption, ready' \in BOOLEAN, Emptied
  PROVE  PartitionInv'
<1>1. PartitionTypeOK'
  <2>1. Len(<<>>) = 0 /\ <<>> \in Seq(Entry)
    OBVIOUS
  <2>2. 0 \in 0..(SizeWrap - 1) /\ 0 <= MaxPartitions
    BY DEF PartitionAssumption
  <2>3. QED
    BY <2>1, <2>2 DEF PartitionTypeOK, Emptied, Ids
<1>2. NamesUnique' /\ IdsFollowPositions'
  BY DEF NamesUnique, IdsFollowPositions, Emptied
<1>3. QED
  BY <1>1, <1>2 DEF PartitionInv

(* An add appends: the entries before it stay where they are. *)
LEMMA EnteredSeq ==
  ASSUME table \in Seq(Entry), NEW e \in Entry
  PROVE  /\ Enter(e) \in Seq(Entry)
         /\ Len(Enter(e)) = Len(table) + 1
         /\ Enter(e)[Len(table) + 1] = e
         /\ \A i \in 1..Len(table) : Enter(e)[i] = table[i]
BY DEF Enter

LEMMA AddKeepsInv ==
  ASSUME PartitionAssumption, PartitionInv, NEW p \in Partitions, PartitionAdd(p)
  PROVE  PartitionInv'
<1> DEFINE n == Len(table)
           e == [id |-> NextId, part |-> p]
<1>1. n \in Nat /\ n < MaxPartitions /\ MaxPartitions \in Nat
  BY DEF PartitionInv, PartitionTypeOK, PartitionAdd, HasRoom, PartitionAssumption
<1>2. e \in Entry /\ NextId = n + 1 /\ NextId \in Ids
  BY <1>1 DEF Entry, NextId, Ids
<1>3. /\ table' \in Seq(Entry) /\ Len(table') = n + 1 /\ table'[n + 1] = e
      /\ \A i \in 1..n : table'[i] = table[i]
  BY <1>2, EnteredSeq DEF PartitionAdd, PartitionInv, PartitionTypeOK
<1>4. PartitionTypeOK'
  <2>1. totalSize' \in 0..(SizeWrap - 1)
    <3>1. totalSize + p.size \in Int /\ SizeWrap \in Nat \ {0}
      BY DEF PartitionInv, PartitionTypeOK, PartitionAssumption
    <3>2. (totalSize + p.size) % SizeWrap \in 0..(SizeWrap - 1)
      BY <3>1
    <3>3. QED
      BY <3>2 DEF PartitionAdd
  <2>2. issued' \in [Ids -> Int]
    BY <1>2 DEF PartitionInv, PartitionTypeOK, PartitionAdd
  <2>3. QED
    BY <1>1, <1>3, <2>1, <2>2 DEF PartitionInv, PartitionTypeOK, PartitionAdd
<1>5. NamesUnique'
  <2> SUFFICES ASSUME NEW i \in 1..(n + 1), NEW j \in 1..(n + 1),
                      table'[i].part.name = table'[j].part.name
               PROVE  i = j
    BY <1>3 DEF NamesUnique
  <2>1. \A k \in 1..n : table'[k].part.name # p.name
    BY <1>3 DEF PartitionAdd, IsNew
  <2>2. table'[n + 1].part.name = p.name
    BY <1>3
  <2>3. CASE i \in 1..n /\ j \in 1..n
    BY <1>3, <2>3 DEF PartitionInv, NamesUnique
  <2>4. CASE i = n + 1 \/ j = n + 1
    BY <1>1, <2>1, <2>2, <2>4
  <2>5. QED
    BY <1>1, <2>3, <2>4
<1>6. IdsFollowPositions'
  <2>1. \A i \in 1..n : table'[i].id >= i /\ (grown => table'[i].id = i)
    BY <1>3 DEF PartitionInv, IdsFollowPositions
  <2>2. table'[n + 1].id = n + 1
    BY <1>2, <1>3
  <2>3. grown' = grown
    BY DEF PartitionAdd
  <2>4. QED
    BY <1>1, <1>3, <2>1, <2>2, <2>3 DEF IdsFollowPositions
<1>7. QED
  BY <1>4, <1>5, <1>6 DEF PartitionInv

(* A removal keeps the order of the others and moves none of them down. *)
LEMMA ClosedSeq ==
  ASSUME table \in Seq(Entry), NEW k \in 1..Len(table)
  PROVE  /\ Closed(k) \in Seq(Entry)
         /\ Len(Closed(k)) = Len(table) - 1
         /\ \A j \in 1..(Len(table) - 1) :
              Closed(k)[j] = IF j < k THEN table[j] ELSE table[j + 1]
<1>1. Len(table) \in Nat /\ Len(table) - 1 \in Nat
  OBVIOUS
<1>2. Closed(k) \in [1..(Len(table) - 1) -> Entry]
  BY <1>1 DEF Closed
<1>3. QED
  BY <1>1, <1>2 DEF Closed

LEMMA RemoveKeepsInv ==
  ASSUME PartitionAssumption, PartitionInv, NEW id \in Ids, PartitionRemove(id)
  PROVE  PartitionInv'
<1>1. PICK k \in 1..Len(table) : table' = Closed(k)
  BY DEF PartitionRemove
<1> DEFINE n == Len(table)
           from(j) == IF j < k THEN j ELSE j + 1
<1>2. /\ table' \in Seq(Entry) /\ Len(table') = n - 1
      /\ \A j \in 1..(n - 1) : table'[j] = table[from(j)]
  BY <1>1, ClosedSeq DEF PartitionInv, PartitionTypeOK
<1>3. \A j \in 1..(n - 1) : from(j) \in 1..n /\ from(j) >= j
  BY DEF PartitionInv, PartitionTypeOK
<1>4. \A i, j \in 1..(n - 1) : from(i) = from(j) => i = j
  OBVIOUS
<1>5. PartitionTypeOK'
  <2>1. n \in Nat /\ n <= MaxPartitions /\ MaxPartitions \in Nat
    BY DEF PartitionInv, PartitionTypeOK, PartitionAssumption
  <2>2. table' \in Seq(Entry) /\ Len(table') <= MaxPartitions
    BY <1>2, <2>1
  <2>3. issued' \in [Ids -> Int]
    BY DEF PartitionInv, PartitionTypeOK, PartitionRemove
  <2>4. /\ ready' \in BOOLEAN /\ totalSize' \in 0..(SizeWrap - 1)
        /\ grown' \in BOOLEAN
    BY DEF PartitionInv, PartitionTypeOK, PartitionRemove
  <2>5. QED
    BY <2>2, <2>3, <2>4 DEF PartitionTypeOK
<1>6. NamesUnique'
  <2> SUFFICES ASSUME NEW i \in 1..(n - 1), NEW j \in 1..(n - 1),
                      table'[i].part.name = table'[j].part.name
               PROVE  i = j
    BY <1>2 DEF NamesUnique
  <2>1. table[from(i)].part.name = table[from(j)].part.name
    BY <1>2
  <2>2. from(i) = from(j)
    BY <1>3, <2>1 DEF PartitionInv, NamesUnique
  <2>3. QED
    BY <1>4, <2>2
<1>7. IdsFollowPositions'
  <2>1. grown' = FALSE
    BY DEF PartitionRemove
  <2>2. ASSUME NEW j \in 1..(n - 1) PROVE table'[j].id >= j
    <3>1. table[from(j)].id >= from(j) /\ from(j) >= j
      BY <1>3 DEF PartitionInv, IdsFollowPositions
    <3>2. table[from(j)] \in Entry
      BY <1>3 DEF PartitionInv, PartitionTypeOK
    <3>3. table[from(j)].id \in Int
      BY <3>2 DEF Entry, Ids
    <3>4. from(j) \in Int /\ j \in Int
      BY <1>3
    <3>5. QED
      BY <1>2, <3>1, <3>3, <3>4
  <2>3. QED
    BY <1>2, <2>1, <2>2 DEF IdsFollowPositions
<1>8. QED
  BY <1>5, <1>6, <1>7 DEF PartitionInv

LEMMA PartitionInvKept ==
  ASSUME PartitionAssumption, PartitionInv, [PartitionNext]_partitionVars
  PROVE  PartitionInv'
<1>1. CASE PartitionInit \/ PartitionCleanup
  <2>1. ready' \in BOOLEAN /\ Emptied
    BY <1>1 DEF PartitionInit, PartitionCleanup
  <2>2. QED
    BY <2>1, EmptyKeepsInv
<1>2. CASE \E p \in Partitions : PartitionAdd(p)
  BY <1>2, AddKeepsInv
<1>3. CASE \E id \in Ids : PartitionRemove(id)
  BY <1>3, RemoveKeepsInv
<1>4. CASE UNCHANGED partitionVars
  BY <1>4 DEF partitionVars, PartitionInv, PartitionTypeOK, NamesUnique, IdsFollowPositions
<1>5. QED
  BY <1>1, <1>2, <1>3, <1>4 DEF PartitionNext

(* The table stays within its array, with unique names and ids that are never below their
   positions: any sequence of init, add, remove and cleanup. *)
THEOREM PartitionInvHolds == PartitionSpec => []PartitionInv
<1>1. PartitionStart => PartitionInv
  <2> SUFFICES ASSUME PartitionStart PROVE PartitionInv
    OBVIOUS
  <2>1. Len(<<>>) = 0 /\ <<>> \in Seq(Entry)
    OBVIOUS
  <2>2. 0 \in 0..(SizeWrap - 1) /\ 0 <= MaxPartitions
    BY PartitionAssumption DEF PartitionAssumption
  <2>3. PartitionTypeOK
    <3>1. ready \in BOOLEAN /\ grown \in BOOLEAN
      BY DEF PartitionStart
    <3>2. issued \in [Ids -> Int]
      BY DEF PartitionStart
    <3>3. table \in Seq(Entry) /\ Len(table) <= MaxPartitions
      BY <2>1, <2>2 DEF PartitionStart
    <3>4. totalSize \in 0..(SizeWrap - 1)
      BY <2>2 DEF PartitionStart
    <3>5. QED
      BY <3>1, <3>2, <3>3, <3>4 DEF PartitionTypeOK
  <2>4. NamesUnique /\ IdsFollowPositions
    BY DEF NamesUnique, IdsFollowPositions, PartitionStart
  <2>5. QED
    BY <2>3, <2>4 DEF PartitionInv
<1>2. PartitionInv /\ [PartitionNext]_partitionVars => PartitionInv'
  BY PartitionInvKept, PartitionAssumption
<1>3. QED
  BY <1>1, <1>2, PTL DEF PartitionSpec

(* No two partitions of the table have the same name, whatever is added and removed. *)
THEOREM NamesUniqueSafe == PartitionSpec => []NamesUnique
<1>1. PartitionInv => NamesUnique
  BY DEF PartitionInv
<1>2. QED
  BY <1>1, PartitionInvHolds, PTL

(* Ids are never below positions, and equal them as long as nothing was removed. *)
THEOREM IdsFollowPositionsSafe == PartitionSpec => []IdsFollowPositions
<1>1. PartitionInv => IdsFollowPositions
  BY DEF PartitionInv
<1>2. QED
  BY <1>1, PartitionInvHolds, PTL

----------------------------------------------------------------------------
(* The owners of ids.  While the code says that the table is not there, it is empty. *)

IdsCounted ==
  /\ \A id \in Ids : Cardinality(Positions(id)) = issued[id]
  /\ ~ ready => table = <<>>

LEMMA PositionsFinite ==
  ASSUME PartitionTypeOK, NEW id
  PROVE  IsFiniteSet(Positions(id)) /\ Cardinality(Positions(id)) \in Nat
<1>1. IsFiniteSet(1..Len(table))
  BY FS_Interval DEF PartitionTypeOK
<1>2. Positions(id) \subseteq 1..Len(table)
  BY DEF Positions
<1> QED BY <1>1, <1>2, FS_Subset, FS_CardinalityType

LEMMA EmptyCounted == ASSUME Emptied PROVE IdsCounted'
<1>1. \A id : Positions(id)' = {}
  BY DEF Emptied, Positions
<1>2. \A id \in Ids : issued'[id] = 0
  BY DEF Emptied
<1> QED BY <1>1, <1>2, FS_EmptySet DEF IdsCounted, Emptied

LEMMA AddCounts ==
  ASSUME PartitionInv, IdsCounted, NEW p \in Partitions, PartitionAdd(p)
  PROVE  IdsCounted'
<1> DEFINE n == Len(table)
           e == [id |-> NextId, part |-> p]
<1>1. n \in Nat /\ n < MaxPartitions /\ MaxPartitions \in Nat
  BY PartitionAssumption DEF PartitionInv, PartitionTypeOK, PartitionAdd, HasRoom
<1>2. e \in Entry /\ NextId = n + 1 /\ NextId \in Ids
  BY <1>1 DEF Entry, NextId, Ids
<1>3. /\ Len(table') = n + 1 /\ table'[n + 1].id = NextId
      /\ \A i \in 1..n : table'[i] = table[i]
  BY <1>2, EnteredSeq DEF PartitionAdd, PartitionInv, PartitionTypeOK
<1>4. ASSUME NEW id \in Ids PROVE Cardinality(Positions(id)') = issued'[id]
  <2>1. IsFiniteSet(Positions(id)) /\ n + 1 \notin Positions(id)
    <3>1. PartitionTypeOK
      BY DEF PartitionInv
    <3>2. n + 1 \notin Positions(id)
      BY <1>1 DEF Positions
    <3> QED BY <3>1, <3>2, PositionsFinite
  <2>2. Cardinality(Positions(id)) = issued[id]
    BY DEF IdsCounted
  <2>3. issued' = [issued EXCEPT ![NextId] = @ + 1] /\ issued \in [Ids -> Int]
    BY DEF PartitionAdd, PartitionInv, PartitionTypeOK
  <2>4. CASE id = NextId
    <3>1. Positions(id)' = Positions(id) \cup {n + 1}
      BY <1>1, <1>3, <2>4 DEF Positions
    <3>2. Cardinality(Positions(id) \cup {n + 1}) = Cardinality(Positions(id)) + 1
      BY <2>1, FS_AddElement
    <3>3. issued'[id] = issued[id] + 1
      BY <1>2, <2>3, <2>4
    <3> QED BY <2>2, <3>1, <3>2, <3>3
  <2>5. CASE id # NextId
    <3>1. Positions(id)' = Positions(id)
      BY <1>1, <1>3, <2>5 DEF Positions
    <3> QED BY <2>2, <2>3, <2>5, <3>1
  <2> QED BY <2>4, <2>5
<1> QED BY <1>4 DEF IdsCounted, PartitionAdd

\* Where the entry at i is once the gap at k is closed.
MovesTo(i, k) == IF i < k THEN i ELSE i - 1

(* Closing the gap at k moves the other entries of an id, and makes or loses none. *)
LEMMA ClosedPositions ==
  ASSUME PartitionTypeOK, NEW k \in 1..Len(table), table' = Closed(k), NEW id
  PROVE  /\ \A i \in Positions(id) \ {k} : MovesTo(i, k) \in Positions(id)'
         /\ \A j \in Positions(id)' : \E i \in Positions(id) \ {k} : MovesTo(i, k) = j
         /\ \A i \in Positions(id) \ {k} : table'[MovesTo(i, k)] = table[i]
         /\ Cardinality(Positions(id)') = Cardinality(Positions(id) \ {k})
<1> DEFINE n == Len(table)
           S == Positions(id) \ {k}
           T == Positions(id)'
           g == [i \in S |-> MovesTo(i, k)]
<1>1. /\ n \in Nat /\ Len(table') = n - 1
      /\ \A j \in 1..(n - 1) : table'[j] = IF j < k THEN table[j] ELSE table[j + 1]
  <2>1. table \in Seq(Entry) /\ n \in Nat
    BY DEF PartitionTypeOK
  <2>2. /\ Len(Closed(k)) = n - 1
        /\ \A j \in 1..(n - 1) : Closed(k)[j] = IF j < k THEN table[j] ELSE table[j + 1]
    BY <2>1, ClosedSeq
  <2> HIDE DEF n
  <2> QED BY <2>1, <2>2
<1>2. S \subseteq 1..n /\ \A i \in S : i # k /\ table[i].id = id
  BY DEF Positions
<1>3. T = {j \in 1..(n - 1) : table'[j].id = id}
  BY <1>1 DEF Positions
<1>4. ASSUME NEW i \in 1..n, i # k
      PROVE  MovesTo(i, k) \in 1..(n - 1) /\ table'[MovesTo(i, k)] = table[i]
  <2>1. CASE i < k
    BY <1>1, <2>1 DEF MovesTo
  <2>2. CASE i > k
    <3>1. MovesTo(i, k) = i - 1 /\ i - 1 \in 1..(n - 1) /\ ~ (i - 1 < k) /\ i - 1 + 1 = i
      BY <1>1, <2>2 DEF MovesTo
    <3> QED BY <1>1, <3>1
  <2> QED BY <1>1, <1>4, <2>1, <2>2
<1>5. \A i \in S : MovesTo(i, k) \in T /\ table'[MovesTo(i, k)] = table[i]
  BY <1>2, <1>3, <1>4
<1>6. ASSUME NEW j \in T PROVE \E i \in S : MovesTo(i, k) = j
  <2>1. j \in 1..(n - 1) /\ table'[j].id = id
    BY <1>3
  <2>2. CASE j < k
    <3>1. j \in S /\ MovesTo(j, k) = j
      BY <1>1, <2>1, <2>2 DEF MovesTo, Positions
    <3> QED BY <3>1
  <2>3. CASE ~ (j < k)
    <3>1. j + 1 \in 1..n /\ j + 1 # k /\ ~ (j + 1 < k) /\ j + 1 - 1 = j
      BY <1>1, <2>1, <2>3
    <3>2. table[j + 1].id = id
      BY <1>1, <2>1, <2>3
    <3>3. j + 1 \in S /\ MovesTo(j + 1, k) = j
      BY <3>1, <3>2 DEF MovesTo, Positions
    <3> QED BY <3>3
  <2> QED BY <2>2, <2>3
<1>7. \A i, j \in S : MovesTo(i, k) = MovesTo(j, k) => i = j
  BY <1>2 DEF MovesTo
<1> HIDE DEF S, T
<1>8. g \in [S -> T] /\ \A i, j \in S : g[i] = g[j] => i = j
  BY <1>5, <1>7
<1>9. g \in Bijection(S, T)
  BY <1>6, <1>8 DEF Bijection, Injection, Surjection, IsInjective
<1>10. IsFiniteSet(S)
  BY PositionsFinite, FS_RemoveElement, FS_Subset DEF S
<1>11. Cardinality(T) = Cardinality(S)
  BY <1>9, <1>10, FS_Bijection DEF ExistsBijection
<1> QED BY <1>5, <1>6, <1>11 DEF S, T

LEMMA RemoveCounts ==
  ASSUME PartitionInv, IdsCounted, NEW id \in Ids, PartitionRemove(id)
  PROVE  IdsCounted'
<1>1. PICK k \in 1..Len(table) : IsFirst(k, Positions(id)) /\ table' = Closed(k)
  BY DEF PartitionRemove
<1>2. PartitionTypeOK /\ issued' = [issued EXCEPT ![id] = @ - 1] /\ issued \in [Ids -> Int]
  BY DEF PartitionInv, PartitionTypeOK, PartitionRemove
<1>3. ASSUME NEW d \in Ids PROVE Cardinality(Positions(d)') = issued'[d]
  <2>1. Cardinality(Positions(d)') = Cardinality(Positions(d) \ {k})
    BY <1>1, <1>2, ClosedPositions
  <2>2. Cardinality(Positions(d)) = issued[d] /\ IsFiniteSet(Positions(d))
    BY <1>2, PositionsFinite DEF IdsCounted
  <2>3. CASE d = id
    <3>1. k \in Positions(d)
      BY <1>1, <2>3 DEF IsFirst
    <3>2. Cardinality(Positions(d) \ {k}) = Cardinality(Positions(d)) - 1
      BY <2>2, <3>1, FS_RemoveElement
    <3> QED BY <1>2, <2>1, <2>2, <2>3, <3>2
  <2>4. CASE d # id
    <3>1. k \notin Positions(d)
      BY <1>1, <2>4 DEF IsFirst, Positions
    <3>2. Positions(d) \ {k} = Positions(d)
      BY <3>1
    <3> QED BY <1>2, <2>1, <2>2, <2>4, <3>2
  <2> QED BY <2>3, <2>4
<1> QED BY <1>3 DEF IdsCounted, PartitionRemove

LEMMA IdsCountedStart == PartitionStart => IdsCounted
<1> SUFFICES ASSUME PartitionStart PROVE IdsCounted
  OBVIOUS
<1>1. \A id : Positions(id) = {}
  BY DEF PartitionStart, Positions
<1>2. \A id \in Ids : issued[id] = 0
  BY DEF PartitionStart
<1> QED BY <1>1, <1>2, FS_EmptySet DEF IdsCounted, PartitionStart

LEMMA IdsCountedKept ==
  ASSUME PartitionInv, IdsCounted, [PartitionNext]_partitionVars
  PROVE  IdsCounted'
<1>1. CASE PartitionInit \/ PartitionCleanup
  BY <1>1, EmptyCounted DEF PartitionInit, PartitionCleanup
<1>2. CASE UNCHANGED partitionVars
  BY <1>2 DEF partitionVars, IdsCounted, Positions
<1> QED
  BY <1>1, <1>2, AddCounts, RemoveCounts DEF PartitionNext

LEMMA CountedPresent == ASSUME PartitionInv, IdsCounted PROVE IssuedIdsPresent
<1> DEFINE n == Len(table)
           shown(id) == {i \in 1..ddr_partition_get_count : ddr_partition_dump[i].id = id}
<1>1. n \in Nat
  BY DEF PartitionInv, PartitionTypeOK
<1>2. CASE ready
  <2>1. /\ ddr_partition_get_count = n
        /\ ddr_partition_dump = [i \in 1..n |-> [id |-> table[i].id, name |-> table[i].part.name]]
    BY <1>2 DEF ddr_partition_get_count, ddr_partition_dump
  <2>2. Len(ddr_partition_dump) = n
    BY <1>1, <2>1
  <2>3. \A id \in Ids : shown(id) = Positions(id)
    BY <2>1 DEF Positions
  <2> QED BY <2>1, <2>2, <2>3 DEF IssuedIdsPresent, IdsCounted
<1>3. CASE ~ ready
  <2>1. ddr_partition_get_count = 0 /\ ddr_partition_dump = <<>> /\ table = <<>>
    BY <1>3 DEF ddr_partition_get_count, ddr_partition_dump, IdsCounted
  <2>2. \A id \in Ids : shown(id) = Positions(id)
    BY <2>1 DEF Positions
  <2> QED BY <2>1, <2>2 DEF IssuedIdsPresent, IdsCounted
<1> QED BY <1>2, <1>3

(* An id is in the table, and in what the dump shows, as often as it was handed out and not given
   back: for every capacity, although after a removal two owners may hold the same id. *)
THEOREM IssuedIdsPresentSafe == PartitionSpec => []IssuedIdsPresent
<1>1. PartitionInv /\ IdsCounted /\ [PartitionNext]_partitionVars => IdsCounted'
  BY IdsCountedKept
<1>2. PartitionInv /\ IdsCounted => IssuedIdsPresent
  BY CountedPresent
<1> QED BY <1>1, <1>2, IdsCountedStart, PartitionInvHolds, PTL DEF PartitionSpec

----------------------------------------------------------------------------
(* Lookups.  A search takes the least position that fits: an add puts its entry behind all others,
   and a removal moves the others without changing their order. *)

LEMMA FirstFound ==
  ASSUME NEW S \in SUBSET Nat, S # {}
  PROVE  IsFirst(First(S), S)
BY LeastNumber DEF First, IsFirst

LEMMA FirstIs ==
  ASSUME NEW S \in SUBSET Nat, NEW i, IsFirst(i, S)
  PROVE  First(S) = i
<1>1. \A j : IsFirst(j, S) => j = i
  BY DEF IsFirst
<1> QED BY <1>1 DEF First

(* What comes behind a set does not change its first. *)
LEMMA FirstStays ==
  ASSUME NEW S \in SUBSET Nat, S # {}, NEW T \in SUBSET Nat, S \subseteq T,
         \A j \in T \ S : \A i \in S : i <= j
  PROVE  First(T) = First(S)
<1>1. IsFirst(First(S), S)
  BY FirstFound
<1>2. IsFirst(First(S), T)
  BY <1>1 DEF IsFirst
<1> QED BY <1>2, FirstIs

\* The positions the searches by name and by type choose among.
Named(name)         == {i \in 1..Len(table) : table[i].part.name = name}
OfType(type, i)     == {j \in 1..i : table[j].part.type = type}
Typed(type, index)  ==
  {i \in 1..Len(table) : i \in OfType(type, i) /\ Cardinality(OfType(type, i)) = index + 1}

LEMMA Searches ==
  ASSUME ready, NEW name, NEW type, NEW index, NEW id
  PROVE  /\ Find(name) = IF Named(name) # {} THEN table[First(Named(name))].id ELSE 0
         /\ GetByType(type, index) =
              IF Typed(type, index) # {} THEN First(Typed(type, index)) ELSE 0
         /\ Get(id) = IF Positions(id) # {} THEN First(Positions(id)) ELSE 0
BY DEF Find, GetByType, Get, Named, Typed, OfType

LEMMA SearchesAfter ==
  ASSUME ready', NEW name, NEW type, NEW index, NEW id
  PROVE  /\ Find(name)' = IF Named(name)' # {} THEN table'[First(Named(name)')].id ELSE 0
         /\ GetByType(type, index)' =
              IF Typed(type, index)' # {} THEN First(Typed(type, index)') ELSE 0
         /\ Get(id)' = IF Positions(id)' # {} THEN First(Positions(id)') ELSE 0
BY DEF Find, GetByType, Get, Named, Typed, OfType, First, IsFirst

(* An add: every position that fitted a search still does, and the new one is behind it. *)
LEMMA AddFinds ==
  ASSUME PartitionInv, NEW p \in Partitions, PartitionAdd(p)
  PROVE  /\ \A id : IdFound(id)
         /\ \A name : NameFound(name)
         /\ \A type, index : TypeFound(type, index)
<1> DEFINE n == Len(table)
<1>1. n \in Nat /\ ready /\ ready' /\ Len(table') = n + 1 /\ \A i \in 1..n : table'[i] = table[i]
  <2>1. n \in Nat /\ n < MaxPartitions /\ MaxPartitions \in Nat
    BY PartitionAssumption DEF PartitionInv, PartitionTypeOK, PartitionAdd, HasRoom
  <2>2. [id |-> NextId, part |-> p] \in Entry
    BY <2>1 DEF Entry, NextId, Ids
  <2> QED BY <2>1, <2>2, EnteredSeq DEF PartitionAdd, PartitionInv, PartitionTypeOK
<1> HIDE DEF n
<1>2. ASSUME NEW S \in SUBSET (1..n), NEW T \in SUBSET (1..(n + 1)), S = T \cap (1..n), S # {}
      PROVE  T # {} /\ First(T) = First(S) /\ First(S) \in 1..n
  <2>1. S \in SUBSET Nat /\ T \in SUBSET Nat /\ S \subseteq T
    BY <1>2
  <2>2. \A j \in T \ S : \A i \in S : i <= j
    BY <1>1, <1>2
  <2>3. First(T) = First(S)
    BY <1>2, <2>1, <2>2, FirstStays
  <2>4. IsFirst(First(S), S)
    BY <1>2, <2>1, FirstFound
  <2> QED BY <1>2, <2>3, <2>4 DEF IsFirst
<1>3. ASSUME NEW id PROVE IdFound(id)
  <2>1. /\ Positions(id) \in SUBSET (1..n) /\ Positions(id)' \in SUBSET (1..(n + 1))
        /\ Positions(id) = Positions(id)' \cap (1..n)
    BY <1>1 DEF Positions, n
  <2> SUFFICES ASSUME Positions(id) # {}
               PROVE  Get(id)' # 0 /\ table'[Get(id)'] = table[Get(id)]
    BY <1>1, Searches DEF IdFound
  <2>2. /\ Positions(id)' # {} /\ First(Positions(id)') = First(Positions(id))
        /\ First(Positions(id)) \in 1..n
    BY <1>2, <2>1
  <2>3. Get(id) = First(Positions(id)) /\ Get(id)' = First(Positions(id)')
    BY <1>1, <2>2, Searches, SearchesAfter
  <2> QED BY <1>1, <2>2, <2>3
<1>4. ASSUME NEW name PROVE NameFound(name)
  <2>1. /\ Named(name) \in SUBSET (1..n) /\ Named(name)' \in SUBSET (1..(n + 1))
        /\ Named(name) = Named(name)' \cap (1..n)
    BY <1>1 DEF Named, n
  <2> SUFFICES ASSUME Named(name) # {} PROVE Find(name)' = Find(name)
    BY <1>1, Searches DEF NameFound
  <2>2. /\ Named(name)' # {} /\ First(Named(name)') = First(Named(name))
        /\ First(Named(name)) \in 1..n
    BY <1>2, <2>1
  <2>3. Find(name) = table[First(Named(name))].id /\ Find(name)' = table'[First(Named(name)')].id
    BY <1>1, <2>2, Searches, SearchesAfter
  <2> QED BY <1>1, <2>2, <2>3
<1>5. ASSUME NEW type, NEW index PROVE TypeFound(type, index)
  <2>1. \A i \in 1..n : OfType(type, i)' = OfType(type, i)
    BY <1>1 DEF OfType
  <2>2. /\ Typed(type, index) \in SUBSET (1..n) /\ Typed(type, index)' \in SUBSET (1..(n + 1))
        /\ Typed(type, index) = Typed(type, index)' \cap (1..n)
    BY <1>1, <2>1 DEF Typed, n
  <2> SUFFICES ASSUME Typed(type, index) # {}
               PROVE  GetByType(type, index)' = GetByType(type, index)
    BY <1>1, Searches DEF TypeFound
  <2>3. /\ Typed(type, index)' # {}
        /\ First(Typed(type, index)') = First(Typed(type, index))
    BY <1>2, <2>2
  <2> QED BY <1>1, <2>3, Searches, SearchesAfter
<1> QED BY <1>3, <1>4, <1>5

(* Closing the gap at k moves every other entry, keeps their order, and brings in none. *)
LEMMA ClosedMoves ==
  ASSUME PartitionTypeOK, NEW k \in 1..Len(table), table' = Closed(k)
  PROVE  /\ \A i \in (1..Len(table)) \ {k} :
              /\ MovesTo(i, k) \in 1..Len(table')
              /\ table'[MovesTo(i, k)] = table[i]
         /\ \A j \in 1..Len(table') : \E i \in (1..Len(table)) \ {k} : MovesTo(i, k) = j
         /\ \A i, j \in (1..Len(table)) \ {k} : i <= j => MovesTo(i, k) <= MovesTo(j, k)
<1> DEFINE n == Len(table)
<1>1. /\ n \in Nat /\ Len(table') = n - 1
      /\ \A j \in 1..(n - 1) : table'[j] = IF j < k THEN table[j] ELSE table[j + 1]
  <2>1. table \in Seq(Entry) /\ n \in Nat
    BY DEF PartitionTypeOK
  <2>2. /\ Len(Closed(k)) = n - 1
        /\ \A j \in 1..(n - 1) : Closed(k)[j] = IF j < k THEN table[j] ELSE table[j + 1]
    BY <2>1, ClosedSeq
  <2> HIDE DEF n
  <2> QED BY <2>1, <2>2
<1>2. k \in 1..n
  OBVIOUS
<1> HIDE DEF n
<1>3. ASSUME NEW i \in (1..n) \ {k}
      PROVE  MovesTo(i, k) \in 1..(n - 1) /\ table'[MovesTo(i, k)] = table[i]
  <2>1. CASE i < k
    BY <1>1, <1>2, <2>1 DEF MovesTo
  <2>2. CASE i > k
    <3>1. MovesTo(i, k) = i - 1 /\ i - 1 \in 1..(n - 1) /\ ~ (i - 1 < k) /\ i - 1 + 1 = i
      BY <1>1, <1>2, <2>2 DEF MovesTo
    <3> QED BY <1>1, <3>1
  <2> QED BY <1>1, <1>2, <2>1, <2>2
<1>4. ASSUME NEW j \in 1..(n - 1) PROVE \E i \in (1..n) \ {k} : MovesTo(i, k) = j
  <2>1. CASE j < k
    <3>1. j \in (1..n) \ {k} /\ MovesTo(j, k) = j
      BY <1>1, <1>2, <2>1 DEF MovesTo
    <3> QED BY <3>1
  <2>2. CASE ~ (j < k)
    <3>1. j + 1 \in (1..n) \ {k} /\ MovesTo(j + 1, k) = j
      BY <1>1, <1>2, <2>2 DEF MovesTo
    <3> QED BY <3>1
  <2> QED BY <2>1, <2>2
<1>5. \A i, j \in (1..n) \ {k} : i <= j => MovesTo(i, k) <= MovesTo(j, k)
  BY <1>1, <1>2 DEF MovesTo
<1> QED BY <1>1, <1>3, <1>4, <1>5 DEF n

(* A removal: the first that fits a search, when it is not the entry removed, is the first that
   fits where it moved to. *)
LEMMA RemoveFinds ==
  ASSUME PartitionInv, NEW gone \in Ids, PartitionRemove(gone)
  PROVE  /\ ~ Kept(gone)
         /\ \A id : IdFound(id)
         /\ \A name : NameFound(name)
<1> DEFINE n == Len(table)
<1>1. PICK k \in 1..n : IsFirst(k, Positions(gone)) /\ table' = Closed(k)
  BY DEF PartitionRemove
<1>2. /\ PartitionTypeOK /\ n \in Nat /\ ready /\ ready'
      /\ issued' = [issued EXCEPT ![gone] = @ - 1] /\ issued \in [Ids -> Int]
  BY DEF PartitionInv, PartitionTypeOK, PartitionRemove
<1>3. ~ Kept(gone)
  BY <1>2 DEF Kept
<1>4. table[k].id = gone
  BY <1>1 DEF IsFirst, Positions
<1>5. /\ \A i \in (1..n) \ {k} :
           MovesTo(i, k) \in 1..Len(table') /\ table'[MovesTo(i, k)] = table[i]
      /\ \A j \in 1..Len(table') : \E i \in (1..n) \ {k} : MovesTo(i, k) = j
      /\ \A i, j \in (1..n) \ {k} : i <= j => MovesTo(i, k) <= MovesTo(j, k)
  BY <1>1, <1>2, ClosedMoves
<1>6. Len(table') \in Nat
  BY <1>1, <1>2, ClosedSeq DEF PartitionTypeOK
<1> HIDE DEF n
<1>7. ASSUME NEW S \in SUBSET (1..n), S # {}, First(S) # k, NEW T \in SUBSET (1..Len(table')),
             \A i \in (1..n) \ {k} : MovesTo(i, k) \in T <=> i \in S
      PROVE  T # {} /\ First(T) = MovesTo(First(S), k) /\ First(S) \in (1..n) \ {k}
  <2>1. S \in SUBSET Nat /\ T \in SUBSET Nat
    BY <1>6, <1>7
  <2>2. IsFirst(First(S), S)
    BY <1>7, <2>1, FirstFound
  <2>3. First(S) \in (1..n) \ {k} /\ First(S) \in S /\ \A j \in S : First(S) <= j
    BY <1>7, <2>2 DEF IsFirst
  <2>4. MovesTo(First(S), k) \in T
    BY <1>7, <2>3
  <2>5. ASSUME NEW j \in T PROVE MovesTo(First(S), k) <= j
    <3>1. PICK i \in (1..n) \ {k} : MovesTo(i, k) = j
      BY <1>5, <1>7
    <3>2. i \in S
      BY <1>7, <3>1
    <3> QED BY <1>5, <2>3, <3>1, <3>2
  <2>6. IsFirst(MovesTo(First(S), k), T)
    BY <2>4, <2>5 DEF IsFirst
  <2> QED BY <2>1, <2>3, <2>4, <2>6, FirstIs
<1>8. ASSUME NEW id PROVE IdFound(id)
  <2> SUFFICES ASSUME Positions(id) # {}, Kept(id)
               PROVE  Get(id)' # 0 /\ table'[Get(id)'] = table[Get(id)]
    BY <1>2, Searches DEF IdFound
  <2>1. /\ Positions(id) \in SUBSET (1..n) /\ Positions(id)' \in SUBSET (1..Len(table'))
        /\ \A i \in (1..n) \ {k} : MovesTo(i, k) \in Positions(id)' <=> i \in Positions(id)
    BY <1>5 DEF Positions, n
  <2>2. First(Positions(id)) # k
    <3>1. IsFirst(First(Positions(id)), Positions(id))
      BY <1>2, <2>1, FirstFound
    <3>2. table[First(Positions(id))].id = id
      BY <3>1 DEF IsFirst, Positions
    <3> QED BY <1>3, <1>4, <3>2
  <2>3. /\ Positions(id)' # {} /\ First(Positions(id)) \in (1..n) \ {k}
        /\ First(Positions(id)') = MovesTo(First(Positions(id)), k)
    BY <1>7, <2>1, <2>2
  <2>4. Get(id) = First(Positions(id)) /\ Get(id)' = First(Positions(id)')
    BY <1>2, <2>3, Searches, SearchesAfter
  <2>5. Get(id)' \in 1..Len(table') /\ table'[Get(id)'] = table[Get(id)]
    BY <1>5, <2>3, <2>4
  <2> QED BY <1>6, <2>5
<1>9. ASSUME NEW name PROVE NameFound(name)
  <2> SUFFICES ASSUME Named(name) # {}, Kept(Find(name))
               PROVE  Find(name)' = Find(name)
    BY <1>2, Searches DEF NameFound
  <2>1. /\ Named(name) \in SUBSET (1..n) /\ Named(name)' \in SUBSET (1..Len(table'))
        /\ \A i \in (1..n) \ {k} : MovesTo(i, k) \in Named(name)' <=> i \in Named(name)
    BY <1>5 DEF Named, n
  <2>2. Find(name) = table[First(Named(name))].id
    BY <1>2, Searches
  <2>3. First(Named(name)) # k
    BY <1>3, <1>4, <2>2
  <2>4. /\ Named(name)' # {} /\ First(Named(name)) \in (1..n) \ {k}
        /\ First(Named(name)') = MovesTo(First(Named(name)), k)
    BY <1>7, <2>1, <2>3
  <2>5. Find(name)' = table'[First(Named(name)')].id
    BY <1>2, <2>4, SearchesAfter
  <2> QED BY <1>5, <2>2, <2>4, <2>5
<1> QED BY <1>3, <1>8, <1>9

(* What a lookup by id, by name or by type and index answers changes only by a removal that
   concerns it: for every set of partitions and every capacity. *)
THEOREM LookupsSafe == PartitionSpec => LookupsChangeOnlyByRemoval
<1> DEFINE Kind == \A type \in Types, index \in 0..(MaxPartitions - 1) : TypeFound(type, index)
           Answers == ready /\ ready' /\ table' # table =>
                      /\ \A id \in Ids : IdFound(id)
                      /\ \A name \in Names : NameFound(name)
                      /\ (\A id \in Ids : Kept(id)) => Kind
<1>1. PartitionInv /\ [PartitionNext]_partitionVars => [Answers]_partitionVars
  <2> SUFFICES ASSUME PartitionInv, PartitionNext PROVE Answers
    OBVIOUS
  <2>1. CASE PartitionInit \/ PartitionCleanup
    BY <2>1 DEF PartitionInit, PartitionCleanup
  <2>2. ASSUME NEW p \in Partitions, PartitionAdd(p) PROVE Answers
    BY <2>2, AddFinds
  <2>3. ASSUME NEW id \in Ids, PartitionRemove(id) PROVE Answers
    BY <2>3, RemoveFinds
  <2> QED BY <2>1, <2>2, <2>3 DEF PartitionNext
<1> QED BY <1>1, PartitionInvHolds, PTL DEF PartitionSpec, LookupsChangeOnlyByRemoval

----------------------------------------------------------------------------
(* The copies of the DDR settings.  A setting counts as settled only after the controller came up, so
   the copies the getters return exist for it; the registers and the copies are functions of the
   setting, which every step keeps. *)

AnyTiming == CallerTimings \cup {NoTiming}
Held == Values \cup {0} \cup AnyTiming \cup {Pack[t] : t \in AnyTiming}

ControllerInv ==
  /\ initialized \in BOOLEAN
  /\ config \in [Settings -> Held]
  /\ info \in [{"frequency", "voltage"} -> Held]
  /\ regs \in [Settings -> Held]
  /\ settled \subseteq Settings \cup {"saved"}
  /\ "saved" \in settled => config["timing"] = timing
  /\ settled # {} => initialized
  /\ BelievedSettings

(* ddr_init: a failed one leaves no setting settled, and one that ends writes all of them. *)
LEMMA InitKeepsBelief ==
  ASSUME ControllerInv, NEW c \in Configs, NEW stage \in Stages, ControllerInit(c, stage)
  PROVE  ControllerInv'
<1> DEFINE w == TimingWritten(c, c["timing"])
<1>1. /\ c \in [Settings -> Held] /\ c["timing"] \in CallerTimings
      /\ c["frequency"] \in Values /\ c["voltage"] \in Values
  <2>1. c.timing \in CallerTimings /\ c.frequency \in Values /\ c.voltage \in Values
    BY DEF Configs
  <2>2. c = [s \in Settings |-> c[s]]
    BY DEF Configs, Settings
  <2>3. \A s \in Settings : c[s] \in Held
    BY <2>1 DEF Settings, Held, AnyTiming
  <2> HIDE DEF Held, Settings
  <2>4. QED
    BY <2>1, <2>2, <2>3
<1>2. /\ w \in [Settings -> Held] /\ w["timing"] = Pack[c["timing"]]
      /\ \A s \in {"frequency", "voltage"} : w[s] = c[s]
  BY <1>1 DEF TimingWritten, Settings, Held, AnyTiming
<1>3. config' = c /\ timing' = c["timing"]
  BY DEF ControllerInit
<1> HIDE DEF w
<1>4. ASSUME settled' = {}, info' = info, initialized' = initialized,
             \/ PhyFails(stage) \/ ControllerFails(stage)
             \/ CalibrationFails(stage, c) \/ TestFails(stage, c)
      PROVE  ControllerInv'
  <2>1. regs' \in {regs, Reset, w}
    BY <1>4 DEF PhyFails, ControllerFails, CalibrationFails, TestFails, w
  <2>2. Reset \in [Settings -> Held]
    BY DEF Reset, Settings, Held, AnyTiming
  <2>3. QED
    BY <1>1, <1>2, <1>3, <1>4, <2>1, <2>2 DEF ControllerInv, BelievedSettings
<1>5. ASSUME regs' = w, initialized' = TRUE, settled' = Settings \cup {"saved"},
             info' = [s \in {"frequency", "voltage"} |-> c[s]]
      PROVE  ControllerInv'
  <2>1. info' \in [{"frequency", "voltage"} -> Held]
    BY <1>1, <1>5 DEF Held
  <2>2. BelievedSettings'
    BY <1>2, <1>3, <1>5 DEF BelievedSettings, Settings, ddr_get_config, ddr_get_info
  <2>3. QED
    BY <1>1, <1>2, <1>3, <1>5, <2>1, <2>2 DEF ControllerInv
<1>6. QED
  BY <1>4, <1>5 DEF ControllerInit, w

(* ddr_set_timing writes the timings and keeps them, but not in g_ddr_config. *)
LEMMA SetTimingKeepsBelief ==
  ASSUME ControllerInv, NEW value \in CallerTimings, SetTiming(value)
  PROVE  ControllerInv'
<1>1. /\ initialized /\ initialized' = initialized /\ config' = config /\ info' = info
      /\ timing' = value /\ settled' = (settled \ {"saved"}) \cup {"timing"}
      /\ regs' = [config EXCEPT !["timing"] = Pack[value]]
  BY DEF SetTiming, TimingSaved, TimingWritten
<1>2. /\ regs' \in [Settings -> Held] /\ regs'["timing"] = Pack[value]
      /\ \A s \in Settings \ {"timing"} : regs'[s] = config[s]
  BY <1>1 DEF ControllerInv, Held, AnyTiming, Settings
<1>3. \A s \in settled \cap {"frequency", "voltage"} : config[s] = regs[s] /\ info[s] = regs[s]
  BY <1>1 DEF ControllerInv, BelievedSettings, ddr_get_config, ddr_get_info
<1>4. BelievedSettings'
  BY <1>1, <1>2, <1>3 DEF ControllerInv, BelievedSettings, ddr_get_config, ddr_get_info, Settings
<1>5. QED
  BY <1>1, <1>2, <1>4 DEF ControllerInv, Settings

(* ddr_set_frequency and ddr_set_voltage write one setting everywhere it is kept. *)
LEMMA SetSettingKeepsBelief ==
  ASSUME ControllerInv, NEW s \in {"frequency", "voltage"}, NEW value \in Values,
         SetSetting(s, value)
  PROVE  ControllerInv'
<1>1. /\ initialized /\ initialized' = initialized /\ timing' = timing
      /\ settled' = settled \cup {s}
      /\ regs' = [regs EXCEPT ![s] = value] /\ config' = [config EXCEPT ![s] = value]
      /\ info' = [info EXCEPT ![s] = value]
  BY DEF SetSetting
<1>2. /\ regs' \in [Settings -> Held] /\ config' \in [Settings -> Held]
      /\ info' \in [{"frequency", "voltage"} -> Held]
      /\ regs'[s] = value /\ config'[s] = value /\ info'[s] = value
      /\ \A r \in Settings \ {s} : regs'[r] = regs[r] /\ config'[r] = config[r]
      /\ \A r \in {"frequency", "voltage"} \ {s} : info'[r] = info[r]
  BY <1>1 DEF ControllerInv, Held, Settings
<1>3. BelievedSettings'
  BY <1>1, <1>2 DEF ControllerInv, BelievedSettings, ddr_get_config, ddr_get_info, Settings
<1>4. QED
  BY <1>1, <1>2, <1>3 DEF ControllerInv, Settings

(* What ddr_get_config, ddr_get_info and g_ddr_timing say of a setting is what the registers hold,
   packed as they hold it, until a ddr_init fails; the timings that ddr_get_config returns are,
   until a ddr_set_timing: for every set of values and timings and every way of packing them. *)
THEOREM BelievedSettingsSafe == ControllerSpec => []BelievedSettings
<1>1. ControllerStart => ControllerInv
  <2> SUFFICES ASSUME ControllerStart PROVE ControllerInv
    OBVIOUS
  <2>1. 0 \in Held /\ NoTiming \in Held /\ Pack[NoTiming] \in Held
    BY DEF Held, AnyTiming
  <2>2. config \in [Settings -> Held] /\ info \in [{"frequency", "voltage"} -> Held]
    BY <2>1 DEF ControllerStart, Settings
  <2>3. regs \in [Settings -> Held]
    BY <2>1 DEF ControllerStart, Reset, Settings
  <2>4. QED
    BY <2>2, <2>3 DEF ControllerStart, ControllerInv, BelievedSettings
<1>2. ASSUME ControllerInv, [ControllerNext]_controllerVars PROVE ControllerInv'
  <2>1. CASE UNCHANGED controllerVars
    BY <1>2, <2>1 DEF ControllerInv, BelievedSettings, ddr_get_config, ddr_get_info, controllerVars
  <2>2. CASE ControllerNext
    <3>1. ASSUME NEW c \in Configs, NEW stage \in Stages, ControllerInit(c, stage)
          PROVE  ControllerInv'
      BY <1>2, <3>1, InitKeepsBelief
    <3>2. ASSUME NEW t \in CallerTimings, SetTiming(t) PROVE ControllerInv'
      BY <1>2, <3>2, SetTimingKeepsBelief
    <3>3. ASSUME NEW s \in {"frequency", "voltage"}, NEW v \in Values, SetSetting(s, v)
          PROVE  ControllerInv'
      BY <1>2, <3>3, SetSettingKeepsBelief
    <3>4. QED
      BY <2>2, <3>1, <3>2, <3>3 DEF ControllerNext
  <2>3. QED
    BY <1>2, <2>1, <2>2
<1>3. ControllerInv => BelievedSettings
  BY DEF ControllerInv
<1>4. QED
  BY <1>1, <1>2, <1>3, PTL DEF ControllerSpec

----------------------------------------------------------------------------
(* The layout in force: it is a sound one, it is never lost or read after it was freed, and the
   detailed module implements the abstract place. *)

Calls == {"none", "init", "set", "get", "region_info", "find_free", "print"}

AnyLayout == [RegionNames -> [start : 0 .. AddrSpace - 1, size : 0 .. AddrSpace - 1]]

\* An object on its way to being in force belongs to one ddr_layout_set, and is not in force yet.
OnItsWay ==
  /\ \A t \in Threads : pc[t] = "publish" => /\ op[t] = "set"
                                            /\ obj[t] \in Allocated /\ obj[t] # current
  /\ \A t, u \in Threads : pc[t] = "publish" /\ pc[u] = "publish" /\ t # u => obj[t] # obj[u]

\* A reader has the mutex, and reads what is in force.
Reading ==
  \A t \in Threads : pc[t] = "read" => /\ mutex = t /\ op[t] # "init"
                                      /\ obj[t] = current /\ current # Nobody

Accounted ==
  \A o \in Allocated : o = current \/ \E t \in Threads : pc[t] = "publish" /\ obj[t] = o

LayoutInv ==
  /\ LayoutTypeOK /\ op \in [Threads -> Calls]
  /\ \A o \in Allocated : heap[o] \in Candidates /\ Sound(heap[o])
  /\ current = Nobody \/ current \in Allocated
  /\ OnItsWay
  /\ Reading
  /\ Accounted

----------------------------------------------------------------------------
(* What the checks say of a layout *)

(* The bootloader of every board starts at zero, which validation refuses: ddr_layout_init puts
   nothing in force. *)
LEMMA DefaultsRefused ==
  ASSUME NEW b \in Boards
  PROVE  ~ Check(DefaultLayout(b))
<1>1. DefaultLayout(b)["bootloader"] = Region(0, 1)
  BY DEF Boards, DefaultLayout, board_definitions, edge2_layout, rock3b_layout, orange5_layout,
         LayoutOf, Above, BootRegions, RegionNames, Validated
<1>2. DefaultLayout(b)["bootloader"].start = 0
  BY <1>1 DEF Region
<1>3. ddr_layout_validate_region(DefaultLayout(b)["bootloader"]) # "ok"
  BY <1>2 DEF ddr_layout_validate_region
<1>4. QED
  BY <1>3 DEF Check, ddr_layout_validate, Validated

(* The code's tests on ends that wrap mean what Sound says in whole numbers. *)
LEMMA CheckedIsSound ==
  ASSUME NEW l \in AnyLayout, Check(l)
  PROVE  Sound(l)
<1>1. AddrSpace \in Nat
  BY LayoutAssumption
<1>2. \A n \in RegionNames : l[n].start \in 0 .. AddrSpace - 1 /\ l[n].size \in 0 .. AddrSpace - 1
  BY DEF AnyLayout
<1>3. ASSUME NEW n \in Validated
      PROVE  l[n].size > 0 /\ l[n].start > 0 /\ ~ Wraps(l[n])
  <2>1. ddr_layout_validate_region(l[n]) = "ok"
    BY DEF Check, ddr_layout_validate
  <2>2. n \in RegionNames
    BY DEF RegionNames
  <2>3. l[n].size # 0 /\ l[n].start # 0 /\ ~ (End(l[n]) < l[n].start)
    BY <2>1 DEF ddr_layout_validate_region
  <2>4. QED
    BY <1>1, <1>2, <2>2, <2>3 DEF End, Plus, Wraps
<1>4. ASSUME NEW m \in RegionNames, NEW n \in RegionNames, m # n, l[m].size > 0, l[n].size > 0,
             ~ Wraps(l[m]), ~ Wraps(l[n])
      PROVE  Apart(l[m], l[n])
  <2>1. ~ Overlap(l[m], l[n])
    BY <1>4 DEF Check, ddr_layout_check_overlap
  <2>2. End(l[m]) = l[m].start + l[m].size /\ End(l[n]) = l[n].start + l[n].size
    BY <1>1, <1>2, <1>4 DEF Wraps, End, Plus
  <2>3. QED
    BY <1>1, <1>2, <1>4, <2>1, <2>2 DEF Overlap, Apart
<1>5. QED
  BY <1>3, <1>4 DEF Sound

----------------------------------------------------------------------------
(* The invariant *)

LEMMA LayoutStarts == LayoutStart => LayoutInv
BY LayoutAssumption
   DEF LayoutStart, LayoutInv, LayoutTypeOK, OnItsWay, Reading, Accounted, Allocated, Calls

(* A step that changes nothing but what a call answered. *)
LEMMA ReturnKeeps ==
  ASSUME LayoutInv, NEW t \in Threads, pc[t] = "idle", NEW v, Return(t, v),
         UNCHANGED <<heap, current, mutex>>
  PROVE  LayoutInv'
BY DEF LayoutInv, LayoutTypeOK, OnItsWay, Reading, Accounted, Allocated, Return, Calls

LEMMA PrepareKeeps ==
  ASSUME LayoutInv, NEW t \in Threads, pc[t] = "idle", NEW l \in Candidates, Sound(l),
         Prepare(t, "set", l)
  PROVE  LayoutInv'
<1>1. PICK o \in Objects \ Allocated :
        /\ heap' = With(o, l)
        /\ pc' = [pc EXCEPT ![t] = "publish"]
        /\ op' = [op EXCEPT ![t] = "set"]
        /\ obj' = [obj EXCEPT ![t] = o]
        /\ UNCHANGED <<current, mutex, result>>
  BY DEF Prepare
<1>2. /\ Allocated' = Allocated \cup {o}
      /\ heap'[o] = l
      /\ \A x \in Allocated : heap'[x] = heap[x]
  BY <1>1 DEF With, Allocated
<1>3. o # Nobody /\ o # current
  BY <1>1, LayoutAssumption DEF LayoutInv
<1>4. LayoutTypeOK' /\ (op \in [Threads -> Calls])'
  BY <1>1, <1>2 DEF LayoutInv, LayoutTypeOK, Layouts, Calls
<1>5. (\A x \in Allocated : heap[x] \in Candidates /\ Sound(heap[x]))'
  <2>1. ASSUME NEW x \in Allocated' PROVE heap'[x] \in Candidates /\ Sound(heap'[x])
    BY <1>2 DEF LayoutInv
  <2>2. QED
    BY <2>1 DEF Sound, Wraps, Apart
<1>6. (current = Nobody \/ current \in Allocated)'
  BY <1>1, <1>2 DEF LayoutInv
<1>7. OnItsWay'
  BY <1>1, <1>2, <1>3 DEF LayoutInv, LayoutTypeOK, OnItsWay
<1>8. Reading'
  BY <1>1 DEF LayoutInv, LayoutTypeOK, Reading
<1>9. Accounted'
  <2>1. (\E u \in Threads : pc[u] = "publish" /\ obj[u] = o)'
    BY <1>1 DEF LayoutInv, LayoutTypeOK
  <2>2. ASSUME NEW x \in Allocated
        PROVE  (x = current \/ \E u \in Threads : pc[u] = "publish" /\ obj[u] = x)'
    BY <1>1 DEF LayoutInv, LayoutTypeOK, Accounted
  <2>3. QED
    BY <1>2, <2>1, <2>2 DEF Accounted
<1>10. QED
  BY <1>4, <1>5, <1>6, <1>7, <1>8, <1>9 DEF LayoutInv

(* While the mutex is free nobody reads: the layout in force may be freed. *)
LEMMA NobodyReads ==
  ASSUME LayoutInv, mutex = Nobody
  PROVE  \A t \in Threads : pc[t] # "read"
BY LayoutAssumption DEF LayoutInv, Reading

LEMMA PublishKeeps ==
  ASSUME LayoutInv, NEW t \in Threads, Publish(t)
  PROVE  LayoutInv'
<1>1. /\ pc[t] = "publish" /\ mutex = Nobody /\ op[t] = "set"
      /\ obj[t] \in Allocated /\ obj[t] # current
      /\ current' = obj[t] /\ mutex' = mutex
      /\ heap' = IF current # Nobody THEN Without(current) ELSE heap
      /\ Return(t, [value |-> "ok"])
  BY DEF Publish, LayoutInv, OnItsWay
<1>2. /\ Allocated' = Allocated \ {current}
      /\ \A x \in Allocated' : heap'[x] = heap[x]
  <2>1. CASE current = Nobody
    <3>1. Nobody \notin Allocated
      BY LayoutAssumption DEF LayoutInv, LayoutTypeOK
    <3>2. QED
      BY <1>1, <2>1, <3>1 DEF Allocated
  <2>2. CASE current # Nobody
    BY <1>1, <2>2 DEF Without, Allocated
  <2>3. QED
    BY <2>1, <2>2
<1>3. /\ pc' = [pc EXCEPT ![t] = "idle"] /\ op' = [op EXCEPT ![t] = "none"]
      /\ obj' = [obj EXCEPT ![t] = Nobody]
  BY <1>1 DEF Return
<1>4. LayoutTypeOK' /\ (op \in [Threads -> Calls])'
  BY <1>1, <1>2, <1>3 DEF LayoutInv, LayoutTypeOK, Calls
<1>5. (\A x \in Allocated : heap[x] \in Candidates /\ Sound(heap[x]))'
  <2>1. ASSUME NEW x \in Allocated' PROVE heap'[x] \in Candidates /\ Sound(heap'[x])
    BY <1>2 DEF LayoutInv
  <2>2. QED
    BY <2>1 DEF Sound, Wraps, Apart
<1>6. (current = Nobody \/ current \in Allocated)'
  BY <1>1, <1>2
<1>7. OnItsWay'
  BY <1>1, <1>2, <1>3 DEF LayoutInv, LayoutTypeOK, OnItsWay
<1>8. Reading'
  BY <1>1, <1>3, NobodyReads DEF LayoutInv, LayoutTypeOK, Reading
<1>9. Accounted'
  BY <1>1, <1>2, <1>3 DEF LayoutInv, LayoutTypeOK, Accounted
<1>10. QED
  BY <1>4, <1>5, <1>6, <1>7, <1>8, <1>9 DEF LayoutInv

LEMMA CleanupKeeps ==
  ASSUME LayoutInv, NEW t \in Threads, ddr_layout_cleanup(t)
  PROVE  LayoutInv'
<1>1. /\ mutex = Nobody /\ current' = Nobody /\ UNCHANGED <<mutex, pc, op, obj>>
      /\ heap' = IF current # Nobody THEN Without(current) ELSE heap
  BY DEF ddr_layout_cleanup
<1>2. Nobody \notin Allocated
  BY LayoutAssumption DEF LayoutInv, LayoutTypeOK
<1>3. /\ Allocated' = Allocated \ {current}
      /\ \A x \in Allocated' : heap'[x] = heap[x]
  BY <1>1, <1>2 DEF Without, Allocated
<1>4. LayoutTypeOK' /\ (op \in [Threads -> Calls])'
  BY <1>1, <1>3 DEF LayoutInv, LayoutTypeOK
<1>5. (\A x \in Allocated : heap[x] \in Candidates /\ Sound(heap[x]))'
  <2>1. ASSUME NEW x \in Allocated' PROVE heap'[x] \in Candidates /\ Sound(heap'[x])
    BY <1>3 DEF LayoutInv
  <2>2. QED
    BY <2>1 DEF Sound, Wraps, Apart
<1>6. OnItsWay'
  BY <1>1, <1>2, <1>3 DEF LayoutInv, OnItsWay
<1>7. Reading'
  BY <1>1, NobodyReads DEF LayoutInv, Reading
<1>8. Accounted'
  BY <1>1, <1>3 DEF LayoutInv, Accounted
<1>9. QED
  BY <1>1, <1>4, <1>5, <1>6, <1>7, <1>8 DEF LayoutInv

LEMMA LookupKeeps ==
  ASSUME LayoutInv, NEW t \in Threads, NEW what \in {"get", "region_info", "find_free", "print"},
         Lookup(t, what)
  PROVE  LayoutInv'
<1>1. CASE current = Nobody
  BY <1>1, ReturnKeeps DEF Lookup
<1>2. CASE current # Nobody
  <2>1. /\ mutex = Nobody /\ mutex' = t /\ pc[t] = "idle"
        /\ pc' = [pc EXCEPT ![t] = "read"] /\ op' = [op EXCEPT ![t] = what]
        /\ obj' = [obj EXCEPT ![t] = current] /\ UNCHANGED <<heap, current>>
    BY <1>2 DEF Lookup
  <2>2. LayoutTypeOK' /\ (op \in [Threads -> Calls])'
    BY <1>2, <2>1 DEF LayoutInv, LayoutTypeOK, Allocated, Calls
  <2>3. OnItsWay'
    BY <2>1 DEF LayoutInv, LayoutTypeOK, OnItsWay, Allocated
  <2>4. Reading'
    BY <1>2, <2>1, NobodyReads DEF LayoutInv, LayoutTypeOK, Reading
  <2>5. Accounted'
    BY <2>1 DEF LayoutInv, LayoutTypeOK, Accounted, Allocated
  <2>6. QED
    BY <2>1, <2>2, <2>3, <2>4, <2>5 DEF LayoutInv, Allocated, Sound, Wraps, Apart
<1>3. QED
  BY <1>1, <1>2

LEMMA ReadKeeps ==
  ASSUME LayoutInv, NEW t \in Threads, Read(t)
  PROVE  LayoutInv'
<1>1. PICK v : Return(t, v)
  BY DEF Read
<1>2. /\ pc[t] = "read" /\ mutex = t /\ mutex' = Nobody /\ UNCHANGED <<heap, current>>
      /\ pc' = [pc EXCEPT ![t] = "idle"] /\ op' = [op EXCEPT ![t] = "none"]
      /\ obj' = [obj EXCEPT ![t] = Nobody]
  BY <1>1 DEF Read, Return, LayoutInv, Reading
<1>3. LayoutTypeOK' /\ (op \in [Threads -> Calls])'
  BY <1>2 DEF LayoutInv, LayoutTypeOK, Allocated, Calls
<1>4. OnItsWay' /\ Accounted'
  BY <1>2 DEF LayoutInv, LayoutTypeOK, OnItsWay, Accounted, Allocated
<1>5. Reading'
  BY <1>2 DEF LayoutInv, LayoutTypeOK, Reading
<1>6. QED
  BY <1>2, <1>3, <1>4, <1>5 DEF LayoutInv, Allocated, Sound, Wraps, Apart

(* What ddr_layout_init and ddr_layout_set do before anything is published. *)
LEMMA InitRefuses ==
  ASSUME NEW t \in Threads, NEW b, ddr_layout_init(t, b)
  PROVE  pc[t] = "idle" /\ \E why : Refuse(t, why)
BY DefaultsRefused DEF ddr_layout_init, HasDefinition

LEMMA SetPrepares ==
  ASSUME NEW t \in Threads, NEW l \in Candidates, ddr_layout_set(t, l)
  PROVE  /\ pc[t] = "idle"
         /\ \/ \E why : Refuse(t, why)
            \/ Sound(l) /\ Prepare(t, "set", l)
<1>1. l \in AnyLayout
  BY LayoutAssumption DEF AnyLayout
<1>2. CASE Check(l)
  BY <1>1, <1>2, CheckedIsSound DEF ddr_layout_set
<1>3. CASE ~ Check(l)
  BY <1>3 DEF ddr_layout_set
<1>4. QED
  BY <1>2, <1>3 DEF ddr_layout_set

LEMMA LayoutKept ==
  ASSUME LayoutInv, [LayoutNext]_layoutVars
  PROVE  LayoutInv'
<1>1. ASSUME NEW t \in Threads, NEW b \in BoardTypes, ddr_layout_init(t, b) PROVE LayoutInv'
  BY <1>1, InitRefuses, ReturnKeeps DEF Refuse
<1>2. ASSUME NEW t \in Threads, NEW l \in Candidates, ddr_layout_set(t, l) PROVE LayoutInv'
  BY <1>2, SetPrepares, PrepareKeeps, ReturnKeeps DEF Refuse
<1>3. CASE UNCHANGED layoutVars
  BY <1>3 DEF layoutVars, LayoutInv, LayoutTypeOK, OnItsWay, Reading, Accounted, Allocated,
              Sound, Wraps, Apart
<1>4. QED
  BY <1>1, <1>2, <1>3, PublishKeeps, CleanupKeeps, LookupKeeps, ReadKeeps
     DEF LayoutNext, LayoutStep

----------------------------------------------------------------------------
(* The inductive invariant: what is allocated is sound and accounted for, what is on its way
   belongs to one call, and a reader has the mutex. *)
THEOREM LayoutInvHolds == LayoutSpec => []LayoutInv
BY LayoutStarts, LayoutKept, PTL DEF LayoutSpec

(* Nobody reads a layout that has been freed, for any number of callers. *)
THEOREM ReadersSafeSafe == LayoutSpec => []ReadersSafe
<1>1. LayoutInv => ReadersSafe
  BY DEF LayoutInv, Reading, ReadersSafe
<1>2. QED
  BY <1>1, LayoutInvHolds, PTL

(* Every layout that is allocated is in force or on its way there: none is lost. *)
THEOREM NothingLostSafe == LayoutSpec => []NothingLost
<1>1. LayoutInv => NothingLost
  BY LayoutAssumption DEF LayoutInv, LayoutTypeOK, OnItsWay, Accounted, NothingLost
<1>2. QED
  BY <1>1, LayoutInvHolds, PTL

----------------------------------------------------------------------------
(* Blocks that were found *)

Results == result = [t \in Threads |-> result[t]]

(* Within a sound layout a block that ends in the system region is apart from the others. *)
LEMMA FoundApart ==
  ASSUME NEW l \in AnyLayout, Sound(l), NEW size \in 0 .. AddrSpace - 1,
         ~ (Plus(l.system.start, size) > End(l.system)), ~ Wraps(Region(l.system.start, size))
  PROVE  /\ l.system.start + size <= l.system.start + l.system.size
         /\ \A n \in RegionNames \ {"system"} :
              l[n].size = 0 \/ Wraps(l[n]) \/ Apart(Region(l.system.start, size), l[n])
<1>1. AddrSpace \in Nat /\ "system" \in Validated /\ "system" \in RegionNames
  BY LayoutAssumption DEF Validated, RegionNames
<1>2. \A n \in RegionNames : l[n].start \in 0 .. AddrSpace - 1 /\ l[n].size \in 0 .. AddrSpace - 1
  BY DEF AnyLayout
<1>3. l["system"].size > 0 /\ ~ Wraps(l["system"])
  BY <1>1 DEF Sound
<1>4. l["system"].start + size <= l["system"].start + l["system"].size
  BY <1>1, <1>2, <1>3 DEF Plus, End, Wraps, Region
<1>5. ASSUME NEW n \in RegionNames \ {"system"}, l[n].size # 0, ~ Wraps(l[n])
      PROVE  Apart(Region(l["system"].start, size), l[n])
  <2>1. l[n].size > 0
    BY <1>2, <1>5
  <2>2. Apart(l["system"], l[n])
    BY <1>1, <1>3, <1>5, <2>1 DEF Sound
  <2>3. QED
    BY <1>1, <1>2, <1>4, <2>2 DEF Apart, Region
<1>6. QED
  BY <1>4, <1>5

LEMMA ReadFindsApart ==
  ASSUME LayoutInv, Results, FoundBlocksApart, NEW t \in Threads, Read(t)
  PROVE  Results' /\ FoundBlocksApart'
<1>1. PICK v : /\ result' = [result EXCEPT ![t] = v]
               /\ \/ v.value # "found"
                  \/ \E s \in BlockSizes : v = Found(heap[obj[t]], s)
  <2>1. ASSUME NEW s \in BlockSizes, Return(t, Found(heap[obj[t]], s))
        PROVE  result' = [result EXCEPT ![t] = Found(heap[obj[t]], s)]
    BY <2>1 DEF Return
  <2>2. ASSUME NEW why \in {"ENOENT", "ok"}, Return(t, [value |-> why])
        PROVE  /\ result' = [result EXCEPT ![t] = [value |-> why]]
               /\ [value |-> why].value # "found"
    BY <2>2 DEF Return
  <2>3. \/ \E s \in BlockSizes : Return(t, Found(heap[obj[t]], s))
        \/ \E why \in {"ENOENT", "ok"} : Return(t, [value |-> why])
    BY DEF Read
  <2>4. QED
    BY <2>1, <2>2, <2>3
<1>2. heap[obj[t]] \in AnyLayout /\ Sound(heap[obj[t]])
  BY LayoutAssumption DEF Read, LayoutInv, Reading, AnyLayout
<1>3. ASSUME v.value = "found", ~ Wraps(v.block)
      PROVE  /\ v.block.start + v.block.size <= v.layout.system.start + v.layout.system.size
             /\ \A n \in RegionNames \ {"system"} :
                  v.layout[n].size = 0 \/ Wraps(v.layout[n]) \/ Apart(v.block, v.layout[n])
  <2>1. PICK s \in BlockSizes : v = Found(heap[obj[t]], s)
    BY <1>1, <1>3
  <2>2. s \in 0 .. AddrSpace - 1
    BY LayoutAssumption
  <2>3. /\ ~ (Plus(heap[obj[t]].system.start, s) > End(heap[obj[t]].system))
        /\ v.layout = heap[obj[t]] /\ v.block = Region(heap[obj[t]].system.start, s)
    BY <1>3, <2>1 DEF Found
  <2>4. QED
    BY <1>2, <1>3, <2>2, <2>3, FoundApart DEF Region
<1>4. \A u \in Threads : result'[u] = IF u = t THEN v ELSE result[u]
  BY <1>1 DEF Results
<1>5. FoundBlocksApart'
  BY <1>3, <1>4 DEF FoundBlocksApart, Wraps, Apart
<1>6. QED
  BY <1>1, <1>5 DEF Results

(* A step that finds nothing. *)
LEMMA NothingFound ==
  ASSUME Results, FoundBlocksApart, NEW t \in Threads, NEW v, v.value # "found",
         result' = [result EXCEPT ![t] = v]
  PROVE  Results' /\ FoundBlocksApart'
<1>1. \A u \in Threads : result'[u] = IF u = t THEN v ELSE result[u]
  BY DEF Results
<1>2. QED
  BY <1>1 DEF Results, FoundBlocksApart, Wraps, Apart

LEMMA FoundKept ==
  ASSUME LayoutInv, Results, FoundBlocksApart, [LayoutNext]_layoutVars
  PROVE  Results' /\ FoundBlocksApart'
<1>1. ASSUME UNCHANGED result PROVE Results' /\ FoundBlocksApart'
  BY <1>1 DEF Results, FoundBlocksApart, Wraps, Apart
<1>2. ASSUME NEW t \in Threads,
             \/ \E b \in BoardTypes : ddr_layout_init(t, b)
             \/ \E l \in Candidates : ddr_layout_set(t, l)
             \/ Publish(t) \/ ddr_layout_cleanup(t)
             \/ \E what \in {"get", "region_info", "find_free", "print"} : Lookup(t, what)
      PROVE  UNCHANGED result \/ \E v : v.value # "found" /\ result' = [result EXCEPT ![t] = v]
  <2>1. ASSUME NEW what, NEW l, Prepare(t, what, l) PROVE UNCHANGED result
    BY <2>1 DEF Prepare
  <2>2. ASSUME NEW why \in {"ENOMEM", "ENODEV", "EINVAL"}, Refuse(t, why)
        PROVE  \E v : v.value # "found" /\ result' = [result EXCEPT ![t] = v]
    BY <2>2 DEF Refuse, Return
  <2>3. ASSUME NEW b, ddr_layout_init(t, b)
        PROVE  UNCHANGED result \/ \E v : v.value # "found" /\ result' = [result EXCEPT ![t] = v]
    BY <2>1, <2>2, <2>3 DEF ddr_layout_init
  <2>4. ASSUME NEW l, ddr_layout_set(t, l)
        PROVE  UNCHANGED result \/ \E v : v.value # "found" /\ result' = [result EXCEPT ![t] = v]
    BY <2>1, <2>2, <2>4 DEF ddr_layout_set
  <2>5. CASE Publish(t)
    BY <2>5 DEF Publish, Return
  <2>6. CASE ddr_layout_cleanup(t)
    BY <2>6 DEF ddr_layout_cleanup
  <2>7. ASSUME NEW what, Lookup(t, what)
        PROVE  UNCHANGED result \/ \E v : v.value # "found" /\ result' = [result EXCEPT ![t] = v]
    BY <2>7 DEF Lookup, Return
  <2>8. QED
    BY <1>2, <2>3, <2>4, <2>5, <2>6, <2>7
<1>3. CASE UNCHANGED layoutVars
  BY <1>1, <1>3 DEF layoutVars
<1>4. QED
  BY <1>1, <1>2, <1>3, NothingFound, ReadFindsApart DEF LayoutNext, LayoutStep

(* What ddr_layout_find_free gives lies in the system region and touches no other, for every
   layout, size and width of addresses, unless it wraps. *)
THEOREM FoundBlocksApartSafe == LayoutSpec => []FoundBlocksApart
<1>1. LayoutStart => Results /\ FoundBlocksApart
  BY DEF LayoutStart, Results, FoundBlocksApart
<1>2. LayoutInv /\ (Results /\ FoundBlocksApart) /\ [LayoutNext]_layoutVars
        => (Results /\ FoundBlocksApart)'
  BY FoundKept
<1>3. QED
  BY <1>1, <1>2, LayoutInvHolds, PTL DEF LayoutSpec

----------------------------------------------------------------------------
(* The refinement *)

\* What the abstract place holds.
InForce ==
  IF current = Nobody THEN [pointer |-> "null"]
  ELSE IF current \in Allocated THEN [layout |-> heap[current]]
  ELSE [pointer |-> "dangling"]

LEMMA RegisterStarts == LayoutStart => Register!RegisterInit
BY DEF LayoutStart, Register!RegisterInit

(* Publishing is a replacement by a sound layout, a cleanup clears the place, and no other step
   shows. *)
LEMMA RegisterSteps ==
  ASSUME LayoutInv, [LayoutNext]_layoutVars
  PROVE  Register!Replace \/ Register!Clear \/ InForce' = InForce
<1>1. ASSUME NEW t \in Threads, Publish(t) PROVE Register!Replace
  <2>1. /\ obj[t] \in Allocated /\ obj[t] # current /\ op[t] = "set" /\ current' = obj[t]
        /\ heap' = IF current # Nobody THEN Without(current) ELSE heap
    BY <1>1 DEF Publish, LayoutInv, OnItsWay
  <2>2. current' # Nobody /\ current' \in Allocated'
    BY <2>1, LayoutAssumption DEF LayoutInv, LayoutTypeOK, Allocated, Without
  <2>3. heap'[current'] = heap[obj[t]]
    BY <2>1 DEF Allocated, Without
  <2>4. heap[obj[t]] \in {k \in Layouts : Sound(k)}
    BY <2>1 DEF LayoutInv, LayoutTypeOK
  <2>5. QED
    BY <2>2, <2>3, <2>4 DEF Register!Replace
<1>2. ASSUME NEW t \in Threads, ddr_layout_cleanup(t) PROVE Register!Clear
  BY <1>2 DEF ddr_layout_cleanup, Register!Clear
<1>3. CASE UNCHANGED <<heap, current>>
  BY <1>3 DEF InForce, Allocated
<1>4. ASSUME NEW t \in Threads, NEW l \in Candidates, ddr_layout_set(t, l)
      PROVE  InForce' = InForce
  <2>1. CASE \E why : Refuse(t, why)
    BY <2>1, <1>3 DEF Refuse, InForce, Allocated
  <2>2. CASE Prepare(t, "set", l)
    <3>1. PICK o \in Objects \ Allocated : heap' = With(o, l) /\ current' = current
      BY <2>2 DEF Prepare
    <3>2. \A x \in Allocated : x \in Allocated' /\ heap'[x] = heap[x]
      BY <3>1 DEF With, Allocated
    <3>3. QED
      BY <3>1, <3>2 DEF LayoutInv, InForce
  <2>3. QED
    BY <1>4, <2>1, <2>2, SetPrepares
<1>5. ASSUME NEW t \in Threads, NEW b \in BoardTypes, ddr_layout_init(t, b)
      PROVE  UNCHANGED <<heap, current>>
  BY <1>5, InitRefuses DEF Refuse
<1>6. ASSUME NEW t \in Threads,
             \/ Read(t)
             \/ \E what \in {"get", "region_info", "find_free", "print"} : Lookup(t, what)
      PROVE  UNCHANGED <<heap, current>>
  BY <1>6 DEF Read, Lookup
<1>7. CASE UNCHANGED layoutVars
  BY <1>3, <1>7 DEF layoutVars
<1>8. QED
  BY <1>1, <1>2, <1>3, <1>4, <1>5, <1>6, <1>7 DEF LayoutNext, LayoutStep

(* The detailed module implements the abstract place, for any callers and any layouts. *)
THEOREM LayoutIsRegisterHolds == LayoutSpec => LayoutIsRegister
<1>1. LayoutInv /\ [LayoutNext]_layoutVars
        => [Register!Replace \/ Register!Clear]_InForce
  BY RegisterSteps
<1>2. QED
  BY <1>1, RegisterStarts, LayoutInvHolds, PTL
     DEF LayoutSpec, LayoutIsRegister, Register!RegisterSpec, InForce

=============================================================================
