---------------------------- MODULE DdrPartition ----------------------------
(***************************************************************************)
(* src/uboot-ddr-init/ddr_partition.c: the partition table of U-Boot, an   *)
(* array that callers add to at the end and remove from anywhere, with     *)
(* partitions named by a string and by an id.  U-Boot is single-threaded:  *)
(* an operation is one step.                                               *)
(*                                                                         *)
(* A call the code refuses changes nothing and is a guard that is false.   *)
(* get, find and get_by_type only read and are operators here, 0 where the *)
(* code returns an error, and so is what dump shows.  Addresses, flags,    *)
(* priorities, used_size and free_size are copied or left alone and never  *)
(* looked at.  The table keeps the caller's name pointer: names are taken  *)
(* to stay as they are.                                                    *)
(***************************************************************************)
EXTENDS Integers, Sequences, FiniteSets

CONSTANTS
  Partitions,      \* what callers pass: records with name, size and type
  MaxPartitions,   \* DDR_MAX_PARTITIONS
  SizeWrap         \* 2^32: total_size is an unsigned int

ASSUME PartitionAssumption ==
  /\ \A p \in Partitions : p.size \in Nat
  /\ MaxPartitions \in Nat
  /\ SizeWrap \in Nat \ {0}

VARIABLES
  ready,           \* g_partition_initialized
  table,           \* g_partition_table.partitions, up to num_partitions
  totalSize,       \* g_partition_table.total_size
  grown,           \* ghost: nothing was removed since the table was initialized
  issued           \* ghost: how often each id was returned by an add and not yet
                   \*   given to a remove that found it

partitionVars == <<ready, table, totalSize, grown, issued>>

Ids   == 1..MaxPartitions
Entry == [id : Ids, part : Partitions]

Positions(id) == {i \in 1..Len(table) : table[i].id = id}

IsFirst(i, S) == i \in S /\ \A j \in S : i <= j
First(S)      == CHOOSE i \in S : IsFirst(i, S)

\* ddr_partition_get: the position of the first match from the start of the array.
Get(id) == IF ready /\ Positions(id) # {} THEN First(Positions(id)) ELSE 0

\* ddr_partition_find: the id of the first partition of that name.
Find(name) ==
  LET named == {i \in 1..Len(table) : table[i].part.name = name}
  IN  IF ready /\ named # {} THEN table[First(named)].id ELSE 0

\* ddr_partition_get_by_type: the position of the partition of that type that index others
\* of the type are before.
GetByType(type, index) ==
  LET OfType(i)   == {j \in 1..i : table[j].part.type = type}
      at == {i \in 1..Len(table) : i \in OfType(i) /\ Cardinality(OfType(i)) = index + 1}
  IN  IF ready /\ at # {} THEN First(at) ELSE 0

ddr_partition_get_count == IF ready THEN Len(table) ELSE 0

\* The lines that ddr_partition_dump prints, in order; none when the table is not initialized.
ddr_partition_dump ==
  IF ready THEN [i \in 1..Len(table) |-> [id |-> table[i].id, name |-> table[i].part.name]]
           ELSE <<>>

Emptied ==
  /\ table' = <<>>
  /\ totalSize' = 0
  /\ grown' = TRUE
  /\ issued' = [id \in Ids |-> 0]

PartitionStart ==
  /\ ready = FALSE
  /\ table = <<>>
  /\ totalSize = 0
  /\ grown = TRUE
  /\ issued = [id \in Ids |-> 0]

\* ddr_default_partitions, in units of 16 MB.
Default(name, start, size) == [name |-> name, start |-> start, size |-> size]
DefaultPartitions ==
  <<Default("bootloader", 0, 1), Default("uboot", 1, 1), Default("kernel", 2, 14),
    Default("dtb", 16, 1), Default("reserved", 17, 15), Default("npu", 32, 8),
    Default("gpu", 40, 8), Default("vpu", 48, 16), Default("system", 64, 192)>>

\* ddr_partition_init.  Each of the default partitions is offered to ddr_partition_add before
\* g_partition_initialized is set, and refused with -ENODEV: the table starts empty.
PartitionInit ==
  /\ ~ready
  /\ ready' = TRUE
  /\ Emptied

\* Mutants: the duplicate check forgets the last entry; the id is the count before the add.
IsNewSkipLast(p)  == \A i \in 1..(Len(table) - 1) : table[i].part.name # p.name
NextIdFromCount   == Len(table)

IsNew(p)  == \A i \in 1..Len(table) : table[i].part.name # p.name
NextId    == Len(table) + 1

HasRoom == Len(table) < MaxPartitions

\* Mutant: the partition is put in front of the others.
EnterInFront(e) == <<e>> \o table

Enter(e) == Append(table, e)

PartitionAdd(p) ==
  /\ ready
  /\ HasRoom
  /\ IsNew(p)
  /\ table' = Enter([id |-> NextId, part |-> p])
  /\ totalSize' = (totalSize + p.size) % SizeWrap
  /\ issued' = [issued EXCEPT ![NextId] = @ + 1]
  /\ UNCHANGED <<ready, grown>>

\* Mutant: the entries behind are not moved up.
Unmoved(k) == [j \in 1..(Len(table) - 1) |-> table[j]]

\* The memcpy loop that closes the gap at k.
Closed(k) == [j \in 1..(Len(table) - 1) |-> IF j < k THEN table[j] ELSE table[j + 1]]

\* total_size and the ids of the other entries stay as they are.
PartitionRemove(id) ==
  /\ ready
  /\ \E k \in 1..Len(table) :
       /\ IsFirst(k, Positions(id))
       /\ table' = Closed(k)
  /\ grown' = FALSE
  /\ issued' = [issued EXCEPT ![id] = @ - 1]
  /\ UNCHANGED <<ready, totalSize>>

PartitionCleanup ==
  /\ ready
  /\ ready' = FALSE
  /\ Emptied

PartitionNext ==
  \/ PartitionInit
  \/ \E p \in Partitions : PartitionAdd(p)
  \/ \E id \in Ids : PartitionRemove(id)
  \/ PartitionCleanup

PartitionSpec == PartitionStart /\ [][PartitionNext]_partitionVars

----------------------------------------------------------------------------
(* Properties *)

(* Types; num_partitions never exceeds the array that ddr_partition_init allocates. *)
PartitionTypeOK ==
  /\ ready \in BOOLEAN /\ grown \in BOOLEAN
  /\ table \in Seq(Entry)
  /\ Len(table) <= MaxPartitions
  /\ totalSize \in 0..(SizeWrap - 1)
  /\ issued \in [Ids -> Int]

(* Two partitions of the table never have the same name, so a search by name is exact. *)
NamesUnique ==
  \A i, j \in 1..Len(table) : table[i].part.name = table[j].part.name => i = j

(* ddr_partition_add takes the id from the count, and removals move entries up: an id is never
   below its position, and as long as nothing was removed it is the position, so that ids are
   unique. *)
IdsFollowPositions ==
  \A i \in 1..Len(table) :
    /\ table[i].id >= i
    /\ grown => table[i].id = i

(* An id that ddr_partition_add returned and nobody removed is in the table as often as it was
   returned, and the dump and the count show it so: every owner of an id can still remove one
   partition with it, although after a removal two owners may hold the same id. *)
IssuedIdsPresent ==
  /\ Len(ddr_partition_dump) = ddr_partition_get_count
  /\ \A id \in Ids :
       LET shown == {i \in 1..ddr_partition_get_count : ddr_partition_dump[i].id = id}
       IN  Cardinality(shown) = issued[id]

Names == {p.name : p \in Partitions}
Types == {p.type : p \in Partitions}

\* No partition of that id is removed in the step.
Kept(id) == issued'[id] >= issued[id]

IdFound(id) ==
  Get(id) # 0 /\ Kept(id) => Get(id)' # 0 /\ table'[Get(id)'] = table[Get(id)]

NameFound(name) ==
  Find(name) # 0 /\ Kept(Find(name)) => Find(name)' = Find(name)

TypeFound(type, index) ==
  GetByType(type, index) # 0 => GetByType(type, index)' = GetByType(type, index)

(* What ddr_partition_get answers for an id, and ddr_partition_find for a name, changes only when
   a partition of that id is removed or the table is cleaned up; and what get_by_type answers
   for an index only when some partition is removed: adding partitions, and removing others,
   never redirects a lookup. *)
LookupsChangeOnlyByRemoval ==
  [][ready /\ ready' /\ table' # table =>
       /\ \A id \in Ids : IdFound(id)
       /\ \A name \in Names : NameFound(name)
       /\ (\A id \in Ids : Kept(id)) =>
            \A type \in Types, index \in 0..(MaxPartitions - 1) : TypeFound(type, index)
    ]_partitionVars

=============================================================================
