----------------------------- MODULE MCUbootDdr -----------------------------
(* U-Boot's DDR code as one program: its single thread calls the controller code and the
   partition code in any order, and neither touches the other's state.  What it prints is
   compared with what is there. *)
EXTENDS DdrPartition, DdrInit, UbootOutput, SequencesExt, TLC

CONSTANT PartNames

UbootStart == PartitionStart /\ ControllerStart

UbootNext ==
  \/ PartitionNext /\ UNCHANGED controllerVars
  \/ ControllerNext /\ UNCHANGED partitionVars

UbootSpec == UbootStart /\ [][UbootNext]_<<partitionVars, controllerVars>>

\* One name more than the table has room for; three of the sizes pass SizeWrap.
MCPartitions == [name : PartNames, size : {1}, type : {1, 2}]

\* The timings t, with every timing they do not name at 16.
TimingsWith(t) == [n \in TimingNames |-> IF n \in DOMAIN t THEN t[n] ELSE 16]

(* Timings by their refresh cycle time: that of the boards, which the registers cannot hold, and
   another.  What the registers hold of it is what the timing table shows. *)
MCNoTiming == 0
MCTimings  == {350, 95}
MCPack     == [t \in MCTimings \cup {MCNoTiming} |->
                 ddr_print_timing_table(ddr_timing_init(TimingsWith("tRFC" :> t)))["tRFC"]]

(* Neither names nor values of settings are ordered. *)
Interchangeable == Permutations(PartNames) \cup Permutations(Values)

----------------------------------------------------------------------------
(* The default partitions follow each other without a gap and cover the four gigabytes that 32
   bits address: had ddr_partition_add taken them, total_size would be 0. *)
ASSUME DefaultsTile ==
  /\ DefaultPartitions[1].start = 0
  /\ \A i \in 2 .. Len(DefaultPartitions) :
       DefaultPartitions[i].start = DefaultPartitions[i - 1].start + DefaultPartitions[i - 1].size
  /\ FoldSeq(LAMBDA p, sum : p.size + sum, 0, DefaultPartitions) % (2 ^ 8) = 0

(* The table shows the timings that were set, as long as each fits a byte; one that does not is
   shown without its high part, which it may leave in another. *)
ASSUME TableShowsTimings ==
  \A m, n \in TimingNames, v, w \in {0, 4, 255, 256, 350} :
    LET t == TimingsWith(m :> v @@ n :> w)
        shown == ddr_print_timing_table(ddr_timing_init(t))
    IN  /\ (\A k \in TimingNames : t[k] < 256) => shown = t
        /\ (\E k \in TimingNames : t[k] > 255) => shown # t

(* The refresh cycle time of every board, 350, reaches the controller as 94. *)
ASSUME RefreshCycleLost ==
  ddr_print_timing_table(ddr_timing_init(TimingsWith("tRFC" :> 350))) = TimingsWith("tRFC" :> 94)

(* A dump shows every byte once, in order; a full line fits the buffer with its end as long as
   the prefix and the digits of the address are ten characters together. *)
ASSUME HexdumpShowsAll ==
  \A size \in 0 .. 40, prefix \in 0 .. 4, digits \in 8 .. 11 :
    LET lines == ddr_print_hexdump(size, prefix, digits)
        starts == [i \in DOMAIN lines |-> lines[i].from]
    IN  /\ FoldSeq(LAMBDA l, sum : l.shown + sum, 0, lines) = size
        /\ \A i \in DOMAIN lines : i > 1 => starts[i] = starts[i - 1] + lines[i - 1].shown
        /\ size >= PerLine =>
             ((\A i \in DOMAIN lines : lines[i].length < LineBuffer) <=> prefix + digits <= 10)

=============================================================================
