------------------------- MODULE KernelModuleProofs -------------------------
(* What unloading the module leaves behind, what memory and what frequency it reports and where
   the library stops, for any number of processes and programs. *)
EXTENDS DdrSystem, SumTheorems

Labels == {"out", "ioctl", "check", "copy", "free", "frequency", "voltage", "timing", "verify",
           "reset", "proc", "dead"}

\* How far loading has come when the size of the memory is known and the regions are not listed.
Asking == {"freqRead", "freqSet", "voltRead", "asked"}

(* A process is in an ioctl only with the device open, so that ddr_module_exit, which waits for
   the last file to be closed, waits for the ioctls.  The threads leave one after the other, and
   the health thread is there only while the registers are mapped: between the start of the
   threads, after everything that can fail before them, and the teardown. *)
QuietInv ==
  /\ pc \in [Users -> Labels]
  /\ thread \in [Threads -> {"none", "awake", "asleep", "exited"}]
  /\ \A u \in Users : pc[u] \notin {"out", "proc", "dead"} => u \in files
  /\ phase \in {"exiting", "stuck", "gone"} => files = {}
  /\ phase \notin {"listed", "exiting", "stuck"} => stopping = {}
  /\ phase = "exiting" =>
       \/ stopping \in {{}, {"monitor"}}
       \/ stopping = {"health"} /\ thread["monitor"] = "exited"
  /\ phase = "gone" =>
       (\A u \in Users : pc[u] # "proc") /\ (\A k \in Threads : thread[k] = "exited")
  /\ thread["health"] # "none" => phase \in {"ready", "exiting", "stuck", "gone"}
  /\ phase = "gone" \/ thread["health"] = "exited" \/ thread["health"] = "none" \/ mapped
  /\ phase \in {"mapped", "listed", "ready", "exiting", "stuck"} \cup Asking => mapped

LEMMA QuietStarts == SystemStart => QuietInv
BY DEF SystemStart, ModuleStart, QuietInv, Labels, Threads, Asking

(* Loading: a device whose initialisation fails has no health thread yet. *)
LEMMA LoadKeepsQuiet == ASSUME QuietInv, LoadStep PROVE QuietInv'
<1> USE DEF QuietInv, Labels, Threads, Asking
<1>1. CASE AddDevice
  BY <1>1 DEF AddDevice, threads, settings, memory, request
<1>2. CASE MapRegisters
  BY <1>2 DEF MapRegisters, threads
<1>3. CASE ReadFrequency \/ StoreFrequency \/ ReadVoltage \/ StoreVoltage
  BY <1>3 DEF ReadFrequency, StoreFrequency, ReadVoltage, StoreVoltage, threads
<1>4. CASE AddRegions
  BY <1>4 DEF AddRegions, threads
<1>5. CASE StartMonitor
  BY <1>5 DEF StartMonitor, device
<1>6. CASE StartHealth
  BY <1>6 DEF StartHealth
<1>7. CASE InitFails
  BY <1>7 DEF InitFails
<1>8. QED
  BY <1>1, <1>2, <1>3, <1>4, <1>5, <1>6, <1>7 DEF LoadStep

(* The ioctls leave the device, the files and the threads as they are; the process that dies in
   one loses its file. *)
LEMMA IoctlKeepsQuiet ==
  ASSUME QuietInv, NEW u \in Users, Present, IoctlStep(u)
  PROVE  QuietInv'
<1>1. /\ UNCHANGED <<phase, mapped, thread, stop, stopping>>
      /\ pc[u] \notin {"out", "proc", "dead"}
      /\ \/ files' = files
            /\ \E label \in Labels \ {"proc"} : pc' = [pc EXCEPT ![u] = label]
         \/ files' = files \ {u} /\ pc' = [pc EXCEPT ![u] = "dead"]
  <2>1. CASE \/ IoctlReturns(u) \/ AllocPages(u) \/ CheckRegion(u) \/ CopyOut(u)
             \/ Uncount(u) \/ FreePages(u)
    BY <2>1 DEF IoctlReturns, AllocPages, CheckRegion, CopyOut, Uncount, FreePages, Leave, Goto,
                device, threads, Labels
  <2>2. CASE StartConfig(u) \/ Verify(u) \/ IoctlReset(u) \/ ResetRest(u) \/ Oops(u)
    BY <2>2 DEF StartConfig, Verify, IoctlReset, ResetRest, Oops, Leave, Goto, device, threads,
                Labels
  <2>3. ASSUME NEW s \in Settings, WriteSetting(u, s)
        PROVE  /\ UNCHANGED <<phase, mapped, thread, stop, stopping, files>>
               /\ pc[u] = s /\ pc' = [pc EXCEPT ![u] = Following(s)]
               /\ s \notin {"out", "proc", "dead"} /\ Following(s) \in Labels \ {"proc"}
    <3>1. /\ UNCHANGED <<phase, mapped, thread, stop, stopping, files>>
          /\ pc[u] = s /\ pc' = [pc EXCEPT ![u] = Following(s)]
      BY <2>3 DEF WriteSetting, Goto, device, threads
    <3>2. s \notin {"out", "proc", "dead"} /\ Following(s) \in Labels \ {"proc"}
      BY DEF Settings, Following, Labels
    <3>3. QED
      BY <3>1, <3>2
  <2>4. QED
    BY <2>1, <2>2, <2>3 DEF IoctlStep
<1>2. phase \notin {"exiting", "stuck", "gone"}
  BY DEF Present
<1>3. QED
  BY <1>1, <1>2 DEF QuietInv, Labels, Threads, Asking

LEMMA UserKeepsQuiet == ASSUME QuietInv, NEW u \in Users, UserStep(u) PROVE QuietInv'
<1> USE DEF QuietInv, Labels, Threads, Asking
<1>1. CASE ddr_open(u)
  BY <1>1 DEF ddr_open, device, threads, Present
<1>2. CASE ddr_release(u)
  BY <1>2 DEF ddr_release, device, threads, Present
<1>3. CASE ddr_ioctl(u)
  BY <1>3 DEF ddr_ioctl, device, threads, Present, Goto
<1>4. CASE Present /\ IoctlStep(u)
  BY <1>4, IoctlKeepsQuiet
<1>5. CASE StartProc(u)
  BY <1>5 DEF StartProc, FilesShown, device, threads, Goto
<1>6. CASE EndProc(u)
  BY <1>6 DEF EndProc, device, threads, Goto
<1>7. QED
  BY <1>1, <1>2, <1>3, <1>4, <1>5, <1>6 DEF UserStep

(* A thread that has left stays away, and none appears. *)
LEMMA ThreadKeepsQuiet == ASSUME QuietInv, NEW k \in Threads, ThreadStep(k) PROVE QuietInv'
<1>1. /\ UNCHANGED <<phase, mapped, files, stopping, pc>>
      /\ thread[k] \in {"awake", "asleep"}
      /\ \E s \in {"awake", "asleep", "exited"} : thread' = [thread EXCEPT ![k] = s]
  BY DEF ThreadStep, Round, WakeUp, device
<1>2. QED
  BY <1>1 DEF QuietInv, Labels, Threads

LEMMA ExitKeepsQuiet == ASSUME QuietInv, ExitStep PROVE QuietInv'
<1> USE DEF QuietInv, Labels, Threads, Asking
<1>1. CASE StartExit
  BY <1>1 DEF StartExit
<1>2. CASE StopMonitor
  BY <1>2 DEF StopMonitor, kthread_stop
<1>3. CASE StopHealth
  BY <1>3 DEF StopHealth, kthread_stop
<1>4. CASE Teardown
  BY <1>4 DEF Teardown
<1>5. QED
  BY <1>1, <1>2, <1>3, <1>4 DEF ExitStep

(* Programs meet the device as any process does. *)
LEMMA QuietKept == ASSUME QuietInv, [SystemNext]_systemVars PROVE QuietInv'
<1> USE SystemAssumption
<1>0. UNCHANGED moduleVars => QuietInv'
  BY DEF moduleVars, device, threads, QuietInv
<1>1. CASE LoadStep
  BY <1>1, LoadKeepsQuiet
<1>2. ASSUME NEW u \in Direct, UserStep(u) PROVE QuietInv'
  BY <1>2, UserKeepsQuiet
<1>3. CASE WriteDebugfs
  BY <1>3 DEF WriteDebugfs, device, threads, QuietInv
<1>4. ASSUME NEW k \in Threads, ThreadStep(k) PROVE QuietInv'
  BY <1>4, ThreadKeepsQuiet
<1>5. CASE ExitStep
  BY <1>5, ExitKeepsQuiet
<1>6. ASSUME NEW p \in Programs, LibraryOpens(p) PROVE QuietInv'
  BY <1>6, UserKeepsQuiet DEF LibraryOpens, UserStep
<1>7. ASSUME NEW p \in Programs, ProgramKilled(p) PROVE QuietInv'
  BY <1>0, <1>7, UserKeepsQuiet DEF ProgramKilled, UserStep
<1>8. CASE UNCHANGED systemVars
  BY <1>0, <1>8 DEF systemVars
<1>9. QED
  BY <1>0, <1>1, <1>2, <1>3, <1>4, <1>5, <1>6, <1>7, <1>8 DEF SystemNext, ModuleNext

(* Once the module is gone no process is in it, no thread of it is left, and the health thread
   never finds the registers unmapped, whoever opens, asks, dies and is killed meanwhile. *)
THEOREM QuietAfterExitSafe == SystemSpec => []QuietAfterExit
<1>1. QuietInv => QuietAfterExit
  BY DEF QuietInv, QuietAfterExit, Labels, Threads
<1>2. QED
  BY <1>1, QuietStarts, QuietKept, PTL DEF SystemSpec

----------------------------------------------------------------------------
(* The books *)

Pending    == {u \in Users : pc[u] \in {"check", "free"}}
Counted    == live \ {block[u] : u \in Pending}
Blocks     == [ptr : Addresses, size : Sizes]

(* A block is on the books from the check of its region until it is taken back, and only the
   owner of the mutex has one that is not.  Blocks share no memory.  Nothing is on the books
   before the size of the memory is known, for then there are no regions. *)
BooksInv ==
  /\ pc \in [Users -> Labels]
  /\ \A u \in Users : pc[u] \notin {"out", "proc"} => mutex = u
  /\ \A u \in Users : pc[u] \in {"check", "copy", "free"} => block[u] \in live
  /\ block \in [Users -> Blocks \cup {NoBlock}]
  /\ live \subseteq Blocks /\ IsFiniteSet(live)
  /\ \A b \in live : b.ptr % b.size = 0
  /\ \A b, c \in live : b # c => Covers(b) \cap Covers(c) = {}
  /\ used = SizeSum(Counted) /\ count = Cardinality(Counted)
  /\ total \in Nat
  /\ phase \in Asking => total = TotalMemory
  /\ total # TotalMemory => regions = {} /\ Counted = {}

LEMMA BooksStart == SystemStart => BooksInv
<1> SUFFICES ASSUME SystemStart PROVE BooksInv
  OBVIOUS
<1>1. Counted = {}
  BY DEF SystemStart, ModuleStart, Counted
<1>2. SizeSum({}) = 0 /\ Cardinality({}) = 0 /\ IsFiniteSet({})
  BY SizeSumEmpty, FS_EmptySet
<1>3. QED
  BY <1>1, <1>2, ModuleAssumption DEF SystemStart, ModuleStart, BooksInv, Labels, Blocks, Asking

LEMMA BooksSized == ASSUME BooksInv PROVE Sized(live) /\ Sized(Counted) /\ Counted \subseteq live
<1>1. Sized(live)
  BY ModuleAssumption DEF BooksInv, Blocks, Sized
<1>2. QED
  BY <1>1, SizeSumSubset DEF Counted

(* The process at work in an ioctl is the only one whose block can be off the books. *)
LEMMA OnlyMine ==
  ASSUME BooksInv, NEW u \in Users, pc[u] \notin {"out", "proc"}
  PROVE  /\ Pending \subseteq {u}
         /\ pc[u] \in {"check", "free"} => Counted = live \ {block[u]}
         /\ pc[u] \notin {"check", "free"} => Counted = live
BY DEF BooksInv, Pending, Counted

(* Steps that leave the blocks and the books alone, and every other process where it is. *)
LEMMA BooksUntouched ==
  ASSUME BooksInv, UNCHANGED <<memory, block>>,
         total' \in {total, TotalMemory}, regions' = regions \/ regions' = {} \/ total' = TotalMemory,
         phase' \in Asking => phase \in Asking \/ total' = TotalMemory,
         pc' \in [Users -> Labels],
         \A u \in Users : pc'[u] \notin {"out", "proc"} => mutex' = u,
         \A u \in Users : pc'[u] \in {"check", "free"} <=> pc[u] \in {"check", "free"},
         \A u \in Users : pc'[u] = "copy" => pc[u] = "copy"
  PROVE  BooksInv'
<1>1. Pending' = Pending
  BY DEF Pending
<1>2. Counted' = Counted
  BY <1>1 DEF Counted, memory
<1>3. QED
  BY <1>2, ModuleAssumption DEF BooksInv, memory

(* Steps of the owner of the mutex that leave the blocks alone: it goes on, or lets go of the
   mutex. *)
LEMMA OwnerMoves ==
  ASSUME BooksInv, NEW u \in Users, pc[u] \in Labels \ {"out", "proc", "check", "free"},
         UNCHANGED <<memory, phase, regions>>, total' \in {total, TotalMemory},
         \/ \E label \in Labels \ {"out", "proc", "check", "copy", "free"} :
              Goto(u, label) /\ UNCHANGED <<mutex, block>>
         \/ Leave(u)
  PROVE  BooksInv'
<1>1. \A v \in Users \ {u} : pc[v] \in {"out", "proc"}
  BY DEF BooksInv
<1>2. pc' \in [Users -> Labels]
  BY DEF BooksInv, Goto, Leave, Labels
<1>3. CASE \E label \in Labels \ {"out", "proc", "check", "copy", "free"} :
             Goto(u, label) /\ UNCHANGED <<mutex, block>>
  <2>1. \A v \in Users : pc'[v] \notin {"out", "proc"} => mutex' = v
    BY <1>1, <1>3 DEF BooksInv, Goto
  <2>2. \A v \in Users : ~ (pc'[v] \in {"check", "free"}) /\ ~ (pc[v] \in {"check", "free"})
    BY <1>1, <1>3 DEF BooksInv, Goto
  <2>3. QED
    BY <1>1, <1>2, <1>3, <2>1, <2>2, BooksUntouched DEF BooksInv, Goto
<1>4. CASE Leave(u)
  <2>1. \A v \in Users : pc'[v] \in {"out", "proc"}
    BY <1>1, <1>4 DEF Leave, Goto, BooksInv
  <2>2. Counted' = live /\ Counted = live
    BY <1>1, <2>1, OnlyMine DEF Counted, Pending, memory
  <2>3. block' \in [Users -> Blocks \cup {NoBlock}]
    BY <1>4 DEF Leave, BooksInv
  <2>4. QED
    BY <1>2, <2>1, <2>2, <2>3, ModuleAssumption DEF BooksInv, memory
<1>5. QED
  BY <1>3, <1>4

(* A new block shares no memory with the others, so it is none of them. *)
LEMMA AllocKeepsBooks ==
  ASSUME BooksInv, NEW u \in Users, AllocPages(u)
  PROVE  BooksInv'
<1>1. PICK b \in Blocks :
        /\ b.ptr % b.size = 0 /\ Covers(b) \cap InUse = {}
        /\ live' = live \cup {b}
        /\ block' = [block EXCEPT ![u] = b]
  BY DEF AllocPages, Blocks
<1>2. pc[u] = "ioctl" /\ pc' = [pc EXCEPT ![u] = "check"] /\ UNCHANGED <<device, mutex, used, count>>
  BY DEF AllocPages, Goto
<1>3. b.ptr \in Covers(b)
  <2>1. b.ptr \in Nat /\ b.size \in Nat \ {0}
    BY ModuleAssumption DEF Blocks
  <2>2. QED
    BY <2>1 DEF Covers
<1>4. b \notin live
  BY <1>1, <1>3 DEF InUse
<1>5. \A v \in Users \ {u} : pc[v] \in {"out", "proc"}
  BY <1>2 DEF BooksInv
<1>6. Counted = live
  BY <1>2, OnlyMine
<1>7. Pending' = {u}
  BY <1>2, <1>5 DEF Pending, BooksInv
<1>8. Counted' = Counted
  BY <1>1, <1>4, <1>6, <1>7 DEF Counted, BooksInv
<1>9. \A c, d \in live' : c # d => Covers(c) \cap Covers(d) = {}
  BY <1>1 DEF BooksInv, InUse
<1>10. IsFiniteSet(live')
  BY <1>1, FS_AddElement DEF BooksInv
<1>11. QED
  BY <1>1, <1>2, <1>5, <1>8, <1>9, <1>10 DEF BooksInv, Labels, device

(* The block the owner has at hand goes onto the books, or off them. *)
LEMMA CountKeepsBooks ==
  ASSUME BooksInv, NEW u \in Users, CheckRegion(u)
  PROVE  BooksInv'
<1> DEFINE b == block[u]
<1>1. pc[u] = "check" /\ b \in live /\ Counted = live \ {b}
  BY OnlyMine DEF CheckRegion, BooksInv
<1>2. \A v \in Users \ {u} : pc[v] \in {"out", "proc"}
  BY <1>1 DEF BooksInv
<1>3. UNCHANGED <<device, mutex, live, block>>
  BY DEF CheckRegion, request
<1>4. CASE ddr_region_check(b.ptr, b.size)
  <2>1. CountBlock(b) /\ Goto(u, "copy")
    BY <1>4 DEF CheckRegion
  <2>2. Pending' = {}
    BY <1>2, <2>1 DEF Pending, Goto, BooksInv
  <2>3. Counted' = Counted \cup {b} /\ b \notin Counted
    BY <1>1, <1>3, <2>2 DEF Counted
  <2>4. SizeSum(Counted') = SizeSum(Counted) + b.size
    BY <1>1, <2>3, BooksSized, SizeSumAdd DEF Sized
  <2>5. Cardinality(Counted') = Cardinality(Counted) + 1
    BY <2>3, BooksSized, FS_AddElement DEF Sized
  <2>6. regions # {}
    BY <1>4 DEF ddr_region_check
  <2>7. QED
    BY <1>1, <1>2, <1>3, <2>1, <2>4, <2>5, <2>6
    DEF BooksInv, CountBlock, Goto, Labels, device
<1>5. CASE ~ ddr_region_check(b.ptr, b.size)
  <2>1. Goto(u, "free") /\ UNCHANGED <<used, count>>
    BY <1>5 DEF CheckRegion
  <2>2. Counted' = Counted
    BY <1>1, <1>2, <1>3, <2>1 DEF Counted, Pending, Goto, BooksInv
  <2>3. QED
    BY <1>1, <1>2, <1>3, <2>1, <2>2 DEF BooksInv, Goto, Labels, device
<1>6. QED
  BY <1>4, <1>5

LEMMA UncountKeepsBooks ==
  ASSUME BooksInv, NEW u \in Users, pc[u] \in {"ioctl", "copy"}, NEW b \in live,
         UncountBlock(b), Goto(u, "free"), block' = [block EXCEPT ![u] = b],
         UNCHANGED <<device, mutex, live>>
  PROVE  BooksInv'
<1>1. Counted = live
  BY OnlyMine
<1>2. \A v \in Users \ {u} : pc[v] \in {"out", "proc"}
  BY DEF BooksInv
<1>3. Pending' = {u}
  BY <1>2 DEF Pending, Goto, BooksInv
<1>4. Counted' = Counted \ {b}
  BY <1>1, <1>3 DEF Counted, BooksInv
<1>5. SizeSum(Counted') = SizeSum(Counted) - b.size
  BY <1>1, <1>4, BooksSized, SizeSumRemove
<1>6. Cardinality(Counted') = Cardinality(Counted) - 1
  BY <1>1, <1>4, BooksSized, FS_RemoveElement DEF Sized
<1>7. b \in Blocks
  BY DEF BooksInv
<1>8. QED
  BY <1>2, <1>4, <1>5, <1>6, <1>7 DEF BooksInv, UncountBlock, Goto, Labels, device

LEMMA FreeKeepsBooks ==
  ASSUME BooksInv, NEW u \in Users, FreePages(u)
  PROVE  BooksInv'
<1>1. pc[u] = "free" /\ Counted = live \ {block[u]}
  BY OnlyMine DEF FreePages
<1>2. \A v \in Users : pc'[v] \in {"out", "proc"}
  BY <1>1 DEF FreePages, Leave, Goto, BooksInv
<1>3. live' = live \ {block[u]} /\ UNCHANGED <<device, used, count>>
  BY DEF FreePages
<1>4. Counted' = Counted
  BY <1>1, <1>2, <1>3 DEF Counted, Pending
<1>5. block' \in [Users -> Blocks \cup {NoBlock}] /\ pc' \in [Users -> Labels]
  BY DEF FreePages, Leave, Goto, BooksInv, Labels
<1>6. IsFiniteSet(live')
  BY <1>3, FS_RemoveElement DEF BooksInv
<1>7. QED
  BY <1>2, <1>3, <1>4, <1>5, <1>6 DEF BooksInv, device

LEMMA IoctlKeepsBooks ==
  ASSUME BooksInv, NEW u \in Users, IoctlStep(u)
  PROVE  BooksInv'
<1>1. CASE \/ IoctlReturns(u) \/ StartConfig(u) \/ Verify(u) \/ IoctlReset(u) \/ ResetRest(u)
           \/ Oops(u)
  BY <1>1, OwnerMoves
  DEF IoctlReturns, StartConfig, Verify, IoctlReset, ResetRest, Oops, Labels, device, request
<1>8. ASSUME NEW s \in Settings, WriteSetting(u, s) PROVE BooksInv'
  <2>1. /\ s \in Labels \ {"out", "proc", "check", "free"}
        /\ Following(s) \in Labels \ {"out", "proc", "check", "copy", "free"}
    BY DEF Settings, Following, Labels
  <2>2. /\ pc[u] = s /\ Goto(u, Following(s))
        /\ UNCHANGED <<memory, phase, regions, total, mutex, block>>
    BY <1>8 DEF WriteSetting, device, request
  <2>3. QED
    BY <2>1, <2>2, OwnerMoves
<1>2. CASE AllocPages(u)
  BY <1>2, AllocKeepsBooks
<1>3. CASE CheckRegion(u)
  BY <1>3, CountKeepsBooks
<1>4. CASE CopyOut(u)
  <2>1. CASE Leave(u) /\ UNCHANGED <<used, count>>
    BY <1>4, <2>1, OwnerMoves DEF CopyOut, Labels, device, memory
  <2>2. CASE UncountBlock(block[u]) /\ Goto(u, "free") /\ UNCHANGED <<mutex, request>>
    <3>1. block[u] \in live /\ pc[u] = "copy"
      BY <1>4 DEF CopyOut, BooksInv
    <3>2. block' = [block EXCEPT ![u] = block[u]]
      BY <2>2 DEF request, BooksInv
    <3>3. QED
      BY <1>4, <2>2, <3>1, <3>2, UncountKeepsBooks DEF CopyOut
  <2>3. QED
    BY <1>4, <2>1, <2>2 DEF CopyOut
<1>5. CASE Uncount(u)
  BY <1>5, UncountKeepsBooks DEF Uncount
<1>6. CASE FreePages(u)
  BY <1>6, FreeKeepsBooks
<1>7. QED
  BY <1>1, <1>2, <1>3, <1>4, <1>5, <1>6, <1>8 DEF IoctlStep

(* Loading, unloading, the threads and the proc file have nothing to do with the blocks. *)
LEMMA OthersKeepBooks ==
  ASSUME BooksInv,
         \/ LoadStep \/ ExitStep \/ WriteDebugfs
         \/ \E k \in Threads : ThreadStep(k)
         \/ UNCHANGED moduleVars
  PROVE  BooksInv'
<1>1. CASE ReadFrequency
  BY <1>1, BooksUntouched DEF ReadFrequency, memory, request, BooksInv
<1>2. CASE AddRegions
  <2>1. UNCHANGED <<total, mutex, memory, pc, request>>
    BY <1>2 DEF AddRegions
  <2>2. total = TotalMemory /\ phase' \notin Asking
    BY <1>2 DEF AddRegions, BooksInv, Asking
  <2>3. QED
    BY <2>1, <2>2, BooksUntouched DEF BooksInv, request
<1>3. CASE ~ ReadFrequency /\ ~ AddRegions
  <2>1. CASE LoadStep
    BY <1>3, <2>1, BooksUntouched
    DEF LoadStep, AddDevice, MapRegisters, StoreFrequency, ReadVoltage, StoreVoltage, StartMonitor,
        StartHealth, InitFails, Asking, device, request, BooksInv
  <2>2. CASE ExitStep
    BY <2>2, BooksUntouched
    DEF ExitStep, StartExit, StopMonitor, StopHealth, kthread_stop, Teardown, Asking, request,
        BooksInv
  <2>3. CASE WriteDebugfs \/ (\E k \in Threads : ThreadStep(k)) \/ UNCHANGED moduleVars
    BY <2>3, BooksUntouched
    DEF WriteDebugfs, ThreadStep, Round, WakeUp, moduleVars, device, request, BooksInv
  <2>4. QED
    BY <1>3, <2>1, <2>2, <2>3
<1>4. QED
  BY <1>1, <1>2, <1>3

LEMMA UserKeepsBooks ==
  ASSUME BooksInv, NEW u \in Users, UserStep(u)
  PROVE  BooksInv'
<1>1. CASE IoctlStep(u)
  BY <1>1, IoctlKeepsBooks
<1>2. CASE ddr_ioctl(u)
  <2>1. \A v \in Users : pc[v] \in {"out", "proc"}
    BY <1>2, ModuleAssumption DEF ddr_ioctl, BooksInv
  <2>2. pc' = [pc EXCEPT ![u] = "ioctl"] /\ mutex' = u
    BY <1>2 DEF ddr_ioctl, Goto
  <2>3. QED
    BY <1>2, <2>1, <2>2, BooksUntouched DEF ddr_ioctl, BooksInv, Labels, device, request
<1>3. CASE ddr_open(u) \/ ddr_release(u)
  BY <1>3, BooksUntouched DEF ddr_open, ddr_release, BooksInv, device, request
<1>4. CASE StartProc(u) \/ EndProc(u)
  <2>1. pc[u] \in {"out", "proc"} /\ \E label \in {"out", "proc"} : pc' = [pc EXCEPT ![u] = label]
    BY <1>4 DEF StartProc, EndProc, Goto
  <2>2. UNCHANGED <<device, mutex, memory, request>>
    BY <1>4 DEF StartProc, EndProc
  <2>3. QED
    BY <2>1, <2>2, BooksUntouched DEF BooksInv, Labels, device, request
<1>5. QED
  BY <1>1, <1>2, <1>3, <1>4 DEF UserStep

LEMMA BooksKept == ASSUME BooksInv, [SystemNext]_systemVars PROVE BooksInv'
<1> USE SystemAssumption
<1>1. ASSUME NEW u \in Users, UserStep(u) PROVE BooksInv'
  BY <1>1, UserKeepsBooks
<1>2. ASSUME NEW p \in Programs, LibraryOpens(p) \/ ProgramKilled(p) PROVE BooksInv'
  BY <1>1, <1>2, OthersKeepBooks DEF LibraryOpens, ProgramKilled, UserStep
<1>3. CASE UNCHANGED moduleVars
  BY <1>3, OthersKeepBooks
<1>4. CASE ModuleNext
  BY <1>1, <1>4, OthersKeepBooks DEF ModuleNext
<1>5. QED
  BY <1>2, <1>3, <1>4 DEF SystemNext, systemVars

(* Blocks that share no memory hold no more than there is. *)
LEMMA BooksFit == ASSUME BooksInv, total = TotalMemory PROVE SizeSum(Counted) <= TotalMemory
<1> DEFINE R == 0 .. TotalMemory - 1
           c == [b \in Counted |-> Covers(b)]
<1>1. IsFiniteSet(R) /\ Cardinality(R) = TotalMemory
  BY ModuleAssumption, FS_Interval
<1>2. ASSUME NEW b \in Counted PROVE c[b] \subseteq R /\ Cardinality(c[b]) = b.size
  <2>1. b.ptr \in Nat /\ b.size \in Nat \ {0} /\ b.ptr + b.size <= TotalMemory
    BY BooksSized, ModuleAssumption DEF BooksInv, Blocks
  <2>2. Cardinality(Covers(b)) = b.size
    <3>1. b.ptr \in Int /\ b.size \in Nat
      BY <2>1
    <3>2. QED
      BY <3>1, IntervalSize, Zenon DEF Covers
  <2>3. Covers(b) \subseteq R
    BY <2>1, ModuleAssumption DEF Covers
  <2>4. QED
    BY <2>2, <2>3
<1>3. \A a, b \in Counted : a # b => c[a] \cap c[b] = {}
  BY BooksSized DEF BooksInv
<1> HIDE DEF R, c
<1>4. QED
  BY <1>1, <1>2, <1>3, BooksSized, SizeSumFits

(* No reader, who takes no lock, sees more memory in use than is allocated or than there is, and
   between ioctls the books are exact, whatever loads, fails, copies badly or dies meanwhile and
   however large the memory is. *)
THEOREM AccountsExactSafe == SystemSpec => []AccountsExact
<1>1. ASSUME BooksInv PROVE AccountsExact
  <2>1. used <= Bytes /\ count <= Cardinality(live)
    <3>1. SizeSum(Counted) <= SizeSum(live)
      BY <1>1, BooksSized, SizeSumSubset
    <3>2. Cardinality(Counted) <= Cardinality(live)
      BY <1>1, BooksSized, FS_Subset DEF Sized
    <3>3. QED
      BY <1>1, <3>1, <3>2 DEF BooksInv, Bytes
  <2>2. total - used >= 0
    <3>1. CASE total = TotalMemory
      BY <1>1, <3>1, BooksFit, BooksSized, SizeSumNat, ModuleAssumption DEF BooksInv
    <3>2. CASE total # TotalMemory
      <4>1. Counted = {} /\ used = SizeSum(Counted) /\ total \in Nat
        BY <1>1, <3>2 DEF BooksInv
      <4>2. used = 0
        BY <4>1, SizeSumEmpty
      <4>3. QED
        BY <4>1, <4>2
    <3>3. QED
      BY <3>1, <3>2
  <2>3. ASSUME mutex = Nobody PROVE used = Bytes /\ count = Cardinality(live)
    <3>1. Counted = live
      BY <1>1, <2>3, ModuleAssumption DEF BooksInv, Counted, Pending
    <3>2. QED
      BY <1>1, <3>1 DEF BooksInv, Bytes
  <2>4. QED
    BY <2>1, <2>2, <2>3 DEF AccountsExact, ddr_debugfs_info, ddr_read
<1>2. QED
  BY <1>1, BooksStart, BooksKept, PTL DEF SystemSpec

----------------------------------------------------------------------------
(* The frequency *)

(* A process that writes or verifies a configuration has been given one. *)
WantInv ==
  /\ pc \in [Users -> Labels]
  /\ want \in [Users -> Configs \cup {Nobody}]
  /\ \A u \in Users : pc[u] \in Settings \cup {"verify"} => want[u] \in Configs

LEMMA WantUntouched ==
  ASSUME WantInv, UNCHANGED want, NEW u \in Users,
         \E label \in Labels : Goto(u, label) /\ (label \notin Settings \cup {"verify"}
                                               \/ pc[u] \in Settings \cup {"verify"})
  PROVE  WantInv'
BY DEF WantInv, Goto

LEMMA IoctlKeepsWant == ASSUME WantInv, NEW u \in Users, IoctlStep(u) PROVE WantInv'
<1>1. ASSUME NEW s \in Settings, WriteSetting(u, s) PROVE WantInv'
  <2>1. UNCHANGED want /\ pc[u] = s /\ Goto(u, Following(s))
    BY <1>1 DEF WriteSetting, request
  <2>2. Following(s) \in Labels
    BY DEF Settings, Following, Labels
  <2>3. QED
    BY <2>1, <2>2, WantUntouched
<1>2. CASE StartConfig(u)
  BY <1>2 DEF StartConfig, WantInv, Goto, Labels
<1>3. CASE Leave(u)
  BY <1>3 DEF Leave, Goto, WantInv, Settings, Labels
<1>4. ASSUME UNCHANGED want,
             \E label \in {"check", "copy", "free", "reset", "dead"} : Goto(u, label)
      PROVE  WantInv'
  BY <1>4, WantUntouched DEF Labels, Settings
<1>5. QED
  BY <1>1, <1>2, <1>3, <1>4
  DEF IoctlStep, IoctlReturns, AllocPages, CheckRegion, CopyOut, Uncount, FreePages, Verify,
      IoctlReset, ResetRest, Oops, request

LEMMA WantKept == ASSUME WantInv, [SystemNext]_systemVars PROVE WantInv'
<1> USE SystemAssumption
<1>1. ASSUME UNCHANGED <<pc, want>> PROVE WantInv'
  BY <1>1 DEF WantInv
<1>2. ASSUME NEW u \in Users, UserStep(u) PROVE WantInv'
  <2>1. CASE IoctlStep(u)
    BY <2>1, IoctlKeepsWant
  <2>2. CASE ddr_open(u) \/ ddr_release(u)
    BY <1>1, <2>2 DEF ddr_open, ddr_release, request
  <2>3. CASE ddr_ioctl(u) \/ StartProc(u) \/ EndProc(u)
    <3>1. UNCHANGED want /\ \E label \in {"ioctl", "proc", "out"} : Goto(u, label)
      BY <2>3 DEF ddr_ioctl, StartProc, EndProc, request
    <3>2. QED
      BY <3>1, WantUntouched DEF Labels, Settings
  <2>4. QED
    BY <1>2, <2>1, <2>2, <2>3 DEF UserStep
<1>3. CASE LoadStep
  BY <1>1, <1>3
  DEF LoadStep, AddDevice, MapRegisters, ReadFrequency, StoreFrequency, ReadVoltage, StoreVoltage,
      AddRegions, StartMonitor, StartHealth, InitFails, request
<1>4. CASE ExitStep \/ WriteDebugfs
  BY <1>1, <1>4
  DEF ExitStep, StartExit, StopMonitor, StopHealth, kthread_stop, Teardown, WriteDebugfs, request
<1>5. CASE \E k \in Threads : ThreadStep(k)
  BY <1>1, <1>5 DEF ThreadStep, Round, WakeUp, request
<1>6. CASE UNCHANGED moduleVars
  BY <1>1, <1>6 DEF moduleVars, request
<1>7. ASSUME NEW p \in Programs, LibraryOpens(p) \/ ProgramKilled(p) PROVE WantInv'
  BY <1>2, <1>6, <1>7 DEF LibraryOpens, ProgramKilled, UserStep
<1>8. QED
  BY <1>2, <1>3, <1>4, <1>5, <1>6, <1>7 DEF SystemNext, ModuleNext, systemVars

(* While the loading holds a frequency it has read, that is the one of the hardware, unless a
   CONFIG changed it since. *)
FrequencyInv ==
  /\ hw \in [Settings -> Values] /\ DOMAIN config = Settings
  /\ phase = "freqRead" /\ ~ overtaken => reg = hw.frequency
  /\ FrequencyBelieved

LEMMA FrequencyUntouched ==
  ASSUME FrequencyInv, UNCHANGED <<config, hw, astray>>,
         phase' # "freqRead" \/ UNCHANGED <<phase, reg, overtaken>>
  PROVE  FrequencyInv'
BY DEF FrequencyInv, FrequencyBelieved, ddr_debugfs_info, ddr_read

(* What is stored late is astray only if it was overtaken. *)
LEMMA LoadBelieves == ASSUME FrequencyInv, LoadStep PROVE FrequencyInv'
<1>1. CASE ReadFrequency
  BY <1>1 DEF ReadFrequency, FrequencyInv, FrequencyBelieved, ddr_debugfs_info, ddr_read
<1>2. CASE StoreFrequency
  <2>1. phase = "freqRead" /\ phase' = "freqSet" /\ hw' = hw /\ astray' = overtaken
    BY <1>2 DEF StoreFrequency
  <2>2. config' = [config EXCEPT !.frequency = reg]
    BY <1>2 DEF StoreFrequency
  <2>3. DOMAIN config' = Settings /\ config'.frequency = reg
    BY <2>2 DEF FrequencyInv, Settings
  <2>4. ~ overtaken => reg = hw.frequency
    BY <2>1 DEF FrequencyInv
  <2>5. QED
    BY <2>1, <2>3, <2>4 DEF FrequencyInv, FrequencyBelieved, ddr_debugfs_info, ddr_read
<1>3. CASE StoreVoltage
  BY <1>3 DEF StoreVoltage, FrequencyInv, FrequencyBelieved, ddr_debugfs_info, ddr_read
<1>4. CASE \/ AddDevice \/ MapRegisters \/ ReadVoltage \/ AddRegions \/ StartMonitor
           \/ StartHealth \/ InitFails
  BY <1>4, FrequencyUntouched
  DEF AddDevice, MapRegisters, ReadVoltage, AddRegions, StartMonitor, StartHealth, InitFails,
      settings, device
<1>5. QED
  BY <1>1, <1>2, <1>3, <1>4 DEF LoadStep

(* A CONFIG is believed where its frequency is read back; a RESET believes the hardware. *)
LEMMA IoctlBelieves ==
  ASSUME FrequencyInv, WantInv, NEW u \in Users, IoctlStep(u)
  PROVE  FrequencyInv'
<1>1. ASSUME NEW s \in Settings, WriteSetting(u, s) PROVE FrequencyInv'
  <2>1. PICK v \in Values :
          /\ hw' = [hw EXCEPT ![s] = v]
          /\ IF s = "frequency" /\ v # hw.frequency
             THEN astray' = TRUE /\ overtaken' = (phase = "freqRead")
             ELSE UNCHANGED <<astray, overtaken>>
    BY <1>1 DEF WriteSetting
  <2>2. UNCHANGED <<phase, config, reg>>
    BY <1>1 DEF WriteSetting, device
  <2>3. hw' \in [Settings -> Values]
    BY <2>1 DEF FrequencyInv
  <2>4. CASE s = "frequency" /\ v # hw.frequency
    BY <2>1, <2>2, <2>3, <2>4 DEF FrequencyInv, FrequencyBelieved
  <2>5. CASE ~ (s = "frequency" /\ v # hw.frequency)
    <3>1. hw'.frequency = hw.frequency
      BY <2>1, <2>5 DEF FrequencyInv, Settings
    <3>2. QED
      BY <2>1, <2>2, <2>3, <2>5, <3>1
      DEF FrequencyInv, FrequencyBelieved, ddr_debugfs_info, ddr_read
  <2>6. QED
    BY <2>4, <2>5
<1>2. CASE Verify(u)
  <2>1. want[u] \in [Settings -> Values]
    BY <1>2, ModuleAssumption DEF Verify, WantInv
  <2>2. QED
    BY <1>2, <2>1 DEF Verify, device, FrequencyInv, FrequencyBelieved, ddr_debugfs_info, ddr_read
<1>3. CASE IoctlReset(u)
  BY <1>3 DEF IoctlReset, Settings, FrequencyInv, FrequencyBelieved, ddr_debugfs_info, ddr_read
<1>4. CASE ResetRest(u)
  BY <1>4 DEF ResetRest, device, FrequencyInv, FrequencyBelieved, ddr_debugfs_info, ddr_read
<1>5. CASE \/ IoctlReturns(u) \/ AllocPages(u) \/ CheckRegion(u) \/ CopyOut(u)
           \/ Uncount(u) \/ FreePages(u) \/ StartConfig(u) \/ Oops(u)
  BY <1>5, FrequencyUntouched
  DEF IoctlReturns, AllocPages, CheckRegion, CopyOut, Uncount, FreePages, StartConfig, Oops,
      settings, device
<1>6. QED
  BY <1>1, <1>2, <1>3, <1>4, <1>5 DEF IoctlStep

LEMMA FrequencyKept ==
  ASSUME FrequencyInv, WantInv, [SystemNext]_systemVars
  PROVE  FrequencyInv'
<1> USE SystemAssumption
<1>1. ASSUME NEW u \in Users, UserStep(u) PROVE FrequencyInv'
  <2>1. CASE Present /\ IoctlStep(u)
    BY <2>1, IoctlBelieves
  <2>2. CASE ddr_open(u) \/ ddr_release(u) \/ ddr_ioctl(u) \/ StartProc(u) \/ EndProc(u)
    BY <2>2, FrequencyUntouched
    DEF ddr_open, ddr_release, ddr_ioctl, StartProc, EndProc, settings, device
  <2>3. QED
    BY <1>1, <2>1, <2>2 DEF UserStep
<1>2. CASE WriteDebugfs
  BY <1>2 DEF WriteDebugfs, device, FrequencyInv, FrequencyBelieved
<1>3. CASE ExitStep
  BY <1>3, FrequencyUntouched
  DEF ExitStep, StartExit, StopMonitor, StopHealth, kthread_stop, Teardown, settings
<1>4. CASE \E k \in Threads : ThreadStep(k)
  BY <1>4, FrequencyUntouched DEF ThreadStep, Round, WakeUp, settings, device
<1>5. CASE UNCHANGED moduleVars
  BY <1>5, FrequencyUntouched DEF moduleVars, settings, device
<1>6. ASSUME NEW p \in Programs, LibraryOpens(p) \/ ProgramKilled(p) PROVE FrequencyInv'
  BY <1>1, <1>5, <1>6 DEF LibraryOpens, ProgramKilled, UserStep
<1>7. CASE ModuleNext
  BY <1>1, <1>2, <1>3, <1>4, <1>7, LoadBelieves DEF ModuleNext
<1>8. QED
  BY <1>5, <1>6, <1>7 DEF SystemNext, systemVars

(* What the module reports is the frequency of the hardware until a CONFIG that is under way or
   fails changes it, somebody writes to the debugfs files, or the loading stores what a CONFIG
   has overtaken, whatever settings and values there are. *)
THEOREM FrequencyBelievedSafe == SystemSpec => []FrequencyBelieved
<1>1. SystemStart => FrequencyInv
  BY DEF SystemStart, ModuleStart, Unset, FrequencyInv, FrequencyBelieved
<1>2. SystemStart => WantInv
  BY DEF SystemStart, ModuleStart, WantInv, Labels, Settings
<1>3. FrequencyInv => FrequencyBelieved
  BY DEF FrequencyInv
<1>4. QED
  BY <1>1, <1>2, <1>3, FrequencyKept, WantKept, PTL DEF SystemSpec

----------------------------------------------------------------------------
(* The library *)

(* The library never gets as far as calling itself initialised. *)
LibraryInv ==
  /\ where \in [Programs -> {"constructor", "open", "get_info", "main", "call", "ended"}]
  /\ ctxLocked \in [Programs -> BOOLEAN]
  /\ fd \in [Programs -> BOOLEAN]
  /\ initialized = [p \in Programs |-> FALSE]
  /\ DeviceOnlyBehindLock

LEMMA LibraryKept == ASSUME LibraryInv, [SystemNext]_systemVars PROVE LibraryInv'
<1> USE DEF LibraryInv, DeviceOnlyBehindLock, At, Lock, Unlock
<1>1. ASSUME NEW p \in Programs, ProgramStep(p) PROVE LibraryInv'
  <2>1. CASE ddr_init(p)
    BY <2>1 DEF ddr_init
  <2>2. CASE OpenFails(p)
    BY <2>2 DEF OpenFails
  <2>3. CASE Call(p)
    BY <2>3 DEF Call
  <2>4. CASE ddr_is_initialized(p)
    BY <2>4 DEF ddr_is_initialized
  <2>5. CASE ddr_cleanup(p)
    BY <2>5 DEF ddr_cleanup
  <2>6. QED
    BY <1>1, <2>1, <2>2, <2>3, <2>4, <2>5 DEF ProgramStep
<1>2. ASSUME NEW p \in Programs, LibraryOpens(p) PROVE LibraryInv'
  BY <1>2 DEF LibraryOpens, ddr_open_device
<1>3. ASSUME NEW p \in Programs, ProgramKilled(p) PROVE LibraryInv'
  BY <1>3 DEF ProgramKilled, Killed
<1>4. ASSUME UNCHANGED libVars PROVE LibraryInv'
  BY <1>4 DEF libVars
<1>5. QED
  BY <1>1, <1>2, <1>3, <1>4 DEF SystemNext, systemVars

(* However many programs use the library: where ddr_init has returned, the program has neither
   the device nor the lock; where it has the device, it waits for the lock it holds. *)
THEOREM DeviceOnlyBehindLockSafe == SystemSpec => []DeviceOnlyBehindLock
<1>1. SystemStart => LibraryInv
  BY DEF SystemStart, LibraryStart, LibraryInv, DeviceOnlyBehindLock
<1>2. LibraryInv => DeviceOnlyBehindLock
  BY DEF LibraryInv
<1>3. QED
  BY <1>1, <1>2, LibraryKept, PTL DEF SystemSpec

=============================================================================
