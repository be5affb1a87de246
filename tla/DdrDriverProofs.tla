-------------------------- MODULE DdrDriverProofs --------------------------
(* The teardown of the driver's callbacks and the accounts of its blocks, for any number of
   processes and blocks. *)
EXTENDS DdrDriver, SumTheorems, SequenceTheorems

\* The callbacks that ddr_remove has stopped already, by where it is.
Stopped ==
  CASE removal = "health"               -> {"monitor"}
    [] removal = "calibration"          -> {"monitor", "health"}
    [] removal = "refresh"              -> {"monitor", "health", "calibration"}
    [] removal \in {"free", "bugFree"}  -> Callbacks
    [] OTHER                            -> {}

(* A stopped callback is neither armed nor running; the work item being cancelled is not queued;
   ddr_remove is somewhere exactly while the driver is being removed. *)
TeardownInv ==
  /\ pending \subseteq Callbacks /\ running \subseteq Callbacks
  /\ removal \in Callbacks \cup {"none", "free", "bugFree"}
  /\ phase \in {"absent", "bound", "removing", "gone"}
  /\ removal = "none" <=> phase # "removing"
  /\ phase = "absent" => pending = {} /\ running = {}
  /\ \A c \in canceling : removal = c /\ c \in Works /\ c \notin pending
  /\ \A c \in Stopped : c \notin pending /\ c \notin running
  /\ phase = "gone" => pending = {} /\ running = {} /\ canceling = {}

LEMMA TeardownStarts == Init => TeardownInv
BY DEF Init, TeardownInv, Stopped, Callbacks, Timers, Works

(* File operations do not touch the callbacks. *)
LEMMA TeardownUntouched ==
  ASSUME TeardownInv, UNCHANGED <<phase, teardown>>
  PROVE  TeardownInv'
BY DEF TeardownInv, teardown, Stopped

LEMMA TeardownKept ==
  ASSUME TeardownInv, [Next]_vars
  PROVE  TeardownInv'
<1> USE DEF TeardownInv, Stopped, Callbacks, Timers, Works
<1>1. CASE Probe
  BY <1>1 DEF Probe
<1>2. ASSUME NEW t \in Users,
             Open(t) \/ Release(t) \/ StartIoctl(t) \/ StartMmap(t) \/ Step(t)
      PROVE  TeardownInv'
  <2>1. UNCHANGED <<phase, teardown>>
    BY <1>2 DEF Open, Release, StartIoctl, StartMmap, Step, Lock, IoctlReturns, IoctlAllocates,
                IoctlRelocks, IoctlFrees, CountBytes, CountOne, MapBlock, MapFails, DiscountBytes,
                DiscountOne, FreeBlock
  <2>2. QED
    BY <2>1, TeardownUntouched
<1>3. ASSUME NEW b \in maps, Unmap(b) PROVE TeardownInv'
  <2>1. UNCHANGED <<phase, teardown>>
    BY <1>3 DEF Unmap
  <2>2. QED
    BY <2>1, TeardownUntouched
<1>4. ASSUME NEW c \in Callbacks, Fire(c) PROVE TeardownInv'
  BY <1>4 DEF Fire
<1>5. ASSUME NEW c \in Callbacks, Rearm(c) PROVE TeardownInv'
  BY <1>5 DEF Rearm
<1>6. CASE StartRemove
  BY <1>6 DEF StartRemove
<1>7. ASSUME NEW c \in Callbacks, StopTimer(c) PROVE TeardownInv'
  <2>1. CASE c = "monitor"
    BY <1>7, <2>1 DEF StopTimer, AtRest, NextStop
  <2>2. CASE c = "health"
    BY <1>7, <2>2 DEF StopTimer, AtRest, NextStop
  <2>3. QED
    BY <1>7, <2>1, <2>2 DEF StopTimer
<1>8. ASSUME NEW c \in Callbacks, CancelWork(c) PROVE TeardownInv'
  BY <1>8 DEF CancelWork
<1>9. ASSUME NEW c \in Callbacks, WorkCancelled(c) PROVE TeardownInv'
  BY <1>9 DEF WorkCancelled, AtRest, NextStop
<1>10. CASE FreeTracked
  BY <1>10 DEF FreeTracked
<1>11. CASE EndRemove
  BY <1>11 DEF EndRemove
<1>12. CASE UNCHANGED vars
  BY <1>12, TeardownUntouched DEF vars
<1>13. QED
  BY <1>1, <1>2, <1>3, <1>4, <1>5, <1>6, <1>7, <1>8, <1>9, <1>10, <1>11, <1>12
     DEF Next, RemoveStep

(* No timer or work item is armed, queued or running once ddr_remove gets to the tracking list,
   nor ever after, whatever processes do with the device and however callbacks interleave with
   the teardown. *)
THEOREM QuietAfterRemoveSafe == Spec => []QuietAfterRemove
<1>1. TeardownInv => QuietAfterRemove
  BY DEF TeardownInv, QuietAfterRemove, Stopped
<1>2. QED
  BY <1>1, TeardownStarts, TeardownKept, PTL DEF Spec

----------------------------------------------------------------------------
(* Blocks *)

\* The labels of a ddr_mmap with its block, and those at which dev->lock is held.
Mapping == {"count", "countOne", "map", "discount", "discountOne", "free"}
Owning  == {"held", "stuck", "stuckFree", "countOne", "discountOne"}
Labels  == {"idle", "lock"} \cup Mapping \cup Owning

\* What used_memory is the sum of, and what current_allocations counts.
Booked  == live \ InHand({"count", "stuck", "discountOne", "free"})
Counted == live \ InHand({"count", "countOne", "stuck", "free"})

Active == phase \notin {"removing", "gone"}

Entries == 1..Len(tracked)

Once(s, b) == \A i, j \in 1..Len(s) : s[i] = b /\ s[j] = b => i = j

(* A block is in the hands of at most one operation, which has the file open, and of an ioctl that
   took its entry off the list and hung: that one holds dev->lock for good, so that no ddr_mmap
   gets to free the block. *)
Hands ==
  /\ pc \in [Users -> Labels]
  /\ block \in [Users -> BlockSet \cup {NoBlock}]
  /\ \A t \in Users : pc[t] # "idle" => t \in opened
  /\ \A t \in Users : pc[t] \in Mapping => block[t] # NoBlock
  /\ \A t \in Users : block[t] # NoBlock =>
       block[t] \in live /\ pc[t] \in Mapping \cup {"stuck", "stuckFree"}
  /\ \A t, u \in Users : block[t] = block[u] /\ block[t] # NoBlock =>
       t = u \/ pc[t] = "stuckFree" \/ pc[u] = "stuckFree"
  /\ \A t \in Users : pc[t] \in Owning => lock = t
  /\ \A t, u \in Users : pc[t] = "free" /\ pc[u] = "stuckFree" => block[t] # block[u]

(* What is listed is in use; a block that a ddr_mmap has at hand is listed at most once, and no
   more once the mapping failed, so that ddr_dma_free takes the last entry of it off the list. *)
Listing ==
  /\ \A i \in Entries : tracked[i] \in live
  /\ \A t \in Users : pc[t] \in {"discount", "discountOne", "free"} =>
       \A i \in Entries : tracked[i] # block[t]
  /\ \A t \in Users : pc[t] \in {"count", "countOne", "map"} => Once(tracked, block[t])

Listed(b) == \/ \E i \in Entries : tracked[i] = b
             \/ \E t \in Users : pc[t] \in Unlisting /\ block[t] = b

Booking == used = SizeSum(Booked) /\ count = Cardinality(Counted)

BlocksInv ==
  /\ Hands
  /\ live \subseteq BlockSet /\ IsFiniteSet(live) /\ tracked \in Seq(BlockSet)
  /\ \A b \in live : Listed(b)
  /\ ~ Active => opened = {}
  /\ phase = "gone" => live = {}
  /\ Active => Listing /\ Booking

(* Nobody is no address, and a block has a size. *)
LEMMA NoBlockIsNone == NoBlock \notin BlockSet
BY DriverAssumption DEF NoBlock, BlockSet

LEMMA BlocksStart == Init => BlocksInv
<1> SUFFICES ASSUME Init PROVE BlocksInv
  OBVIOUS
<1>1. Booked = {} /\ Counted = {}
  BY DEF Init, Booked, Counted
<1>2. SizeSum({}) = 0 /\ Cardinality({}) = 0 /\ IsFiniteSet({})
  BY SizeSumEmpty, FS_EmptySet
<1>3. Hands
  BY DEF Init, Hands, Labels, Mapping, Owning
<1>4. Listing
  BY DEF Init, Listing, Entries
<1>5. QED
  BY <1>1, <1>2, <1>3, <1>4 DEF Init, BlocksInv, Booking, Active

LEMMA BlocksSized == ASSUME BlocksInv PROVE Sized(live) /\ Sized(Booked) /\ Sized(Counted)
<1>1. Sized(live)
  BY DriverAssumption DEF BlocksInv, BlockSet, Sized
<1>2. QED
  BY <1>1, SizeSumSubset DEF Booked, Counted

(* An operation under way has the file open, which keeps the driver. *)
LEMMA BusyIsActive ==
  ASSUME BlocksInv, NEW t \in Users, pc[t] # "idle" \/ t \in opened
  PROVE  Active /\ Listing /\ Booking
BY DEF BlocksInv, Hands

(* Steps that leave the blocks, the list and the books alone; an operation without a block may
   go on. *)
LEMMA BlocksUntouched ==
  ASSUME BlocksInv, UNCHANGED <<live, tracked, used, count, block>>,
         pc' \in [Users -> Labels],
         \A t \in Users : \/ pc'[t] = pc[t]
                          \/ /\ block[t] = NoBlock
                             /\ {pc[t], pc'[t]} \subseteq {"idle", "lock", "held", "stuck"},
         \A t \in Users : pc'[t] # "idle" => t \in opened',
         \A t \in Users : pc'[t] \in Owning => lock' = t,
         Active' => Active, ~ Active' => opened' = {}, phase' = "gone" => live = {}
  PROVE  BlocksInv'
<1>1. \A t \in Users, label \in Mapping \cup {"stuckFree"} : pc'[t] = label <=> pc[t] = label
  BY DEF Mapping
<1>2. Hands'
  BY <1>1 DEF BlocksInv, Hands, Mapping
<1>3. \A b : Listed(b) => Listed(b)'
  BY <1>1 DEF Listed, Entries, Mapping, Unlisting
<1>4. Listing => Listing'
  BY <1>1 DEF Listing, Entries, Mapping
<1>5. Booked' = Booked /\ Counted' = Counted
  <2>1. \A b \in live : b # NoBlock
    BY NoBlockIsNone DEF BlocksInv
  <2>2. ASSUME NEW L \in {{"count", "stuck", "discountOne", "free"},
                          {"count", "countOne", "stuck", "free"}}, NEW b \in live
        PROVE  b \in InHand(L)' <=> b \in InHand(L)
    BY <1>1, <2>1 DEF InHand, Mapping
  <2>3. QED
    BY <2>2 DEF Booked, Counted
<1>6. QED
  BY <1>2, <1>3, <1>4, <1>5 DEF BlocksInv, Booking

(* A new block is in nobody's hands yet, and on the list once. *)
LEMMA AllocateKeeps ==
  ASSUME BlocksInv, NEW t \in Users, t \in opened, pc[t] \in {"idle", "held"},
         NEW b \in BlockSet, Allocate(t, b), NEW label \in {"count", "stuck"}, Goto(t, label),
         label = "stuck" => pc[t] = "held",
         UNCHANGED <<phase, opened, lock, used, count>>
  PROVE  BlocksInv'
<1>1. /\ live' = live \cup {b} /\ b \notin live /\ tracked' = Append(tracked, b)
      /\ block' = [block EXCEPT ![t] = b] /\ pc' = [pc EXCEPT ![t] = label]
  BY DEF Allocate, FreeAddresses, Goto
<1>2. Active /\ Listing /\ Booking
  BY BusyIsActive
<1>3. block[t] = NoBlock /\ b # NoBlock
  BY NoBlockIsNone DEF BlocksInv, Hands, Mapping
<1>4. \A u \in Users \ {t} : block'[u] = block[u] /\ pc'[u] = pc[u] /\ block[u] # b
  BY <1>1, <1>3 DEF BlocksInv, Hands
<1>5. block'[t] = b /\ pc'[t] = label
  BY <1>1 DEF BlocksInv, Hands
<1>6. Hands'
  BY <1>1, <1>3, <1>4, <1>5 DEF BlocksInv, Hands, Labels, Mapping, Owning
<1>7. /\ tracked' \in Seq(BlockSet) /\ Len(tracked') = Len(tracked) + 1
      /\ \A i \in Entries : tracked'[i] = tracked[i]
      /\ tracked'[Len(tracked) + 1] = b /\ Len(tracked) \in Nat
  BY <1>1 DEF BlocksInv, Entries
<1>8. Listing'
  BY <1>1, <1>2, <1>4, <1>5, <1>7 DEF Listing, Entries, Once
<1>9. \A c \in live' : Listed(c)'
  <2>1. ASSUME NEW c \in live PROVE Listed(c)'
    <3>1. CASE \E i \in Entries : tracked[i] = c
      BY <1>7, <3>1 DEF Listed, Entries
    <3>2. CASE \E u \in Users : pc[u] \in Unlisting /\ block[u] = c
      BY <1>4, <3>2 DEF Listed, Unlisting
    <3>3. QED
      BY <3>1, <3>2 DEF BlocksInv, Listed
  <2>2. Listed(b)'
    BY <1>7 DEF Listed, Entries
  <2>3. QED
    BY <1>1, <2>1, <2>2
<1>10. Booked' = Booked /\ Counted' = Counted
  BY <1>1, <1>3, <1>4, <1>5 DEF Booked, Counted, InHand, BlocksInv, Hands
<1>11. IsFiniteSet(live')
  BY <1>1, FS_AddElement DEF BlocksInv
<1>12. QED
  BY <1>1, <1>2, <1>6, <1>7, <1>8, <1>9, <1>10, <1>11 DEF BlocksInv, Booking, Active

(* A ddr_mmap that has its block at hand goes on with it, and takes or leaves the lock. *)
LEMMA CountingKeeps ==
  ASSUME BlocksInv, NEW t \in Users,
         NEW from \in {"count", "countOne", "discount", "discountOne"},
         NEW to \in {"countOne", "map", "discountOne", "free"},
         <<from, to>> \in {<<"count", "countOne">>, <<"countOne", "map">>,
                           <<"discount", "discountOne">>, <<"discountOne", "free">>},
         pc[t] = from, Goto(t, to), UNCHANGED <<phase, opened, live, tracked, block>>,
         from \in {"count", "discount"} => lock = Nobody /\ lock' = t,
         from \in {"countOne", "discountOne"} => lock' = Nobody
  PROVE  /\ Active /\ Active' /\ Listing /\ Booking /\ block[t] \in live
         /\ \A u \in Users \ {t} : pc'[u] = pc[u] /\ (pc[u] # "stuckFree" => block[u] # block[t])
         /\ pc'[t] = to /\ Hands' /\ Listing' /\ \A b \in live : Listed(b)'
<1>1. Active /\ Active' /\ Listing /\ Booking
  BY BusyIsActive DEF Active
<1>2. block[t] \in live /\ block[t] # NoBlock /\ pc'[t] = to
  BY DEF BlocksInv, Hands, Goto, Mapping
<1>3. \A u \in Users \ {t} : pc'[u] = pc[u] /\ (pc[u] # "stuckFree" => block[u] # block[t])
  BY <1>2 DEF BlocksInv, Hands, Goto, Mapping
<1>4. lock \in {Nobody, t}
  BY DEF BlocksInv, Hands, Owning
<1>5. \A u \in Users \ {t} : pc[u] \notin Owning
  BY <1>4, DriverAssumption DEF BlocksInv, Hands
<1>6. pc' \in [Users -> Labels]
  BY DEF BlocksInv, Hands, Goto, Labels, Mapping
<1>7. Hands'
  BY <1>2, <1>3, <1>5, <1>6 DEF BlocksInv, Hands, Mapping, Owning
<1>8. Listing'
  BY <1>1, <1>2, <1>3 DEF Listing, Entries
<1>9. \A b \in live : Listed(b)'
  <2>1. ASSUME NEW b \in live PROVE Listed(b)'
    <3>1. CASE \E i \in Entries : tracked[i] = b
      BY <3>1 DEF Listed, Entries
    <3>2. CASE \E u \in Users : pc[u] \in Unlisting /\ block[u] = b
      BY <1>2, <1>3, <3>2 DEF Listed, Unlisting
    <3>3. QED
      BY <3>1, <3>2 DEF BlocksInv, Listed
  <2>2. QED
    BY <2>1
<1>10. QED
  BY <1>1, <1>2, <1>3, <1>7, <1>8, <1>9

(* The block of a ddr_mmap goes onto the books, and off them when the mapping fails: first the
   bytes and then the number. *)
LEMMA CountKeeps ==
  ASSUME BlocksInv, NEW t \in Users,
         CountBytes(t) \/ CountOne(t) \/ DiscountBytes(t) \/ DiscountOne(t)
  PROVE  BlocksInv'
<1> DEFINE b == block[t]
<1>1. UNCHANGED <<phase, opened, live, tracked, block>>
  BY DEF CountBytes, CountOne, DiscountBytes, DiscountOne
<1>2. Sized(Booked) /\ Sized(Counted) /\ Sized(live)
  BY BlocksSized
<1>3. CASE CountBytes(t)
  <2>1. pc[t] = "count" /\ Goto(t, "countOne") /\ lock = Nobody /\ lock' = t
        /\ used' = used + b.size /\ count' = count
    BY <1>3 DEF CountBytes
  <2>2. /\ Active /\ Active' /\ Booking /\ b \in live
        /\ \A u \in Users \ {t} : pc'[u] = pc[u] /\ (pc[u] # "stuckFree" => block[u] # b)
        /\ pc'[t] = "countOne" /\ Hands' /\ Listing' /\ \A c \in live : Listed(c)'
    BY <1>1, <2>1, CountingKeeps
  <2>3. Booked' = Booked \cup {b} /\ b \notin Booked /\ Counted' = Counted
    BY <1>1, <2>1, <2>2 DEF Booked, Counted, InHand
  <2>4. SizeSum(Booked') = SizeSum(Booked) + b.size
    BY <1>2, <2>2, <2>3, SizeSumAdd DEF Sized
  <2>5. QED
    BY <1>1, <2>1, <2>2, <2>3, <2>4 DEF BlocksInv, Booking
<1>4. CASE CountOne(t)
  <2>1. pc[t] = "countOne" /\ Goto(t, "map") /\ lock' = Nobody
        /\ used' = used /\ count' = count + 1
    BY <1>4 DEF CountOne
  <2>2. /\ Active /\ Active' /\ Booking /\ b \in live
        /\ \A u \in Users \ {t} : pc'[u] = pc[u] /\ (pc[u] # "stuckFree" => block[u] # b)
        /\ pc'[t] = "map" /\ Hands' /\ Listing' /\ \A c \in live : Listed(c)'
    BY <1>1, <2>1, CountingKeeps
  <2>3. Counted' = Counted \cup {b} /\ b \notin Counted /\ Booked' = Booked
    BY <1>1, <2>1, <2>2 DEF Booked, Counted, InHand
  <2>4. Cardinality(Counted') = Cardinality(Counted) + 1
    BY <1>2, <2>3, FS_AddElement DEF Sized
  <2>5. QED
    BY <1>1, <2>1, <2>2, <2>3, <2>4 DEF BlocksInv, Booking
<1>5. CASE DiscountBytes(t)
  <2>1. pc[t] = "discount" /\ Goto(t, "discountOne") /\ lock = Nobody /\ lock' = t
        /\ used' = used - b.size /\ count' = count
    BY <1>5 DEF DiscountBytes
  <2>2. /\ Active /\ Active' /\ Booking /\ b \in live
        /\ \A u \in Users \ {t} : pc'[u] = pc[u] /\ (pc[u] # "stuckFree" => block[u] # b)
        /\ pc'[t] = "discountOne" /\ Hands' /\ Listing' /\ \A c \in live : Listed(c)'
    BY <1>1, <2>1, CountingKeeps
  <2>3. Booked' = Booked \ {b} /\ b \in Booked /\ Counted' = Counted
    BY <1>1, <2>1, <2>2 DEF Booked, Counted, InHand
  <2>4. SizeSum(Booked') = SizeSum(Booked) - b.size
    BY <1>2, <2>3, SizeSumRemove
  <2>5. QED
    BY <1>1, <2>1, <2>2, <2>3, <2>4 DEF BlocksInv, Booking
<1>6. CASE DiscountOne(t)
  <2>1. pc[t] = "discountOne" /\ Goto(t, "free") /\ lock' = Nobody
        /\ used' = used /\ count' = count - 1
    BY <1>6 DEF DiscountOne, OneLess
  <2>2. /\ Active /\ Active' /\ Booking /\ b \in live
        /\ \A u \in Users \ {t} : pc'[u] = pc[u] /\ (pc[u] # "stuckFree" => block[u] # b)
        /\ pc'[t] = "free" /\ Hands' /\ Listing' /\ \A c \in live : Listed(c)'
    BY <1>1, <2>1, CountingKeeps
  <2>3. Counted' = Counted \ {b} /\ b \in Counted /\ Booked' = Booked
    BY <1>1, <2>1, <2>2 DEF Booked, Counted, InHand
  <2>4. Cardinality(Counted') = Cardinality(Counted) - 1
    BY <1>2, <2>3, FS_RemoveElement DEF Sized
  <2>5. QED
    BY <1>1, <2>1, <2>2, <2>3, <2>4 DEF BlocksInv, Booking
<1>7. QED
  BY <1>3, <1>4, <1>5, <1>6

(* A block that is mapped is listed once more, and in nobody's hands. *)
LEMMA MapKeeps == ASSUME BlocksInv, NEW t \in Users, MapBlock(t) PROVE BlocksInv'
<1> DEFINE b == block[t]
<1>1. /\ pc[t] = "map" /\ tracked' = Append(tracked, b)
      /\ pc' = [pc EXCEPT ![t] = "idle"] /\ block' = [block EXCEPT ![t] = NoBlock]
      /\ UNCHANGED <<phase, opened, lock, live, used, count>>
  BY DEF MapBlock, Return, Goto
<1>2. b \in live /\ b \in BlockSet /\ b # NoBlock
  BY <1>1 DEF BlocksInv, Hands, Mapping
<1>3. Active /\ Listing /\ Booking
  BY <1>1, BusyIsActive
<1>4. \A u \in Users \ {t} : /\ block'[u] = block[u] /\ pc'[u] = pc[u]
                             /\ pc[u] # "stuckFree" => block[u] # b
  BY <1>1, <1>2 DEF BlocksInv, Hands
<1>5. block'[t] = NoBlock /\ pc'[t] = "idle"
  BY <1>1 DEF BlocksInv, Hands
<1> HIDE DEF b
<1>6. /\ tracked' \in Seq(BlockSet) /\ Len(tracked') = Len(tracked) + 1
      /\ \A i \in Entries : tracked'[i] = tracked[i]
      /\ tracked'[Len(tracked) + 1] = b /\ Len(tracked) \in Nat
  BY <1>1, <1>2 DEF BlocksInv, Entries
<1>7. Hands'
  BY <1>1, <1>4, <1>5 DEF BlocksInv, Hands, Labels, Mapping, Owning
<1>8. Listing'
  BY <1>1, <1>2, <1>3, <1>4, <1>5, <1>6 DEF Listing, Entries, Once
<1>9. \A c \in live : Listed(c)'
  <2>1. ASSUME NEW c \in live PROVE Listed(c)'
    <3>1. CASE \E i \in Entries : tracked[i] = c
      BY <1>6, <3>1 DEF Listed, Entries
    <3>2. CASE \E u \in Users : pc[u] \in Unlisting /\ block[u] = c
      BY <1>1, <1>4, <3>2 DEF Listed, Unlisting
    <3>3. QED
      BY <3>1, <3>2 DEF BlocksInv, Listed
  <2>2. QED
    BY <2>1
<1>10. Booked' = Booked /\ Counted' = Counted
  BY <1>1, <1>2, <1>4, <1>5, NoBlockIsNone DEF Booked, Counted, InHand, BlocksInv, Hands, b
<1>11. QED
  BY <1>1, <1>3, <1>6, <1>7, <1>8, <1>9, <1>10 DEF BlocksInv, Booking, Active

(* RemoveFirst takes out one of the elements, if it is there, and keeps the others. *)
LEMMA FirstRemoved ==
  ASSUME NEW S, NEW s \in Seq(S), NEW e
  PROVE  LET r == RemoveFirst(s, e)
         IN  /\ r \in Seq(S)
             /\ \A i \in 1..Len(r) : \E j \in 1..Len(s) : s[j] = r[i]
             /\ \A i \in 1..Len(s) : s[i] # e => \E j \in 1..Len(r) : r[j] = s[i]
             /\ \A c : Once(s, c) => Once(r, c)
             /\ Once(s, e) => \A i \in 1..Len(r) : r[i] # e
<1> DEFINE r == RemoveFirst(s, e)
           I == {i \in 1..Len(s) : s[i] = e}
<1>1. CASE ~ \E i \in 1..Len(s) : s[i] = e
  BY <1>1 DEF RemoveFirst, Once
<1>2. CASE \E i \in 1..Len(s) : s[i] = e
  <2>1. I \in SUBSET Nat /\ I # {}
    BY <1>2
  <2> DEFINE k == Min(I)
             a == SubSeq(s, 1, k - 1)
             z == SubSeq(s, k + 1, Len(s))
  <2>2. k \in I
    <3> HIDE DEF I
    <3> QED BY <2>1, LeastNumber DEF Min
  <2>3. SelectInSeq(s, LAMBDA v : v = e) = k
    BY <2>1 DEF SelectInSeq
  <2>4. r = a \o z
    BY <1>2, <2>3 DEF RemoveFirst, RemoveAt
  <2>5. k \in 1..Len(s) /\ s[k] = e
    BY <2>2
  <2> HIDE DEF k, I
  <2>6. /\ a \in Seq(S) /\ Len(a) = k - 1 /\ \A i \in 1..k - 1 : a[i] = s[i]
        /\ z \in Seq(S) /\ Len(z) = Len(s) - k /\ \A i \in 1..Len(s) - k : z[i] = s[k + i]
    BY <2>5
  <2> HIDE DEF a, z, r
  <2>7. /\ r \in Seq(S) /\ Len(r) = Len(s) - 1
        /\ \A i \in 1..Len(s) - 1 : r[i] = IF i <= k - 1 THEN a[i] ELSE z[i - (k - 1)]
    <3>1. /\ r \in Seq(S) /\ Len(r) = Len(a) + Len(z)
          /\ \A i \in 1..Len(a) + Len(z) : r[i] = IF i <= Len(a) THEN a[i] ELSE z[i - Len(a)]
      BY <2>4, <2>6, ConcatProperties
    <3>2. Len(a) + Len(z) = Len(s) - 1 /\ Len(a) = k - 1
      BY <2>5, <2>6
    <3>3. QED
      BY <3>1, <3>2
  <2> DEFINE from(i) == IF i < k THEN i ELSE i + 1
  <2>8. ASSUME NEW i \in 1..Len(s) - 1
        PROVE  from(i) \in (1..Len(s)) \ {k} /\ r[i] = s[from(i)]
    <3>1. from(i) \in (1..Len(s)) \ {k}
      BY <2>5
    <3>2. CASE i < k
      <4>1. i \in 1..k - 1 /\ i <= k - 1 /\ from(i) = i
        BY <2>5, <3>2
      <4>2. r[i] = a[i]
        BY <2>7, <4>1
      <4>3. a[i] = s[i]
        BY <2>6, <4>1
      <4>4. QED
        BY <3>1, <4>1, <4>2, <4>3
    <3>3. CASE ~ (i < k)
      <4>1. i - (k - 1) \in 1..Len(s) - k /\ k + (i - (k - 1)) = i + 1 /\ ~ (i <= k - 1)
        BY <2>5, <3>3
      <4>2. from(i) = i + 1
        BY <3>3
      <4>3. r[i] = z[i - (k - 1)]
        BY <2>7, <4>1
      <4>4. z[i - (k - 1)] = s[k + (i - (k - 1))]
        BY <2>6, <4>1
      <4>5. QED
        BY <3>1, <4>1, <4>2, <4>3, <4>4
    <3>4. QED
      BY <3>1, <3>2, <3>3
  <2>9. \A i, j \in 1..Len(s) - 1 : from(i) = from(j) => i = j
    BY <2>5
  <2>10. ASSUME NEW i \in (1..Len(s)) \ {k} PROVE \E j \in 1..Len(s) - 1 : from(j) = i
    <3>1. CASE i < k
      <4>1. i \in 1..Len(s) - 1 /\ from(i) = i
        BY <2>5, <3>1
      <4>2. QED
        BY <4>1
    <3>2. CASE ~ (i < k)
      <4>1. i - 1 \in 1..Len(s) - 1 /\ ~ (i - 1 < k) /\ i - 1 + 1 = i
        BY <2>5, <2>10, <3>2
      <4>2. from(i - 1) = i
        BY <4>1
      <4>3. QED
        BY <4>1, <4>2
    <3>3. QED
      BY <3>1, <3>2
  <2> HIDE DEF from
  <2>11. \A i \in 1..Len(r) : \E j \in 1..Len(s) : s[j] = r[i]
    BY <2>7, <2>8
  <2>12. \A i \in 1..Len(s) : s[i] # e => \E j \in 1..Len(r) : r[j] = s[i]
    BY <2>5, <2>7, <2>8, <2>10
  <2>13. \A c : Once(s, c) => Once(r, c)
    <3>1. ASSUME NEW c, Once(s, c), NEW i \in 1..Len(r), NEW j \in 1..Len(r), r[i] = c, r[j] = c
          PROVE  i = j
      <4>1. i \in 1..Len(s) - 1 /\ j \in 1..Len(s) - 1
        BY <2>7
      <4>2. /\ from(i) \in 1..Len(s) /\ s[from(i)] = c
            /\ from(j) \in 1..Len(s) /\ s[from(j)] = c
        BY <2>8, <3>1, <4>1
      <4>3. from(i) = from(j)
        BY <3>1, <4>2 DEF Once
      <4>4. QED
        BY <2>9, <4>1, <4>3
    <3>2. QED
      BY <3>1 DEF Once
  <2>14. Once(s, e) => \A i \in 1..Len(r) : r[i] # e
    BY <2>5, <2>7, <2>8 DEF Once
  <2>15. QED
    BY <2>7, <2>11, <2>12, <2>13, <2>14 DEF r
<1>3. QED
  BY <1>1, <1>2

(* An operation that takes the first entry of a block off the list and keeps the block in hand,
   whether a ddr_mmap that failed or an ioctl that frees. *)
LEMMA UnlistKeeps ==
  ASSUME BlocksInv, NEW t \in Users, NEW b \in BlockSet, tracked' = RemoveFirst(tracked, b),
         pc[t] \in {"map", "held"},
         pc' = [pc EXCEPT ![t] = IF pc[t] = "map" THEN "discount" ELSE "stuckFree"],
         block' = [block EXCEPT ![t] = b],
         pc[t] = "map" => b = block[t],
         pc[t] = "held" => \E i \in Entries : tracked[i] = b,
         UNCHANGED <<phase, opened, lock, live, used, count>>
  PROVE  BlocksInv'
<1>1. Active /\ Active' /\ Listing /\ Booking
  BY BusyIsActive DEF Active
<1>2. /\ tracked' \in Seq(BlockSet)
      /\ \A i \in Entries' : \E j \in Entries : tracked[j] = tracked'[i]
      /\ \A i \in Entries : tracked[i] # b => \E j \in Entries' : tracked'[j] = tracked[i]
      /\ \A c : Once(tracked, c) => Once(tracked', c)
      /\ Once(tracked, b) => \A i \in Entries' : tracked'[i] # b
  <2>1. tracked \in Seq(BlockSet) /\ Entries = 1..Len(tracked) /\ Entries' = 1..Len(tracked')
    BY DEF BlocksInv, Entries
  <2>2. QED
    BY <2>1, FirstRemoved
<1>3. b \in live /\ b # NoBlock
  BY <1>1, NoBlockIsNone DEF BlocksInv, Hands, Listing, Mapping
<1>4. block'[t] = b /\ pc'[t] = IF pc[t] = "map" THEN "discount" ELSE "stuckFree"
  BY DEF BlocksInv, Hands
<1>5. \A u \in Users \ {t} : block'[u] = block[u] /\ pc'[u] = pc[u]
  BY DEF BlocksInv, Hands
<1>6. ASSUME pc[t] = "held", NEW u \in Users, pc[u] \in {"discount", "discountOne", "free"}
      PROVE  block[u] # b
  BY <1>1, <1>6 DEF Listing
<1>7. Hands'
  <2>1. pc' \in [Users -> Labels] /\ block' \in [Users -> BlockSet \cup {NoBlock}]
    BY DEF BlocksInv, Hands, Labels, Mapping, Owning
  <2>2. \A u \in Users : /\ pc'[u] # "idle" => u \in opened
                         /\ pc'[u] \in Mapping => block'[u] # NoBlock
                         /\ pc'[u] \in Owning => lock = u
    BY <1>3, <1>4, <1>5 DEF BlocksInv, Hands, Mapping, Owning
  <2>3. \A u \in Users : block'[u] # NoBlock =>
          block'[u] \in live /\ pc'[u] \in Mapping \cup {"stuck", "stuckFree"}
    BY <1>3, <1>4, <1>5 DEF BlocksInv, Hands, Mapping
  <2>4. \A u, v \in Users : block'[u] = block'[v] /\ block'[u] # NoBlock =>
          u = v \/ pc'[u] = "stuckFree" \/ pc'[v] = "stuckFree"
    BY <1>3, <1>4, <1>5 DEF BlocksInv, Hands
  <2>5. \A u, v \in Users : pc'[u] = "free" /\ pc'[v] = "stuckFree" => block'[u] # block'[v]
    BY <1>4, <1>5, <1>6 DEF BlocksInv, Hands
  <2>6. QED
    BY <2>1, <2>2, <2>3, <2>4, <2>5 DEF Hands
<1>8. Listing'
  <2>1. \A i \in Entries' : tracked'[i] \in live
    BY <1>1, <1>2 DEF Listing
  <2>2. ASSUME NEW u \in Users, pc'[u] \in {"discount", "discountOne", "free"}
        PROVE  \A i \in Entries' : tracked'[i] # block'[u]
    <3>1. CASE u = t
      BY <1>1, <1>2, <1>4, <2>2, <3>1 DEF Listing
    <3>2. CASE u # t
      BY <1>1, <1>2, <1>5, <2>2, <3>2 DEF Listing
    <3>3. QED
      BY <3>1, <3>2
  <2>3. ASSUME NEW u \in Users, pc'[u] \in {"count", "countOne", "map"}
        PROVE  Once(tracked', block'[u])
    BY <1>1, <1>2, <1>4, <1>5, <2>3 DEF Listing
  <2>4. QED
    BY <2>1, <2>2, <2>3 DEF Listing, Once
<1>9. \A c \in live : Listed(c)'
  <2>1. ASSUME NEW c \in live PROVE Listed(c)'
    <3>1. CASE c = b
      BY <1>4, <3>1 DEF Listed, Unlisting
    <3>2. CASE c # b /\ \E i \in Entries : tracked[i] = c
      BY <1>2, <3>2 DEF Listed
    <3>3. CASE \E u \in Users : pc[u] \in Unlisting /\ block[u] = c
      BY <1>5, <3>3 DEF Listed, Unlisting
    <3>4. QED
      BY <3>1, <3>2, <3>3 DEF BlocksInv, Listed
  <2>2. QED
    BY <2>1
<1>10. Booked' = Booked /\ Counted' = Counted
  <2>1. ASSUME NEW L \in {{"count", "stuck", "discountOne", "free"},
                          {"count", "countOne", "stuck", "free"}}
        PROVE  InHand(L)' = InHand(L)
    BY <1>4, <1>5 DEF InHand
  <2>2. QED
    BY <2>1 DEF Booked, Counted
<1>11. QED
  BY <1>1, <1>2, <1>7, <1>8, <1>9, <1>10 DEF BlocksInv, Booking

LEMMA FreeKeeps == ASSUME BlocksInv, NEW t \in Users, FreeBlock(t) PROVE BlocksInv'
<1> DEFINE b == block[t]
<1>1. /\ pc[t] = "free" /\ live' = live \ {b}
      /\ pc' = [pc EXCEPT ![t] = "idle"] /\ block' = [block EXCEPT ![t] = NoBlock]
      /\ UNCHANGED <<phase, opened, lock, tracked, used, count>>
  BY DEF FreeBlock, Return, Goto
<1>2. b \in live /\ b # NoBlock
  BY <1>1 DEF BlocksInv, Hands, Mapping
<1>3. Active /\ Listing /\ Booking
  BY <1>1, BusyIsActive
<1>4. \A u \in Users \ {t} : block[u] # b /\ block'[u] = block[u] /\ pc'[u] = pc[u]
  BY <1>1, <1>2 DEF BlocksInv, Hands
<1>5. block'[t] = NoBlock /\ pc'[t] = "idle"
  BY <1>1 DEF BlocksInv, Hands
<1>6. \A i \in Entries : tracked[i] # b
  BY <1>1, <1>3 DEF Listing
<1> HIDE DEF b
<1>7. Hands'
  BY <1>1, <1>4, <1>5 DEF BlocksInv, Hands, Labels, Mapping, Owning
<1>8. Listing'
  BY <1>1, <1>3, <1>4, <1>5, <1>6 DEF Listing, Entries
<1>9. \A c \in live' : Listed(c)'
  BY <1>1, <1>4 DEF BlocksInv, Listed, Entries, Unlisting, b
<1>10. Booked' = Booked /\ Counted' = Counted
  BY <1>1, <1>2, <1>4, <1>5, NoBlockIsNone DEF Booked, Counted, InHand, BlocksInv, Hands, b
<1>11. IsFiniteSet(live')
  BY <1>1, FS_RemoveElement DEF BlocksInv
<1>12. QED
  BY <1>1, <1>3, <1>7, <1>8, <1>9, <1>10, <1>11 DEF BlocksInv, Booking, Active

(* ddr_remove finds every operation at an end: what is still allocated is on the list. *)
LEMMA RemoveKeeps ==
  ASSUME BlocksInv, TeardownInv, FreeTracked \/ EndRemove
  PROVE  BlocksInv'
<1>1. ~ Active /\ ~ Active' /\ phase = "removing"
  BY DEF TeardownInv, FreeTracked, EndRemove, Active
<1>2. \A t \in Users : pc[t] = "idle" /\ block[t] = NoBlock
  BY <1>1 DEF BlocksInv, Hands, Mapping
<1>3. \A b \in live : \E i \in Entries : tracked[i] = b
  BY <1>2 DEF BlocksInv, Listed, Unlisting
<1>4. CASE EndRemove
  <2>1. live = {}
    BY <1>3, <1>4 DEF EndRemove, Entries
  <2>2. UNCHANGED <<opened, memory, pc, block>>
    BY <1>4 DEF EndRemove
  <2>3. QED
    BY <1>1, <1>2, <2>1, <2>2 DEF BlocksInv, Hands, Mapping, Owning, Listed, Entries, memory
<1>5. CASE FreeTracked
  <2>1. /\ tracked # <<>> /\ tracked' = Tail(tracked)
        /\ live' = live \ {Head(tracked)}
        /\ UNCHANGED <<phase, opened, pc, block>>
    BY <1>5 DEF FreeTracked
  <2>2. /\ tracked' \in Seq(BlockSet) /\ Len(tracked') = Len(tracked) - 1
        /\ Len(tracked) \in Nat /\ Head(tracked) = tracked[1]
        /\ \A i \in 1..Len(tracked') : tracked'[i] = tracked[i + 1]
    BY <2>1, HeadTailProperties DEF BlocksInv
  <2>3. ASSUME NEW b \in live' PROVE Listed(b)'
    <3>1. PICK i \in Entries : tracked[i] = b
      BY <1>3, <2>1, <2>3
    <3>2. i - 1 \in 1..Len(tracked') /\ tracked'[i - 1] = b
      BY <2>1, <2>2, <2>3, <3>1 DEF Entries
    <3>3. QED
      BY <3>2 DEF Listed, Entries
  <2>4. IsFiniteSet(live')
    BY <2>1, FS_RemoveElement DEF BlocksInv
  <2>5. Hands'
    BY <1>2, <2>1 DEF BlocksInv, Hands, Mapping, Owning
  <2>6. QED
    BY <1>1, <2>1, <2>2, <2>3, <2>4, <2>5 DEF BlocksInv
<1>6. QED
  BY <1>4, <1>5

LEMMA StepKeepsBlocks ==
  ASSUME BlocksInv, NEW t \in Users, StartIoctl(t) \/ StartMmap(t) \/ Step(t)
  PROVE  BlocksInv'
<1>1. CASE StartIoctl(t)
  <2>1. /\ t \in opened /\ pc[t] = "idle" /\ pc' = [pc EXCEPT ![t] = "lock"]
        /\ UNCHANGED <<phase, opened, lock, memory, block>>
    BY <1>1 DEF StartIoctl, Goto
  <2>2. block[t] = NoBlock
    BY <2>1 DEF BlocksInv, Hands, Mapping
  <2>3. QED
    BY <2>1, <2>2, BlocksUntouched DEF BlocksInv, Hands, Labels, Owning, memory, Active
<1>2. CASE StartMmap(t)
  BY <1>2, AllocateKeeps DEF StartMmap
<1>3. CASE IoctlAllocates(t)
  <2>1. t \in opened
    BY <1>3 DEF IoctlAllocates, BlocksInv, Hands
  <2>2. QED
    BY <1>3, <2>1, AllocateKeeps DEF IoctlAllocates
<1>4. CASE Lock(t)
  <2>1. /\ pc[t] = "lock" /\ pc' = [pc EXCEPT ![t] = "held"] /\ lock = Nobody /\ lock' = t
        /\ UNCHANGED <<phase, opened, memory, block>>
    BY <1>4 DEF Lock, Goto
  <2>2. block[t] = NoBlock /\ t \in opened
    BY <2>1 DEF BlocksInv, Hands, Mapping
  <2>3. \A u \in Users : pc'[u] \in Owning => u = t
    BY <2>1, DriverAssumption DEF BlocksInv, Hands
  <2>4. QED
    BY <2>1, <2>2, <2>3, BlocksUntouched DEF BlocksInv, Hands, Labels, Owning, memory, Active
<1>5. ASSUME pc[t] = "held", pc' = [pc EXCEPT ![t] = "stuck"],
             UNCHANGED <<phase, opened, lock, memory, block>>
      PROVE  BlocksInv'
  <2>1. block[t] = NoBlock /\ t \in opened /\ lock = t
    BY <1>5 DEF BlocksInv, Hands, Mapping, Owning
  <2>2. QED
    BY <1>5, <2>1, BlocksUntouched DEF BlocksInv, Hands, Labels, Owning, memory, Active
<1>6. CASE IoctlRelocks(t)
  BY <1>5, <1>6 DEF IoctlRelocks, Goto
<1>7. CASE IoctlFrees(t)
  <2>1. ASSUME Goto(t, "stuck"), UNCHANGED <<tracked, block>> PROVE BlocksInv'
    BY <1>5, <1>7, <2>1 DEF IoctlFrees, Goto, memory
  <2>2. ASSUME NEW b \in ToSet(tracked), tracked' = RemoveFirst(tracked, b),
               block' = [block EXCEPT ![t] = b], Goto(t, "stuckFree")
        PROVE  BlocksInv'
    <3>1. b \in BlockSet /\ \E i \in Entries : tracked[i] = b
      BY <2>2 DEF BlocksInv, ToSet, Entries
    <3>2. QED
      BY <1>7, <2>2, <3>1, UnlistKeeps DEF IoctlFrees, Goto
  <2>3. QED
    BY <1>7, <2>1, <2>2 DEF IoctlFrees
<1>8. CASE IoctlReturns(t)
  <2>1. /\ pc[t] = "held" /\ pc' = [pc EXCEPT ![t] = "idle"] /\ lock' = Nobody
        /\ block' = [block EXCEPT ![t] = NoBlock]
        /\ UNCHANGED <<phase, opened, memory>>
    BY <1>8 DEF IoctlReturns, EndIoctl, Return, Goto
  <2>2. block[t] = NoBlock /\ block' = block /\ lock = t
    BY <2>1 DEF BlocksInv, Hands, Mapping, Owning
  <2>3. \A u \in Users : pc'[u] \notin Owning
    BY <2>1, <2>2 DEF BlocksInv, Hands, Owning
  <2>4. QED
    BY <2>1, <2>2, <2>3, BlocksUntouched DEF BlocksInv, Hands, Labels, memory, Active
<1>9. CASE MapFails(t)
  <2>1. block[t] \in BlockSet /\ block' = [block EXCEPT ![t] = block[t]]
    BY <1>9 DEF MapFails, BlocksInv, Hands, Mapping
  <2>2. QED
    BY <1>9, <2>1, UnlistKeeps DEF MapFails, Goto
<1>10. QED
  BY <1>1, <1>2, <1>3, <1>4, <1>6, <1>7, <1>8, <1>9, CountKeeps, MapKeeps, FreeKeeps DEF Step

LEMMA BlocksKept ==
  ASSUME BlocksInv, TeardownInv, [Next]_vars
  PROVE  BlocksInv'
<1>1. ASSUME NEW t \in Users, StartIoctl(t) \/ StartMmap(t) \/ Step(t) PROVE BlocksInv'
  BY <1>1, StepKeepsBlocks
<1>2. ASSUME NEW t \in Users, Open(t) \/ Release(t) PROVE BlocksInv'
  BY <1>2, BlocksUntouched DEF Open, Release, BlocksInv, Hands, memory, Active
<1>3. CASE FreeTracked \/ EndRemove
  BY <1>3, RemoveKeeps
<1>4. CASE \/ Probe \/ StartRemove
           \/ \E b \in maps : Unmap(b)
           \/ \E c \in Callbacks : Fire(c) \/ Rearm(c) \/ StopTimer(c) \/ CancelWork(c)
                                   \/ WorkCancelled(c)
           \/ UNCHANGED vars
  <2>1. UNCHANGED <<opened, lock, live, tracked, used, count, pc, block>>
    BY <1>4 DEF Probe, StartRemove, Unmap, Fire, Rearm, StopTimer, CancelWork, WorkCancelled, vars,
                memory
  <2>2. (Active' => Active) /\ (~ Active' => opened = {}) /\ (phase' = "gone" => live = {})
    BY <1>4 DEF Probe, StartRemove, Unmap, Fire, Rearm, StopTimer, CancelWork, WorkCancelled, vars,
                Active, BlocksInv
  <2>3. QED
    BY <2>1, <2>2, BlocksUntouched DEF BlocksInv, Hands
<1>5. QED
  BY <1>1, <1>2, <1>3, <1>4 DEF Next, RemoveStep

LEMMA BlocksAlways == Spec => [](BlocksInv /\ TeardownInv)
BY BlocksStart, BlocksKept, TeardownStarts, TeardownKept, PTL DEF Spec

(* Every block is on the tracking list, or in the hands of a ddr_mmap that failed or of an ioctl that
   frees it, and unloading leaves none, for any number of processes, failures and places for
   blocks. *)
THEOREM NothingLostSafe == Spec => []NothingLost
<1>1. ASSUME BlocksInv PROVE NothingLost
  <2>1. DOMAIN tracked = Entries
    BY <1>1 DEF BlocksInv, Entries
  <2>2. QED
    BY <1>1, <2>1 DEF BlocksInv, Listed, NothingLost, ToSet, InHand
<1>2. QED
  BY <1>1, BlocksAlways, PTL

(* Each figure that /proc shows of the memory fits the blocks of the moment it is read, whatever the
   processes do, and between the two writes of one of them too. *)
THEOREM AccountsExactSafe == Spec => []AccountsExact
<1>1. ASSUME BlocksInv PROVE AccountsExact
  <2> SUFFICES ASSUME phase = "bound" PROVE AccountsExact
    BY DEF AccountsExact
  <2> DEFINE shown == SubSeq(tracked, 1, Min({51, Len(tracked)}))
  <2>1. Listing /\ Booking
    BY <1>1 DEF BlocksInv, Active
  <2>2. tracked \in Seq(BlockSet) /\ Len(tracked) \in Nat
    BY <1>1 DEF BlocksInv
  <2>3. Min({51, Len(tracked)}) = IF Len(tracked) <= 51 THEN Len(tracked) ELSE 51
    BY <2>2 DEF Min
  <2>4. ToSet(shown) \subseteq live
    <3> DEFINE n == Min({51, Len(tracked)})
    <3>1. n \in 0..Len(tracked)
      BY <2>2, <2>3
    <3>2. \A i \in 1..n : shown[i] = tracked[i]
      BY <2>2, <3>1
    <3>3. DOMAIN shown = 1..n
      BY <2>2, <3>1
    <3>4. QED
      BY <2>1, <3>1, <3>2, <3>3 DEF ToSet, Listing, Entries
  <2>5. ASSUME Len(tracked) <= 51
        PROVE  Booked \ InHand(Unlisting) \subseteq ToSet(shown)
    <3>1. shown = tracked
      BY <2>2, <2>3, <2>5, SubSeqFull
    <3> HIDE DEF shown
    <3>2. DOMAIN tracked = Entries
      BY <2>2 DEF Entries
    <3>3. ASSUME NEW b \in Booked, b \notin InHand(Unlisting) PROVE b \in ToSet(tracked)
      <4>1. \A u \in Users : pc[u] \in Unlisting => block[u] # b
        BY <3>3 DEF InHand
      <4>2. Listed(b)
        BY <1>1, <3>3 DEF BlocksInv, Booked
      <4>3. PICK i \in Entries : tracked[i] = b
        BY <4>1, <4>2 DEF Listed
      <4>4. QED
        BY <3>2, <4>3 DEF ToSet
    <3>4. QED
      BY <3>1, <3>3
  <2>6. ddr_proc_show.used = used /\ ddr_proc_show.active = count
        /\ ddr_proc_show.allocations = shown
    BY DEF ddr_proc_show
  <2> HIDE DEF shown
  <2>7. QED
    BY <2>1, <2>4, <2>5, <2>6 DEF AccountsExact, Booked, Counted, Booking
<1>2. QED
  BY <1>1, BlocksAlways, PTL

=============================================================================
