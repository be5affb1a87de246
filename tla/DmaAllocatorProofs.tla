------------------------ MODULE DmaAllocatorProofs ------------------------
(* The accounts and the frees of the DMA allocator, for any number of callers, any memory and
   any sizes. *)
EXTENDS DmaAllocator, SumTheorems

Alive == phase \notin {"emptied", "gone"}

(* A call's arguments, by where its thread is. *)
AllocCall == [op : {"alloc"}, asked : Sizes, size : Powers]
FreeCall  == [op : {"free"}, ptr : Pages, asked : Sizes]
Granted   == [op : {"alloc"}, asked : Sizes, size : Powers, ptr : Pages]
Freed     == [op : {"free"}, ptr : Pages, asked : Sizes, size : Powers]
Arguments == AllocCall \cup FreeCall \cup Granted \cup Freed \cup {[op |-> "defrag"], NoCall}

Inside == {"pool", "bugMerge"} \cup Writing
Labels == {"idle", "lock", "exited"} \cup Inside

Typed ==
  /\ used \subseteq Block /\ free \in Seq(Block)
  /\ counts \in [Counters -> Int] /\ todo \subseteq Counters
  /\ owned \subseteq Holding
  /\ pc \in [Threads -> Labels]
  /\ arg \in [Threads -> Arguments]
  /\ mutex \in Threads \cup {Nobody}

(* A thread past Lock owns the mutex. *)
Locked == \A t \in Threads : pc[t] \in Inside => mutex = t

(* Each call has the arguments of its place; an allocation asks for no more than it rounds to. *)
Fits(label, call) ==
  /\ label \in {"lock", "pool"} =>
       \/ call \in AllocCall /\ call.asked <= call.size
       \/ call \in FreeCall
       \/ call.op = "defrag"
  /\ label = "listed" => call \in Granted
  /\ label \in {"unlisted", "disposed"} => call \in Freed
  /\ label = "count" => call \in Granted \cup Freed

CallsTyped == \A t \in Threads : Fits(pc[t], arg[t])

(* t has taken the block at address p, for a bytes, and has not yet given it to the caller, or
   has been given it by the caller and has not yet taken it off the used list. *)
Carries(t, p, a) ==
  /\ \/ arg[t].op = "free" /\ pc[t] \in {"lock", "pool"}
     \/ arg[t].op = "alloc" /\ pc[t] \in {"listed", "count"}
  /\ arg[t].ptr = p /\ arg[t].asked = a

IsUsed(p, a) == \E b \in used : b.ptr = p /\ b.size >= a

(* Whatever is held or carried is in use, and by one holder. *)
Custody ==
  /\ \A b, c \in used : b.ptr = c.ptr => b = c
  /\ \A h \in owned : IsUsed(h.ptr, h.asked)
  /\ \A t \in Threads, p \in Pages, a \in Sizes : Carries(t, p, a) => IsUsed(p, a)
  /\ \A g, h \in owned : g.ptr = h.ptr => g = h
  /\ \A t \in Threads, p \in Pages, a \in Sizes, h \in owned : Carries(t, p, a) => h.ptr # p
  /\ \A t, u \in Threads, p \in Pages, a, c \in Sizes :
       Carries(t, p, a) /\ Carries(u, p, c) => t = u

DmaInv == Typed /\ Locked /\ CallsTyped /\ (Alive => Custody)

LEMMA Constants ==
  /\ \A t \in Clients : t \in Threads
  /\ Health \in Threads
  /\ \A p \in Powers : p \in Nat /\ p > 0
  /\ \A s \in Sizes : s \in Nat
  /\ \A p \in Pages : p \in Nat
BY DmaAssumption DEF Threads

LEMMA DmaStarts == Init => DmaInv
<1> SUFFICES ASSUME Init PROVE DmaInv
  OBVIOUS
<1> USE DEF Init
<1>1. Typed
  <2>1. NoCall \in Arguments
    BY DEF Arguments
  <2>2. QED
    BY <2>1 DEF Typed, Labels
<1>2. Locked /\ CallsTyped
  BY DEF Locked, CallsTyped, Fits, Inside, Writing
<1>3. \A t \in Threads, p \in Pages, a \in Sizes : ~Carries(t, p, a)
  BY DEF Carries
<1>4. Custody
  BY <1>3 DEF Custody
<1>5. QED
  BY <1>1, <1>2, <1>4 DEF DmaInv

(* The steps that touch neither a call nor the pool nor the books. *)
LEMMA Untouched ==
  ASSUME DmaInv, UNCHANGED <<mutex, pool, books, owned, pc, arg>>, Alive' => Alive
  PROVE  DmaInv'
<1>1. Typed' /\ Locked' /\ CallsTyped'
  BY DEF DmaInv, Typed, Locked, CallsTyped, Fits, pool, books
<1>2. ASSUME Alive' PROVE Custody'
  <2>1. Custody
    BY <1>2 DEF DmaInv
  <2>2. QED
    BY <2>1 DEF Custody, Carries, IsUsed, pool
<1>3. QED
  BY <1>1, <1>2 DEF DmaInv

(* What a step of thread t leaves as it is. *)
Others(t) == \A u \in Threads : u # t => pc'[u] = pc[u] /\ arg'[u] = arg[u]

(* The locking and the arguments of the calls are kept by a step of t that puts t somewhere it
   may be; t releases the mutex, keeps it, or takes it when it is free. *)
LEMMA PlaceKept ==
  ASSUME DmaInv, NEW t \in Threads, NEW label \in Labels, NEW call \in Arguments,
         pc' = [pc EXCEPT ![t] = label], arg' = [arg EXCEPT ![t] = call],
         \/ mutex' = mutex /\ (label \in Inside => mutex = t)
         \/ mutex' = Nobody /\ mutex = t /\ label = "idle"
         \/ mutex' = t /\ mutex = Nobody,
         Fits(label, call)
  PROVE  /\ pc' \in [Threads -> Labels] /\ arg' \in [Threads -> Arguments]
         /\ mutex' \in Threads \cup {Nobody}
         /\ Others(t) /\ pc'[t] = label /\ arg'[t] = call
         /\ Locked' /\ CallsTyped'
<1>1. /\ pc \in [Threads -> Labels] /\ arg \in [Threads -> Arguments]
      /\ mutex \in Threads \cup {Nobody}
  BY DEF DmaInv, Typed
<1>2. /\ pc' \in [Threads -> Labels] /\ arg' \in [Threads -> Arguments]
      /\ mutex' \in Threads \cup {Nobody}
      /\ Others(t) /\ pc'[t] = label /\ arg'[t] = call
  BY <1>1 DEF Others
<1>3. Locked'
  BY <1>2, DmaAssumption DEF DmaInv, Locked, Others, Inside, Writing
<1>4. CallsTyped'
  <2>1. \A u \in Threads : Fits(pc[u], arg[u])
    BY DEF DmaInv, CallsTyped
  <2>2. \A u \in Threads : Fits(pc'[u], arg'[u])
    BY <1>2, <2>1 DEF Others
  <2>3. QED
    BY <2>2 DEF CallsTyped, Fits
<1>5. QED
  BY <1>2, <1>3, <1>4

(* Custody, when the used list and what callers hold stay, and t carries no more than it did. *)
LEMMA CustodyKept ==
  ASSUME Custody, NEW t \in Threads, Others(t), UNCHANGED <<used, owned>>,
         \A p \in Pages, a \in Sizes : Carries(t, p, a)' => Carries(t, p, a)
  PROVE  Custody'
<1>1. \A u \in Threads, p \in Pages, a \in Sizes : Carries(u, p, a)' => Carries(u, p, a)
  BY DEF Others, Carries
<1>2. QED
  BY <1>1 DEF Custody, IsUsed

(* Where a call may be with its arguments, and where the mutex is needed. *)
LEMMA Fitting ==
  /\ {"idle", "lock", "exited", "pool", "bugMerge"} \subseteq Labels
  /\ {"idle", "lock", "exited"} \cap Inside = {}
  /\ \A t \in {"pool", "bugMerge"} : t \in Inside
  /\ \A call \in AllocCall : call.asked <= call.size => Fits("lock", call) /\ Fits("pool", call)
  /\ \A call \in FreeCall : Fits("lock", call) /\ Fits("pool", call)
  /\ \A call : call.op = "defrag" => Fits("lock", call) /\ Fits("pool", call)
  /\ \A call : Fits("idle", call) /\ Fits("exited", call) /\ Fits("bugMerge", call)
BY DEF Labels, Inside, Writing, Fits

LEMMA CallKept ==
  ASSUME DmaInv, NEW t \in Clients, CallAlloc(t) \/ CallFree(t) \/ CallDefrag(t)
  PROVE  DmaInv'
<1> t \in Threads
  BY Constants
<1> USE DEF Calls, pool, books
<1>1. CASE CallAlloc(t)
  <2>1. PICK asked \in Sizes, size \in Powers :
          /\ asked <= size
          /\ Calls(t, [op |-> "alloc", asked |-> asked, size |-> size])
    BY <1>1 DEF CallAlloc, IsAligned
  <2> DEFINE call == [op |-> "alloc", asked |-> asked, size |-> size]
  <2>2. call \in AllocCall /\ call \in Arguments /\ call.asked <= call.size /\ call.op = "alloc"
    BY <2>1 DEF AllocCall, Arguments
  <2>3. /\ pc[t] = "idle" /\ pc' = [pc EXCEPT ![t] = "lock"] /\ arg' = [arg EXCEPT ![t] = call]
        /\ UNCHANGED <<phase, mutex, used, free, counts, todo, owned>>
    BY <1>1, <2>1 DEF CallAlloc
  <2> HIDE DEF call
  <2>4. /\ Typed' /\ Locked' /\ CallsTyped'
        /\ Others(t) /\ pc'[t] = "lock" /\ arg'[t] = call
    BY <2>2, <2>3, PlaceKept, Fitting DEF DmaInv, Typed
  <2>5. ASSUME Alive' PROVE Custody'
    <3>1. Custody
      BY <2>3, <2>5 DEF DmaInv, Alive
    <3>2. \A p \in Pages, a \in Sizes : ~Carries(t, p, a)'
      BY <2>2, <2>4 DEF Carries
    <3>3. QED
      BY <2>3, <2>4, <3>1, <3>2, CustodyKept
  <2>6. QED
    BY <2>4, <2>5 DEF DmaInv
<1>2. CASE CallFree(t)
  <2>1. PICK h \in owned : /\ Calls(t, [op |-> "free", ptr |-> h.ptr, asked |-> h.asked])
                           /\ owned' = owned \ {h}
    BY <1>2 DEF CallFree
  <2> DEFINE call == [op |-> "free", ptr |-> h.ptr, asked |-> h.asked]
  <2>2. /\ call \in FreeCall /\ call \in Arguments /\ h \in Holding
        /\ call.op = "free" /\ call.ptr = h.ptr /\ call.asked = h.asked
    BY <2>1 DEF FreeCall, Arguments, Holding, DmaInv, Typed
  <2>3. /\ pc[t] = "idle" /\ pc' = [pc EXCEPT ![t] = "lock"] /\ arg' = [arg EXCEPT ![t] = call]
        /\ UNCHANGED <<phase, mutex, used, free, counts, todo>>
    BY <2>1
  <2> HIDE DEF call
  <2>4. /\ Typed' /\ Locked' /\ CallsTyped'
        /\ Others(t) /\ pc'[t] = "lock" /\ arg'[t] = call
    <3>1. /\ pc' \in [Threads -> Labels]
          /\ arg' \in [Threads -> Arguments] /\ mutex' \in Threads \cup {Nobody}
          /\ Others(t) /\ pc'[t] = "lock" /\ arg'[t] = call /\ Locked' /\ CallsTyped'
      BY <2>2, <2>3, PlaceKept, Fitting
    <3>2. Typed'
      BY <2>1, <2>3, <3>1 DEF DmaInv, Typed
    <3>3. QED
      BY <3>1, <3>2
  <2>5. ASSUME Alive' PROVE Custody'
    <3>1. Custody
      BY <2>3, <2>5 DEF DmaInv, Alive
    <3>2. /\ \A p \in Pages, a \in Sizes : Carries(t, p, a)' => p = h.ptr /\ a = h.asked
          /\ \A u \in Threads, p \in Pages, a \in Sizes :
               u # t => (Carries(u, p, a)' <=> Carries(u, p, a))
      BY <2>2, <2>4 DEF Carries, Others
    <3>3. /\ \A b, c \in used : b.ptr = c.ptr => b = c
          /\ \A g \in owned : IsUsed(g.ptr, g.asked)
          /\ \A g, k \in owned : g.ptr = k.ptr => g = k
      BY <3>1 DEF Custody
    <3>4. /\ \A u \in Threads, p \in Pages, a \in Sizes : Carries(u, p, a) => IsUsed(p, a)
          /\ \A u \in Threads, p \in Pages, a \in Sizes, g \in owned : Carries(u, p, a) => g.ptr # p
          /\ \A u, v \in Threads, p \in Pages, a, c \in Sizes :
               Carries(u, p, a) /\ Carries(v, p, c) => u = v
      BY <3>1 DEF Custody
    <3>5. \A p, a : IsUsed(p, a)' <=> IsUsed(p, a)
      BY <2>3 DEF IsUsed
    <3>6. \A u \in Threads, p \in Pages, a \in Sizes : Carries(u, p, a)' => IsUsed(p, a)
      BY <2>1, <3>2, <3>3, <3>4
    <3>7. \A u \in Threads, p \in Pages, a \in Sizes, g \in owned' :
            Carries(u, p, a)' => g.ptr # p
      BY <2>1, <3>2, <3>3, <3>4
    <3>8. \A u, v \in Threads, p \in Pages, a, c \in Sizes :
            Carries(u, p, a)' /\ Carries(v, p, c)' => u = v
      BY <2>1, <3>2, <3>4
    <3>9. Custody'
      BY <2>1, <2>3, <3>3, <3>5, <3>6, <3>7, <3>8 DEF Custody
    <3>10. QED
      BY <2>3, <2>4, <3>1, <3>9
  <2>6. QED
    BY <2>4, <2>5 DEF DmaInv
<1>3. CASE CallDefrag(t)
  <2> DEFINE call == [op |-> "defrag"]
  <2>2. call \in Arguments /\ call.op = "defrag"
    BY DEF Arguments
  <2>3. /\ pc[t] = "idle" /\ pc' = [pc EXCEPT ![t] = "lock"] /\ arg' = [arg EXCEPT ![t] = call]
        /\ UNCHANGED <<phase, mutex, used, free, counts, todo, owned>>
    BY <1>3 DEF CallDefrag
  <2> HIDE DEF call
  <2>4. /\ Typed' /\ Locked' /\ CallsTyped'
        /\ Others(t) /\ pc'[t] = "lock" /\ arg'[t] = call
    BY <2>2, <2>3, PlaceKept, Fitting DEF DmaInv, Typed
  <2>5. ASSUME Alive' PROVE Custody'
    <3>1. Custody
      BY <2>3, <2>5 DEF DmaInv, Alive
    <3>2. \A p \in Pages, a \in Sizes : ~Carries(t, p, a)'
      BY <2>2, <2>4 DEF Carries
    <3>3. QED
      BY <2>3, <2>4, <3>1, <3>2, CustodyKept
  <2>6. QED
    BY <2>4, <2>5 DEF DmaInv
<1>4. QED
  BY <1>1, <1>2, <1>3

(* A block's pages include its first: dma_alloc_coherent never returns memory in use. *)
LEMMA FirstPage == ASSUME NEW b \in Block PROVE b.ptr \in PagesOf(b)
<1>1. b.ptr \in Nat /\ b.size \in Nat /\ b.size > 0
  BY Constants DEF Block
<1>2. (b.size - 1) \div PageSize \in Nat
  BY <1>1, DmaAssumption
<1>3. QED
  BY <1>1, <1>2 DEF PagesOf

LEMMA LockKept == ASSUME DmaInv, NEW t \in Threads, Lock(t) PROVE DmaInv'
<1> USE DEF pool, books
<1>1. /\ pc[t] = "lock" /\ mutex = Nobody /\ mutex' = t /\ pc' = [pc EXCEPT ![t] = "pool"]
      /\ arg' = [arg EXCEPT ![t] = arg[t]] /\ arg[t] \in Arguments
      /\ UNCHANGED <<phase, used, free, counts, todo, owned>>
  BY DEF Lock, DmaInv, Typed
<1>2. \/ arg[t] \in AllocCall /\ arg[t].asked <= arg[t].size
      \/ arg[t] \in FreeCall
      \/ arg[t].op = "defrag"
  BY <1>1 DEF DmaInv, CallsTyped, Fits
<1>3. /\ Typed' /\ Locked' /\ CallsTyped'
      /\ Others(t) /\ pc'[t] = "pool" /\ arg'[t] = arg[t]
  <2>1. Fits("pool", arg[t]) /\ "pool" \in Labels
    BY <1>2, Fitting
  <2>2. /\ pc' \in [Threads -> Labels] /\ arg' \in [Threads -> Arguments]
        /\ mutex' \in Threads \cup {Nobody}
        /\ Others(t) /\ pc'[t] = "pool" /\ arg'[t] = arg[t] /\ Locked' /\ CallsTyped'
    BY <1>1, <2>1, PlaceKept
  <2>3. QED
    BY <1>1, <2>2 DEF DmaInv, Typed
<1>4. ASSUME Alive' PROVE Custody'
  <2>1. Custody
    BY <1>1, <1>4 DEF DmaInv, Alive
  <2>2. \A p \in Pages, a \in Sizes : Carries(t, p, a)' => Carries(t, p, a)
    BY <1>1, <1>3 DEF Carries
  <2>3. QED
    BY <1>1, <1>3, <2>1, <2>2, CustodyKept
<1>5. QED
  BY <1>3, <1>4 DEF DmaInv

(* A call that ends without having touched the pool: a failed allocation, a defragmentation. *)
LEMMA ReturnKept ==
  ASSUME DmaInv, NEW t \in Threads, pc[t] = "pool", Return(t),
         UNCHANGED <<phase, pool, books, owned>>
  PROVE  DmaInv'
<1> USE DEF pool, books
<1>1. /\ mutex = t /\ mutex' = Nobody /\ pc' = [pc EXCEPT ![t] = "idle"]
      /\ arg' = [arg EXCEPT ![t] = NoCall] /\ NoCall \in Arguments
      /\ NoCall.op = "none"
      /\ UNCHANGED <<phase, used, free, counts, todo, owned>>
  BY DEF Return, DmaInv, Locked, Arguments, NoCall, Inside
<1>2. /\ Typed' /\ Locked' /\ CallsTyped'
      /\ Others(t) /\ pc'[t] = "idle" /\ arg'[t] = NoCall
  BY <1>1, PlaceKept, Fitting DEF DmaInv, Typed
<1>3. ASSUME Alive' PROVE Custody'
  <2>1. Custody
    BY <1>1, <1>3 DEF DmaInv, Alive
  <2>2. \A p \in Pages, a \in Sizes : ~Carries(t, p, a)'
    BY <1>1, <1>2 DEF Carries
  <2>3. QED
    BY <1>1, <1>2, <2>1, <2>2, CustodyKept
<1>4. QED
  BY <1>2, <1>3 DEF DmaInv

(* A defragmentation keeps the invariant, the one that stops the thread as well. *)
LEMMA DefragKept == ASSUME DmaInv, NEW t \in Threads, Defrag(t) PROVE DmaInv'
<1> USE DEF pool, books
<1>1. pc[t] = "pool" /\ arg[t].op = "defrag" /\ UNCHANGED <<phase, pool, books, owned>>
  BY DEF Defrag
<1>2. CASE Return(t)
  BY <1>1, <1>2, ReturnKept
<1>3. CASE pc' = [pc EXCEPT ![t] = "bugMerge"] /\ UNCHANGED <<mutex, arg>>
  <2>1. /\ mutex = t /\ arg' = [arg EXCEPT ![t] = arg[t]] /\ arg[t] \in Arguments
        /\ UNCHANGED <<phase, used, free, counts, todo, owned>>
    BY <1>1, <1>3 DEF DmaInv, Typed, Locked, Inside
  <2>2. /\ Typed' /\ Locked' /\ CallsTyped'
        /\ Others(t) /\ pc'[t] = "bugMerge" /\ arg'[t] = arg[t]
    BY <1>3, <2>1, PlaceKept, Fitting DEF DmaInv, Typed
  <2>3. ASSUME Alive' PROVE Custody'
    <3>1. Custody
      BY <2>1, <2>3 DEF DmaInv, Alive
    <3>2. \A p \in Pages, a \in Sizes : ~Carries(t, p, a)'
      BY <1>1, <2>2 DEF Carries
    <3>3. QED
      BY <1>1, <2>1, <2>2, <3>1, <3>2, CustodyKept
  <2>4. QED
    BY <2>2, <2>3 DEF DmaInv
<1>4. QED
  BY <1>2, <1>3 DEF Defrag

(* The owner of the mutex is the only thread that can be at work on the lists and counters. *)
LEMMA OneWrites ==
  ASSUME DmaInv, NEW t \in Threads, pc[t] \in Inside
  PROVE  \A u \in Threads : u # t => pc[u] \notin Inside /\ pc[u] \notin Writing
BY DEF DmaInv, Locked, Inside

LEMMA AllocKept == ASSUME DmaInv, NEW t \in Threads, AllocInPool(t) PROVE DmaInv'
<1>1. PICK p \in Pages :
        LET b == [ptr |-> p, size |-> arg[t].size]
        IN  /\ \A c \in used : Apart(b, c)
            /\ used' = used \cup {b}
            /\ arg' = [arg EXCEPT ![t] = [op |-> "alloc", asked |-> arg[t].asked,
                                          size |-> arg[t].size, ptr |-> p]]
  BY DEF AllocInPool
<1>2. /\ pc[t] = "pool" /\ arg[t].op = "alloc" /\ pc' = [pc EXCEPT ![t] = "listed"]
      /\ todo' = {"used", "total", "bytes"}
      /\ UNCHANGED <<phase, mutex, free, counts, owned>>
  BY DEF AllocInPool
<1>3. /\ arg[t] \in AllocCall /\ arg[t].asked <= arg[t].size
      /\ arg[t].asked \in Sizes /\ arg[t].size \in Powers
      /\ arg[t].asked \in Nat /\ arg[t].size \in Nat
  <2>1. arg[t] \in AllocCall /\ arg[t].asked <= arg[t].size
    BY <1>2 DEF DmaInv, CallsTyped, Fits, FreeCall
  <2>2. QED
    BY <2>1, Constants DEF AllocCall
<1> DEFINE b == [ptr |-> p, size |-> arg[t].size]
<1> DEFINE call == [op |-> "alloc", asked |-> arg[t].asked, size |-> arg[t].size, ptr |-> p]
<1>4. /\ b \in Block /\ b.ptr = p /\ b.size = arg[t].size
      /\ call \in Granted /\ call \in Arguments /\ call.op = "alloc" /\ call.ptr = p
      /\ call.asked = arg[t].asked /\ call.size = arg[t].size
  BY <1>3 DEF Block, Granted, Arguments
<1>5. \A c \in used : c.ptr # p
  <2>1. ASSUME NEW c \in used, c.ptr = p PROVE FALSE
    <3>1. c \in Block /\ Apart(b, c)
      BY <1>1, <2>1 DEF DmaInv, Typed
    <3>2. p \in PagesOf(b) /\ p \in PagesOf(c)
      BY <1>4, <2>1, <3>1, FirstPage
    <3>3. QED
      BY <3>1, <3>2 DEF Apart
  <2>2. QED
    BY <2>1
<1>6. used' = used \cup {b} /\ arg' = [arg EXCEPT ![t] = call]
  BY <1>1
<1> HIDE DEF b, call
<1>7. /\ mutex = t /\ Fits("listed", call) /\ "listed" \in Labels
  BY <1>2, <1>4 DEF DmaInv, Locked, Fits, Inside, Writing, Labels
<1>8. /\ pc' \in [Threads -> Labels]
      /\ arg' \in [Threads -> Arguments] /\ mutex' \in Threads \cup {Nobody}
      /\ Others(t) /\ pc'[t] = "listed" /\ arg'[t] = call /\ Locked' /\ CallsTyped'
  BY <1>2, <1>3, <1>4, <1>6, <1>7, PlaceKept
<1>9. Typed'
  BY <1>2, <1>3, <1>4, <1>6, <1>8 DEF DmaInv, Typed, Counters
<1>10. ASSUME Alive' PROVE Custody'
  <2>1. Custody
    BY <1>2, <1>10 DEF DmaInv, Alive
  <2>2. /\ \A c, d \in used : c.ptr = d.ptr => c = d
        /\ \A h \in owned : IsUsed(h.ptr, h.asked)
        /\ \A g, h \in owned : g.ptr = h.ptr => g = h
    BY <2>1 DEF Custody
  <2>3. /\ \A u \in Threads, q \in Pages, a \in Sizes : Carries(u, q, a) => IsUsed(q, a)
        /\ \A u \in Threads, q \in Pages, a \in Sizes, h \in owned : Carries(u, q, a) => h.ptr # q
        /\ \A u, v \in Threads, q \in Pages, a, c \in Sizes :
             Carries(u, q, a) /\ Carries(v, q, c) => u = v
    BY <2>1 DEF Custody
  <2>4. /\ \A q \in Pages, a \in Sizes : Carries(t, q, a)' => q = p /\ a = arg[t].asked
        /\ \A u \in Threads, q \in Pages, a \in Sizes :
             u # t => (Carries(u, q, a)' <=> Carries(u, q, a))
    BY <1>4, <1>8 DEF Carries, Others
  <2>5. /\ \A q, a : IsUsed(q, a) => IsUsed(q, a)'
        /\ IsUsed(p, arg[t].asked)'
        /\ \A a : ~IsUsed(p, a)
    BY <1>3, <1>4, <1>5, <1>6 DEF IsUsed
  <2>6. \A c, d \in used' : c.ptr = d.ptr => c = d
    BY <1>4, <1>5, <1>6, <2>2
  <2>7. \A u \in Threads, q \in Pages, a \in Sizes : Carries(u, q, a)' => IsUsed(q, a)'
    <3>1. ASSUME NEW q \in Pages, NEW a \in Sizes, Carries(t, q, a)' PROVE IsUsed(q, a)'
      <4>1. q = p /\ a = arg[t].asked
        BY <2>4, <3>1
      <4>2. QED
        BY <1>3, <1>4, <1>6, <4>1 DEF IsUsed
    <3>2. QED
      BY <2>3, <2>4, <2>5, <3>1
  <2>8. \A u \in Threads, q \in Pages, a \in Sizes, h \in owned : Carries(u, q, a)' => h.ptr # q
    <3>1. \A h \in owned : h.ptr # p
      BY <1>5, <2>2 DEF IsUsed
    <3>2. QED
      BY <2>3, <2>4, <3>1
  <2>9. \A u, v \in Threads, q \in Pages, a, c \in Sizes :
          Carries(u, q, a)' /\ Carries(v, q, c)' => u = v
    BY <2>3, <2>4, <2>5
  <2>10. QED
    BY <1>2, <2>2, <2>5, <2>6, <2>7, <2>8, <2>9 DEF Custody
<1>11. QED
  BY <1>8, <1>9, <1>10 DEF DmaInv

(* The end of an allocation hands the block to the caller. *)
LEMMA EndAllocKept == ASSUME DmaInv, NEW t \in Threads, EndAlloc(t) PROVE DmaInv'
<1> DEFINE p == arg[t].ptr
<1> DEFINE asked == arg[t].asked
<1> DEFINE h == [ptr |-> p, asked |-> asked]
<1>1. /\ pc[t] = "count" /\ arg[t].op = "alloc"
      /\ owned' = owned \cup {h}
      /\ mutex' = Nobody /\ pc' = [pc EXCEPT ![t] = "idle"]
      /\ arg' = [arg EXCEPT ![t] = NoCall]
      /\ UNCHANGED <<phase, used, free, counts, todo>>
  BY DEF EndAlloc, Return, pool, books
<1>2. arg[t] \in Granted
  BY <1>1 DEF DmaInv, CallsTyped, Fits, Freed
<1>3. /\ p \in Pages /\ asked \in Sizes /\ arg[t].size \in Nat
      /\ h \in Holding /\ h.ptr = p /\ h.asked = asked
      /\ NoCall \in Arguments /\ NoCall.op = "none"
  BY <1>2, Constants DEF Granted, Holding, Arguments, NoCall
<1>4. /\ mutex = t /\ "idle" \in Labels /\ "idle" \notin Inside /\ Fits("idle", NoCall)
  BY <1>1 DEF DmaInv, Locked, Fits, Inside, Writing, Labels
<1>5. Carries(t, p, asked)
  BY <1>1 DEF Carries
<1> HIDE DEF p, asked, h
<1>6. /\ pc' \in [Threads -> Labels]
      /\ arg' \in [Threads -> Arguments] /\ mutex' \in Threads \cup {Nobody}
      /\ Others(t) /\ pc'[t] = "idle" /\ arg'[t] = NoCall /\ Locked' /\ CallsTyped'
  BY <1>1, <1>3, <1>4, PlaceKept
<1>7. Typed'
  BY <1>1, <1>3, <1>6 DEF DmaInv, Typed
<1>8. ASSUME Alive' PROVE Custody'
  <2>1. Custody
    BY <1>1, <1>8 DEF DmaInv, Alive
  <2>2. /\ \A c, d \in used : c.ptr = d.ptr => c = d
        /\ \A g \in owned : IsUsed(g.ptr, g.asked) /\ g.ptr # p
        /\ \A g, k \in owned : g.ptr = k.ptr => g = k
        /\ IsUsed(p, asked)
    BY <1>3, <1>5, <2>1 DEF Custody
  <2>3. /\ \A u \in Threads, q \in Pages, a \in Sizes : Carries(u, q, a) => IsUsed(q, a)
        /\ \A u \in Threads, q \in Pages, a \in Sizes, g \in owned : Carries(u, q, a) => g.ptr # q
        /\ \A u, v \in Threads, q \in Pages, a, c \in Sizes :
             Carries(u, q, a) /\ Carries(v, q, c) => u = v
    BY <2>1 DEF Custody
  <2>4. \A u \in Threads, q \in Pages, a \in Sizes :
          Carries(u, q, a)' => u # t /\ Carries(u, q, a)
    BY <1>3, <1>6 DEF Carries, Others
  <2>5. \A u \in Threads, q \in Pages, a \in Sizes : Carries(u, q, a)' => q # p
    BY <1>3, <1>5, <2>3, <2>4
  <2>6. \A q, a : IsUsed(q, a)' <=> IsUsed(q, a)
    BY <1>1 DEF IsUsed
  <2>7. \A u \in Threads, q \in Pages, a \in Sizes, g \in owned' : Carries(u, q, a)' => g.ptr # q
    BY <1>1, <1>3, <2>3, <2>4, <2>5
  <2>8. \A u, v \in Threads, q \in Pages, a, c \in Sizes :
          Carries(u, q, a)' /\ Carries(v, q, c)' => u = v
    BY <2>3, <2>4
  <2>9. /\ \A g \in owned' : IsUsed(g.ptr, g.asked)
        /\ \A g, k \in owned' : g.ptr = k.ptr => g = k
    BY <1>1, <1>3, <2>2
  <2>10. \A u \in Threads, q \in Pages, a \in Sizes : Carries(u, q, a)' => IsUsed(q, a)
    BY <2>3, <2>4
  <2>11. QED
    BY <1>1, <2>2, <2>6, <2>7, <2>8, <2>9, <2>10 DEF Custody
<1>9. QED
  BY <1>6, <1>7, <1>8 DEF DmaInv

(* A free takes the carried block, and no other, off the used list. *)
LEMMA FreeKept == ASSUME DmaInv, NEW t \in Threads, FreeInPool(t) PROVE DmaInv'
<1> DEFINE p == arg[t].ptr
<1> DEFINE asked == arg[t].asked
<1>0. /\ pc[t] = "pool" /\ arg[t].op = "free" /\ pc' = [pc EXCEPT ![t] = "unlisted"]
      /\ todo' = {"used", "bytes"}
      /\ UNCHANGED <<phase, mutex, free, counts, owned>>
  BY DEF FreeInPool
<1>1. PICK b \in used :
        /\ b.ptr = p /\ used' = used \ {b}
        /\ arg' = [arg EXCEPT ![t] = [op |-> "free", ptr |-> p, asked |-> asked,
                                     size |-> b.size]]
  BY DEF FreeInPool, Found
<1> DEFINE call == [op |-> "free", ptr |-> p, asked |-> asked, size |-> b.size]
<1>2. arg[t] \in FreeCall
  BY <1>0 DEF DmaInv, CallsTyped, Fits, AllocCall
<1>3. /\ p \in Pages /\ asked \in Sizes /\ asked \in Nat
      /\ b \in Block /\ b.size \in Nat /\ mutex = t
  BY <1>0, <1>1, <1>2, Constants DEF FreeCall, Block, DmaInv, Typed, Locked, Inside
<1>4. /\ call \in Freed /\ call \in Arguments /\ call.op = "free"
      /\ Fits("unlisted", call) /\ "unlisted" \in Labels
  <2>1. call \in Freed /\ call.op = "free"
    BY <1>3 DEF Freed, Block
  <2> HIDE DEF call
  <2>2. QED
    BY <2>1 DEF Arguments, Fits, Labels, Inside, Writing
<1>5. Carries(t, p, asked)
  BY <1>0 DEF Carries
<1> HIDE DEF p, asked, call
<1>6. /\ pc' \in [Threads -> Labels]
      /\ arg' \in [Threads -> Arguments] /\ mutex' \in Threads \cup {Nobody}
      /\ Others(t) /\ pc'[t] = "unlisted" /\ arg'[t] = call /\ Locked' /\ CallsTyped'
  <2>1. arg' = [arg EXCEPT ![t] = call]
    BY <1>1 DEF call
  <2>2. QED
    BY <1>0, <1>3, <1>4, <2>1, PlaceKept
<1>7. Typed'
  BY <1>0, <1>1, <1>3, <1>6 DEF DmaInv, Typed, Counters
<1>8. ASSUME Alive' PROVE Custody'
  <2>1. Custody
    BY <1>0, <1>8 DEF DmaInv, Alive
  <2>2. /\ \A c, d \in used : c.ptr = d.ptr => c = d
        /\ \A h \in owned : IsUsed(h.ptr, h.asked) /\ h.ptr # p
        /\ \A g, h \in owned : g.ptr = h.ptr => g = h
        /\ IsUsed(p, asked)
    BY <1>3, <1>5, <2>1 DEF Custody
  <2>3. /\ \A u \in Threads, q \in Pages, a \in Sizes : Carries(u, q, a) => IsUsed(q, a)
        /\ \A u \in Threads, q \in Pages, a \in Sizes, h \in owned : Carries(u, q, a) => h.ptr # q
        /\ \A u, v \in Threads, q \in Pages, a, c \in Sizes :
             Carries(u, q, a) /\ Carries(v, q, c) => u = v
    BY <2>1 DEF Custody
  <2>4. \A u \in Threads, q \in Pages, a \in Sizes :
          Carries(u, q, a)' => u # t /\ Carries(u, q, a)
    BY <1>4, <1>6 DEF Carries, Others
  <2>5. \A u \in Threads, q \in Pages, a \in Sizes : Carries(u, q, a)' => q # p
    BY <1>3, <1>5, <2>3, <2>4
  <2>6. \A q, a : q # p /\ IsUsed(q, a) => IsUsed(q, a)'
    BY <1>1 DEF IsUsed
  <2>7. \A u \in Threads, q \in Pages, a \in Sizes : Carries(u, q, a)' => IsUsed(q, a)'
    BY <2>3, <2>4, <2>5, <2>6
  <2>8. \A h \in owned : IsUsed(h.ptr, h.asked)'
    BY <2>2, <2>6
  <2>9. \A c, d \in used' : c.ptr = d.ptr => c = d
    BY <1>1, <2>2
  <2>10. /\ \A u \in Threads, q \in Pages, a \in Sizes, h \in owned : Carries(u, q, a)' => h.ptr # q
         /\ \A u, v \in Threads, q \in Pages, a, c \in Sizes :
              Carries(u, q, a)' /\ Carries(v, q, c)' => u = v
    BY <2>3, <2>4
  <2>11. QED
    BY <1>0, <2>2, <2>7, <2>8, <2>9, <2>10 DEF Custody
<1>9. QED
  BY <1>6, <1>7, <1>8 DEF DmaInv

(* What a call changes every counter by. *)
LEMMA ChangeTyped ==
  ASSUME DmaInv, NEW t \in Threads, pc[t] \in Writing
  PROVE  \A f \in Counters : Change(arg[t])[f] \in Int
<1>1. arg[t] \in Granted \cup Freed
  BY DEF DmaInv, CallsTyped, Fits, Writing
<1>2. arg[t].size \in Int /\ arg[t].asked \in Int
  BY <1>1, Constants DEF Granted, Freed
<1>3. QED
  BY <1>2 DEF Change, AllocChange, FreeChange, Charged, Taken, Counters

(* A call that goes on, or ends, without touching the used list or what callers hold. *)
LEMMA WriterKept ==
  ASSUME DmaInv, NEW t \in Threads, Dispose(t) \/ EndFree(t) \/ WriteCounter(t) \/ LeavePool(t)
  PROVE  DmaInv'
<1>1. PICK label \in Labels, call \in Arguments :
        /\ pc' = [pc EXCEPT ![t] = label] /\ arg' = [arg EXCEPT ![t] = call]
        /\ Fits(label, call)
        /\ \/ mutex' = mutex /\ mutex = t
           \/ mutex' = Nobody /\ mutex = t /\ label = "idle"
        /\ \/ label = pc[t] /\ call = arg[t]
           \/ pc[t] = "listed" /\ label = "count" /\ call = arg[t]
           \/ arg[t].op = "free" /\ pc[t] \in Writing /\ label \in {"disposed", "count"} /\ call = arg[t]
           \/ call.op = "none"
  <2>0. /\ pc[t] \in Writing /\ mutex = t
        /\ pc[t] \in Labels /\ arg[t] \in Arguments /\ Fits(pc[t], arg[t])
        /\ arg = [arg EXCEPT ![t] = arg[t]] /\ pc = [pc EXCEPT ![t] = pc[t]]
    BY DEF Dispose, EndFree, WriteCounter, LeavePool, DmaInv, Typed, Locked, CallsTyped, Inside,
           Writing
  <2>1. CASE Dispose(t)
    <3>1. /\ pc[t] = "unlisted" /\ pc' = [pc EXCEPT ![t] = "disposed"]
          /\ UNCHANGED <<mutex, arg>>
      BY <2>1 DEF Dispose
    <3>2. arg[t] \in Freed /\ arg[t].op = "free"
      BY <2>0, <3>1 DEF Fits, Freed
    <3>3. Fits("disposed", arg[t]) /\ "disposed" \in Labels
      BY <3>2 DEF Fits, Labels, Inside, Writing
    <3>4. QED
      BY <2>0, <3>1, <3>2, <3>3
  <2>2. CASE EndFree(t)
    <3>1. /\ pc' = [pc EXCEPT ![t] = "idle"] /\ arg' = [arg EXCEPT ![t] = NoCall]
          /\ mutex' = Nobody
      BY <2>2 DEF EndFree, Return
    <3>2. Fits("idle", NoCall) /\ "idle" \in Labels /\ NoCall \in Arguments /\ NoCall.op = "none"
      BY DEF Fits, Labels, Arguments, NoCall
    <3>3. QED
      BY <2>0, <3>1, <3>2
  <2>3. CASE WriteCounter(t)
    BY <2>0, <2>3 DEF WriteCounter
  <2>4. CASE LeavePool(t)
    <3>1. /\ pc[t] \in {"listed", "disposed"} /\ pc' = [pc EXCEPT ![t] = "count"]
          /\ UNCHANGED <<mutex, arg>>
      BY <2>4 DEF LeavePool
    <3>2. /\ arg[t] \in Granted \cup Freed /\ (pc[t] = "disposed" => arg[t].op = "free")
      BY <2>0, <3>1 DEF Fits, Freed
    <3>3. Fits("count", arg[t]) /\ "count" \in Labels
      BY <3>2 DEF Fits, Labels, Inside, Writing
    <3>4. QED
      BY <2>0, <3>1, <3>2, <3>3
  <2>5. QED
    BY <2>1, <2>2, <2>3, <2>4
<1>2. UNCHANGED <<phase, used, owned>>
  BY DEF Dispose, EndFree, WriteCounter, LeavePool, pool
<1>3. /\ pc' \in [Threads -> Labels]
      /\ arg' \in [Threads -> Arguments] /\ mutex' \in Threads \cup {Nobody}
      /\ Others(t) /\ pc'[t] = label /\ arg'[t] = call /\ Locked' /\ CallsTyped'
  BY <1>1, PlaceKept
<1>4. free' \in Seq(Block) /\ counts' \in [Counters -> Int] /\ todo' \subseteq Counters
  <2>0. free \in Seq(Block) /\ counts \in [Counters -> Int] /\ todo \subseteq Counters
    BY DEF DmaInv, Typed
  <2>1. CASE Dispose(t)
    <3>1. Handled(t) \in Block
      BY <2>1 DEF Dispose, DmaInv, CallsTyped, Fits, Freed, Handled, Block
    <3>2. QED
      BY <2>0, <2>1, <3>1 DEF Dispose, Counters
  <2>2. CASE EndFree(t)
    BY <2>0, <2>2 DEF EndFree, pool, books
  <2>3. CASE WriteCounter(t)
    <3>1. pc[t] \in Writing /\ UNCHANGED pool
      BY <2>3 DEF WriteCounter
    <3>2. \A f \in Counters : Change(arg[t])[f] \in Int
      BY <3>1, ChangeTyped
    <3>3. PICK f \in todo : counts' = [counts EXCEPT ![f] = @ + Change(arg[t])[f]]
                           /\ todo' = todo \ {f}
      BY <2>3 DEF WriteCounter
    <3>4. counts[f] + Change(arg[t])[f] \in Int
      BY <2>0, <3>2, <3>3
    <3>5. QED
      BY <2>0, <3>1, <3>3, <3>4 DEF pool
  <2>4. CASE LeavePool(t)
    BY <2>0, <2>4 DEF LeavePool, pool, Counters
  <2>5. QED
    BY <2>1, <2>2, <2>3, <2>4
<1>5. Typed'
  BY <1>2, <1>3, <1>4 DEF DmaInv, Typed
<1>6. ASSUME Alive' PROVE Custody'
  <2>1. Custody
    BY <1>2, <1>6 DEF DmaInv, Alive
  <2>2. \A p \in Pages, a \in Sizes : Carries(t, p, a)' => Carries(t, p, a)
    BY <1>1, <1>3 DEF Carries
  <2>3. QED
    BY <1>2, <1>3, <2>1, <2>2, CustodyKept
<1>7. QED
  BY <1>3, <1>5, <1>6 DEF DmaInv

(* The health thread on its own: it decides to defragment, or leaves. *)
LEMMA HealthKept == ASSUME DmaInv, HealthHigh \/ HealthStops PROVE DmaInv'
<1> DEFINE t == Health
<1> t \in Threads
  BY Constants
<1> USE DEF pool, books
<1>1. PICK label \in {"lock", "exited"}, call \in Arguments :
        /\ pc' = [pc EXCEPT ![t] = label] /\ arg' = [arg EXCEPT ![t] = call]
        /\ label = "lock" => call.op = "defrag"
  <2>1. CASE HealthHigh
    <3>1. [op |-> "defrag"] \in Arguments
      BY DEF Arguments
    <3>2. QED
      BY <2>1, <3>1 DEF HealthHigh
  <2>2. CASE HealthStops
    <3>1. arg' = [arg EXCEPT ![t] = arg[t]] /\ arg[t] \in Arguments
      BY <2>2 DEF HealthStops, DmaInv, Typed
    <3>2. QED
      BY <2>2, <3>1 DEF HealthStops
  <2>3. QED
    BY <2>1, <2>2
<1>2. pc[t] = "idle" /\ UNCHANGED <<phase, mutex, used, free, counts, todo, owned>>
  BY DEF HealthHigh, HealthStops
<1> HIDE DEF t
<1>3. /\ Typed' /\ Locked' /\ CallsTyped'
      /\ Others(t) /\ pc'[t] = label /\ arg'[t] = call
  <2>1. /\ pc' \in [Threads -> Labels]
        /\ arg' \in [Threads -> Arguments] /\ mutex' \in Threads \cup {Nobody}
        /\ Others(t) /\ pc'[t] = label /\ arg'[t] = call /\ Locked' /\ CallsTyped'
    BY <1>1, <1>2, PlaceKept, Fitting
  <2>2. QED
    BY <1>2, <2>1 DEF DmaInv, Typed
<1>4. ASSUME Alive' PROVE Custody'
  <2>1. Custody
    BY <1>2, <1>4 DEF DmaInv, Alive
  <2>2. \A p \in Pages, a \in Sizes : ~Carries(t, p, a)'
    BY <1>1, <1>3 DEF Carries
  <2>3. QED
    BY <1>1, <1>2, <1>3, <2>1, <2>2, CustodyKept
<1>5. QED
  BY <1>3, <1>4 DEF DmaInv

LEMMA DmaKept == DmaInv /\ [Next]_vars => DmaInv'
<1> SUFFICES ASSUME DmaInv, [Next]_vars PROVE DmaInv'
  OBVIOUS
<1>1. CASE Probe
  BY <1>1, Untouched DEF Probe, Alive
<1>2. ASSUME NEW t \in Clients, CallAlloc(t) \/ CallFree(t) \/ CallDefrag(t) PROVE DmaInv'
  BY <1>2, CallKept
<1>3. ASSUME NEW t \in Threads, Step(t) PROVE DmaInv'
  <2>1. CASE AllocFails(t)
    BY <2>1, ReturnKept DEF AllocFails, Fail
  <2>2. QED
    BY <1>3, <2>1, LockKept, AllocKept, EndAllocKept, FreeKept, WriterKept, DefragKept DEF Step
<1>4. CASE HealthHigh \/ HealthStops
  BY <1>4, HealthKept
<1>5. CASE StartRemove \/ JoinHealth \/ UnlistPool
  BY <1>5, Untouched DEF StartRemove, JoinHealth, UnlistPool, Goes, Alive
<1>6. CASE EmptyPool
  <2>1. Typed' /\ Locked' /\ CallsTyped'
    BY <1>6 DEF EmptyPool, DmaInv, Typed, Locked, CallsTyped, Fits, books
  <2>2. ~Alive'
    BY <1>6 DEF EmptyPool, Goes, Alive
  <2>3. QED
    BY <2>1, <2>2 DEF DmaInv
<1>7. CASE UNCHANGED vars
  BY <1>7, Untouched DEF vars, Alive
<1>8. QED
  BY <1>1, <1>2, <1>3, <1>4, <1>5, <1>6, <1>7 DEF Next, RemoveStep

(* The invariant: locking, arguments, and custody of every block. *)
THEOREM DmaInvHolds == Spec => []DmaInv
BY DmaStarts, DmaKept, PTL DEF Spec

(* A free by a caller always finds that caller's block, and no other has its address. *)
THEOREM OwnedIsUsedSafe == Spec => []OwnedIsUsed
<1>1. DmaInv => OwnedIsUsed
  BY DEF DmaInv, Custody, IsUsed, OwnedIsUsed, Bound, Alive
<1>2. QED
  BY <1>1, DmaInvHolds, PTL

----------------------------------------------------------------------------
(* What debugfs and dma_allocator_get_stats report *)

Freeing == {t \in Clients : arg[t].op = "free"}

(* The counters that t, at work, has not written yet, in this critical section or a later one,
   and what every counter will be when it has written them. *)
Rest(t) ==
  todo \cup (IF pc[t] = "count" THEN {} ELSE {"size", "calls"})
       \cup (IF pc[t] = "unlisted" THEN {"free"} ELSE {})

Final(t) ==
  [f \in Counters |-> counts[f] + (IF f \in Rest(t) THEN Change(arg[t])[f] ELSE 0)]

(* Counters that are those of the lists, with n blocks on their way to the free list. *)
Agrees(c, n) ==
  /\ c["used"] = Cardinality(used) /\ c["calls"] = Cardinality(used)
  /\ c["bytes"] = SizeSum(used)
  /\ c["free"] = Len(free) + n /\ c["total"] = Cardinality(used) + Len(free) + n
  /\ c["size"] >= c["bytes"]

OnTheirWay(t) == IF pc[t] = "unlisted" THEN 1 ELSE 0

(* The counters a critical section has. *)
Section(t) ==
  /\ pc[t] = "listed" => todo \subseteq {"used", "total", "bytes"}
  /\ pc[t] = "unlisted" => todo \subseteq {"used", "bytes"}
  /\ pc[t] = "disposed" => todo \subseteq {"free"}
  /\ pc[t] = "count" => todo \subseteq {"size", "calls"}

(* The counters agree with the lists when nobody is at work on them, and will agree with them
   when the one who is has written the rest. *)
Books ==
  /\ IsFiniteSet(used)
  /\ (\A t \in Threads : pc[t] \notin Writing) => todo = {} /\ Agrees(counts, 0)
  /\ \A t \in Threads : pc[t] \in Writing => Section(t) /\ Agrees(Final(t), OnTheirWay(t))

(* The blocks in use are those that callers hold or are freeing, and the one at work on. *)
Callers ==
  /\ IsFiniteSet(owned) /\ IsFiniteSet(Freeing)
  /\ arg[Health].op # "free"
  /\ \A t \in Threads : pc[t] = "idle" => arg[t].op = "none"
  /\ (\A t \in Threads : pc[t] \notin Writing) =>
       Cardinality(used) = Cardinality(owned) + Cardinality(Freeing)
  /\ \A t \in Threads : pc[t] \in Writing =>
       /\ arg[t].op = "alloc" => /\ Cardinality(used) = Cardinality(owned) + Cardinality(Freeing) + 1
                                 /\ Handled(t) \in used
       /\ arg[t].op = "free" => /\ Cardinality(used) + 1 = Cardinality(owned) + Cardinality(Freeing)
                                /\ Handled(t) \notin used

ReportsInv == Alive => Books /\ Callers

LEMMA ReportsStart == Init => ReportsInv
<1> SUFFICES ASSUME Init PROVE Books /\ Callers
  BY DEF ReportsInv
<1>1. SizeSum({}) = 0 /\ Cardinality({}) = 0 /\ IsFiniteSet({})
  BY SizeSumEmpty, FS_EmptySet
<1>2. Books
  BY <1>1 DEF Init, Books, Agrees, Writing, Counters
<1>3. Freeing = {}
  BY Constants DEF Init, Freeing, NoCall
<1>4. Callers
  BY <1>1, <1>3, Constants DEF Init, Callers, NoCall, Writing
<1>5. QED
  BY <1>2, <1>4

(* A step of a thread that is not at work on the books, before or after. *)
LEMMA BooksQuiet ==
  ASSUME Books, NEW t \in Threads, Others(t), UNCHANGED <<used, free, counts, todo>>,
         pc[t] \notin Writing, pc'[t] \notin Writing
  PROVE  Books'
<1>1. \A u \in Threads : /\ pc'[u] \in Writing <=> pc[u] \in Writing
                         /\ pc'[u] \in Writing => pc'[u] = pc[u] /\ arg'[u] = arg[u]
  BY DEF Others
<1>2. \A u \in Threads : pc'[u] \in Writing =>
        /\ Section(u)' <=> Section(u)
        /\ Final(u)' = Final(u) /\ OnTheirWay(u)' = OnTheirWay(u)
  BY <1>1 DEF Section, Final, Rest, OnTheirWay
<1>3. \A c, n : Agrees(c, n)' <=> Agrees(c, n)
  BY DEF Agrees
<1>4. \A u \in Threads : pc'[u] \in Writing => Section(u)' /\ Agrees(Final(u), OnTheirWay(u))'
  BY <1>1, <1>2 DEF Books, Agrees
<1>5. (\A u \in Threads : pc'[u] \notin Writing) => todo' = {} /\ Agrees(counts, 0)'
  BY <1>1 DEF Books, Agrees
<1>6. IsFiniteSet(used')
  BY DEF Books
<1>7. QED
  BY <1>4, <1>5, <1>6 DEF Books

LEMMA CallersKept ==
  ASSUME Callers, NEW t \in Threads, Others(t), UNCHANGED <<used, owned>>,
         pc[t] \notin Writing, pc'[t] \notin Writing, arg'[t].op = "free" <=> arg[t].op = "free",
         pc'[t] = "idle" => arg'[t].op = "none"
  PROVE  Callers'
<1>1. \A u \in Threads : arg'[u].op = "free" <=> arg[u].op = "free"
  BY DEF Others
<1>2. Freeing' = Freeing
  BY <1>1, Constants DEF Freeing
<1>3. QED
  BY <1>1, <1>2, Constants DEF Callers, Others, Handled

LEMMA MovedOnly ==
  ASSUME DmaInv, NEW t \in Threads, NEW label, NEW call,
         pc' = [pc EXCEPT ![t] = label], arg' = [arg EXCEPT ![t] = call]
  PROVE  Others(t) /\ pc'[t] = label /\ arg'[t] = call
BY DEF Others, DmaInv, Typed

(* The calls that come and go without touching the pool; a free starts with its address handed
   over by a caller. *)
LEMMA CallReports ==
  ASSUME DmaInv, Books, Callers, NEW t \in Clients, CallAlloc(t) \/ CallFree(t) \/ CallDefrag(t)
  PROVE  Books' /\ Callers'
<1>0. t \in Threads
  BY Constants
<1>1. PICK call : Calls(t, call)
  BY DEF CallAlloc, CallFree, CallDefrag
<1>3. /\ pc[t] = "idle" /\ UNCHANGED <<used, free, counts, todo>>
      /\ Others(t) /\ pc'[t] = "lock"
  BY <1>0, <1>1, MovedOnly DEF Calls, pool, books
<1>2. Books'
  BY <1>0, <1>3, BooksQuiet DEF Writing
<1>4. arg[t].op # "free"
  BY <1>0, <1>3 DEF Callers
<1>5. CASE CallAlloc(t) \/ CallDefrag(t)
  <2>1. arg'[t].op # "free" /\ UNCHANGED owned
    BY <1>0, <1>5 DEF CallAlloc, CallDefrag, Calls, DmaInv, Typed
  <2>2. QED
    BY <1>0, <1>2, <1>3, <1>4, <2>1, CallersKept DEF Writing
<1>6. CASE CallFree(t)
  <2>1. PICK h \in owned : owned' = owned \ {h} /\ arg'[t].op = "free"
    BY <1>0, <1>6 DEF CallFree, Calls, DmaInv, Typed
  <2>2. Freeing' = Freeing \cup {t} /\ t \notin Freeing
    BY <1>0, <1>3, <1>4, <2>1, Constants DEF Freeing, Others
  <2>3. /\ IsFiniteSet(owned') /\ Cardinality(owned') = Cardinality(owned) - 1
        /\ IsFiniteSet(Freeing') /\ Cardinality(Freeing') = Cardinality(Freeing) + 1
    BY <2>1, <2>2, FS_RemoveElement, FS_AddElement DEF Callers
  <2>4. Cardinality(owned) \in Nat /\ Cardinality(Freeing) \in Nat
    BY FS_CardinalityType DEF Callers
  <2>5. Health # t
    BY DmaAssumption
  <2>6. /\ \A u \in Threads : pc'[u] \in Writing <=> pc[u] \in Writing
        /\ \A u \in Threads : pc'[u] \in Writing => u # t
    BY <1>0, <1>3 DEF Others, Writing
  <2>7. Cardinality(owned') + Cardinality(Freeing') = Cardinality(owned) + Cardinality(Freeing)
    BY <2>3, <2>4
  <2>8. \A u \in Threads : pc'[u] \in Writing => arg'[u] = arg[u] /\ Handled(u)' = Handled(u)
    BY <2>6, <1>3 DEF Others, Handled
  <2>9. /\ arg'[Health].op # "free"
        /\ \A u \in Threads : pc'[u] = "idle" => arg'[u].op = "none"
    BY <1>0, <1>3, <2>5, Constants DEF Callers, Others
  <2>10. Callers'
    BY <1>3, <2>3, <2>6, <2>7, <2>8, <2>9 DEF Callers
  <2>11. QED
    BY <1>2, <2>10
<1>7. QED
  BY <1>5, <1>6

(* Nobody but the caller in the pool is at work there, and the books are in order. *)
LEMMA InOrder ==
  ASSUME DmaInv, Books, Callers, NEW t \in Threads, pc[t] = "pool"
  PROVE  /\ \A u \in Threads : pc[u] \notin Writing
         /\ todo = {} /\ Agrees(counts, 0)
         /\ Cardinality(used) = Cardinality(owned) + Cardinality(Freeing)
         /\ Cardinality(used) \in Nat /\ Cardinality(owned) \in Nat
         /\ Cardinality(Freeing) \in Nat /\ Len(free) \in Nat
         /\ counts \in [Counters -> Int] /\ Sized(used)
<1>1. \A u \in Threads : pc[u] \notin Writing
  BY OneWrites DEF Inside, Writing
<1>2. Sized(used) /\ Len(free) \in Nat /\ counts \in [Counters -> Int]
  BY Constants DEF Books, Sized, DmaInv, Typed, Block
<1>3. QED
  BY <1>1, <1>2, FS_CardinalityType DEF Books, Callers

(* The block of an allocation is on the used list before any counter says so. *)
LEMMA AllocReports ==
  ASSUME DmaInv, Books, Callers, NEW t \in Threads, AllocInPool(t)
  PROVE  Books' /\ Callers'
<1> DEFINE size == arg[t].size
<1>1. PICK p \in Pages : LET b == [ptr |-> p, size |-> size]
                         IN  /\ \A c \in used : Apart(b, c)
                             /\ used' = used \cup {b}
                             /\ arg' = [arg EXCEPT ![t] = [op |-> "alloc", asked |-> arg[t].asked,
                                                           size |-> size, ptr |-> p]]
  BY DEF AllocInPool
<1> DEFINE b == [ptr |-> p, size |-> size]
<1> DEFINE call == [op |-> "alloc", asked |-> arg[t].asked, size |-> size, ptr |-> p]
<1>2. /\ pc[t] = "pool" /\ arg[t].op = "alloc"
      /\ todo' = {"used", "total", "bytes"} /\ pc' = [pc EXCEPT ![t] = "listed"]
      /\ UNCHANGED <<free, owned, counts>>
  BY DEF AllocInPool
<1>3. b \in Block /\ size \in Nat /\ call.op = "alloc" /\ call.size = size /\ b.size = size
  <2>1. arg[t] \in AllocCall
    BY <1>2 DEF DmaInv, CallsTyped, Fits, FreeCall
  <2>2. QED
    BY <2>1, Constants DEF AllocCall, Block
<1>4. b \notin used
  BY <1>1, <1>3, FirstPage DEF Apart
<1>5. Others(t) /\ pc'[t] = "listed" /\ arg'[t] = call
  BY <1>1, <1>2, MovedOnly
<1>6. used' = used \cup {b} /\ Handled(t)' = b
  BY <1>1, <1>5 DEF Handled
<1> HIDE DEF b, call
<1>7. /\ \A u \in Threads : pc[u] \notin Writing
      /\ todo = {} /\ Agrees(counts, 0)
      /\ Cardinality(used) = Cardinality(owned) + Cardinality(Freeing)
      /\ Cardinality(used) \in Nat /\ Len(free) \in Nat
      /\ counts \in [Counters -> Int] /\ Sized(used)
  BY <1>2, InOrder
<1>8. SizeSum(used') = SizeSum(used) + size
  BY <1>3, <1>4, <1>6, <1>7, SizeSumAdd DEF Books
<1>9. IsFiniteSet(used') /\ Cardinality(used') = Cardinality(used) + 1
  BY <1>4, <1>6, FS_AddElement DEF Books
<1>10. \A u \in Threads : pc'[u] \in Writing => u = t
  BY <1>5, <1>7 DEF Others
<1>11. Section(t)' /\ pc'[t] \in Writing
  BY <1>2, <1>5 DEF Section, Writing
<1>12. Agrees(Final(t), OnTheirWay(t))'
  <2>1. Rest(t)' = {"used", "total", "bytes", "size", "calls"} /\ OnTheirWay(t)' = 0
    BY <1>2, <1>5 DEF Rest, OnTheirWay
  <2>2. Change(arg'[t]) = [used |-> 1, free |-> 0, total |-> 1, bytes |-> size, size |-> size,
                           calls |-> 1]
    BY <1>3, <1>5 DEF Change, AllocChange, Charged
  <2>3. /\ Final(t)'["used"] = counts["used"] + 1
        /\ Final(t)'["calls"] = counts["calls"] + 1
        /\ Final(t)'["total"] = counts["total"] + 1
        /\ Final(t)'["free"] = counts["free"]
        /\ Final(t)'["bytes"] = counts["bytes"] + size
        /\ Final(t)'["size"] = counts["size"] + size
    BY <1>2, <1>7, <2>1, <2>2 DEF Final, Counters
  <2> HIDE DEF size
  <2>4. /\ counts["used"] = Cardinality(used) /\ counts["calls"] = Cardinality(used)
        /\ counts["bytes"] = SizeSum(used)
        /\ counts["free"] = Len(free) /\ counts["total"] = Cardinality(used) + Len(free)
        /\ counts["size"] >= counts["bytes"]
        /\ counts["size"] \in Int /\ counts["bytes"] \in Int
    BY <1>7 DEF Agrees, Counters
  <2>5. free' = free
    BY <1>2
  <2>6. counts["size"] + size >= counts["bytes"] + size
    BY <1>3, <2>4
  <2>7. counts["total"] + 1 = Cardinality(used') + Len(free')
    BY <1>7, <1>9, <2>4, <2>5
  <2>8. Len(free') \in Nat /\ Cardinality(used') \in Nat
    BY <1>7, <1>9, <2>5
  <2>9. QED
    BY <1>8, <1>9, <2>1, <2>3, <2>4, <2>5, <2>6, <2>7, <2>8 DEF Agrees
<1>13. Books'
  BY <1>9, <1>10, <1>11, <1>12 DEF Books
<1>14. \A u \in Threads : arg'[u].op = "free" <=> arg[u].op = "free"
  BY <1>2, <1>3, <1>5 DEF Others
<1>15. Freeing' = Freeing
  BY <1>14, Constants DEF Freeing
<1>16. arg'[t].op = "alloc" /\ Handled(t)' \in used'
  BY <1>3, <1>5, <1>6
<1>17. /\ arg'[Health].op # "free"
       /\ \A u \in Threads : pc'[u] = "idle" => arg'[u].op = "none"
  BY <1>5, <1>14, Constants DEF Callers, Others
<1>18. Callers'
  BY <1>2, <1>7, <1>9, <1>10, <1>11, <1>15, <1>16, <1>17 DEF Callers
<1>19. QED
  BY <1>13, <1>18

(* The block of a free is off the used list before any counter says so; what will be taken off
   used_size is at most what is taken off current_allocated. *)
LEMMA FreeReports ==
  ASSUME DmaInv, Alive, Books, Callers, NEW t \in Threads, FreeInPool(t)
  PROVE  Books' /\ Callers'
<1> DEFINE p == arg[t].ptr
<1> DEFINE asked == arg[t].asked
<1>1. PICK b \in used :
        /\ b.ptr = p /\ used' = used \ {b}
        /\ arg' = [arg EXCEPT ![t] = [op |-> "free", ptr |-> p, asked |-> asked,
                                     size |-> b.size]]
  BY DEF FreeInPool, Found
<1> DEFINE call == [op |-> "free", ptr |-> p, asked |-> asked, size |-> b.size]
<1>2. /\ pc[t] = "pool" /\ arg[t].op = "free"
      /\ todo' = {"used", "bytes"} /\ pc' = [pc EXCEPT ![t] = "unlisted"]
      /\ UNCHANGED <<free, owned, counts>>
  BY DEF FreeInPool
<1>3. /\ p \in Pages /\ asked \in Sizes /\ asked \in Nat
      /\ b \in Block /\ b.size \in Nat /\ b = [ptr |-> b.ptr, size |-> b.size]
  <2>1. arg[t] \in FreeCall
    BY <1>2 DEF DmaInv, CallsTyped, Fits, AllocCall
  <2>2. b \in Block
    BY DEF DmaInv, Typed
  <2>3. QED
    BY <2>1, <2>2, Constants DEF FreeCall, Block
<1>4. Others(t) /\ pc'[t] = "unlisted" /\ arg'[t] = call
  BY <1>1, <1>2, MovedOnly
<1>5. Handled(t)' = b
  BY <1>1, <1>3, <1>4 DEF Handled
<1>6. b.size >= asked
  <2>1. Carries(t, p, asked)
    BY <1>2 DEF Carries
  <2>2. /\ IsUsed(p, asked)
        /\ \A c, d \in used : c.ptr = d.ptr => c = d
    BY <1>3, <2>1 DEF DmaInv, Custody
  <2>3. QED
    BY <1>1, <2>2 DEF IsUsed
<1>7. call.op = "free" /\ call.size = b.size /\ call.asked = asked
  OBVIOUS
<1> HIDE DEF p, asked, call
<1>8. /\ \A u \in Threads : pc[u] \notin Writing
      /\ todo = {} /\ Agrees(counts, 0)
      /\ Cardinality(used) = Cardinality(owned) + Cardinality(Freeing)
      /\ Cardinality(used) \in Nat /\ Len(free) \in Nat
      /\ Cardinality(owned) \in Nat /\ Cardinality(Freeing) \in Nat
      /\ counts \in [Counters -> Int] /\ Sized(used)
  BY <1>2, InOrder
<1>9. SizeSum(used') = SizeSum(used) - b.size
  BY <1>1, <1>8, SizeSumRemove DEF Books
<1>10. IsFiniteSet(used') /\ Cardinality(used') = Cardinality(used) - 1
  BY <1>1, FS_RemoveElement DEF Books
<1>11. \A u \in Threads : pc'[u] \in Writing => u = t
  BY <1>4, <1>8 DEF Others
<1>12. Section(t)' /\ pc'[t] \in Writing
  BY <1>2, <1>4 DEF Section, Writing
<1>13. Agrees(Final(t), OnTheirWay(t))'
  <2>1. Rest(t)' = {"used", "bytes", "free", "size", "calls"} /\ OnTheirWay(t)' = 1
    BY <1>2, <1>4 DEF Rest, OnTheirWay
  <2>2. Change(arg'[t]) = [used |-> -1, free |-> 1, total |-> 0, bytes |-> -b.size,
                           size |-> -asked, calls |-> -1]
    BY <1>4, <1>7 DEF Change, FreeChange, Taken
  <2>3. /\ Final(t)'["used"] = counts["used"] - 1
        /\ Final(t)'["calls"] = counts["calls"] - 1
        /\ Final(t)'["total"] = counts["total"]
        /\ Final(t)'["free"] = counts["free"] + 1
        /\ Final(t)'["bytes"] = counts["bytes"] - b.size
        /\ Final(t)'["size"] = counts["size"] - asked
    <3>1. \A f \in Counters :
            Final(t)'[f] = counts[f] + (IF f \in Rest(t)' THEN Change(arg'[t])[f] ELSE 0)
      BY <1>2 DEF Final
    <3>2. /\ Change(arg'[t])["used"] = -1 /\ Change(arg'[t])["free"] = 1
          /\ Change(arg'[t])["bytes"] = -b.size /\ Change(arg'[t])["size"] = -asked
          /\ Change(arg'[t])["calls"] = -1
      BY <2>2
    <3>3. \A f \in Counters : counts[f] \in Int
      BY <1>8
    <3>4. QED
      BY <1>3, <2>1, <3>1, <3>2, <3>3 DEF Counters
  <2>4. /\ counts["used"] = Cardinality(used) /\ counts["calls"] = Cardinality(used)
        /\ counts["bytes"] = SizeSum(used)
        /\ counts["free"] = Len(free) /\ counts["total"] = Cardinality(used) + Len(free)
        /\ counts["size"] >= counts["bytes"]
        /\ counts["size"] \in Int /\ counts["bytes"] \in Int
    BY <1>8 DEF Agrees, Counters
  <2>5. free' = free
    BY <1>2
  <2>6. counts["size"] - asked >= counts["bytes"] - b.size
    BY <1>3, <1>6, <2>4
  <2>7. counts["total"] = Cardinality(used') + Len(free') + 1
    BY <1>8, <1>10, <2>4, <2>5
  <2>8. QED
    BY <1>9, <1>10, <2>1, <2>3, <2>4, <2>5, <2>6, <2>7 DEF Agrees
<1>14. Books'
  BY <1>10, <1>11, <1>12, <1>13 DEF Books
<1>15. \A u \in Threads : arg'[u].op = "free" <=> arg[u].op = "free"
  BY <1>2, <1>4, <1>7 DEF Others
<1>16. Freeing' = Freeing
  BY <1>15, Constants DEF Freeing
<1>17. arg'[t].op = "free" /\ Handled(t)' \notin used'
  BY <1>1, <1>4, <1>5, <1>7
<1>18. /\ arg'[Health].op # "free"
       /\ \A u \in Threads : pc'[u] = "idle" => arg'[u].op = "none"
  BY <1>4, <1>15, Constants DEF Callers, Others
<1>19. Callers'
  BY <1>2, <1>8, <1>10, <1>11, <1>12, <1>16, <1>17, <1>18 DEF Callers
<1>20. QED
  BY <1>14, <1>19

(* Writing a counter, or going on to the next critical section, changes nothing of what the
   counters will be. *)
LEMMA WriterReports ==
  ASSUME DmaInv, Books, Callers, NEW t \in Threads,
         WriteCounter(t) \/ LeavePool(t) \/ Dispose(t)
  PROVE  Books' /\ Callers'
<1>1. /\ pc[t] \in Writing /\ Section(t) /\ Agrees(Final(t), OnTheirWay(t))
      /\ UNCHANGED <<used, owned, arg>>
  BY DEF WriteCounter, LeavePool, Dispose, Books, Writing, pool
<1>2. \A u \in Threads : u # t => pc[u] \notin Writing
  BY <1>1, OneWrites DEF Inside
<1>3. /\ \A u \in Threads : u # t => pc'[u] = pc[u]
      /\ pc'[t] \in Writing
  BY <1>1 DEF WriteCounter, LeavePool, Dispose, DmaInv, Typed, Writing
<1>4. \A u \in Threads : pc'[u] \in Writing => u = t
  BY <1>2, <1>3
<1>5. /\ \A f \in Counters : Change(arg[t])[f] \in Int
      /\ counts \in [Counters -> Int] /\ todo \subseteq Counters /\ Len(free) \in Nat
      /\ Cardinality(used) \in Nat
  BY <1>1, ChangeTyped, FS_CardinalityType DEF DmaInv, Typed, Books
<1>6. Section(t)' /\ Agrees(Final(t), OnTheirWay(t))'
  <2>1. CASE WriteCounter(t)
    <3>1. PICK f \in todo : /\ counts' = [counts EXCEPT ![f] = @ + Change(arg[t])[f]]
                           /\ todo' = todo \ {f}
      BY <2>1 DEF WriteCounter
    <3>2. UNCHANGED <<pc, arg, used, free>>
      BY <2>1 DEF WriteCounter, pool
    <3>3. f \notin (IF pc[t] = "count" THEN {} ELSE {"size", "calls"})
          /\ f \notin (IF pc[t] = "unlisted" THEN {"free"} ELSE {})
      BY <1>1, <3>1 DEF Section, Writing
    <3>4. Rest(t)' = Rest(t) \ {f} /\ f \in Rest(t) /\ f \in Counters
      BY <1>5, <3>1, <3>2, <3>3 DEF Rest
    <3>5. \A g \in Counters : counts'[g] + (IF g \in Rest(t)' THEN Change(arg[t])[g] ELSE 0)
                             = counts[g] + (IF g \in Rest(t) THEN Change(arg[t])[g] ELSE 0)
      <4> TAKE g \in Counters
      <4>1. CASE g = f
        BY <1>5, <3>1, <3>4, <4>1
      <4>2. CASE g # f
        BY <1>5, <3>1, <3>4, <4>2
      <4>3. QED
        BY <4>1, <4>2
    <3>6. Final(t)' = Final(t)
      BY <3>2, <3>5 DEF Final
    <3>7. QED
      BY <1>1, <3>1, <3>2, <3>6 DEF Agrees, Section, OnTheirWay
  <2>2. CASE LeavePool(t)
    <3>1. /\ pc[t] \in {"listed", "disposed"} /\ todo = {} /\ todo' = {"size", "calls"}
          /\ pc'[t] = "count" /\ UNCHANGED <<counts, free>>
      BY <2>2 DEF LeavePool, pool, DmaInv, Typed
    <3>2. Rest(t)' = Rest(t) /\ OnTheirWay(t)' = OnTheirWay(t)
      BY <3>1 DEF Rest, OnTheirWay
    <3>3. Final(t)' = Final(t)
      BY <1>1, <3>1, <3>2 DEF Final
    <3>4. QED
      BY <1>1, <3>1, <3>2, <3>3 DEF Agrees, Section
  <2>3. CASE Dispose(t)
    <3>1. /\ pc[t] = "unlisted" /\ todo = {} /\ todo' = {"free"}
          /\ pc'[t] = "disposed" /\ UNCHANGED counts /\ free' = Append(free, Handled(t))
      BY <2>3 DEF Dispose, DmaInv, Typed
    <3>2. Rest(t)' = Rest(t) /\ OnTheirWay(t) = 1 /\ OnTheirWay(t)' = 0
      BY <3>1 DEF Rest, OnTheirWay
    <3>3. Final(t)' = Final(t)
      BY <1>1, <3>1, <3>2 DEF Final
    <3>4. Len(free') = Len(free) + 1
      BY <3>1 DEF DmaInv, Typed
    <3>5. QED
      BY <1>1, <1>5, <3>1, <3>2, <3>3, <3>4 DEF Agrees, Section
  <2>4. QED
    BY <2>1, <2>2, <2>3
<1>7. Books'
  BY <1>1, <1>3, <1>4, <1>6 DEF Books
<1>8. Freeing' = Freeing /\ Handled(t)' = Handled(t)
  BY <1>1 DEF Freeing, Handled
<1>9. \A u \in Threads : pc'[u] = "idle" => pc[u] = "idle"
  BY <1>3 DEF Writing
<1>10. Callers'
  BY <1>1, <1>3, <1>4, <1>8, <1>9 DEF Callers
<1>11. QED
  BY <1>7, <1>10

(* A call ends with every counter written. *)
LEMMA EndReports ==
  ASSUME DmaInv, Alive, Books, Callers, NEW t \in Threads, EndAlloc(t) \/ EndFree(t)
  PROVE  Books' /\ Callers'
<1>1. /\ pc[t] = "count" /\ todo = {} /\ UNCHANGED <<phase, used, free, counts, todo>>
      /\ pc' = [pc EXCEPT ![t] = "idle"] /\ arg' = [arg EXCEPT ![t] = NoCall]
  BY DEF EndAlloc, EndFree, Return, pool, books
<1>2. Others(t) /\ pc'[t] = "idle" /\ arg'[t].op = "none"
  <2>1. Others(t) /\ pc'[t] = "idle" /\ arg'[t] = NoCall
    BY <1>1, MovedOnly
  <2>2. QED
    BY <2>1 DEF NoCall
<1>3. \A u \in Threads : pc'[u] \notin Writing
  BY <1>1, <1>2, OneWrites DEF Others, Inside, Writing
<1>4. Agrees(counts, 0)
  <2>1. Agrees(Final(t), OnTheirWay(t))
    BY <1>1 DEF Books, Writing
  <2>2. Rest(t) = {} /\ OnTheirWay(t) = 0
    BY <1>1 DEF Rest, OnTheirWay
  <2>3. Final(t) = counts
    BY <2>2 DEF Final, DmaInv, Typed
  <2>4. QED
    BY <2>1, <2>2, <2>3
<1>5. Books'
  BY <1>1, <1>3, <1>4 DEF Books, Agrees
<1>6. Cardinality(owned) \in Nat /\ Cardinality(Freeing) \in Nat /\ Cardinality(used) \in Nat
  BY FS_CardinalityType DEF Books, Callers
<1>7. /\ arg'[Health].op # "free"
      /\ \A u \in Threads : pc'[u] = "idle" => arg'[u].op = "none"
  BY <1>2, Constants DEF Callers, Others
<1>8. CASE EndAlloc(t)
  <2> DEFINE h == [ptr |-> arg[t].ptr, asked |-> arg[t].asked]
  <2>1. arg[t].op = "alloc" /\ owned' = owned \cup {h}
    BY <1>8 DEF EndAlloc
  <2>2. h \notin owned
    <3>1. arg[t] \in Granted
      BY <1>1, <2>1 DEF DmaInv, CallsTyped, Fits, Freed
    <3>2. Carries(t, arg[t].ptr, arg[t].asked)
      BY <1>1, <2>1 DEF Carries
    <3>3. \A g \in owned : g.ptr # arg[t].ptr
      BY <3>1, <3>2 DEF DmaInv, Custody, Granted
    <3>4. QED
      BY <3>3
  <2> HIDE DEF h
  <2>3. IsFiniteSet(owned') /\ Cardinality(owned') = Cardinality(owned) + 1
    BY <2>1, <2>2, FS_AddElement DEF Callers
  <2>4. \A u \in Threads : arg'[u].op = "free" <=> arg[u].op = "free"
    BY <1>2, <2>1 DEF Others
  <2>5. Freeing' = Freeing
    BY <2>4, Constants DEF Freeing
  <2>6. Cardinality(used') = Cardinality(owned') + Cardinality(Freeing')
    BY <1>1, <1>6, <2>1, <2>3, <2>5 DEF Callers, Writing
  <2>7. QED
    BY <1>3, <1>5, <1>7, <2>3, <2>5, <2>6 DEF Callers
<1>9. CASE EndFree(t)
  <2>1. arg[t].op = "free" /\ UNCHANGED owned
    BY <1>9 DEF EndFree
  <2>2. t \in Freeing
    BY <2>1 DEF Callers, Freeing, Threads
  <2>3. Freeing' = Freeing \ {t}
    BY <1>2, Constants DEF Freeing, Others
  <2>4. IsFiniteSet(Freeing') /\ Cardinality(Freeing') = Cardinality(Freeing) - 1
    BY <2>2, <2>3, FS_RemoveElement DEF Callers
  <2>5. Cardinality(used') = Cardinality(owned') + Cardinality(Freeing')
    BY <1>1, <1>6, <2>1, <2>4 DEF Callers, Writing
  <2>6. QED
    BY <1>3, <1>5, <1>7, <2>1, <2>4, <2>5 DEF Callers
<1>10. QED
  BY <1>8, <1>9

(* A step that stays out of the pool and its books: locking, a failure, a defragmentation, the
   health thread. *)
LEMMA QuietReports ==
  ASSUME DmaInv, Books, Callers,
         \/ \E t \in Threads : Lock(t) \/ AllocFails(t) \/ Defrag(t)
         \/ HealthHigh \/ HealthStops
  PROVE  Books' /\ Callers'
<1>1. UNCHANGED <<used, free, counts, todo, owned>>
  BY DEF Lock, AllocFails, Defrag, HealthHigh, HealthStops, pool, books
<1>2. PICK t \in Threads : \/ Lock(t) \/ AllocFails(t) \/ Defrag(t)
                           \/ t = Health /\ (HealthHigh \/ HealthStops)
  BY Constants
<1>3. /\ pc[t] \notin Writing
      /\ \E label \in {"pool", "idle", "bugMerge", "lock", "exited"} :
           pc' = [pc EXCEPT ![t] = label]
  BY <1>2 DEF Lock, AllocFails, Defrag, HealthHigh, HealthStops, Fail, Return, Writing
<1>4. \/ UNCHANGED arg
      \/ /\ arg[t].op # "free"
         /\ \E call \in {NoCall, [op |-> "defrag"]} : arg' = [arg EXCEPT ![t] = call]
  BY <1>2 DEF Lock, AllocFails, Defrag, HealthHigh, HealthStops, Fail, Return, Callers
<1>5. /\ Others(t) /\ pc'[t] \notin Writing /\ (arg'[t].op = "free" <=> arg[t].op = "free")
      /\ pc'[t] = "idle" => arg'[t].op = "none"
  BY <1>2, <1>3, <1>4
  DEF Others, DmaInv, Typed, NoCall, Lock, AllocFails, Defrag, HealthHigh, HealthStops, Fail, Return,
      Writing
<1>6. QED
  BY <1>1, <1>3, <1>5, BooksQuiet, CallersKept

LEMMA ReportsKept == DmaInv /\ ReportsInv /\ [Next]_vars => ReportsInv'
<1> SUFFICES ASSUME DmaInv, ReportsInv, [Next]_vars, Alive' PROVE Books' /\ Callers'
  BY DEF ReportsInv
<1>1. Alive
  BY DEF Next, Probe, CallAlloc, CallFree, CallDefrag, Calls, Step, Lock, AllocInPool, AllocFails,
         EndAlloc, FreeInPool, Dispose, EndFree, WriteCounter, LeavePool, Defrag, HealthHigh,
         HealthStops, StartRemove, RemoveStep, JoinHealth, EmptyPool, UnlistPool, Goes, vars, Alive
<1>2. Books /\ Callers
  BY <1>1 DEF ReportsInv
<1>3. CASE UNCHANGED <<pool, books, owned, pc, arg>>
  <2>1. UNCHANGED <<used, free, counts, todo, owned, pc, arg>>
    BY <1>3 DEF pool, books
  <2>2. Books'
    BY <1>2, <2>1 DEF Books, Agrees, Section, Final, Rest, OnTheirWay
  <2>3. Callers'
    BY <1>2, <2>1 DEF Callers, Freeing, Handled
  <2>4. QED
    BY <2>2, <2>3
<1>4. ASSUME NEW t \in Clients, CallAlloc(t) \/ CallFree(t) \/ CallDefrag(t)
      PROVE  Books' /\ Callers'
  BY <1>2, <1>4, CallReports
<1>5. ASSUME NEW t \in Threads, Step(t) PROVE Books' /\ Callers'
  BY <1>1, <1>2, <1>5, AllocReports, FreeReports, WriterReports, EndReports, QuietReports DEF Step
<1>6. CASE HealthHigh \/ HealthStops
  BY <1>2, <1>6, QuietReports
<1>7. CASE EmptyPool
  BY <1>7 DEF EmptyPool, Goes, Alive
<1>8. CASE Probe \/ StartRemove \/ JoinHealth \/ UnlistPool \/ UNCHANGED vars
  BY <1>3, <1>8 DEF Probe, StartRemove, JoinHealth, UnlistPool, vars
<1>9. QED
  BY <1>4, <1>5, <1>6, <1>7, <1>8 DEF Next, RemoveStep

(* The books, and what callers hold of them, in the middle of every update. *)
LEMMA ReportsHold == Spec => []ReportsInv
BY ReportsStart, ReportsKept, DmaInvHolds, DmaStarts, DmaKept, PTL DEF Spec

(* used_size never falls below what the pool has handed out, for any number of callers and any
   sizes, although alloc adds the rounded size and free takes off the caller's. *)
THEOREM UsedNeverUnderSafe == Spec => []UsedNeverUnder
<1>1. DmaInv /\ ReportsInv => UsedNeverUnder
  <2> SUFFICES ASSUME DmaInv, ReportsInv, Bound, mutex = Nobody
               PROVE  counts.size >= counts.bytes
    BY DEF UsedNeverUnder
  <2>1. Books
    BY DEF ReportsInv, Bound, Alive
  <2>2. \A t \in Threads : pc[t] \notin Writing
    BY DmaAssumption DEF DmaInv, Locked, Inside
  <2>3. QED
    BY <2>1, <2>2 DEF Books, Agrees
<1>2. QED
  BY <1>1, DmaInvHolds, ReportsHold, PTL

(* The figures of the lists before and after the call of t, at work on them, differ by what the
   call changes; each counter has one or the other. *)
LEMMA WriterViews ==
  ASSUME DmaInv, Books, Callers, NEW t \in Threads, pc[t] \in Writing
  PROVE  /\ counts.used \in {Cardinality(Before(t).used), Cardinality(After(t).used)}
         /\ counts.calls \in {Cardinality(Before(t).used), Cardinality(After(t).used)}
         /\ counts.bytes \in {SizeSum(Before(t).used), SizeSum(After(t).used)}
         /\ counts.total \in {Cardinality(Before(t).used) + Before(t).free,
                              Cardinality(After(t).used) + After(t).free}
         /\ counts.free \in {Before(t).free, After(t).free}
         /\ counts.free <= counts.total
<1> DEFINE h == Handled(t)
<1> DEFINE n == OnTheirWay(t)
<1>1. /\ Agrees(Final(t), n)
      /\ counts \in [Counters -> Int] /\ Len(free) \in Nat /\ Cardinality(used) \in Nat
      /\ IsFiniteSet(used) /\ Sized(used)
      /\ n \in {0, 1} /\ (n = 1 <=> pc[t] = "unlisted")
  BY Constants, FS_CardinalityType DEF Books, DmaInv, Typed, Sized, Block, OnTheirWay
<1>2. arg[t] \in Granted \cup Freed /\ arg[t].op \in {"alloc", "free"}
  BY DEF DmaInv, CallsTyped, Fits, Writing, Granted, Freed
<1>3. h \in Block /\ h.size = arg[t].size /\ arg[t].size \in Nat /\ arg[t].asked \in Nat
  BY <1>2, Constants DEF Granted, Freed, Handled, Block
<1> HIDE DEF h, n
<1>4. /\ After(t).used = used /\ After(t).free = Len(free) + n
  BY <1>1 DEF After
<1>5. /\ Final(t)["used"] = Cardinality(used) /\ Final(t)["calls"] = Cardinality(used)
      /\ Final(t)["bytes"] = SizeSum(used)
      /\ Final(t)["free"] = Len(free) + n /\ Final(t)["total"] = Cardinality(used) + Len(free) + n
  BY <1>1 DEF Agrees
<1>6. \A f \in Counters : Final(t)[f] \in {counts[f], counts[f] + Change(arg[t])[f]}
  BY <1>1 DEF Final
<1>7. /\ Final(t)["used"] \in {counts["used"], counts["used"] + Change(arg[t])["used"]}
      /\ Final(t)["calls"] \in {counts["calls"], counts["calls"] + Change(arg[t])["calls"]}
      /\ Final(t)["bytes"] \in {counts["bytes"], counts["bytes"] + Change(arg[t])["bytes"]}
      /\ Final(t)["free"] \in {counts["free"], counts["free"] + Change(arg[t])["free"]}
      /\ Final(t)["total"] \in {counts["total"], counts["total"] + Change(arg[t])["total"]}
  BY <1>6 DEF Counters
<1>8. /\ counts["used"] \in Int /\ counts["calls"] \in Int /\ counts["bytes"] \in Int
      /\ counts["free"] \in Int /\ counts["total"] \in Int
  BY <1>1 DEF Counters
<1>9. CASE arg[t].op = "alloc"
  <2>1. h \in used
    BY <1>9 DEF Callers, h
  <2>2. /\ Before(t).used = used \ {h} /\ Before(t).free = Len(free) /\ n = 0
    <3>1. pc[t] # "unlisted"
      BY <1>9 DEF DmaInv, CallsTyped, Fits, Freed
    <3>2. QED
      BY <1>1, <1>9, <3>1 DEF Before, h
  <2>3. /\ Cardinality(used \ {h}) = Cardinality(used) - 1 /\ Cardinality(used \ {h}) \in Nat
        /\ SizeSum(used \ {h}) = SizeSum(used) - h.size
    <3>1. IsFiniteSet(used \ {h}) /\ Cardinality(used \ {h}) = Cardinality(used) - 1
      BY <1>1, <2>1, FS_RemoveElement
    <3>2. SizeSum(used \ {h}) = SizeSum(used) - h.size
      BY <1>1, <2>1, SizeSumRemove
    <3>3. QED
      BY <3>1, <3>2, FS_CardinalityType
  <2>4. /\ Change(arg[t])["used"] = 1 /\ Change(arg[t])["calls"] = 1 /\ Change(arg[t])["free"] = 0
        /\ Change(arg[t])["total"] = 1 /\ Change(arg[t])["bytes"] = h.size
    BY <1>3, <1>9 DEF Change, AllocChange
  <2>5. h.size \in Nat
    BY <1>3
  <2>6. /\ counts["used"] \in {Cardinality(used) - 1, Cardinality(used)}
        /\ counts["calls"] \in {Cardinality(used) - 1, Cardinality(used)}
        /\ counts["free"] = Len(free)
        /\ counts["total"] \in {Cardinality(used) - 1 + Len(free), Cardinality(used) + Len(free)}
    <3>1. counts["used"] \in {Cardinality(used) - 1, Cardinality(used)}
      BY <1>1, <1>5, <1>7, <1>8, <2>4
    <3>2. counts["calls"] \in {Cardinality(used) - 1, Cardinality(used)}
      BY <1>1, <1>5, <1>7, <1>8, <2>4
    <3>3. counts["free"] = Len(free)
      BY <1>1, <1>5, <1>7, <1>8, <2>2, <2>4
    <3>4. counts["total"] \in {Cardinality(used) - 1 + Len(free), Cardinality(used) + Len(free)}
      BY <1>1, <1>5, <1>7, <1>8, <2>2, <2>4
    <3>5. QED
      BY <3>1, <3>2, <3>3, <3>4
  <2>7. counts["bytes"] \in {SizeSum(used) - h.size, SizeSum(used)}
    BY <1>5, <1>7, <1>8, <2>4, <2>5
  <2>8. QED
    BY <1>1, <1>4, <2>2, <2>3, <2>6, <2>7
<1>10. CASE arg[t].op = "free"
  <2>1. h \notin used
    BY <1>10 DEF Callers, h
  <2>2. /\ Before(t).used = used \cup {h} /\ Before(t).free = Len(free) + n - 1
    BY <1>1, <1>10 DEF Before, h
  <2>3. /\ Cardinality(used \cup {h}) = Cardinality(used) + 1
        /\ SizeSum(used \cup {h}) = SizeSum(used) + h.size
    BY <1>1, <1>3, <2>1, FS_AddElement, SizeSumAdd
  <2>4. /\ Change(arg[t])["used"] = -1 /\ Change(arg[t])["calls"] = -1
        /\ Change(arg[t])["free"] = 1 /\ Change(arg[t])["total"] = 0
        /\ Change(arg[t])["bytes"] = -h.size
    BY <1>3, <1>10 DEF Change, FreeChange, Taken
  <2>5. h.size \in Nat
    BY <1>3
  <2>6. /\ counts["used"] \in {Cardinality(used) + 1, Cardinality(used)}
        /\ counts["calls"] \in {Cardinality(used) + 1, Cardinality(used)}
        /\ counts["free"] \in {Len(free) + n - 1, Len(free) + n}
        /\ counts["total"] = Cardinality(used) + Len(free) + n
    <3>1. counts["used"] \in {Cardinality(used) + 1, Cardinality(used)}
      BY <1>1, <1>5, <1>7, <1>8, <2>4
    <3>2. counts["calls"] \in {Cardinality(used) + 1, Cardinality(used)}
      BY <1>1, <1>5, <1>7, <1>8, <2>4
    <3>3. counts["free"] \in {Len(free) + n - 1, Len(free) + n}
      BY <1>1, <1>5, <1>7, <1>8, <2>4
    <3>4. counts["total"] = Cardinality(used) + Len(free) + n
      BY <1>1, <1>5, <1>7, <1>8, <2>4
    <3>5. QED
      BY <3>1, <3>2, <3>3, <3>4
  <2>7. counts["bytes"] \in {SizeSum(used) + h.size, SizeSum(used)}
    BY <1>5, <1>7, <1>8, <2>4, <2>5
  <2>8. /\ counts["total"] = Cardinality(used) + 1 + Before(t).free
        /\ counts["free"] \in {Before(t).free, After(t).free}
        /\ counts["free"] <= counts["total"]
    BY <1>1, <1>4, <2>2, <2>6
  <2>9. QED
    BY <1>4, <2>2, <2>3, <2>6, <2>7, <2>8
<1>11. QED
  BY <1>2, <1>9, <1>10

(* At every step of any number of callers, each figure of debugfs is the one of the lists before
   the call at work on them or the one after it, and what dma_allocator_get_stats tells is what
   callers hold whenever global_mutex is free. *)
THEOREM AccountsExactSafe == Spec => []AccountsExact
<1>1. ASSUME DmaInv, ReportsInv PROVE AccountsExact
  <2> SUFFICES ASSUME Bound PROVE AccountsExact
    BY DEF AccountsExact
  <2> DEFINE now == [used |-> used, free |-> Len(free)]
  <2>1. Books /\ Callers
    BY <1>1 DEF ReportsInv, Bound, Alive
  <2>2. Cardinality(used) \in Nat /\ Len(free) \in Nat
    BY <1>1, <2>1, FS_CardinalityType DEF Books, DmaInv, Typed
  <2>3. /\ counts.used \in {Cardinality(view.used) : view \in Views}
        /\ counts.calls \in {Cardinality(view.used) : view \in Views}
        /\ counts.bytes \in {SizeSum(view.used) : view \in Views}
        /\ counts.total \in {Cardinality(view.used) + view.free : view \in Views}
        /\ counts.free \in {view.free : view \in Views}
        /\ counts.free <= counts.total
    <3>1. CASE \A t \in Threads : pc[t] \notin Writing
      <4>1. now \in Views /\ now.used = used /\ now.free = Len(free)
        BY <3>1 DEF Views
      <4>2. /\ counts.used = Cardinality(used) /\ counts.calls = Cardinality(used)
            /\ counts.bytes = SizeSum(used) /\ counts.free = Len(free)
            /\ counts.total = Cardinality(used) + Len(free)
        BY <2>1, <2>2, <3>1 DEF Books, Agrees
      <4> HIDE DEF now
      <4>3. QED
        BY <2>2, <4>1, <4>2
    <3>2. ASSUME NEW t \in Threads, pc[t] \in Writing
          PROVE  /\ counts.used \in {Cardinality(view.used) : view \in Views}
                 /\ counts.calls \in {Cardinality(view.used) : view \in Views}
                 /\ counts.bytes \in {SizeSum(view.used) : view \in Views}
                 /\ counts.total \in {Cardinality(view.used) + view.free : view \in Views}
                 /\ counts.free \in {view.free : view \in Views}
                 /\ counts.free <= counts.total
      <4>1. Before(t) \in Views /\ After(t) \in Views
        BY <3>2 DEF Views
      <4>2. QED
        BY <1>1, <2>1, <3>2, <4>1, WriterViews
    <3>3. QED
      BY <3>1, <3>2
  <2>4. \A shown \in Range(dma_debugfs_show.pools) : shown = dma_pool_stats
    BY DEF Range, dma_debugfs_show
  <2>5. /\ dma_pool_stats.used = counts.bytes
        /\ dma_pool_stats.blocks[1] = counts.used /\ dma_pool_stats.blocks[2] = counts.total
        /\ dma_pool_stats.freeBlocks = counts.free
        /\ dma_debugfs_show.active = counts.calls
        /\ dma_allocator_get_stats.current_allocations = counts.calls
    BY DEF dma_pool_stats, dma_debugfs_show, dma_allocator_get_stats
  <2>6. ASSUME mutex = Nobody
        PROVE  /\ Views = {now}
               /\ counts.calls = Cardinality(owned) + Cardinality(Freeing)
    <3>1. \A t \in Threads : pc[t] \notin Writing
      BY <1>1, <2>6, DmaAssumption DEF DmaInv, Locked, Inside
    <3>2. QED
      BY <2>1, <3>1 DEF Views, Books, Agrees, Callers
  <2>7. QED
    BY <2>3, <2>4, <2>5, <2>6 DEF AccountsExact, Freeing
<1>2. QED
  BY <1>1, DmaInvHolds, ReportsHold, PTL

=============================================================================
