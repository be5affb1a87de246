-------------------------- MODULE PoolManagerProofs --------------------------
(***************************************************************************)
(* The safety of the pool manager for every number of callers, regions,    *)
(* pools and requests.  Inv is inductive; its parts are                    *)
(*   TypeOK     types,                                                     *)
(*   Mutexes    who holds which mutex is a matter of where he is,          *)
(*   Requested  what a thread's request is, given where he is,             *)
(*   Scans      a scan stands at a pool of the list that it wants,         *)
(*   Structs    which pools are listed, being made or being destroyed,     *)
(*   Ranges     pools that exist at once have different ranges,            *)
(*   Custody    a block is held by a caller or by one call, never by two,  *)
(*   Memory     what each bitmap holds.                                    *)
(* On it rest the refinement of the page allocator, the bound on the count *)
(* of pools, what a debugfs reader may meet, and the accounts.             *)
(***************************************************************************)
EXTENDS PoolDebugfs, SumTheorems

ScanLabels == {"lockG", "lockP", "inPool", "done", "bugUse", "bugFree"}
ScanOps    == {"alloc", "free", "defrag", "monitor"}
MakeLabels == {"cRead", "cWrite", "cLockG", "cAdd"}
KillLabels == {"dLockP", "dPool", "bugDestroy", "bugTwice", "dLockG", "dDel", "bugDel"}

\* Where a thread stands at a pool that was listed when it came there.
LeftLabels == KillLabels \cup {"cLog", "bugLost"}

HoldsGlobal(t)  ==
  pc[t] \in {"lockP", "inPool", "done", "cAdd", "dDel", "bugUse", "bugFree", "bugDel"}
HoldsPool(t, h) ==
  \/ pc[t] \in {"inPool", "bugUse", "bugFree"} /\ h = Here(t)
  \/ pc[t] \in {"dPool", "bugDestroy", "bugTwice"} /\ h = hnd[t]

Mutexes ==
  /\ \A t \in Threads : globalMutex = t <=> HoldsGlobal(t)
  /\ \A t \in Threads, h \in Handles : poolMutex[h] = t <=> HoldsPool(t, h)

Requested ==
  /\ \A t \in Threads :
       /\ pc[t] \in ScanLabels => arg[t].op \in ScanOps
       /\ pc[t] \in {"cCheck", "cLog"} \cup MakeLabels => t \in Clients /\ arg[t].op = "create"
       /\ pc[t] = "bugLost" => t = Rmmod \/ (t \in Clients /\ arg[t].op \in {"create", "destroy"})
       /\ pc[t] = "dFind" => t \in Clients
       /\ pc[t] \in {"dFind"} \cup KillLabels => t = Rmmod \/ (t \in Clients /\ arg[t].op = "destroy")
       /\ pc[t] = "exited" => t \notin Clients
       /\ pc[t] \in {"xStop", "xJoin", "xNext", "bugJoin"} => t = Rmmod
  /\ pc[Rmmod] \notin ScanLabels
  /\ pc[Rmmod] = "idle" <=> phase = "running"
  /\ arg[Rmmod].op = "none"
  /\ phase # "running" => \A t \in Clients : pc[t] = "idle"

Scans ==
  \A t \in Threads :
    /\ pc[t] \in {"lockP", "inPool", "bugUse", "bugFree"} => cur[t] \in 1..Len(list)
    /\ pc[t] \in {"lockP", "inPool"} => Wanted(t, Here(t))

\* The pools that exist: being made, listed, or destroyed but listed still.
Exists(h) == pool[h].st \in {"new", "up", "dying"}

\* What t knows of the pool it makes, uses or destroys; rmmod, being alone, knows more.
Placed(t) ==
  /\ pc[t] \in MakeLabels => hnd[t] \in Handles /\ pool[hnd[t]].st = "new"
  /\ pc[t] = "cWrite" => tmp[t] \in Nat
  /\ pc[t] \in LeftLabels => hnd[t] \in Handles /\ pool[hnd[t]].st \in {"up", "dying", "freed"}
  /\ pc[t] \in {"dLockG", "dDel"} => pool[hnd[t]].st # "up"
  /\ t = Rmmod => /\ pc[t] \in {"dLockP", "dPool"} => pool[hnd[t]].st = "up"
                  /\ pc[t] \in {"dLockG", "dDel"} => pool[hnd[t]].st = "dying"
                  /\ pc[t] \notin {"bugLost", "bugTwice", "bugDel"}

Structs ==
  /\ \A i, j \in 1..Len(list) : list[i] = list[j] => i = j
  /\ \A h \in Handles : pool[h].st \in {"up", "dying"} <=> h \in Listed
  /\ poolCount = Len(list)
  /\ \A t \in Threads : Placed(t)
  /\ \A t, u \in Threads :
       t # u /\ pc[t] \in MakeLabels /\ pc[u] \in MakeLabels => hnd[t] # hnd[u]
  /\ \A h \in Handles :
       pool[h].st = "dying" => \E t \in Threads : pc[t] \in {"dLockG", "dDel"} /\ hnd[t] = h

Ranges ==
  /\ \A h, g \in Handles : h # g /\ Exists(h) /\ Exists(g) => pool[h].region # pool[g].region
  /\ \A t \in Threads, h \in Handles :
       pc[t] = "cCheck" /\ Exists(h) => pool[h].region # arg[t].region
  /\ \A t, u \in Threads :
       t # u /\ pc[t] = "cCheck" /\ pc[u] \in {"cCheck"} \cup MakeLabels
         => arg[t].region # arg[u].region

\* The call of t is about to free b, or to return it.
Carries(t, b) ==
  \/ /\ pc[t] \in {"lockG", "lockP", "inPool"} /\ arg[t].op = "free"
     /\ b = [ptr |-> arg[t].ptr, size |-> arg[t].size]
  \/ /\ pc[t] = "done" /\ arg[t].op = "alloc" /\ tmp[t] # None
     /\ b = [ptr |-> tmp[t], size |-> arg[t].size]

Custody ==
  /\ \A t \in Threads, b \in BlockSet : Carries(t, b) => b \in blocks \ owned
  /\ \A t, u \in Threads, b \in BlockSet : Carries(t, b) /\ Carries(u, b) => t = u
  /\ \A t \in Threads :
       /\ pc[t] \in {"lockP", "inPool"} /\ arg[t].op = "alloc" => tmp[t] = None
       /\ pc[t] = "done" /\ arg[t].op = "alloc" => tmp[t] \in Pages \cup {None}

Memory ==
  /\ NoOverlap
  /\ \A b \in blocks : \E h \in Handles : pool[h].st = "up" /\ BlockPages(b) \subseteq reserved[h]
  /\ \A h \in Handles :
       /\ reserved[h] \subseteq PagesIn(pool[h].region)
       /\ pool[h].st # "up" => reserved[h] = {}
       /\ slack[h] \subseteq reserved[h]
       /\ \A b \in blocks : slack[h] \cap BlockPages(b) = {}
       /\ \A page \in reserved[h] \ slack[h] : \E b \in blocks : page \in BlockPages(b)

Inv == TypeOK /\ Mutexes /\ Requested /\ Scans /\ Structs /\ Ranges /\ Custody /\ Memory
       /\ FreeFindsItsPool


(* The list without one of its elements. *)
LEMMA WithoutTyped ==
  ASSUME list \in Seq(Handles), NEW h \in Listed,
         \A i, j \in 1..Len(list) : list[i] = list[j] => i = j
  PROVE  /\ Without(h) \in Seq(Handles)
         /\ Len(Without(h)) = Len(list) - 1 /\ Len(list) - 1 \in Nat
         /\ {Without(h)[i] : i \in 1..Len(Without(h))} = Listed \ {h}
         /\ \A i, j \in 1..Len(Without(h)) : Without(h)[i] = Without(h)[j] => i = j
<1> DEFINE i == CHOOSE j \in 1..Len(list) : list[j] = h
<1> DEFINE w == Without(h)
<1> DEFINE from(j) == IF j < i THEN j ELSE j + 1
<1>1. i \in 1..Len(list) /\ list[i] = h
  BY DEF Listed
<1>2. Len(list) \in Nat /\ Len(list) - 1 \in Nat
  BY <1>1
<1>3. w = [j \in 1..(Len(list) - 1) |-> IF j < i THEN list[j] ELSE list[j + 1]]
  BY DEF Without
<1> HIDE DEF i
<1>4. \A j \in 1..(Len(list) - 1) : w[j] = list[from(j)] /\ from(j) \in 1..Len(list) /\ from(j) # i
  BY <1>1, <1>2, <1>3
<1>5. w \in Seq(Handles) /\ Len(w) = Len(list) - 1
  <2>1. \A j \in 1..(Len(list) - 1) : w[j] \in Handles
    BY <1>4
  <2>2. w \in [1..(Len(list) - 1) -> Handles]
    BY <1>3, <2>1
  <2>3. QED
    BY <1>2, <2>2
<1> HIDE DEF w
<1>6. ASSUME NEW g \in Listed, g # h PROVE \E j \in 1..(Len(list) - 1) : w[j] = g
  <2>1. PICK k \in 1..Len(list) : list[k] = g
    BY DEF Listed
  <2>2. k # i
    BY <1>1, <1>6, <2>1
  <2>3. CASE k < i
    BY <1>1, <1>2, <1>4, <2>1, <2>3
  <2>4. CASE k > i
    <3>1. k - 1 \in 1..(Len(list) - 1) /\ from(k - 1) = k
      BY <1>1, <1>2, <2>1, <2>4
    <3>2. QED
      BY <1>4, <2>1, <3>1
  <2>5. QED
    BY <1>1, <2>1, <2>2, <2>3, <2>4
<1>7. \A j \in 1..(Len(list) - 1) : w[j] \in Listed \ {h}
  BY <1>1, <1>4 DEF Listed
<1>8. \A j, k \in 1..(Len(list) - 1) : w[j] = w[k] => j = k
  BY <1>1, <1>2, <1>4
<1>9. QED
  BY <1>2, <1>5, <1>6, <1>7, <1>8 DEF w

(* Types of what the recurring pieces of the actions assign. *)
LEMMA ThreadsAndLabels ==
  /\ \A t \in Clients : t \in Threads
  /\ Monitor \in Threads /\ Rmmod \in Threads
  /\ [op |-> "none"] \in Arguments /\ [op |-> "monitor"] \in Arguments
  /\ [op |-> "defrag"] \in Arguments
  BY DEF Threads, Arguments

LEMMA ReturnTyped ==
  ASSUME TypeOK, NEW t \in Threads, NEW label \in Labels, ReturnTo(t, label)
  PROVE  /\ pc' \in [Threads -> Labels] /\ arg' \in [Threads -> Arguments]
         /\ cur' \in [Threads -> Nat] /\ hnd' \in [Threads -> Handles \cup {None}]
         /\ tmp' \in [Threads -> Int]
  BY ThreadsAndLabels DEF TypeOK, ReturnTo, None

LEMMA ScanTyped ==
  ASSUME TypeOK, NEW t \in Threads, NEW i \in Nat, Scan(t, i)
  PROVE  pc' \in [Threads -> Labels] /\ cur' \in [Threads -> Nat]
<1>1. pc' \in [Threads -> Labels]
  BY DEF TypeOK, Scan, Labels
<1>2. CASE cur' = [cur EXCEPT ![t] = 0]
  BY <1>1, <1>2 DEF TypeOK
<1>3. CASE \E j \in i..Len(list) : cur' = [cur EXCEPT ![t] = j]
  <2>1. \A j \in i..Len(list) : j \in Nat
    BY DEF TypeOK
  <2>2. QED
    BY <1>1, <1>3, <2>1 DEF TypeOK
<1>4. QED
  BY <1>2, <1>3 DEF Scan

LEMMA CallTyped ==
  ASSUME TypeOK, NEW t \in Clients, NEW request \in Arguments, NEW label \in Labels,
         Calls(t, request, label), owned' \subseteq owned
  PROVE  TypeOK'
<1>1. t \in Threads
  BY ThreadsAndLabels
<1>2. arg' \in [Threads -> Arguments] /\ pc' \in [Threads -> Labels]
  BY <1>1 DEF TypeOK, Calls
<1>3. owned' \subseteq blocks /\ blocks' = blocks
  BY DEF TypeOK, Calls
<1>4. QED
  BY <1>2, <1>3 DEF TypeOK, Calls, manager

(* The callers' entries keep the types. *)
LEMMA CallsTyped == ASSUME TypeOK, NEW t \in Clients, Call(t) PROVE TypeOK'
<1>1. "lockG" \in Labels /\ "cCheck" \in Labels /\ "dFind" \in Labels
  BY DEF Labels
<1>2. CASE CallAlloc(t)
  <2>1. PICK type \in Types, r \in Requests :
          Calls(t, [op |-> "alloc", type |-> type, size |-> r.size, align |-> r.align], "lockG")
    BY <1>2 DEF CallAlloc
  <2>2. [op |-> "alloc", type |-> type, size |-> r.size, align |-> r.align] \in Arguments
    BY DEF Arguments
  <2>3. owned' = owned
    BY <1>2 DEF CallAlloc
  <2>4. QED
    BY <1>1, <2>1, <2>2, <2>3, CallTyped
<1>3. CASE CallFree(t)
  <2>1. PICK b \in owned : /\ Calls(t, [op |-> "free", ptr |-> b.ptr, size |-> b.size], "lockG")
                           /\ owned' = owned \ {b}
    BY <1>3 DEF CallFree
  <2>2. b \in BlockSet
    BY DEF TypeOK
  <2>3. [op |-> "free", ptr |-> b.ptr, size |-> b.size] \in Arguments
    BY <2>2 DEF Arguments, BlockSet
  <2>4. QED
    BY <1>1, <2>1, <2>3, CallTyped
<1>4. CASE CallWalk(t)
  BY <1>1, <1>4, CallTyped, ThreadsAndLabels DEF CallWalk
<1>5. CASE CallCreate(t)
  <2>1. PICK r \in Regions : Calls(t, [op |-> "create", region |-> r], "cCheck")
    BY <1>5 DEF CallCreate
  <2>2. [op |-> "create", region |-> r] \in Arguments
    BY DEF Arguments
  <2>3. QED
    BY <1>1, <1>5, <2>1, <2>2, CallTyped DEF CallCreate
<1>6. CASE CallDestroy(t)
  <2>1. PICK h \in Handles : Calls(t, [op |-> "destroy", id |-> pool[h].id], "dFind")
    BY <1>6 DEF CallDestroy
  <2>2. pool[h].id \in Nat
    BY DEF TypeOK, Pool
  <2>3. [op |-> "destroy", id |-> pool[h].id] \in Arguments
    BY <2>2 DEF Arguments
  <2>4. QED
    BY <1>1, <1>6, <2>1, <2>3, CallTyped DEF CallDestroy
<1>7. QED
  BY <1>2, <1>3, <1>4, <1>5, <1>6 DEF Call

LEMMA PoolTyped ==
  ASSUME TypeOK, NEW h \in Handles
  PROVE  /\ \A s \in {"free", "new", "up", "dying", "freed"} :
              [pool EXCEPT ![h].st = s] \in [Handles -> Pool]
         /\ \A n \in Nat : [pool EXCEPT ![h].id = n] \in [Handles -> Pool]
<1>1. pool \in [Handles -> Pool] /\ h \in Handles
  BY DEF TypeOK
<1>2. ASSUME NEW s \in {"free", "new", "up", "dying", "freed"}
      PROVE  [pool EXCEPT ![h].st = s] \in [Handles -> Pool]
  BY ONLY <1>1, s \in {"free", "new", "up", "dying", "freed"} DEF Pool
<1>3. ASSUME NEW n \in Nat PROVE [pool EXCEPT ![h].id = n] \in [Handles -> Pool]
  BY ONLY <1>1, n \in Nat DEF Pool
<1>4. QED
  BY <1>2, <1>3

LEMMA CountedTyped ==
  ASSUME TypeOK, NEW h \in Handles, NEW n \in Int, NEW m \in Int
  PROVE  /\ Counted(h, n, m) \in [Handles -> Pool]
         /\ \A g \in Handles : /\ Counted(h, n, m)[g].st = pool[g].st
                               /\ Counted(h, n, m)[g].id = pool[g].id
                               /\ Counted(h, n, m)[g].region = pool[g].region
<1> DEFINE sized == [pool EXCEPT ![h].used = @ + n]
<1>1. /\ sized \in [Handles -> Pool]
      /\ \A g \in Handles : /\ sized[g].st = pool[g].st /\ sized[g].id = pool[g].id
                            /\ sized[g].region = pool[g].region
  <2>1. pool \in [Handles -> Pool]
    BY DEF TypeOK
  <2>2. QED
    BY <2>1 DEF Pool
<1>2. Counted(h, n, m) = [sized EXCEPT ![h].active = @ + m]
  BY DEF Counted
<1> HIDE DEF sized
<1>3. [sized EXCEPT ![h].active = @ + m] \in [Handles -> Pool]
  BY <1>1 DEF Pool
<1>4. QED
  BY <1>1, <1>2, <1>3 DEF Pool

(* A request's sizes are numbers, and its block, when it names one, is a possible block. *)
LEMMA RequestTyped ==
  ASSUME TypeOK, NEW t \in Threads
  PROVE  /\ arg[t].op = "alloc" => /\ arg[t].size \in Nat \ {0} /\ arg[t].align \in Nat
                                   /\ \A p \in Pages : [ptr |-> p, size |-> arg[t].size] \in BlockSet
         /\ arg[t].op = "free" => /\ arg[t].size \in Nat \ {0}
                                  /\ [ptr |-> arg[t].ptr, size |-> arg[t].size] \in BlockSet
         /\ arg[t].op = "create" => arg[t].region \in Regions
         /\ arg[t].op = "destroy" => arg[t].id \in Nat
<1>1. arg[t] \in Arguments
  BY DEF TypeOK
<1>2. \A r \in Requests : r.size \in Nat \ {0} /\ r.align \in Nat
  BY SizesAssumption
<1>3. QED
  BY <1>1, <1>2 DEF Arguments, BlockSet

LEMMA PagesTyped ==
  /\ \A page \in Pages : page \in Nat /\ page \in Int /\ page # None
  /\ \A r \in Regions : PagesIn(r) \subseteq Pages
<1>1. ASSUME NEW r \in Regions, NEW page \in PagesIn(r)
      PROVE  page \in Nat /\ page \in Int /\ page # None
  <2>1. r.first \in Nat \ {0} /\ r.count \in Nat
    BY RegionsAssumption
  <2>2. page \in r.first .. (r.first + r.count - 1)
    BY DEF PagesIn
  <2>3. QED
    BY <2>1, <2>2 DEF None
<1>2. QED
  BY <1>1 DEF Pages

(* Every step keeps the types. *)
LEMMA TypeKept == Inv /\ Next => TypeOK'
<1> SUFFICES ASSUME Inv, Next PROVE TypeOK'
  OBVIOUS
<1> USE DEF Inv, vars, locals, manager
<1> "idle" \in Labels /\ "done" \in Labels /\ "bugFree" \in Labels /\ "xNext" \in Labels
  BY DEF Labels, Faults
<1>1. ASSUME NEW t \in Clients, Call(t) PROVE TypeOK'
  BY <1>1, CallsTyped
<1>2. ASSUME NEW t \in Threads, LockGlobal(t) PROVE TypeOK'
  BY <1>2, ScanTyped DEF LockGlobal, TypeOK, Labels
<1>3. ASSUME NEW t \in Threads, LockPool(t) PROVE TypeOK'
  BY <1>3 DEF LockPool, TypeOK, Labels
<1>4. ASSUME NEW t \in Threads, AllocInPool(t) PROVE TypeOK'
  <2> DEFINE places == IF pool[Here(t)].st = "up" THEN Places(Here(t), arg[t]) ELSE {}
  <2>1. CASE places = {}
    <3>1. Scan(t, cur[t] + 1) /\ UNCHANGED <<pool, reserved, blocks, slack, tmp>>
      BY <1>4, <2>1 DEF AllocInPool
    <3>2. cur[t] + 1 \in Nat
      BY DEF TypeOK
    <3>3. QED
      BY <1>4, <3>1, <3>2, ScanTyped DEF AllocInPool, UnlockPool, TypeOK
  <2>2. CASE places # {}
    <3> DEFINE h == Here(t)
    <3>1. PICK p \in Places(h, arg[t]) :
            LET b == [ptr |-> p, size |-> arg[t].size]
            IN  /\ reserved' = [reserved EXCEPT ![h] = @ \cup Granted(arg[t], p)]
                /\ slack' = [slack EXCEPT ![h] = @ \cup (Granted(arg[t], p) \ BlockPages(b))]
                /\ blocks' = blocks \cup {b}
                /\ pool' = Counted(h, arg[t].size, 1)
                /\ tmp' = [tmp EXCEPT ![t] = p]
                /\ pc' = [pc EXCEPT ![t] = "done"]
                /\ UNCHANGED cur
      BY <1>4, <2>2 DEF AllocInPool
    <3>2. h \in Handles
      BY <1>4 DEF Scans, Here, AllocInPool, TypeOK
    <3>3. pool[h].region \in Regions
      BY <3>2 DEF TypeOK, Pool
    <3>4. p \in Pages /\ Granted(arg[t], p) \subseteq Pages
      BY <3>3, PagesTyped DEF Places
    <3>5. arg[t].size \in Nat /\ [ptr |-> p, size |-> arg[t].size] \in BlockSet
      BY <1>4, <3>4, RequestTyped DEF AllocInPool
    <3>6. pool' \in [Handles -> Pool]
      BY <3>1, <3>2, <3>5, CountedTyped
    <3>7. reserved' \in [Handles -> SUBSET Pages] /\ slack' \in [Handles -> SUBSET Pages]
      BY <3>1, <3>4 DEF TypeOK
    <3>8. tmp' \in [Threads -> Int] /\ pc' \in [Threads -> Labels]
      BY <3>1, <3>4, PagesTyped DEF TypeOK
    <3>9. blocks' \subseteq BlockSet /\ owned' \subseteq blocks'
      BY <1>4, <3>1, <3>5 DEF TypeOK, AllocInPool
    <3>10. QED
      BY <1>4, <3>1, <3>6, <3>7, <3>8, <3>9 DEF AllocInPool, TypeOK, UnlockPool
  <2>3. QED
    BY <2>1, <2>2
<1>5. ASSUME NEW t \in Threads, FreeInPool(t) PROVE TypeOK'
  <2> DEFINE b == [ptr |-> arg[t].ptr, size |-> arg[t].size]
  <2>1. b \in BlockSet /\ b.size \in Nat /\ b.ptr \in Pages
    BY <1>5, RequestTyped DEF FreeInPool, BlockSet
  <2>2. Carries(t, b)
    BY <1>5 DEF FreeInPool, Carries
  <2>3. owned \subseteq blocks \ {b}
    BY <2>1, <2>2 DEF Custody, TypeOK
  <2>4. CASE pool[Here(t)].st # "up" \/ ~(Cleared(b) \subseteq reserved[Here(t)])
    BY <1>5, <2>4 DEF FreeInPool, TypeOK
  <2>5. CASE ~(pool[Here(t)].st # "up" \/ ~(Cleared(b) \subseteq reserved[Here(t)]))
    <3>0. Here(t) \in Handles
      BY <1>5 DEF Scans, Here, FreeInPool, TypeOK
    <3>1. pool' \in [Handles -> Pool]
      BY <1>5, <2>1, <2>5, <3>0, CountedTyped DEF FreeInPool
    <3>2. tmp' \in [Threads -> Int]
      <4>1. arg[t].ptr \in Int
        BY <2>1, PagesTyped
      <4>2. tmp' = [tmp EXCEPT ![t] = arg[t].ptr]
        BY <1>5, <2>5 DEF FreeInPool
      <4>3. QED
        BY <4>1, <4>2 DEF TypeOK
    <3>3. reserved' = [reserved EXCEPT ![Here(t)] = @ \ Cleared(b)]
      BY <1>5, <2>5 DEF FreeInPool
    <3>3a. reserved' \in [Handles -> SUBSET Pages]
      BY <3>0, <3>3 DEF TypeOK
    <3>4. QED
      <4>1. /\ blocks' = blocks \ {b} /\ owned' = owned
            /\ poolMutex' = [poolMutex EXCEPT ![Here(t)] = NoThread]
            /\ pc' = [pc EXCEPT ![t] = "done"]
        BY <1>5, <2>5 DEF FreeInPool, UnlockPool
      <4>2. blocks' \subseteq BlockSet /\ owned' \subseteq blocks'
        BY <2>3, <4>1 DEF TypeOK
      <4>3. pc' \in [Threads -> Labels]
        BY <4>1 DEF TypeOK, Labels
      <4>4. QED
        BY <1>5, <3>1, <3>2, <3>3a, <4>1, <4>2, <4>3 DEF FreeInPool, TypeOK
  <2>6. QED
    BY <2>4, <2>5
<1>6. ASSUME NEW t \in Threads, VisitPool(t) PROVE TypeOK'
  <2>1. Here(t) \in Handles
    BY <1>6 DEF Scans, Here, VisitPool, TypeOK
  <2>2. pool[Here(t)].used \in Int
    BY <2>1 DEF TypeOK, Pool
  <2>3. tmp' \in [Threads -> Int]
    BY <1>6, <2>2 DEF VisitPool, TypeOK
  <2>4. cur[t] + 1 \in Nat
    BY DEF TypeOK
  <2>5. QED
    BY <1>6, <2>3, <2>4, ScanTyped DEF VisitPool, UnlockPool, TypeOK
<1>7. ASSUME NEW t \in Threads, UseDestroyed(t) PROVE TypeOK'
  BY <1>7 DEF UseDestroyed, TypeOK, Labels, Faults
<1>8. ASSUME NEW t \in Threads, FinishAlloc(t) PROVE TypeOK'
  <2>0. arg[t].op = "alloc" /\ arg[t].size \in Nat \ {0}
    BY <1>8, RequestTyped DEF FinishAlloc, SettleAlloc
  <2>1. arg[t].size \in Int
    BY <2>0
  <2>2. ASSUME tmp[t] # None PROVE [ptr |-> tmp[t], size |-> arg[t].size] \in blocks
    BY <1>8, <2>2, RequestTyped DEF FinishAlloc, SettleAlloc, Custody, Carries
  <2>3. usedSize' \in Int /\ active' \in Int /\ owned' \subseteq blocks
    BY <1>8, <2>1, <2>2 DEF FinishAlloc, SettleAlloc, TypeOK
  <2>4. QED
    BY <1>8, <2>3, ReturnTyped DEF FinishAlloc, SettleAlloc, Return, TypeOK
<1>9. ASSUME NEW t \in Threads, FinishFree(t) PROVE TypeOK'
  <2>0. arg[t].op = "free" /\ arg[t].size \in Nat \ {0}
    BY <1>9, RequestTyped DEF FinishFree
  <2>1. arg[t].size \in Int
    BY <2>0
  <2>2. usedSize' \in Int /\ active' \in Int
    BY <1>9, <2>1 DEF FinishFree, TypeOK
  <2>3. QED
    BY <1>9, <2>2, ReturnTyped DEF FinishFree, Return, TypeOK
<1>10. ASSUME NEW t \in Threads, FinishWalk(t) PROVE TypeOK'
  BY <1>10, ReturnTyped DEF FinishWalk, TypeOK, Labels, Return
<1>11. ASSUME NEW t \in Threads, CreateCheck(t) PROVE TypeOK'
  <2>1. arg[t].region \in Regions
    BY <1>11, RequestTyped DEF CreateCheck, Requested
  <2>2. CASE Return(t) /\ UNCHANGED pool
    BY <1>11, <2>2, ReturnTyped DEF CreateCheck, Return, TypeOK
  <2>3. CASE ~ (Return(t) /\ UNCHANGED pool)
    <3>1. PICK h \in Handles :
            /\ hnd' = [hnd EXCEPT ![t] = h]
            /\ pool' = [pool EXCEPT ![h] = [st |-> "new", id |-> 0, region |-> arg[t].region,
                                            used |-> 0, active |-> 0]]
      BY <1>11, <2>3 DEF CreateCheck, FreeStructs
    <3>2. pool' \in [Handles -> Pool]
      BY <2>1, <3>1 DEF TypeOK, Pool
    <3>3. QED
      BY <1>11, <2>3, <3>1, <3>2 DEF CreateCheck, TypeOK, Labels
  <2>4. QED
    BY <2>2, <2>3
<1>12. ASSUME NEW t \in Threads, CreateReadId(t) PROVE TypeOK'
  BY <1>12 DEF CreateReadId, TypeOK, Labels
<1>13. ASSUME NEW t \in Threads, CreateWriteId(t) PROVE TypeOK'
  <2>1. tmp[t] \in Nat /\ hnd[t] \in Handles
    BY <1>13 DEF CreateWriteId, Structs, Placed, MakeLabels
  <2>2. nextId' \in Nat
    BY <1>13, <2>1 DEF CreateWriteId
  <2>3. pool' \in [Handles -> Pool]
    <3>1. CASE pool' = [pool EXCEPT ![hnd[t]].id = tmp[t]]
      BY <2>1, <3>1, PoolTyped
    <3>2. CASE pool' = [pool EXCEPT ![hnd[t]].st = "freed"]
      BY <2>1, <3>2, PoolTyped
    <3>3. QED
      BY <1>13, <3>1, <3>2 DEF CreateWriteId
  <2>4. QED
    BY <1>13, <2>2, <2>3, ReturnTyped DEF CreateWriteId, Return, TypeOK, Labels
<1>14. ASSUME NEW t \in Threads, CreateLock(t) PROVE TypeOK'
  BY <1>14 DEF CreateLock, TypeOK, Labels
<1>15. ASSUME NEW t \in Threads, CreateAdd(t) PROVE TypeOK'
  <2>1. hnd[t] \in Handles
    BY <1>15 DEF CreateAdd, Structs, Placed, MakeLabels
  <2>2. list' \in Seq(Handles) /\ poolCount' \in Nat
    BY <1>15, <2>1 DEF CreateAdd, TypeOK
  <2>3. totalSize' \in Int
    BY <1>15, <2>1, RegionsAssumption DEF CreateAdd, TypeOK, Pool
  <2>4. pool' \in [Handles -> Pool]
    BY <1>15, <2>1, PoolTyped DEF CreateAdd
  <2>5. QED
    BY <1>15, <2>2, <2>3, <2>4 DEF CreateAdd, TypeOK, Labels, locals
<1>16. ASSUME NEW t \in Threads, DestroyFind(t) PROVE TypeOK'
  <2>1. CASE Return(t)
    BY <1>16, <2>1, ReturnTyped DEF DestroyFind, Return, TypeOK
  <2>2. CASE ~Return(t)
    <3>1. PICK i \in 1..Len(list) :
            hnd' = [hnd EXCEPT ![t] = list[i]] /\ pc' = [pc EXCEPT ![t] = "dLockP"]
      BY <1>16, <2>2 DEF DestroyFind
    <3>2. list[i] \in Handles
      BY DEF TypeOK
    <3>3. QED
      BY <1>16, <2>2, <3>1, <3>2 DEF DestroyFind, TypeOK, Labels
  <2>3. QED
    BY <2>1, <2>2
<1>17. ASSUME NEW t \in Threads, DestroyLockPool(t) PROVE TypeOK'
  BY <1>17 DEF DestroyLockPool, TypeOK, Labels
<1>18. ASSUME NEW t \in Threads, DestroyPool(t) PROVE TypeOK'
  <2>0. hnd[t] \in Handles
    BY <1>18 DEF DestroyPool, Structs, Placed, LeftLabels, KillLabels
  <2>1. pool' \in [Handles -> Pool]
    <3>0. pool[hnd[t]].st \in {"free", "new", "up", "dying", "freed"}
      BY <2>0 DEF TypeOK, Pool
    <3>1. CASE pool' = [pool EXCEPT ![hnd[t]].st = IF @ = "up" THEN "dying" ELSE @]
      BY <2>0, <3>0, <3>1, PoolTyped
    <3>2. CASE pool' = pool
      BY <3>2 DEF TypeOK
    <3>3. QED
      BY <1>18, <3>1, <3>2 DEF DestroyPool
  <2>2. QED
    BY <1>18, <2>1 DEF DestroyPool, UnlockPool, TypeOK, Labels, Faults
<1>19. ASSUME NEW t \in Threads, DestroyLockGlobal(t) PROVE TypeOK'
  BY <1>19 DEF DestroyLockGlobal, TypeOK, Labels
<1>20. ASSUME NEW t \in Threads, DestroyDel(t) PROVE TypeOK'
  <2>1. hnd[t] \in Handles /\ hnd[t] \in Listed
    BY <1>20 DEF DestroyDel, Unlist, Structs, Placed, LeftLabels, KillLabels
  <2>2. list' \in Seq(Handles) /\ poolCount' \in Nat
    BY <1>20, <2>1, WithoutTyped DEF DestroyDel, Unlist, Structs, TypeOK
  <2>3. totalSize' \in Int
    BY <1>20, <2>1, RegionsAssumption DEF DestroyDel, Unlist, TypeOK, Pool
  <2>4. pool' \in [Handles -> Pool]
    BY <1>20, <2>1, PoolTyped DEF DestroyDel, Unlist
  <2>5. QED
    BY <1>20, <2>2, <2>3, <2>4, ReturnTyped DEF DestroyDel, Unlist, TypeOK
<1>21. ASSUME MonitorWake PROVE TypeOK'
  BY <1>21, ThreadsAndLabels DEF MonitorWake, TypeOK, Labels
<1>22. ASSUME ExitBegin PROVE TypeOK'
  BY <1>22, ThreadsAndLabels DEF ExitBegin, TypeOK, Labels
<1>23. ASSUME ExitJoin PROVE TypeOK'
  BY <1>23, ThreadsAndLabels DEF ExitJoin, TypeOK, Labels
<1>23a. ASSUME ExitStop PROVE TypeOK'
  BY <1>23a, ThreadsAndLabels DEF ExitStop, TypeOK, Labels, Faults
<1>23b. ASSUME NEW t \in Threads, CreateReturn(t) PROVE TypeOK'
  BY <1>23b, ReturnTyped DEF CreateReturn, Return, TypeOK
<1>23c. ASSUME NEW t \in Threads, UseFreed(t) PROVE TypeOK'
  BY <1>23c DEF UseFreed, TypeOK, Labels, Faults
<1>24. ASSUME ExitNext PROVE TypeOK'
  <2>1. CASE list = <<>>
    BY <1>24, <2>1, ThreadsAndLabels DEF ExitNext, TypeOK, Labels
  <2>2. CASE list # <<>>
    <3>1. Head(list) \in Handles
      BY <2>2 DEF TypeOK
    <3>2. hnd' \in [Threads -> Handles \cup {None}] /\ pc' \in [Threads -> Labels]
      BY <1>24, <2>2, <3>1, ThreadsAndLabels DEF ExitNext, TypeOK, Labels
    <3>3. QED
      BY <1>24, <2>2, <3>2 DEF ExitNext, TypeOK
  <2>3. QED
    BY <2>1, <2>2
<1>25. QED
  BY <1>1, <1>2, <1>3, <1>4, <1>5, <1>6, <1>7, <1>8, <1>9, <1>10, <1>11, <1>12, <1>13, <1>14,
     <1>15, <1>16, <1>17, <1>18, <1>19, <1>20, <1>21, <1>22, <1>23, <1>23a, <1>23b, <1>23c, <1>24
  DEF Next, Step, ExitStep


(* A step of t leaves the locals of the other threads alone. *)
Others(t) ==
  \A u \in Threads \ {t} : /\ pc'[u] = pc[u] /\ arg'[u] = arg[u] /\ cur'[u] = cur[u]
                           /\ hnd'[u] = hnd[u] /\ tmp'[u] = tmp[u]

LEMMA StepIsLocal == ASSUME TypeOK, NEW t \in Threads, Step(t) PROVE Others(t)
  BY DEF TypeOK, Others, Step, Scan, Return, ReturnTo, LockGlobal, LockPool, AllocInPool,
         FreeInPool, VisitPool, UseDestroyed, FinishAlloc, SettleAlloc, FinishFree, FinishWalk,
         CreateCheck, CreateReadId, CreateWriteId, CreateLock, CreateAdd, DestroyFind,
         DestroyLockPool, DestroyPool, DestroyLockGlobal, DestroyDel, Unlist, CreateReturn,
         UseFreed, locals, manager

LEMMA CallIsLocal == ASSUME TypeOK, NEW t \in Clients, Call(t) PROVE t \in Threads /\ Others(t)
  BY ThreadsAndLabels DEF TypeOK, Others, Call, CallAlloc, CallFree, CallWalk, CallCreate,
         CallDestroy, Calls

LEMMA WakeIsLocal == ASSUME TypeOK, MonitorWake PROVE Others(Monitor)
  BY DEF TypeOK, Others, MonitorWake

LEMMA ExitIsLocal == ASSUME TypeOK, ExitBegin \/ ExitStep PROVE Others(Rmmod)
  BY DEF TypeOK, Others, ExitBegin, ExitStep, ExitStop, ExitJoin, ExitNext, locals

LEMMA NoThreadNone == NoThread \notin Threads /\ Rmmod \notin Clients /\ Monitor \notin Clients
                      /\ Monitor # Rmmod
  BY ThreadsAssumption

(* Every step keeps the mutexes where the threads are. *)
LEMMA MutexesKept == Inv /\ Next => Mutexes'
<1> SUFFICES ASSUME Inv, Next PROVE Mutexes'
  OBVIOUS
<1> USE NoThreadNone DEF Inv
<1> /\ poolMutex \in [Handles -> Threads \cup Readers \cup {NoThread}]
    /\ globalMutex \in Threads \cup {NoThread}
  BY DEF TypeOK
<1>1. ASSUME NEW t \in Clients, Call(t) PROVE Mutexes'
  <2>1. /\ t \in Threads /\ Others(t) /\ pc[t] = "idle" /\ pc'[t] \in {"lockG", "cCheck", "dFind"}
        /\ UNCHANGED <<globalMutex, poolMutex, list>>
    BY <1>1, CallIsLocal DEF Call, CallAlloc, CallFree, CallWalk, CallCreate, CallDestroy, Calls,
                             TypeOK
  <2>2. QED
    BY <2>1 DEF Mutexes, HoldsGlobal, HoldsPool, Here, Others
<1>2. ASSUME NEW t \in Threads, LockGlobal(t) PROVE Mutexes'
  <2>1. Others(t)
    BY <1>2, StepIsLocal DEF Step
  <2>2. /\ pc[t] = "lockG" /\ pc'[t] \in {"lockP", "done"}
        /\ globalMutex = NoThread /\ globalMutex' = t /\ UNCHANGED <<poolMutex, list>>
    BY <1>2 DEF LockGlobal, Scan, TypeOK, locals, manager
  <2>3. QED
    BY <2>1, <2>2 DEF Mutexes, HoldsGlobal, HoldsPool, Here, Others
<1>3. ASSUME NEW t \in Threads, LockPool(t) PROVE Mutexes'
  <2>1. Others(t)
    BY <1>3, StepIsLocal DEF Step
  <2>2. /\ pc[t] = "lockP" /\ pc'[t] = "inPool" /\ cur'[t] = cur[t] /\ Here(t) \in Handles
        /\ poolMutex[Here(t)] = NoThread /\ UNCHANGED <<globalMutex, list>>
        /\ poolMutex' = [poolMutex EXCEPT ![Here(t)] = t]
    BY <1>3 DEF LockPool, TypeOK, locals, manager, Scans, Here
  <2>3. QED
    BY <2>1, <2>2 DEF Mutexes, HoldsGlobal, HoldsPool, Here, Others
<1>4. ASSUME NEW t \in Threads, AllocInPool(t) PROVE Mutexes'
  <2>1. Others(t)
    BY <1>4, StepIsLocal DEF Step
  <2>1a. Here(t) \in Handles
    BY <1>4 DEF AllocInPool, Scans, Here, TypeOK
  <2>2. /\ pc[t] = "inPool" /\ pc'[t] \in {"lockP", "done"}
        /\ poolMutex' = [poolMutex EXCEPT ![Here(t)] = NoThread] /\ UNCHANGED <<globalMutex, list>>
    BY <1>4 DEF AllocInPool, Scan, UnlockPool, TypeOK, locals, manager
  <2>3. QED
    BY <2>1, <2>1a, <2>2 DEF Mutexes, HoldsGlobal, HoldsPool, Here, Others
<1>5. ASSUME NEW t \in Threads, FreeInPool(t) PROVE Mutexes'
  <2>1. Others(t)
    BY <1>5, StepIsLocal DEF Step
  <2>2. /\ pc[t] = "inPool" /\ Here(t) \in Handles /\ cur'[t] = cur[t] /\ UNCHANGED <<globalMutex, list>>
        /\ \/ pc'[t] = "bugFree" /\ UNCHANGED poolMutex
           \/ pc'[t] = "done" /\ poolMutex' = [poolMutex EXCEPT ![Here(t)] = NoThread]
    BY <1>5 DEF FreeInPool, UnlockPool, TypeOK, locals, manager, Scans, Here
  <2>3. QED
    BY <2>1, <2>2 DEF Mutexes, HoldsGlobal, HoldsPool, Here, Others
<1>6. ASSUME NEW t \in Threads, VisitPool(t) PROVE Mutexes'
  <2>1. Others(t)
    BY <1>6, StepIsLocal DEF Step
  <2>1a. Here(t) \in Handles
    BY <1>6 DEF VisitPool, Scans, Here, TypeOK
  <2>2. /\ pc[t] = "inPool" /\ pc'[t] \in {"lockP", "done"}
        /\ poolMutex' = [poolMutex EXCEPT ![Here(t)] = NoThread] /\ UNCHANGED <<globalMutex, list>>
    BY <1>6 DEF VisitPool, Scan, UnlockPool, TypeOK, locals, manager
  <2>3. QED
    BY <2>1, <2>1a, <2>2 DEF Mutexes, HoldsGlobal, HoldsPool, Here, Others
<1>7. ASSUME NEW t \in Threads, UseDestroyed(t) PROVE Mutexes'
  <2>1. Others(t)
    BY <1>7, StepIsLocal DEF Step
  <2>2. /\ pc[t] = "inPool" /\ pc'[t] = "bugUse" /\ cur'[t] = cur[t]
        /\ UNCHANGED <<globalMutex, poolMutex, list>>
    BY <1>7 DEF UseDestroyed, TypeOK, locals, manager
  <2>3. QED
    BY <2>1, <2>2 DEF Mutexes, HoldsGlobal, HoldsPool, Here, Others
<1>8. ASSUME NEW t \in Threads, FinishAlloc(t) PROVE Mutexes'
  <2>1. Others(t)
    BY <1>8, StepIsLocal DEF Step
  <2>2. /\ pc[t] = "done" /\ pc'[t] = "idle"
        /\ globalMutex' = NoThread /\ UNCHANGED <<poolMutex, list>>
    BY <1>8 DEF FinishAlloc, SettleAlloc, Return, ReturnTo, TypeOK, locals, manager
  <2>3. QED
    BY <2>1, <2>2 DEF Mutexes, HoldsGlobal, HoldsPool, Here, Others
<1>9. ASSUME NEW t \in Threads, FinishFree(t) PROVE Mutexes'
  <2>1. Others(t)
    BY <1>9, StepIsLocal DEF Step
  <2>2. /\ pc[t] = "done" /\ pc'[t] = "idle"
        /\ globalMutex' = NoThread /\ UNCHANGED <<poolMutex, list>>
    BY <1>9 DEF FinishFree, Return, ReturnTo, TypeOK, locals, manager
  <2>3. QED
    BY <2>1, <2>2 DEF Mutexes, HoldsGlobal, HoldsPool, Here, Others
<1>10. ASSUME NEW t \in Threads, FinishWalk(t) PROVE Mutexes'
  <2>1. Others(t)
    BY <1>10, StepIsLocal DEF Step
  <2>2. /\ pc[t] = "done" /\ pc'[t] = "idle"
        /\ globalMutex' = NoThread /\ UNCHANGED <<poolMutex, list>>
    BY <1>10 DEF FinishWalk, Return, ReturnTo, TypeOK, locals, manager
  <2>3. QED
    BY <2>1, <2>2 DEF Mutexes, HoldsGlobal, HoldsPool, Here, Others
<1>11. ASSUME NEW t \in Threads, CreateCheck(t) PROVE Mutexes'
  <2>1. Others(t)
    BY <1>11, StepIsLocal DEF Step
  <2>2. /\ pc[t] = "cCheck" /\ pc'[t] \in {"idle", "cRead"}
        /\ UNCHANGED <<globalMutex, poolMutex, list>>
    BY <1>11 DEF CreateCheck, Return, ReturnTo, TypeOK, locals, manager
  <2>3. QED
    BY <2>1, <2>2 DEF Mutexes, HoldsGlobal, HoldsPool, Here, Others
<1>12. ASSUME NEW t \in Threads, CreateReadId(t) PROVE Mutexes'
  <2>1. Others(t)
    BY <1>12, StepIsLocal DEF Step
  <2>2. /\ pc[t] = "cRead" /\ pc'[t] = "cWrite"
        /\ UNCHANGED <<globalMutex, poolMutex, list>>
    BY <1>12 DEF CreateReadId, TypeOK, locals, manager
  <2>3. QED
    BY <2>1, <2>2 DEF Mutexes, HoldsGlobal, HoldsPool, Here, Others
<1>13. ASSUME NEW t \in Threads, CreateWriteId(t) PROVE Mutexes'
  <2>1. Others(t)
    BY <1>13, StepIsLocal DEF Step
  <2>2. /\ pc[t] = "cWrite" /\ pc'[t] \in {"idle", "cLockG"}
        /\ UNCHANGED <<globalMutex, poolMutex, list>>
    BY <1>13 DEF CreateWriteId, Return, ReturnTo, TypeOK, locals, manager
  <2>3. QED
    BY <2>1, <2>2 DEF Mutexes, HoldsGlobal, HoldsPool, Here, Others
<1>14. ASSUME NEW t \in Threads, CreateLock(t) PROVE Mutexes'
  <2>1. Others(t)
    BY <1>14, StepIsLocal DEF Step
  <2>2. /\ pc[t] = "cLockG" /\ pc'[t] = "cAdd"
        /\ globalMutex = NoThread /\ globalMutex' = t /\ UNCHANGED <<poolMutex, list>>
    BY <1>14 DEF CreateLock, TypeOK, locals, manager
  <2>3. QED
    BY <2>1, <2>2 DEF Mutexes, HoldsGlobal, HoldsPool, Here, Others
<1>15. ASSUME NEW t \in Threads, CreateAdd(t) PROVE Mutexes'
  <2>1. Others(t)
    BY <1>15, StepIsLocal DEF Step
  <2>2. /\ pc[t] = "cAdd" /\ pc'[t] = "cLog" /\ globalMutex' = NoThread
        /\ UNCHANGED poolMutex
    BY <1>15 DEF CreateAdd, TypeOK, locals, manager
  <2>3. \A u \in Threads : u # t => pc[u] \notin {"lockP", "inPool", "done", "bugUse", "bugFree", "bugDel"}
    BY <2>2 DEF Mutexes, HoldsGlobal
  <2>4. QED
    BY <2>1, <2>2, <2>3 DEF Mutexes, HoldsGlobal, HoldsPool, Here, Others
<1>16. ASSUME NEW t \in Threads, DestroyFind(t) PROVE Mutexes'
  <2>1. Others(t)
    BY <1>16, StepIsLocal DEF Step
  <2>2. /\ pc[t] = "dFind" /\ pc'[t] \in {"idle", "dLockP"}
        /\ UNCHANGED <<globalMutex, poolMutex, list>>
    BY <1>16 DEF DestroyFind, Return, ReturnTo, TypeOK, locals, manager
  <2>3. QED
    BY <2>1, <2>2 DEF Mutexes, HoldsGlobal, HoldsPool, Here, Others
<1>17. ASSUME NEW t \in Threads, DestroyLockPool(t) PROVE Mutexes'
  <2>1. Others(t)
    BY <1>17, StepIsLocal DEF Step
  <2>2. /\ pc[t] = "dLockP" /\ pc'[t] = "dPool" /\ hnd'[t] = hnd[t] /\ hnd[t] \in Handles
        /\ poolMutex[hnd[t]] = NoThread /\ UNCHANGED <<globalMutex, list>>
        /\ poolMutex' = [poolMutex EXCEPT ![hnd[t]] = t]
    BY <1>17 DEF DestroyLockPool, TypeOK, locals, manager, Structs, Placed, LeftLabels, KillLabels
  <2>3. QED
    BY <2>1, <2>2 DEF Mutexes, HoldsGlobal, HoldsPool, Here, Others
<1>18. ASSUME NEW t \in Threads, DestroyPool(t) PROVE Mutexes'
  <2>1. Others(t)
    BY <1>18, StepIsLocal DEF Step
  <2>2. /\ pc[t] = "dPool" /\ hnd[t] \in Handles /\ hnd'[t] = hnd[t] /\ UNCHANGED <<globalMutex, list>>
        /\ \/ pc'[t] = "bugDestroy" /\ UNCHANGED poolMutex
           \/ pc'[t] = "dLockG" /\ poolMutex' = [poolMutex EXCEPT ![hnd[t]] = NoThread]
    BY <1>18 DEF DestroyPool, UnlockPool, TypeOK, locals, manager, Structs, Placed, LeftLabels, KillLabels
  <2>3. QED
    BY <2>1, <2>2 DEF Mutexes, HoldsGlobal, HoldsPool, Here, Others
<1>19. ASSUME NEW t \in Threads, DestroyLockGlobal(t) PROVE Mutexes'
  <2>1. Others(t)
    BY <1>19, StepIsLocal DEF Step
  <2>2. /\ pc[t] = "dLockG" /\ pc'[t] = "dDel"
        /\ globalMutex = NoThread /\ globalMutex' = t /\ UNCHANGED <<poolMutex, list>>
    BY <1>19 DEF DestroyLockGlobal, TypeOK, locals, manager
  <2>3. QED
    BY <2>1, <2>2 DEF Mutexes, HoldsGlobal, HoldsPool, Here, Others
<1>20. ASSUME NEW t \in Threads, DestroyDel(t) PROVE Mutexes'
  <2>1. Others(t)
    BY <1>20, StepIsLocal DEF Step
  <2>2. /\ pc[t] = "dDel" /\ pc'[t] \in {"idle", "xNext"} /\ globalMutex' = NoThread
        /\ UNCHANGED poolMutex
    BY <1>20 DEF DestroyDel, Unlist, ReturnTo, TypeOK, locals, manager
  <2>3. \A u \in Threads : u # t => pc[u] \notin {"lockP", "inPool", "done", "bugUse", "bugFree", "bugDel"}
    BY <2>2 DEF Mutexes, HoldsGlobal
  <2>4. QED
    BY <2>1, <2>2, <2>3 DEF Mutexes, HoldsGlobal, HoldsPool, Here, Others
<1>21. ASSUME MonitorWake PROVE Mutexes'
  <2>1. Others(Monitor) /\ Monitor \in Threads
    BY <1>21, WakeIsLocal, ThreadsAndLabels
  <2>2. /\ pc[Monitor] = "idle" /\ pc'[Monitor] \in {"exited", "lockG"}
        /\ UNCHANGED <<globalMutex, poolMutex, list>>
    BY <1>21, <2>1 DEF MonitorWake, TypeOK
  <2>3. QED
    BY <2>1, <2>2 DEF Mutexes, HoldsGlobal, HoldsPool, Here, Others
<1>22. ASSUME ExitBegin \/ ExitStep PROVE Mutexes'
  <2>1. Others(Rmmod) /\ Rmmod \in Threads
    BY <1>22, ExitIsLocal, ThreadsAndLabels
  <2>2. /\ pc[Rmmod] \in {"idle", "xStop", "xJoin", "xNext"}
        /\ pc'[Rmmod] \in {"xStop", "xJoin", "bugJoin", "xNext", "exited", "dLockP"}
        /\ UNCHANGED <<globalMutex, poolMutex, list>>
    BY <1>22, <2>1 DEF ExitBegin, ExitStep, ExitStop, ExitJoin, ExitNext, TypeOK, Requested
  <2>3. QED
    BY <2>1, <2>2 DEF Mutexes, HoldsGlobal, HoldsPool, Here, Others
<1>23. ASSUME NEW t \in Threads, CreateReturn(t) PROVE Mutexes'
  <2>1. Others(t)
    BY <1>23, StepIsLocal DEF Step
  <2>2. pc[t] = "cLog" /\ pc'[t] = "idle" /\ UNCHANGED <<globalMutex, poolMutex, list>>
    BY <1>23 DEF CreateReturn, Return, ReturnTo, TypeOK
  <2>3. QED
    BY <2>1, <2>2 DEF Mutexes, HoldsGlobal, HoldsPool, Here, Others
<1>24. ASSUME NEW t \in Threads, UseFreed(t) PROVE Mutexes'
  <2>1. Others(t)
    BY <1>24, StepIsLocal DEF Step
  <2>2. /\ UNCHANGED <<globalMutex, poolMutex, list, hnd, cur>>
        /\ \/ pc[t] \in {"cLog", "dLockP"} /\ pc'[t] = "bugLost"
           \/ pc[t] = "dPool" /\ pc'[t] = "bugTwice"
           \/ pc[t] = "dDel" /\ pc'[t] = "bugDel"
    BY <1>24 DEF UseFreed, TypeOK, locals
  <2>3. QED
    BY <2>1, <2>2 DEF Mutexes, HoldsGlobal, HoldsPool, Here, Others
<1>25. QED
  BY <1>1, <1>2, <1>3, <1>4, <1>5, <1>6, <1>7, <1>8, <1>9, <1>10, <1>11, <1>12, <1>13, <1>14,
     <1>15, <1>16, <1>17, <1>18, <1>19, <1>20, <1>21, <1>22, <1>23, <1>24
  DEF Next, Step


(* Every step keeps the requests in tune with the program counters. *)
LEMMA RequestedKept == Inv /\ Next => Requested'
<1> SUFFICES ASSUME Inv, Next PROVE Requested'
  OBVIOUS
<1> USE NoThreadNone DEF Inv
<1>1. ASSUME NEW t \in Clients, Call(t) PROVE Requested'
  <2>1. t \in Threads /\ Others(t)
    BY <1>1, CallIsLocal
  <2>2. /\ pc[t] = "idle" /\ phase = "running" /\ UNCHANGED phase
        /\ \/ pc'[t] = "lockG" /\ arg'[t].op \in {"alloc", "free", "defrag"}
           \/ pc'[t] = "cCheck" /\ arg'[t].op = "create"
           \/ pc'[t] = "dFind" /\ arg'[t].op = "destroy"
    <3>1. pc \in [Threads -> Labels] /\ arg \in [Threads -> Arguments]
      BY DEF TypeOK
    <3>2. ASSUME NEW request, NEW label, Calls(t, request, label)
          PROVE  pc[t] = "idle" /\ UNCHANGED phase /\ pc'[t] = label /\ arg'[t] = request
      BY <2>1, <3>1, <3>2 DEF Calls
    <3>3. CASE CallAlloc(t)
      BY <3>2, <3>3 DEF CallAlloc
    <3>4. CASE CallFree(t)
      BY <3>2, <3>4 DEF CallFree
    <3>5. CASE CallWalk(t)
      BY <3>2, <3>5 DEF CallWalk
    <3>6. CASE CallCreate(t)
      BY <3>2, <3>6 DEF CallCreate
    <3>7. CASE CallDestroy(t)
      BY <3>2, <3>7 DEF CallDestroy
    <3>8. QED
      BY <1>1, <3>3, <3>4, <3>5, <3>6, <3>7 DEF Call
  <2>3. QED
    BY <2>1, <2>2, ThreadsAndLabels DEF Requested, ScanLabels, ScanOps, MakeLabels, KillLabels,
       Others
<1>2. ASSUME NEW t \in Threads, LockGlobal(t) PROVE Requested'
  <2>1. Others(t)
    BY <1>2, StepIsLocal DEF Step
  <2>2. /\ pc[t] = "lockG" /\ pc'[t] \in {"lockP", "done"}
        /\ arg'[t] = arg[t] /\ UNCHANGED phase
    BY <1>2 DEF LockGlobal, Scan, TypeOK, locals, manager
  <2>3. QED
    BY <2>1, <2>2 DEF Requested, ScanLabels, ScanOps, MakeLabels, KillLabels, Others, Threads
<1>3. ASSUME NEW t \in Threads, LockPool(t) PROVE Requested'
  <2>1. Others(t)
    BY <1>3, StepIsLocal DEF Step
  <2>2. /\ pc[t] = "lockP" /\ pc'[t] = "inPool"
        /\ arg'[t] = arg[t] /\ UNCHANGED phase
    BY <1>3 DEF LockPool, TypeOK, locals, manager
  <2>3. QED
    BY <2>1, <2>2 DEF Requested, ScanLabels, ScanOps, MakeLabels, KillLabels, Others, Threads
<1>4. ASSUME NEW t \in Threads, AllocInPool(t) PROVE Requested'
  <2>1. Others(t)
    BY <1>4, StepIsLocal DEF Step
  <2>2. /\ pc[t] = "inPool" /\ pc'[t] \in {"lockP", "done"}
        /\ arg'[t] = arg[t] /\ UNCHANGED phase
    BY <1>4 DEF AllocInPool, Scan, UnlockPool, TypeOK, locals, manager
  <2>3. QED
    BY <2>1, <2>2 DEF Requested, ScanLabels, ScanOps, MakeLabels, KillLabels, Others, Threads
<1>5. ASSUME NEW t \in Threads, FreeInPool(t) PROVE Requested'
  <2>1. Others(t)
    BY <1>5, StepIsLocal DEF Step
  <2>2. /\ pc[t] = "inPool" /\ pc'[t] \in {"bugFree", "done"}
        /\ arg'[t] = arg[t] /\ UNCHANGED phase
    BY <1>5 DEF FreeInPool, UnlockPool, TypeOK, locals, manager
  <2>3. QED
    BY <2>1, <2>2 DEF Requested, ScanLabels, ScanOps, MakeLabels, KillLabels, Others, Threads
<1>6. ASSUME NEW t \in Threads, VisitPool(t) PROVE Requested'
  <2>1. Others(t)
    BY <1>6, StepIsLocal DEF Step
  <2>2. /\ pc[t] = "inPool" /\ pc'[t] \in {"lockP", "done"}
        /\ arg'[t] = arg[t] /\ UNCHANGED phase
    BY <1>6 DEF VisitPool, Scan, UnlockPool, TypeOK, locals, manager
  <2>3. QED
    BY <2>1, <2>2 DEF Requested, ScanLabels, ScanOps, MakeLabels, KillLabels, Others, Threads
<1>7. ASSUME NEW t \in Threads, UseDestroyed(t) PROVE Requested'
  <2>1. Others(t)
    BY <1>7, StepIsLocal DEF Step
  <2>2. /\ pc[t] = "inPool" /\ pc'[t] = "bugUse"
        /\ arg'[t] = arg[t] /\ UNCHANGED phase
    BY <1>7 DEF UseDestroyed, TypeOK, locals, manager
  <2>3. QED
    BY <2>1, <2>2 DEF Requested, ScanLabels, ScanOps, MakeLabels, KillLabels, Others, Threads
<1>8. ASSUME NEW t \in Threads, FinishAlloc(t) PROVE Requested'
  <2>1. Others(t)
    BY <1>8, StepIsLocal DEF Step
  <2>2. /\ pc[t] = "done" /\ pc'[t] = "idle" /\ UNCHANGED phase
    BY <1>8 DEF FinishAlloc, SettleAlloc, Return, ReturnTo, TypeOK, locals, manager
  <2>3. QED
    BY <2>1, <2>2 DEF Requested, ScanLabels, ScanOps, MakeLabels, KillLabels, Others, Threads
<1>9. ASSUME NEW t \in Threads, FinishFree(t) PROVE Requested'
  <2>1. Others(t)
    BY <1>9, StepIsLocal DEF Step
  <2>2. /\ pc[t] = "done" /\ pc'[t] = "idle" /\ UNCHANGED phase
    BY <1>9 DEF FinishFree, Return, ReturnTo, TypeOK, locals, manager
  <2>3. QED
    BY <2>1, <2>2 DEF Requested, ScanLabels, ScanOps, MakeLabels, KillLabels, Others, Threads
<1>10. ASSUME NEW t \in Threads, FinishWalk(t) PROVE Requested'
  <2>1. Others(t)
    BY <1>10, StepIsLocal DEF Step
  <2>2. /\ pc[t] = "done" /\ pc'[t] = "idle" /\ UNCHANGED phase
    BY <1>10 DEF FinishWalk, Return, ReturnTo, TypeOK, locals, manager
  <2>3. QED
    BY <2>1, <2>2 DEF Requested, ScanLabels, ScanOps, MakeLabels, KillLabels, Others, Threads
<1>11. ASSUME NEW t \in Threads, CreateCheck(t) PROVE Requested'
  <2>1. Others(t)
    BY <1>11, StepIsLocal DEF Step
  <2>2. /\ pc[t] = "cCheck" /\ UNCHANGED phase
        /\ pc'[t] = "idle" \/ (pc'[t] = "cRead" /\ arg'[t] = arg[t])
    BY <1>11 DEF CreateCheck, Return, ReturnTo, TypeOK, locals, manager
  <2>3. QED
    BY <2>1, <2>2 DEF Requested, ScanLabels, ScanOps, MakeLabels, KillLabels, Others, Threads
<1>12. ASSUME NEW t \in Threads, CreateReadId(t) PROVE Requested'
  <2>1. Others(t)
    BY <1>12, StepIsLocal DEF Step
  <2>2. /\ pc[t] = "cRead" /\ pc'[t] = "cWrite"
        /\ arg'[t] = arg[t] /\ UNCHANGED phase
    BY <1>12 DEF CreateReadId, TypeOK, locals, manager
  <2>3. QED
    BY <2>1, <2>2 DEF Requested, ScanLabels, ScanOps, MakeLabels, KillLabels, Others, Threads
<1>13. ASSUME NEW t \in Threads, CreateWriteId(t) PROVE Requested'
  <2>1. Others(t)
    BY <1>13, StepIsLocal DEF Step
  <2>2. /\ pc[t] = "cWrite" /\ UNCHANGED phase
        /\ pc'[t] = "idle" \/ (pc'[t] = "cLockG" /\ arg'[t] = arg[t])
    BY <1>13 DEF CreateWriteId, Return, ReturnTo, TypeOK, locals, manager
  <2>3. QED
    BY <2>1, <2>2 DEF Requested, ScanLabels, ScanOps, MakeLabels, KillLabels, Others, Threads
<1>14. ASSUME NEW t \in Threads, CreateLock(t) PROVE Requested'
  <2>1. Others(t)
    BY <1>14, StepIsLocal DEF Step
  <2>2. /\ pc[t] = "cLockG" /\ pc'[t] = "cAdd"
        /\ arg'[t] = arg[t] /\ UNCHANGED phase
    BY <1>14 DEF CreateLock, TypeOK, locals, manager
  <2>3. QED
    BY <2>1, <2>2 DEF Requested, ScanLabels, ScanOps, MakeLabels, KillLabels, Others, Threads
<1>15. ASSUME NEW t \in Threads, CreateAdd(t) PROVE Requested'
  <2>1. Others(t)
    BY <1>15, StepIsLocal DEF Step
  <2>2. /\ pc[t] = "cAdd" /\ pc'[t] = "cLog" /\ UNCHANGED phase
        /\ arg'[t] = arg[t]
    BY <1>15 DEF CreateAdd, TypeOK, locals, manager
  <2>3. QED
    BY <2>1, <2>2 DEF Requested, ScanLabels, ScanOps, MakeLabels, KillLabels, Others, Threads
<1>16. ASSUME NEW t \in Threads, DestroyFind(t) PROVE Requested'
  <2>1. Others(t)
    BY <1>16, StepIsLocal DEF Step
  <2>2. /\ pc[t] = "dFind" /\ UNCHANGED phase
        /\ pc'[t] = "idle" \/ (pc'[t] = "dLockP" /\ arg'[t] = arg[t])
    BY <1>16 DEF DestroyFind, Return, ReturnTo, TypeOK, locals, manager
  <2>3. QED
    BY <2>1, <2>2 DEF Requested, ScanLabels, ScanOps, MakeLabels, KillLabels, Others, Threads
<1>17. ASSUME NEW t \in Threads, DestroyLockPool(t) PROVE Requested'
  <2>1. Others(t)
    BY <1>17, StepIsLocal DEF Step
  <2>2. /\ pc[t] = "dLockP" /\ pc'[t] = "dPool"
        /\ arg'[t] = arg[t] /\ UNCHANGED phase
    BY <1>17 DEF DestroyLockPool, TypeOK, locals, manager
  <2>3. QED
    BY <2>1, <2>2 DEF Requested, ScanLabels, ScanOps, MakeLabels, KillLabels, Others, Threads
<1>18. ASSUME NEW t \in Threads, DestroyPool(t) PROVE Requested'
  <2>1. Others(t)
    BY <1>18, StepIsLocal DEF Step
  <2>2. /\ pc[t] = "dPool" /\ pc'[t] \in {"bugDestroy", "dLockG"}
        /\ arg'[t] = arg[t] /\ UNCHANGED phase
    BY <1>18 DEF DestroyPool, UnlockPool, TypeOK, locals, manager
  <2>3. QED
    BY <2>1, <2>2 DEF Requested, ScanLabels, ScanOps, MakeLabels, KillLabels, Others, Threads
<1>19. ASSUME NEW t \in Threads, DestroyLockGlobal(t) PROVE Requested'
  <2>1. Others(t)
    BY <1>19, StepIsLocal DEF Step
  <2>2. /\ pc[t] = "dLockG" /\ pc'[t] = "dDel"
        /\ arg'[t] = arg[t] /\ UNCHANGED phase
    BY <1>19 DEF DestroyLockGlobal, TypeOK, locals, manager
  <2>3. QED
    BY <2>1, <2>2 DEF Requested, ScanLabels, ScanOps, MakeLabels, KillLabels, Others, Threads
<1>20. ASSUME NEW t \in Threads, DestroyDel(t) PROVE Requested'
  <2>1. Others(t)
    BY <1>20, StepIsLocal DEF Step
  <2>2. /\ pc[t] = "dDel" /\ pc'[t] = IF t = Rmmod THEN "xNext" ELSE "idle"
        /\ arg'[t].op = "none" /\ UNCHANGED phase
    BY <1>20 DEF DestroyDel, Unlist, ReturnTo, TypeOK, locals, manager
  <2>3. QED
    BY <2>1, <2>2 DEF Requested, ScanLabels, ScanOps, MakeLabels, KillLabels, Others, Threads
<1>21. ASSUME MonitorWake PROVE Requested'
  <2>1. Others(Monitor) /\ Monitor \in Threads
    BY <1>21, WakeIsLocal, ThreadsAndLabels
  <2>2. /\ pc[Monitor] = "idle" /\ pc'[Monitor] \in {"exited", "lockG"}
        /\ arg'[Monitor].op = "monitor" /\ UNCHANGED phase
    BY <1>21, <2>1 DEF MonitorWake, TypeOK
  <2>3. QED
    BY <2>1, <2>2, ThreadsAndLabels DEF Requested, ScanLabels, ScanOps, MakeLabels, KillLabels,
       Others
<1>22. ASSUME ExitBegin \/ ExitStep PROVE Requested'
  <2>1. Others(Rmmod) /\ Rmmod \in Threads
    BY <1>22, ExitIsLocal, ThreadsAndLabels
  <2>2. /\ pc'[Rmmod] \in {"xStop", "xJoin", "bugJoin", "xNext", "exited", "dLockP"}
        /\ phase' # "running"
        /\ arg'[Rmmod] = arg[Rmmod]
    <3>1. pc \in [Threads -> Labels] /\ arg \in [Threads -> Arguments]
      BY DEF TypeOK
    <3>2. CASE ExitBegin
      BY <2>1, <3>1, <3>2 DEF ExitBegin, locals
    <3>3. CASE ExitJoin
      BY <2>1, <3>1, <3>3 DEF ExitJoin, locals, Requested
    <3>3a. CASE ExitStop
      BY <2>1, <3>1, <3>3a DEF ExitStop, locals, Requested
    <3>4. CASE ExitNext
      BY <2>1, <3>1, <3>4 DEF ExitNext, Requested
    <3>5. QED
      BY <1>22, <3>2, <3>3, <3>3a, <3>4 DEF ExitStep
  <2>3. \A t \in Clients : pc[t] = "idle"
    BY <1>22 DEF ExitBegin, ExitStep, ExitStop, ExitJoin, ExitNext, Requested
  <2>4. QED
    BY <2>1, <2>2, <2>3, ThreadsAndLabels DEF Requested, ScanLabels, ScanOps, MakeLabels,
       KillLabels, Others
<1>23. ASSUME NEW t \in Threads, CreateReturn(t) PROVE Requested'
  <2>1. Others(t)
    BY <1>23, StepIsLocal DEF Step
  <2>2. pc[t] = "cLog" /\ pc'[t] = "idle" /\ UNCHANGED phase
    BY <1>23 DEF CreateReturn, Return, ReturnTo, TypeOK
  <2>3. QED
    BY <2>1, <2>2 DEF Requested, ScanLabels, ScanOps, MakeLabels, KillLabels, Others, Threads
<1>24. ASSUME NEW t \in Threads, UseFreed(t) PROVE Requested'
  <2>1. Others(t)
    BY <1>24, StepIsLocal DEF Step
  <2>2. /\ UNCHANGED <<arg, phase>>
        /\ \/ pc[t] \in {"cLog", "dLockP"} /\ pc'[t] = "bugLost"
           \/ pc[t] = "dPool" /\ pc'[t] = "bugTwice"
           \/ pc[t] = "dDel" /\ pc'[t] = "bugDel"
    BY <1>24 DEF UseFreed, TypeOK, locals
  <2>3. QED
    BY <2>1, <2>2 DEF Requested, ScanLabels, ScanOps, MakeLabels, KillLabels, Others, Threads
<1>25. QED
  BY <1>1, <1>2, <1>3, <1>4, <1>5, <1>6, <1>7, <1>8, <1>9, <1>10, <1>11, <1>12, <1>13, <1>14,
     <1>15, <1>16, <1>17, <1>18, <1>19, <1>20, <1>21, <1>22, <1>23, <1>24
  DEF Next, Step


(* Once made, a pool keeps its range; once listed, it keeps its id. *)
LEMMA PoolsKeepTheirRange ==
  ASSUME Inv, Next, NEW h \in Handles
  PROVE  /\ pool[h].st # "free" => pool'[h].region = pool[h].region
         /\ pool[h].st \notin {"free", "new"} => pool'[h].id = pool[h].id
<1> DEFINE Kept == /\ pool[h].st # "free" => pool'[h].region = pool[h].region
                   /\ pool[h].st \notin {"free", "new"} => pool'[h].id = pool[h].id
<1> USE DEF Inv
<1>0. pool \in [Handles -> Pool]
  BY DEF TypeOK
<1>1. CASE pool' = pool
  BY <1>1
<1>2. ASSUME NEW t \in Threads, CreateCheck(t) PROVE Kept
  BY <1>0, <1>2 DEF CreateCheck, FreeStructs, Pool
<1>3. ASSUME NEW g \in Handles, NEW s, pool' = [pool EXCEPT ![g].st = s] PROVE Kept
  BY <1>0, <1>3 DEF Pool
<1>4. ASSUME NEW t \in Threads, CreateWriteId(t) PROVE Kept
  <2>1. hnd[t] \in Handles /\ pool[hnd[t]].st = "new"
    BY <1>4 DEF CreateWriteId, Structs, Placed, MakeLabels
  <2>2. CASE pool' = [pool EXCEPT ![hnd[t]].id = tmp[t]]
    BY <1>0, <2>1, <2>2 DEF Pool
  <2>3. CASE pool' = [pool EXCEPT ![hnd[t]].st = "freed"]
    BY <1>3, <2>1, <2>3
  <2>4. QED
    BY <1>4, <2>2, <2>3 DEF CreateWriteId
<1>5. ASSUME NEW t \in Threads, CreateAdd(t) \/ DestroyPool(t) \/ DestroyDel(t) PROVE Kept
  <2>1. hnd[t] \in Handles
    BY <1>5 DEF CreateAdd, DestroyPool, DestroyDel, Unlist, Structs, Placed, MakeLabels, LeftLabels, KillLabels
  <2>2. pool' = pool \/ \E s \in {"free", "new", "up", "dying", "freed"} :
                           pool' = [pool EXCEPT ![hnd[t]].st = s]
    <3>1. CASE CreateAdd(t) \/ DestroyDel(t)
      BY <3>1 DEF CreateAdd, DestroyDel, Unlist
    <3>2. CASE DestroyPool(t)
      <4>1. pool[hnd[t]].st \in {"free", "new", "up", "dying", "freed"}
        BY <1>0, <2>1 DEF Pool
      <4>2. \/ pool' = pool
            \/ pool' = [pool EXCEPT ![hnd[t]].st = IF @ = "up" THEN "dying" ELSE @]
        BY <3>2 DEF DestroyPool
      <4>3. QED
        BY <1>0, <2>1, <4>1, <4>2
    <3>3. QED
      BY <1>5, <3>1, <3>2
  <2>3. QED
    BY <1>1, <1>3, <2>1, <2>2
<1>6. ASSUME NEW t \in Threads, AllocInPool(t) \/ FreeInPool(t) PROVE Kept
  <2>1. Here(t) \in Handles
    BY <1>6 DEF AllocInPool, FreeInPool, Scans, Here, TypeOK
  <2>2. arg[t].op \in {"alloc", "free"}
    BY <1>6 DEF AllocInPool, FreeInPool
  <2>3. arg[t].size \in Nat \ {0}
    BY <2>2, RequestTyped
  <2>4. arg[t].size \in Int /\ - arg[t].size \in Int
    BY <2>3
  <2>5. \/ pool' = pool \/ pool' = Counted(Here(t), arg[t].size, 1)
        \/ pool' = Counted(Here(t), - arg[t].size, -1)
    BY <1>6 DEF AllocInPool, FreeInPool
  <2>6. ASSUME NEW n \in Int, NEW m \in Int, pool' = Counted(Here(t), n, m) PROVE Kept
    <3>1. /\ Counted(Here(t), n, m)[h].id = pool[h].id
          /\ Counted(Here(t), n, m)[h].region = pool[h].region
      BY <2>1, <2>6, CountedTyped
    <3>2. pool'[h].id = pool[h].id /\ pool'[h].region = pool[h].region
      BY ONLY <2>6, <3>1
    <3>3. QED
      BY <3>2
  <2>7. -1 \in Int /\ 1 \in Int
    OBVIOUS
  <2>8. QED
    BY <1>1, <2>4, <2>5, <2>6, <2>7
<1>7. ASSUME NEW t \in Threads,
             \/ LockGlobal(t) \/ LockPool(t) \/ VisitPool(t) \/ UseDestroyed(t)
             \/ FinishAlloc(t) \/ FinishFree(t) \/ FinishWalk(t) \/ CreateReadId(t) \/ CreateLock(t)
             \/ DestroyFind(t) \/ DestroyLockPool(t) \/ DestroyLockGlobal(t)
             \/ CreateReturn(t) \/ UseFreed(t)
      PROVE  pool' = pool
  BY <1>7 DEF LockGlobal, LockPool, VisitPool, UseDestroyed, FinishAlloc, SettleAlloc, FinishFree,
              FinishWalk, CreateReadId, CreateLock, DestroyFind, DestroyLockPool, DestroyLockGlobal,
              CreateReturn, Return, ReturnTo, UseFreed
<1>8. ASSUME NEW t \in Clients, Call(t) PROVE pool' = pool
  BY <1>8 DEF Call, CallAlloc, CallFree, CallWalk, CallCreate, CallDestroy, Calls
<1>9. ASSUME MonitorWake \/ ExitBegin \/ ExitStep PROVE pool' = pool
  BY <1>9 DEF MonitorWake, ExitBegin, ExitStep, ExitStop, ExitJoin, ExitNext
<1>10. QED
  BY <1>1, <1>2, <1>4, <1>5, <1>6, <1>7, <1>8, <1>9 DEF Next, Step

(* Where u's scan stands survives any step that leaves the list and u's locals alone. *)
LEMMA ScanStands ==
  ASSUME Inv, Next, list' = list, NEW u \in Threads,
         arg'[u] = arg[u], NEW i \in 1..Len(list), Wanted(u, list[i])
  PROVE  Wanted(u, list[i])'
<1> USE DEF Inv
<1>1. list[i] \in Handles /\ list[i] \in Listed
  BY DEF TypeOK, Listed
<1>2. pool[list[i]].st # "free"
  BY <1>1 DEF Structs
<1>3. pool'[list[i]].region = pool[list[i]].region
  BY <1>1, <1>2, PoolsKeepTheirRange
<1>4. QED
  BY <1>3 DEF Wanted

LEMMA ScanWants ==
  ASSUME TypeOK, NEW t \in Threads, NEW i \in Nat \ {0}, Scan(t, i)
  PROVE  /\ pc'[t] \in {"lockP", "done"}
         /\ pc'[t] = "lockP" => cur'[t] \in 1..Len(list) /\ Wanted(t, list[cur'[t]])
<1>1. pc \in [Threads -> Labels] /\ cur \in [Threads -> Nat] /\ Len(list) \in Nat
  BY DEF TypeOK
<1>2. CASE pc' = [pc EXCEPT ![t] = "done"]
  BY <1>1, <1>2
<1>3. ASSUME NEW j \in i..Len(list), Wanted(t, list[j]), cur' = [cur EXCEPT ![t] = j],
             pc' = [pc EXCEPT ![t] = "lockP"]
      PROVE  cur'[t] \in 1..Len(list) /\ Wanted(t, list[cur'[t]]) /\ pc'[t] = "lockP"
  <2>1. cur'[t] = j /\ pc'[t] = "lockP"
    BY <1>1, <1>3
  <2>2. j \in 1..Len(list)
    BY <1>1
  <2>3. QED
    BY <1>3, <2>1, <2>2
<1>4. QED
  BY <1>2, <1>3 DEF Scan

(* Every scan stays at a pool of the list that it wants. *)
LEMMA ScansKept == Inv /\ Next => Scans'
<1> SUFFICES ASSUME Inv, Next PROVE Scans'
  OBVIOUS
<1> USE DEF Inv
<1> DEFINE At(u) == /\ pc[u] \in {"lockP", "inPool", "bugUse", "bugFree"} => cur[u] \in 1..Len(list)
                    /\ pc[u] \in {"lockP", "inPool"} => Wanted(u, Here(u))
<1>1. ASSUME NEW t \in Threads, Others(t), list' = list, NEW u \in Threads \ {t} PROVE At(u)'
  <2>1. pc'[u] = pc[u] /\ arg'[u] = arg[u] /\ cur'[u] = cur[u]
    BY <1>1 DEF Others
  <2>2. At(u)
    BY DEF Scans
  <2>3. pc'[u] \in {"lockP", "inPool", "bugUse", "bugFree"} => cur'[u] \in 1..Len(list')
    BY <1>1, <2>1, <2>2
  <2>4. ASSUME pc'[u] \in {"lockP", "inPool"} PROVE Wanted(u, Here(u))'
    <3>1. cur[u] \in 1..Len(list) /\ Wanted(u, list[cur[u]])
      BY <2>1, <2>2, <2>4 DEF Here
    <3>2. Wanted(u, list[cur[u]])'
      BY <1>1, <2>1, <3>1, ScanStands
    <3>3. QED
      BY <3>2 DEF Here
  <2>5. QED
    BY <2>3, <2>4
<1>2. ASSUME NEW t \in Threads, Others(t), list' = list, At(t)' PROVE Scans'
  BY <1>1, <1>2 DEF Scans
<1>3. ASSUME NEW t \in Threads, Others(t), list' = list,
             pc'[t] \notin {"lockP", "inPool", "bugUse", "bugFree"}
      PROVE  Scans'
  BY <1>2, <1>3
<1>4. ASSUME NEW t \in Threads, CreateAdd(t) \/ DestroyDel(t) PROVE Scans'
  <2>1. Others(t)
    BY <1>4, StepIsLocal DEF Step
  <2>2. HoldsGlobal(t) /\ pc'[t] \in {"idle", "xNext", "cLog"}
    BY <1>4 DEF CreateAdd, DestroyDel, Unlist, Return, ReturnTo, HoldsGlobal, TypeOK
  <2>3. \A u \in Threads \ {t} : ~HoldsGlobal(u)
    BY <2>2 DEF Mutexes
  <2>4. \A u \in Threads : pc'[u] \notin {"lockP", "inPool", "bugUse", "bugFree"}
    BY <2>1, <2>2, <2>3 DEF Others, HoldsGlobal
  <2>5. QED
    BY <2>4 DEF Scans
<1>5. ASSUME NEW t \in Threads, LockGlobal(t) \/ AllocInPool(t) \/ VisitPool(t) PROVE Scans'
  <2>1. Others(t) /\ list' = list /\ arg'[t] = arg[t]
    BY <1>5, StepIsLocal DEF Step, LockGlobal, AllocInPool, VisitPool
  <2>2. 1 \in Nat \ {0} /\ cur[t] + 1 \in Nat \ {0}
    BY DEF TypeOK
  <2>3. \/ Scan(t, 1) \/ Scan(t, cur[t] + 1)
        \/ pc'[t] = "done"
    BY <1>5 DEF LockGlobal, AllocInPool, VisitPool, TypeOK
  <2>4. /\ pc'[t] \in {"lockP", "done"}
        /\ pc'[t] = "lockP" => cur'[t] \in 1..Len(list) /\ Wanted(t, list[cur'[t]])
    BY <2>2, <2>3, ScanWants
  <2>5. ASSUME NEW j \in 1..Len(list), Wanted(t, list[j]), cur'[t] = j PROVE Wanted(t, Here(t))'
    <3>1. Wanted(t, list[j])'
      BY <2>1, <2>5, ScanStands
    <3>2. QED
      BY <2>5, <3>1 DEF Here
  <2>6. At(t)'
    BY <2>1, <2>4, <2>5
  <2>7. QED
    BY <1>2, <2>1, <2>6
<1>6. ASSUME NEW t \in Threads, LockPool(t) PROVE Scans'
  <2>1. Others(t) /\ list' = list /\ arg'[t] = arg[t] /\ cur'[t] = cur[t]
    BY <1>6, StepIsLocal DEF Step, LockPool, locals
  <2>2. cur[t] \in 1..Len(list) /\ Wanted(t, list[cur[t]])
    BY <1>6 DEF LockPool, Scans, Here
  <2>3. Wanted(t, list[cur[t]])'
    BY <2>1, <2>2, ScanStands
  <2>4. At(t)'
    BY <2>1, <2>2, <2>3 DEF Here
  <2>5. QED
    BY <1>2, <2>1, <2>4
<1>7. ASSUME NEW t \in Threads, FreeInPool(t) \/ UseDestroyed(t) PROVE Scans'
  <2>1. Others(t) /\ list' = list /\ cur'[t] = cur[t] /\ pc'[t] \in {"bugFree", "bugUse", "done"}
    BY <1>7, StepIsLocal DEF Step, FreeInPool, UseDestroyed, locals, TypeOK
  <2>2. cur[t] \in 1..Len(list)
    BY <1>7 DEF FreeInPool, UseDestroyed, Scans
  <2>3. QED
    BY <1>2, <2>1, <2>2
<1>8. ASSUME NEW t \in Threads,
             FinishAlloc(t) \/ FinishFree(t) \/ FinishWalk(t) \/ CreateReturn(t)
      PROVE  Scans'
  <2>1. Others(t) /\ list' = list /\ pc'[t] = "idle"
    BY <1>8, StepIsLocal DEF Step, FinishAlloc, SettleAlloc, FinishFree, FinishWalk,
                             CreateReturn, Return, ReturnTo, TypeOK
  <2>2. QED
    BY <1>3, <2>1
<1>9. ASSUME NEW t \in Threads,
             \/ CreateCheck(t) \/ CreateReadId(t) \/ CreateWriteId(t) \/ CreateLock(t)
             \/ DestroyFind(t) \/ DestroyLockPool(t) \/ DestroyPool(t) \/ DestroyLockGlobal(t)
             \/ UseFreed(t)
      PROVE  Scans'
  <2>1. Others(t) /\ list' = list
    BY <1>9, StepIsLocal
       DEF Step, CreateCheck, CreateReadId, CreateWriteId, CreateLock, DestroyFind, DestroyLockPool,
           DestroyPool, DestroyLockGlobal, UseFreed
  <2>2. pc'[t] \notin {"lockP", "inPool", "bugUse", "bugFree"}
    BY <1>9 DEF CreateCheck, CreateReadId, CreateWriteId, CreateLock, DestroyFind, DestroyLockPool,
                DestroyPool, DestroyLockGlobal, UseFreed, Return, ReturnTo, TypeOK
  <2>3. QED
    BY <1>3, <2>1, <2>2
<1>10. ASSUME NEW t \in Clients, Call(t) PROVE Scans'
  <2>1. t \in Threads /\ Others(t) /\ list' = list
    BY <1>10, CallIsLocal DEF Call, CallAlloc, CallFree, CallWalk, CallCreate, CallDestroy, Calls
  <2>2. pc'[t] \in {"lockG", "cCheck", "dFind"}
    BY <1>10, <2>1 DEF Call, CallAlloc, CallFree, CallWalk, CallCreate, CallDestroy, Calls, TypeOK
  <2>3. QED
    BY <1>3, <2>1, <2>2
<1>11. ASSUME MonitorWake PROVE Scans'
  <2>1. Monitor \in Threads /\ Others(Monitor) /\ list' = list
    BY <1>11, WakeIsLocal, ThreadsAndLabels DEF MonitorWake
  <2>2. pc'[Monitor] \in {"lockG", "exited"}
    BY <1>11, <2>1 DEF MonitorWake, TypeOK
  <2>3. QED
    BY <1>3, <2>1, <2>2
<1>12. ASSUME ExitBegin \/ ExitStep PROVE Scans'
  <2>1. Rmmod \in Threads /\ Others(Rmmod) /\ list' = list
    BY <1>12, ExitIsLocal, ThreadsAndLabels DEF ExitBegin, ExitStep, ExitStop, ExitJoin, ExitNext
  <2>2. pc'[Rmmod] \in {"xStop", "xJoin", "bugJoin", "xNext", "exited", "dLockP"}
    BY <1>12, <2>1 DEF ExitBegin, ExitStep, ExitStop, ExitJoin, ExitNext, TypeOK
  <2>3. QED
    BY <1>3, <2>1, <2>2
<1>13. QED
  BY <1>4, <1>5, <1>6, <1>7, <1>8, <1>9, <1>10, <1>11, <1>12 DEF Next, Step

(* An allocation or a free changes nothing of a pool but its counters. *)
LEMMA CountingKeepsPools ==
  ASSUME Inv, NEW t \in Threads, AllocInPool(t) \/ FreeInPool(t), NEW h \in Handles
  PROVE  pool'[h].st = pool[h].st /\ pool'[h].id = pool[h].id /\ pool'[h].region = pool[h].region
<1> USE DEF Inv
<1>1. Here(t) \in Handles
  BY DEF AllocInPool, FreeInPool, Scans, Here, TypeOK
<1>2. arg[t].op \in {"alloc", "free"}
  BY DEF AllocInPool, FreeInPool
<1>3. arg[t].size \in Nat \ {0}
  BY <1>2, RequestTyped
<1>4. arg[t].size \in Int /\ - arg[t].size \in Int /\ 1 \in Int /\ -1 \in Int
  BY <1>3
<1>5. \/ pool' = pool \/ pool' = Counted(Here(t), arg[t].size, 1)
      \/ pool' = Counted(Here(t), - arg[t].size, -1)
  BY DEF AllocInPool, FreeInPool
<1>6. ASSUME NEW n \in Int, NEW m \in Int, pool' = Counted(Here(t), n, m)
      PROVE  /\ pool'[h].st = pool[h].st /\ pool'[h].id = pool[h].id
             /\ pool'[h].region = pool[h].region
  BY <1>1, <1>6, CountedTyped
<1>7. CASE pool' = pool
  BY <1>7
<1>8. QED
  BY <1>4, <1>5, <1>6, <1>7

(* A step that leaves the list and the states of the pools alone keeps Structs, if the thread
   that takes it knows what it must of its own pool, and forgets none it is destroying. *)
LEMMA StructsMove ==
  ASSUME Inv, NEW t \in Threads, Others(t), UNCHANGED <<list, poolCount>>,
         \A h \in Handles : pool'[h].st = pool[h].st, Placed(t)',
         pc'[t] \in MakeLabels => pc[t] \in MakeLabels /\ hnd'[t] = hnd[t],
         pc[t] \in {"dLockG", "dDel"} /\ pool[hnd[t]].st = "dying" =>
           pc'[t] \in {"dLockG", "dDel"} /\ hnd'[t] = hnd[t]
  PROVE  Structs'
<1> USE DEF Inv
<1>1. Listed' = Listed
  BY DEF Listed
<1>2. \A u \in Threads : u # t => pc'[u] = pc[u] /\ hnd'[u] = hnd[u] /\ tmp'[u] = tmp[u]
  BY DEF Others
<1>3. /\ \A i, j \in 1..Len(list') : list'[i] = list'[j] => i = j
      /\ \A h \in Handles : pool'[h].st \in {"up", "dying"} <=> h \in Listed'
      /\ poolCount' = Len(list')
  BY <1>1 DEF Structs
<1>4. ASSUME NEW u \in Threads, u # t PROVE Placed(u)'
  <2>1. Placed(u) /\ pc'[u] = pc[u] /\ hnd'[u] = hnd[u] /\ tmp'[u] = tmp[u]
    BY <1>2, <1>4 DEF Structs
  <2>2. hnd[u] \in Handles => pool'[hnd[u]].st = pool[hnd[u]].st
    OBVIOUS
  <2>3. QED
    BY <2>1, <2>2 DEF Placed, MakeLabels, LeftLabels, KillLabels
<1>5. \A u, v \in Threads :
        u # v /\ pc'[u] \in MakeLabels /\ pc'[v] \in MakeLabels => hnd'[u] # hnd'[v]
  BY <1>2 DEF Structs
<1>6. ASSUME NEW h \in Handles, pool'[h].st = "dying"
      PROVE  \E u \in Threads : pc'[u] \in {"dLockG", "dDel"} /\ hnd'[u] = h
  <2>1. PICK u \in Threads : pc[u] \in {"dLockG", "dDel"} /\ hnd[u] = h
    BY <1>6 DEF Structs
  <2>2. QED
    BY <1>2, <1>6, <2>1
<1>7. QED
  BY <1>3, <1>4, <1>5, <1>6 DEF Structs

(* So does one that ends away from the pools that are made or destroyed. *)
LEMMA StructsFrame ==
  ASSUME Inv, NEW t \in Threads, Others(t), UNCHANGED <<list, poolCount>>,
         \A h \in Handles : pool'[h].st = pool[h].st,
         pc[t] \notin {"dLockG", "dDel"}, pc'[t] \notin MakeLabels \cup LeftLabels
  PROVE  Structs'
<1>1. Placed(t)'
  BY DEF Placed, MakeLabels, LeftLabels, KillLabels
<1>2. QED
  BY <1>1, StructsMove

(* While a caller is in a call, rmmod has not started. *)
LEMMA RmmodWaits ==
  ASSUME Inv, NEW t \in Clients, pc[t] # "idle" PROVE pc[Rmmod] = "idle" /\ t # Rmmod
BY ThreadsAndLabels, NoThreadNone DEF Inv, Requested

(* The new struct memory_pool belongs to the call that made it. *)
LEMMA CreateCheckStructs == ASSUME Inv, NEW t \in Threads, CreateCheck(t) PROVE Structs'
<1> USE DEF Inv
<1>1. /\ Others(t) /\ pc[t] = "cCheck" /\ UNCHANGED <<list, poolCount>>
      /\ t # Rmmod
  BY StepIsLocal, NoThreadNone DEF Step, CreateCheck, manager, Requested
<1>2. CASE Return(t) /\ UNCHANGED pool
  <2>1. pc'[t] = "idle"
    BY <1>2 DEF Return, ReturnTo, TypeOK
  <2>2. QED
    BY <1>1, <1>2, <2>1, StructsFrame DEF MakeLabels, LeftLabels, KillLabels
<1>3. CASE ~(Return(t) /\ UNCHANGED pool)
  <2>1. PICK h \in Handles :
          /\ pool[h].st = "free"
          /\ hnd' = [hnd EXCEPT ![t] = h]
          /\ pool' = [pool EXCEPT ![h] = [st |-> "new", id |-> 0, region |-> arg[t].region,
                                          used |-> 0, active |-> 0]]
          /\ pc' = [pc EXCEPT ![t] = "cRead"]
    BY <1>3 DEF CreateCheck, FreeStructs
  <2>2. /\ pool'[h].st = "new" /\ hnd'[t] = h /\ pc'[t] = "cRead"
        /\ \A g \in Handles \ {h} : pool'[g] = pool[g]
    BY <2>1 DEF TypeOK
  <2>3. \A u \in Threads : u # t => pc'[u] = pc[u] /\ hnd'[u] = hnd[u] /\ tmp'[u] = tmp[u]
    BY <1>1 DEF Others
  <2>4. Listed' = Listed
    BY <1>1 DEF Listed
  <2>5. /\ \A i, j \in 1..Len(list') : list'[i] = list'[j] => i = j
        /\ \A g \in Handles : pool'[g].st \in {"up", "dying"} <=> g \in Listed'
        /\ poolCount' = Len(list')
    BY <1>1, <2>1, <2>2, <2>4 DEF Structs
  <2>6. ASSUME NEW u \in Threads PROVE Placed(u)'
    <3>1. CASE u = t
      BY <1>1, <2>2, <3>1 DEF Placed, MakeLabels, LeftLabels, KillLabels
    <3>2. CASE u # t
      <4>1. Placed(u) /\ pc'[u] = pc[u] /\ hnd'[u] = hnd[u] /\ tmp'[u] = tmp[u]
        BY <2>3, <3>2 DEF Structs
      <4>2. hnd[u] \in Handles /\ pool[hnd[u]].st # "free" => pool'[hnd[u]] = pool[hnd[u]]
        BY <2>1, <2>2
      <4>3. QED
        BY <4>1, <4>2 DEF Placed, MakeLabels, LeftLabels, KillLabels
    <3>3. QED
      BY <3>1, <3>2
  <2>7. \A u, v \in Threads :
          u # v /\ pc'[u] \in MakeLabels /\ pc'[v] \in MakeLabels => hnd'[u] # hnd'[v]
    BY <2>1, <2>2, <2>3 DEF Structs, Placed
  <2>8. \A g \in Handles :
          pool'[g].st = "dying" => \E u \in Threads : pc'[u] \in {"dLockG", "dDel"} /\ hnd'[u] = g
    BY <1>1, <2>2, <2>3 DEF Structs
  <2>9. QED
    BY <2>5, <2>6, <2>7, <2>8 DEF Structs
<1>4. QED
  BY <1>2, <1>3

(* The call that made a pool gives it its id, or gives it up. *)
LEMMA CreateWriteIdStructs == ASSUME Inv, NEW t \in Threads, CreateWriteId(t) PROVE Structs'
<1> USE DEF Inv
<1> DEFINE h == hnd[t]
<1>1. /\ Others(t) /\ pc[t] = "cWrite" /\ UNCHANGED <<list, poolCount>>
      /\ t \in Clients /\ pc[Rmmod] = "idle" /\ t # Rmmod
  BY StepIsLocal, RmmodWaits DEF Step, CreateWriteId, Requested, MakeLabels
<1>2. h \in Handles /\ pool[h].st = "new"
  BY <1>1 DEF Structs, Placed, MakeLabels
<1>3. \/ pool' = [pool EXCEPT ![h].id = tmp[t]] /\ pc'[t] = "cLockG" /\ hnd'[t] = h
      \/ pool' = [pool EXCEPT ![h].st = "freed"] /\ pc'[t] = "idle"
  BY DEF CreateWriteId, Return, ReturnTo, TypeOK, locals
<1>4. /\ \A g \in Handles \ {h} : pool'[g] = pool[g]
      /\ \/ pool'[h].st = "new" /\ pc'[t] = "cLockG" /\ hnd'[t] = h
         \/ pool'[h].st = "freed" /\ pc'[t] = "idle"
  <2>1. pool \in [Handles -> Pool]
    BY DEF TypeOK
  <2>2. QED
    BY <1>2, <1>3, <2>1 DEF Pool
<1> HIDE DEF h
<1>5. \A u \in Threads : u # t => pc'[u] = pc[u] /\ hnd'[u] = hnd[u] /\ tmp'[u] = tmp[u]
  BY <1>1 DEF Others
<1>6. Listed' = Listed
  BY <1>1 DEF Listed
<1>7. /\ \A i, j \in 1..Len(list') : list'[i] = list'[j] => i = j
      /\ \A g \in Handles : pool'[g].st \in {"up", "dying"} <=> g \in Listed'
      /\ poolCount' = Len(list')
  BY <1>1, <1>2, <1>4, <1>6 DEF Structs
<1>8. \A u \in Threads : u # t /\ pc[u] \in MakeLabels => hnd[u] # h
  BY <1>1 DEF Structs, MakeLabels, h
<1>9. ASSUME NEW u \in Threads PROVE Placed(u)'
  <2>1. CASE u = t
    BY <1>1, <1>2, <1>4, <2>1 DEF Placed, MakeLabels, LeftLabels, KillLabels
  <2>2. CASE u # t
    <3>1. Placed(u) /\ pc'[u] = pc[u] /\ hnd'[u] = hnd[u] /\ tmp'[u] = tmp[u]
      BY <1>5, <2>2 DEF Structs
    <3>2. hnd[u] \in Handles /\ hnd[u] # h => pool'[hnd[u]] = pool[hnd[u]]
      BY <1>4
    <3>3. QED
      BY <1>1, <1>2, <1>8, <2>2, <3>1, <3>2 DEF Placed, MakeLabels, LeftLabels, KillLabels
  <2>3. QED
    BY <2>1, <2>2
<1>10. \A u, v \in Threads :
         u # v /\ pc'[u] \in MakeLabels /\ pc'[v] \in MakeLabels => hnd'[u] # hnd'[v]
  BY <1>4, <1>5, <1>8 DEF Structs, MakeLabels
<1>11. \A g \in Handles :
         pool'[g].st = "dying" => \E u \in Threads : pc'[u] \in {"dLockG", "dDel"} /\ hnd'[u] = g
  BY <1>1, <1>4, <1>5 DEF Structs
<1>12. QED
  BY <1>7, <1>9, <1>10, <1>11 DEF Structs

(* The pool joins the list, once. *)
LEMMA CreateAddStructs == ASSUME Inv, NEW t \in Threads, CreateAdd(t) PROVE Structs'
<1> USE DEF Inv
<1> DEFINE h == hnd[t]
<1>1. /\ Others(t) /\ pc[t] = "cAdd" /\ pc'[t] = "cLog" /\ list' = Append(list, h)
      /\ poolCount' = poolCount + 1 /\ hnd'[t] = h
      /\ t \in Clients /\ pc[Rmmod] = "idle" /\ t # Rmmod
  BY StepIsLocal, RmmodWaits DEF Step, CreateAdd, TypeOK, Requested, MakeLabels, locals
<1>2. h \in Handles /\ pool[h].st = "new"
  BY <1>1 DEF Structs, Placed, MakeLabels
<1>3. /\ \A g \in Handles \ {h} : pool'[g] = pool[g]
      /\ pool'[h].st = "up"
  BY <1>2 DEF CreateAdd, TypeOK, Pool
<1>4. h \notin Listed
  BY <1>2 DEF Structs
<1> HIDE DEF h
<1>5. \A u \in Threads : u # t => pc'[u] = pc[u] /\ hnd'[u] = hnd[u] /\ tmp'[u] = tmp[u]
  BY <1>1 DEF Others
<1>6. /\ Len(list') = Len(list) + 1 /\ list'[Len(list) + 1] = h
      /\ \A i \in 1..Len(list) : list'[i] = list[i]
      /\ Len(list) \in Nat
  BY <1>1, <1>2 DEF TypeOK
<1>7. Listed' = Listed \cup {h}
  BY <1>6 DEF Listed
<1>8. \A i, j \in 1..Len(list') : list'[i] = list'[j] => i = j
  BY <1>4, <1>6 DEF Structs, Listed
<1>9. /\ \A g \in Handles : pool'[g].st \in {"up", "dying"} <=> g \in Listed'
      /\ poolCount' = Len(list')
  BY <1>1, <1>2, <1>3, <1>6, <1>7 DEF Structs
<1>10. \A u \in Threads : u # t /\ pc[u] \in MakeLabels => hnd[u] # h
  BY <1>1 DEF Structs, MakeLabels, h
<1>11. ASSUME NEW u \in Threads PROVE Placed(u)'
  <2>1. CASE u = t
    BY <1>1, <1>2, <1>3, <2>1 DEF Placed, MakeLabels, LeftLabels, KillLabels
  <2>2. CASE u # t
    <3>1. Placed(u) /\ pc'[u] = pc[u] /\ hnd'[u] = hnd[u] /\ tmp'[u] = tmp[u]
      BY <1>5, <2>2 DEF Structs
    <3>2. hnd[u] \in Handles /\ hnd[u] # h => pool'[hnd[u]] = pool[hnd[u]]
      BY <1>3
    <3>3. QED
      BY <1>1, <1>2, <1>10, <2>2, <3>1, <3>2 DEF Placed, MakeLabels, LeftLabels, KillLabels
  <2>3. QED
    BY <2>1, <2>2
<1>12. \A u, v \in Threads :
         u # v /\ pc'[u] \in MakeLabels /\ pc'[v] \in MakeLabels => hnd'[u] # hnd'[v]
  BY <1>1, <1>5 DEF Structs, MakeLabels
<1>13. \A g \in Handles :
         pool'[g].st = "dying" => \E u \in Threads : pc'[u] \in {"dLockG", "dDel"} /\ hnd'[u] = g
  BY <1>1, <1>3, <1>5 DEF Structs
<1>14. QED
  BY <1>8, <1>9, <1>11, <1>12, <1>13 DEF Structs

(* A call that destroys by id finds a pool that is listed, which another call may be destroying. *)
LEMMA DestroyFindStructs == ASSUME Inv, NEW t \in Threads, DestroyFind(t) PROVE Structs'
<1> USE DEF Inv
<1>1. Others(t) /\ pc[t] = "dFind" /\ UNCHANGED <<list, poolCount, pool>> /\ t # Rmmod
  BY StepIsLocal, NoThreadNone DEF Step, DestroyFind, manager, Requested
<1>2. CASE Return(t)
  <2>1. pc'[t] = "idle"
    BY <1>2 DEF Return, ReturnTo, TypeOK
  <2>2. QED
    BY <1>1, <2>1, StructsFrame DEF MakeLabels, LeftLabels, KillLabels
<1>3. CASE ~Return(t)
  <2>1. PICK i \in 1..Len(list) :
          hnd' = [hnd EXCEPT ![t] = list[i]] /\ pc' = [pc EXCEPT ![t] = "dLockP"]
    BY <1>3 DEF DestroyFind
  <2>2. list[i] \in Handles /\ list[i] \in Listed
    BY DEF TypeOK, Listed
  <2>3. pc'[t] = "dLockP" /\ hnd'[t] = list[i]
    BY <2>1 DEF TypeOK
  <2>4. pool[list[i]].st \in {"up", "dying"}
    BY <2>2 DEF Structs
  <2>5. Placed(t)'
    BY <1>1, <2>2, <2>3, <2>4 DEF Placed, MakeLabels, LeftLabels, KillLabels
  <2>6. QED
    BY <1>1, <2>3, <2>5, StructsMove DEF MakeLabels
<1>4. QED
  BY <1>2, <1>3

(* Rmmod starts on the first pool of the list when no other thread destroys any. *)
LEMMA ExitNextStructs == ASSUME Inv, ExitNext PROVE Structs'
<1> USE DEF Inv
<1> DEFINE t == Rmmod
<1>1. /\ Others(t) /\ t \in Threads /\ UNCHANGED <<list, poolCount, pool>>
      /\ pc[t] = "xNext"
  BY ExitIsLocal, ThreadsAndLabels DEF ExitStep, ExitNext, manager
<1>2. CASE list = <<>>
  <2>1. pc'[t] = "exited"
    BY <1>1, <1>2 DEF ExitNext, TypeOK
  <2>2. QED
    BY <1>1, <2>1, StructsFrame DEF MakeLabels, LeftLabels, KillLabels
<1>3. CASE list # <<>>
  <2> DEFINE h == Head(list)
  <2>1. pc'[t] = "dLockP" /\ hnd'[t] = h
    BY <1>1, <1>3 DEF ExitNext, TypeOK
  <2>2. h = list[1] /\ 1 \in 1..Len(list)
    BY <1>3 DEF TypeOK
  <2>3. h \in Handles /\ h \in Listed
    BY <2>2 DEF TypeOK, Listed
  <2>4. pool[h].st = "up"
    <3>1. pool[h].st \in {"up", "dying"}
      BY <2>3 DEF Structs
    <3>2. ASSUME NEW u \in Threads, pc[u] \in {"dLockG", "dDel"} PROVE FALSE
      <4>1. u \in Clients
        BY <1>1, <3>2 DEF Requested, KillLabels
      <4>2. QED
        BY <1>1, <3>2, <4>1, RmmodWaits
    <3>3. QED
      BY <2>3, <3>1, <3>2 DEF Structs
  <2>5. Placed(t)'
    BY <1>1, <2>1, <2>3, <2>4 DEF Placed, MakeLabels, LeftLabels, KillLabels
  <2>6. QED
    BY <1>1, <2>1, <2>5, StructsMove DEF MakeLabels
<1>4. QED
  BY <1>2, <1>3

(* A pool whose gen_pool is gone stays listed, and its destroyer knows it. *)
LEMMA DestroyPoolStructs == ASSUME Inv, NEW t \in Threads, DestroyPool(t) PROVE Structs'
<1> USE DEF Inv
<1> DEFINE h == hnd[t]
<1>1. /\ Others(t) /\ pc[t] = "dPool" /\ UNCHANGED <<list, poolCount>>
      /\ hnd'[t] = h /\ Placed(t)
  BY StepIsLocal DEF Step, DestroyPool, manager, locals, Structs
<1>2. h \in Handles /\ pool[h].st \in {"up", "dying", "freed"} /\ pool \in [Handles -> Pool]
  BY <1>1 DEF Placed, LeftLabels, KillLabels, TypeOK
<1>3. \/ pc'[t] = "bugDestroy" /\ UNCHANGED pool
      \/ pc'[t] = "dLockG" /\ pool' = [pool EXCEPT ![h].st = IF @ = "up" THEN "dying" ELSE @]
  BY DEF DestroyPool, TypeOK
<1>4. CASE pc'[t] = "bugDestroy" /\ UNCHANGED pool
  <2>1. Placed(t)'
    BY <1>1, <1>2, <1>4 DEF Placed, MakeLabels, LeftLabels, KillLabels
  <2>2. QED
    BY <1>1, <1>4, <2>1, StructsMove DEF MakeLabels
<1>5. CASE /\ pc'[t] = "dLockG" /\ pool[h].st # "up"
           /\ pool' = [pool EXCEPT ![h].st = IF @ = "up" THEN "dying" ELSE @]
  <2>1. \A g \in Handles : pool'[g].st = pool[g].st
    BY <1>2, <1>5 DEF Pool
  <2>2. Placed(t)'
    BY <1>1, <1>2, <1>5, <2>1 DEF Placed, MakeLabels, LeftLabels, KillLabels
  <2>3. QED
    BY <1>1, <1>5, <2>1, <2>2, StructsMove DEF MakeLabels
<1>6. CASE /\ pc'[t] = "dLockG" /\ pool[h].st = "up"
           /\ pool' = [pool EXCEPT ![h].st = IF @ = "up" THEN "dying" ELSE @]
  <2>1. /\ \A g \in Handles \ {h} : pool'[g] = pool[g]
        /\ pool'[h].st = "dying"
    BY <1>2, <1>6 DEF Pool
  <2>2. \A u \in Threads : u # t => pc'[u] = pc[u] /\ hnd'[u] = hnd[u] /\ tmp'[u] = tmp[u]
    BY <1>1 DEF Others
  <2>3. ASSUME NEW u \in Threads, u # t, u = Rmmod PROVE pc[u] \notin MakeLabels \cup LeftLabels
    <3>1. t \in Clients
      BY <1>1, <2>3 DEF Requested, KillLabels
    <3>2. QED
      BY <1>1, <2>3, <3>1, RmmodWaits DEF MakeLabels, LeftLabels, KillLabels
  <2>4. Listed' = Listed
    BY <1>1 DEF Listed
  <2>5. /\ \A k, j \in 1..Len(list') : list'[k] = list'[j] => k = j
        /\ \A g \in Handles : pool'[g].st \in {"up", "dying"} <=> g \in Listed'
        /\ poolCount' = Len(list')
    BY <1>1, <1>2, <1>6, <2>1, <2>4 DEF Structs
  <2>6. ASSUME NEW u \in Threads PROVE Placed(u)'
    <3>1. CASE u = t
      BY <1>1, <1>2, <1>6, <2>1, <3>1 DEF Placed, MakeLabels, LeftLabels, KillLabels
    <3>2. CASE u # t
      <4>1. Placed(u) /\ pc'[u] = pc[u] /\ hnd'[u] = hnd[u] /\ tmp'[u] = tmp[u]
        BY <2>2, <3>2 DEF Structs
      <4>2. hnd[u] \in Handles /\ hnd[u] # h => pool'[hnd[u]] = pool[hnd[u]]
        BY <2>1
      <4>3. QED
        BY <1>2, <1>6, <2>1, <2>3, <3>2, <4>1, <4>2
           DEF Placed, MakeLabels, LeftLabels, KillLabels
    <3>3. QED
      BY <3>1, <3>2
  <2>7. \A u, v \in Threads :
           u # v /\ pc'[u] \in MakeLabels /\ pc'[v] \in MakeLabels => hnd'[u] # hnd'[v]
    BY <1>6, <2>2 DEF Structs, MakeLabels
  <2>8. \A g \in Handles :
           pool'[g].st = "dying" => \E u \in Threads : pc'[u] \in {"dLockG", "dDel"} /\ hnd'[u] = g
    <3>1. ASSUME NEW g \in Handles, pool'[g].st = "dying", g # h
          PROVE  \E u \in Threads : pc'[u] \in {"dLockG", "dDel"} /\ hnd'[u] = g
      BY <1>1, <2>1, <2>2, <3>1 DEF Structs
    <3>2. QED
      BY <1>1, <1>6, <3>1
  <2>9. QED
    BY <2>5, <2>6, <2>7, <2>8 DEF Structs
<1>7. QED
  BY <1>3, <1>4, <1>5, <1>6

(* The pool leaves the list and its struct is freed: whoever destroys it too knows that it may be. *)
LEMMA DestroyDelStructs == ASSUME Inv, NEW t \in Threads, DestroyDel(t) PROVE Structs'
<1> USE DEF Inv
<1> DEFINE h == hnd[t]
<1>1. /\ Others(t) /\ pc[t] = "dDel" /\ pc'[t] \in {"idle", "xNext"} /\ Placed(t)
      /\ list' = Without(h) /\ poolCount' = poolCount - 1 /\ pool[h].st # "freed"
  BY StepIsLocal DEF Step, DestroyDel, Unlist, ReturnTo, TypeOK, Structs
<1>2. h \in Handles /\ pool[h].st = "dying"
  BY <1>1 DEF Placed, LeftLabels, KillLabels
<1>3. /\ \A g \in Handles \ {h} : pool'[g] = pool[g]
      /\ pool'[h].st = "freed" /\ h \in Listed
  BY <1>2 DEF DestroyDel, Unlist, TypeOK, Pool, Structs
<1>4. ASSUME NEW u \in Threads, u # t, u = Rmmod PROVE pc[u] \notin MakeLabels \cup LeftLabels
  <2>1. t \in Clients
    BY <1>1, <1>4 DEF Requested, KillLabels
  <2>2. QED
    BY <1>1, <1>4, <2>1, RmmodWaits DEF MakeLabels, LeftLabels, KillLabels
<1> HIDE DEF h
<1>5. \A u \in Threads : u # t => pc'[u] = pc[u] /\ hnd'[u] = hnd[u] /\ tmp'[u] = tmp[u]
  BY <1>1 DEF Others
<1>6. /\ Len(list') = Len(list) - 1
      /\ {list'[i] : i \in 1..Len(list')} = Listed \ {h}
      /\ \A i, j \in 1..Len(list') : list'[i] = list'[j] => i = j
  <2>1. list \in Seq(Handles)
    BY DEF TypeOK
  <2>2. \A i, j \in 1..Len(list) : list[i] = list[j] => i = j
    BY DEF Structs
  <2>3. /\ Len(Without(h)) = Len(list) - 1
        /\ {Without(h)[i] : i \in 1..Len(Without(h))} = Listed \ {h}
        /\ \A i, j \in 1..Len(Without(h)) : Without(h)[i] = Without(h)[j] => i = j
    BY <1>3, <2>1, <2>2, WithoutTyped
  <2> DEFINE w == Without(h)
  <2>4. list' = w
    BY <1>1
  <2>5. /\ Len(w) = Len(list) - 1 /\ {w[i] : i \in 1..Len(w)} = Listed \ {h}
        /\ \A i, j \in 1..Len(w) : w[i] = w[j] => i = j
    BY <2>3
  <2> HIDE DEF w
  <2>6. QED
    BY <2>4, <2>5
<1>7. Listed' = Listed \ {h}
  BY <1>6 DEF Listed
<1>8. /\ \A g \in Handles : pool'[g].st \in {"up", "dying"} <=> g \in Listed'
      /\ poolCount' = Len(list')
  BY <1>1, <1>2, <1>3, <1>6, <1>7 DEF Structs
<1>9. ASSUME NEW u \in Threads PROVE Placed(u)'
  <2>1. CASE u = t
    BY <1>1, <2>1 DEF Placed, MakeLabels, LeftLabels, KillLabels
  <2>2. CASE u # t
    <3>1. Placed(u) /\ pc'[u] = pc[u] /\ hnd'[u] = hnd[u] /\ tmp'[u] = tmp[u]
      BY <1>5, <2>2 DEF Structs
    <3>2. hnd[u] \in Handles /\ hnd[u] # h => pool'[hnd[u]] = pool[hnd[u]]
      BY <1>3
    <3>3. QED
      BY <1>2, <1>3, <1>4, <2>2, <3>1, <3>2 DEF Placed, MakeLabels, LeftLabels, KillLabels
  <2>3. QED
    BY <2>1, <2>2
<1>10. \A u, v \in Threads :
         u # v /\ pc'[u] \in MakeLabels /\ pc'[v] \in MakeLabels => hnd'[u] # hnd'[v]
  BY <1>1, <1>5 DEF Structs, MakeLabels
<1>11. ASSUME NEW g \in Handles, pool'[g].st = "dying"
       PROVE  \E u \in Threads : pc'[u] \in {"dLockG", "dDel"} /\ hnd'[u] = g
  <2>1. g # h /\ pool[g].st = "dying"
    BY <1>3, <1>11
  <2>2. PICK u \in Threads : pc[u] \in {"dLockG", "dDel"} /\ hnd[u] = g
    BY <2>1 DEF Structs
  <2>3. u # t
    BY <2>1, <2>2 DEF h
  <2>4. QED
    BY <1>5, <2>2, <2>3
<1>12. QED
  BY <1>6, <1>8, <1>9, <1>10, <1>11 DEF Structs

(* A thread that stops at a freed pool, or a gen_pool destroyed before, leaves all as it was. *)
LEMMA UseFreedStructs == ASSUME Inv, NEW t \in Threads, UseFreed(t) PROVE Structs'
<1> USE DEF Inv
<1>1. /\ Others(t) /\ UNCHANGED <<list, poolCount, pool, hnd>> /\ Placed(t)
      /\ \/ pc[t] \in {"cLog", "dLockP"} /\ pool[hnd[t]].st = "freed" /\ pc'[t] = "bugLost"
         \/ pc[t] = "dPool" /\ pool[hnd[t]].st # "up" /\ pc'[t] = "bugTwice"
         \/ pc[t] = "dDel" /\ pool[hnd[t]].st = "freed" /\ pc'[t] = "bugDel"
  BY StepIsLocal DEF Step, UseFreed, manager, locals, Structs, TypeOK
<1>2. t # Rmmod
  BY <1>1, NoThreadNone DEF Placed, Requested
<1>3. Placed(t)'
  BY <1>1, <1>2 DEF Placed, MakeLabels, LeftLabels, KillLabels
<1>4. QED
  BY <1>1, <1>3, StructsMove DEF MakeLabels

(* Every step keeps the list and the structs in tune. *)
LEMMA StructsKept == Inv /\ Next => Structs'
<1> SUFFICES ASSUME Inv, Next PROVE Structs'
  OBVIOUS
<1> USE DEF Inv
<1>1. ASSUME NEW t \in Threads, AllocInPool(t) \/ FreeInPool(t) PROVE Structs'
  <2>1. /\ Others(t) /\ UNCHANGED <<list, poolCount>> /\ pc[t] = "inPool"
        /\ pc'[t] \in {"lockP", "done", "bugFree"}
    BY <1>1, StepIsLocal DEF Step, AllocInPool, FreeInPool, Scan, manager, TypeOK
  <2>2. QED
    BY <1>1, <2>1, CountingKeepsPools, StructsFrame DEF MakeLabels, LeftLabels, KillLabels
<1>2. ASSUME NEW t \in Threads,
             LockGlobal(t) \/ LockPool(t) \/ VisitPool(t) \/ UseDestroyed(t)
      PROVE  Structs'
  <2>1. /\ Others(t) /\ UNCHANGED <<list, poolCount, pool>> /\ pc[t] \in {"lockG", "lockP", "inPool"}
        /\ pc'[t] \in {"lockP", "inPool", "done", "bugUse"}
    BY <1>2, StepIsLocal DEF Step, LockGlobal, LockPool, VisitPool, UseDestroyed, Scan, manager,
       TypeOK
  <2>2. QED
    BY <2>1, StructsFrame DEF MakeLabels, LeftLabels, KillLabels
<1>3. ASSUME NEW t \in Threads, FinishAlloc(t) \/ FinishFree(t) \/ FinishWalk(t) \/ CreateReturn(t)
      PROVE  Structs'
  <2>1. Others(t) /\ UNCHANGED <<list, poolCount, pool>> /\ pc[t] \in {"done", "cLog"} /\ pc'[t] = "idle"
    BY <1>3, StepIsLocal
       DEF Step, FinishAlloc, SettleAlloc, FinishFree, FinishWalk, CreateReturn, Return, ReturnTo, manager, TypeOK
  <2>2. QED
    BY <2>1, StructsFrame DEF MakeLabels, LeftLabels, KillLabels
<1>4. ASSUME NEW t \in Threads, CreateReadId(t) \/ CreateLock(t) PROVE Structs'
  <2>1. /\ Others(t) /\ UNCHANGED <<list, poolCount, pool>> /\ hnd'[t] = hnd[t]
        /\ pc[t] \in MakeLabels /\ pc'[t] \in MakeLabels /\ (pc'[t] = "cWrite" => tmp'[t] \in Nat)
        /\ Placed(t)
    BY <1>4, StepIsLocal
       DEF Step, CreateReadId, CreateLock, manager, locals, TypeOK, MakeLabels, Structs
  <2>2. Placed(t)'
    BY <2>1 DEF Placed, MakeLabels, LeftLabels, KillLabels
  <2>3. QED
    BY <2>1, <2>2, StructsMove DEF MakeLabels
<1>5. ASSUME NEW t \in Threads, DestroyLockPool(t) \/ DestroyLockGlobal(t) PROVE Structs'
  <2>1. /\ Others(t) /\ UNCHANGED <<list, poolCount, pool>> /\ hnd'[t] = hnd[t] /\ Placed(t)
        /\ \/ pc[t] = "dLockP" /\ pc'[t] = "dPool"
           \/ pc[t] = "dLockG" /\ pc'[t] = "dDel"
    BY <1>5, StepIsLocal DEF Step, DestroyLockPool, DestroyLockGlobal, manager, locals, TypeOK, Structs
  <2>2. Placed(t)'
    BY <2>1 DEF Placed, MakeLabels, LeftLabels, KillLabels
  <2>3. QED
    BY <2>1, <2>2, StructsMove DEF MakeLabels
<1>6. ASSUME NEW t \in Clients, Call(t)
      PROVE  Structs'
  <2>1. t \in Threads /\ Others(t)
    BY <1>6, CallIsLocal
  <2>2. /\ UNCHANGED <<list, poolCount, pool>> /\ pc[t] = "idle" /\ pc'[t] \in {"lockG", "cCheck", "dFind"}
    BY <1>6, <2>1
       DEF Call, CallAlloc, CallFree, CallWalk, CallCreate, CallDestroy, Calls, manager, TypeOK
  <2>3. QED
    BY <2>1, <2>2, StructsFrame DEF MakeLabels, LeftLabels, KillLabels
<1>7. ASSUME MonitorWake PROVE Structs'
  <2>1. /\ Monitor \in Threads /\ Others(Monitor) /\ UNCHANGED <<list, poolCount, pool>>
        /\ pc[Monitor] = "idle" /\ pc'[Monitor] \in {"lockG", "exited"}
    BY <1>7, WakeIsLocal, ThreadsAndLabels DEF MonitorWake, manager, TypeOK
  <2>2. QED
    BY <2>1, StructsFrame DEF MakeLabels, LeftLabels, KillLabels
<1>8. ASSUME ExitBegin \/ ExitStop \/ ExitJoin PROVE Structs'
  <2>1. /\ Rmmod \in Threads /\ Others(Rmmod) /\ UNCHANGED <<list, poolCount, pool>>
        /\ pc[Rmmod] \in {"idle", "xStop", "xJoin"}
        /\ pc'[Rmmod] \in {"xStop", "xJoin", "bugJoin", "xNext"}
    BY <1>8, ExitIsLocal, ThreadsAndLabels DEF ExitStep, ExitBegin, ExitStop, ExitJoin, manager, TypeOK,
       Requested
  <2>2. QED
    BY <2>1, StructsFrame DEF MakeLabels, LeftLabels, KillLabels
<1>9. QED
  BY <1>1, <1>2, <1>3, <1>4, <1>5, <1>6, <1>7, <1>8, CreateCheckStructs, CreateWriteIdStructs,
     CreateAddStructs, DestroyFindStructs, DestroyPoolStructs, DestroyDelStructs, ExitNextStructs,
     UseFreedStructs
  DEF Next, Call, Step, ExitStep

(* Only pool_create brings a pool into being. *)
LEMMA PoolsComeFromCreate ==
  ASSUME Inv, Next, NEW h \in Handles, Exists(h)', \A t \in Threads : ~CreateCheck(t)
  PROVE  Exists(h)
<1> USE DEF Inv
<1>0. pool \in [Handles -> Pool]
  BY DEF TypeOK
<1>1. CASE pool' = pool
  BY <1>1 DEF Exists
<1>2. ASSUME NEW t \in Threads, AllocInPool(t) \/ FreeInPool(t) PROVE Exists(h)
  BY <1>2, CountingKeepsPools DEF Exists
<1>3. ASSUME NEW t \in Threads, CreateWriteId(t) \/ CreateAdd(t) \/ DestroyPool(t) \/ DestroyDel(t)
      PROVE  Exists(h)
  <2>1. /\ hnd[t] \in Handles
        /\ pool[hnd[t]].st \in {"new", "up", "dying"} \/ (DestroyPool(t) /\ pool[hnd[t]].st = "freed")
    BY <1>3 DEF CreateWriteId, CreateAdd, DestroyPool, DestroyDel, Unlist, Structs, Placed,
                MakeLabels, LeftLabels, KillLabels
  <2>2. \A g \in Handles : g # hnd[t] => pool'[g] = pool[g]
    BY <1>0, <1>3 DEF CreateWriteId, CreateAdd, DestroyPool, DestroyDel, Unlist
  <2>3. DestroyPool(t) /\ pool[hnd[t]].st = "freed" => pool'[hnd[t]].st = "freed"
    BY <1>0, <2>1 DEF DestroyPool, Pool
  <2>4. QED
    BY <2>1, <2>2, <2>3 DEF Exists
<1>4. ASSUME NEW t \in Threads,
             \/ LockGlobal(t) \/ LockPool(t) \/ VisitPool(t) \/ UseDestroyed(t)
             \/ FinishAlloc(t) \/ FinishFree(t) \/ FinishWalk(t) \/ CreateReadId(t) \/ CreateLock(t)
             \/ DestroyFind(t) \/ DestroyLockPool(t) \/ DestroyLockGlobal(t)
             \/ CreateReturn(t) \/ UseFreed(t)
      PROVE  pool' = pool
  BY <1>4 DEF LockGlobal, LockPool, VisitPool, UseDestroyed, FinishAlloc, SettleAlloc, FinishFree,
              FinishWalk, CreateReadId, CreateLock, DestroyFind, DestroyLockPool, DestroyLockGlobal,
              CreateReturn, Return, ReturnTo, UseFreed
<1>5. ASSUME NEW t \in Clients, Call(t) PROVE pool' = pool
  BY <1>5 DEF Call, CallAlloc, CallFree, CallWalk, CallCreate, CallDestroy, Calls
<1>6. ASSUME MonitorWake \/ ExitBegin \/ ExitStep PROVE pool' = pool
  BY <1>6 DEF MonitorWake, ExitBegin, ExitStep, ExitStop, ExitJoin, ExitNext
<1>7. QED
  BY <1>1, <1>2, <1>3, <1>4, <1>5, <1>6 DEF Next, Step

(* A step that makes no pool and begins no making of one keeps the ranges apart. *)
LEMMA RangesFrame ==
  ASSUME Inv, Next, NEW t \in Threads, Others(t), \A u \in Threads : ~CreateCheck(u),
         pc'[t] # "cCheck",
         pc'[t] \in MakeLabels => pc[t] \in MakeLabels /\ arg'[t] = arg[t]
  PROVE  Ranges'
<1> USE DEF Inv
<1>1. \A h \in Handles : Exists(h)' => Exists(h) /\ pool'[h].region = pool[h].region
  BY PoolsComeFromCreate, PoolsKeepTheirRange DEF Exists
<1>2. \A u \in Threads : /\ pc'[u] = "cCheck" => pc[u] = "cCheck" /\ arg'[u] = arg[u]
                         /\ pc'[u] \in MakeLabels => pc[u] \in MakeLabels /\ arg'[u] = arg[u]
  BY DEF Others
<1>3. \A h, g \in Handles :
        h # g /\ Exists(h)' /\ Exists(g)' => pool'[h].region # pool'[g].region
  BY <1>1 DEF Ranges
<1>4. \A u \in Threads, h \in Handles :
        pc'[u] = "cCheck" /\ Exists(h)' => pool'[h].region # arg'[u].region
  BY <1>1, <1>2 DEF Ranges
<1>5. \A u, v \in Threads :
        u # v /\ pc'[u] = "cCheck" /\ pc'[v] \in {"cCheck"} \cup MakeLabels
          => arg'[u].region # arg'[v].region
  BY <1>2 DEF Ranges
<1>6. QED
  BY <1>3, <1>4, <1>5 DEF Ranges

LEMMA CallCreateRanges == ASSUME Inv, Next, NEW t \in Clients, CallCreate(t) PROVE Ranges'
<1> USE DEF Inv
<1>1. t \in Threads /\ Others(t)
  BY CallIsLocal DEF Call
<1>2. PICK r \in Regions : ~InUse(r) /\ Calls(t, [op |-> "create", region |-> r], "cCheck")
  BY DEF CallCreate
<1>3. pc'[t] = "cCheck" /\ arg'[t].region = r /\ pool' = pool
  BY <1>1, <1>2 DEF Calls, TypeOK
<1>4. \A u \in Threads : u # t => pc'[u] = pc[u] /\ arg'[u] = arg[u]
  BY <1>1 DEF Others
<1>5. \A h \in Handles : Exists(h) => pool[h].region # r
  BY <1>2 DEF InUse, Exists
<1>6. \A u \in Threads : pc[u] \in {"cCheck"} \cup MakeLabels => arg[u].region # r
  BY <1>2 DEF InUse, Requested, MakeLabels
<1>7. \A h \in Handles : Exists(h)' <=> Exists(h)
  BY <1>3 DEF Exists
<1>8. \A h, g \in Handles :
        h # g /\ Exists(h)' /\ Exists(g)' => pool'[h].region # pool'[g].region
  BY <1>3, <1>7 DEF Ranges
<1>9. \A u \in Threads, h \in Handles :
        pc'[u] = "cCheck" /\ Exists(h)' => pool'[h].region # arg'[u].region
  BY <1>3, <1>4, <1>5, <1>7 DEF Ranges
<1>10. \A u, v \in Threads :
         u # v /\ pc'[u] = "cCheck" /\ pc'[v] \in {"cCheck"} \cup MakeLabels
           => arg'[u].region # arg'[v].region
  BY <1>3, <1>4, <1>6 DEF Ranges, MakeLabels
<1>11. QED
  BY <1>8, <1>9, <1>10 DEF Ranges

LEMMA CreateCheckRanges == ASSUME Inv, Next, NEW t \in Threads, CreateCheck(t) PROVE Ranges'
<1> USE DEF Inv
<1>1. Others(t) /\ pc[t] = "cCheck"
  BY StepIsLocal DEF Step, CreateCheck
<1>2. \A u \in Threads : u # t => pc'[u] = pc[u] /\ arg'[u] = arg[u]
  BY <1>1 DEF Others
<1>3. CASE Return(t) /\ UNCHANGED pool
  <2>1. pc'[t] = "idle"
    BY <1>3 DEF Return, ReturnTo, TypeOK
  <2>2. \A h \in Handles : Exists(h)' <=> Exists(h)
    BY <1>3 DEF Exists
  <2>3. QED
    BY <1>2, <1>3, <2>1, <2>2 DEF Ranges, MakeLabels
<1>4. CASE ~(Return(t) /\ UNCHANGED pool)
  <2>1. PICK h \in Handles :
          /\ pool' = [pool EXCEPT ![h] = [st |-> "new", id |-> 0, region |-> arg[t].region,
                                          used |-> 0, active |-> 0]]
          /\ pc' = [pc EXCEPT ![t] = "cRead"] /\ UNCHANGED <<arg, cur, tmp>>
    BY <1>4 DEF CreateCheck, FreeStructs
  <2>2. /\ pc'[t] = "cRead" /\ arg'[t] = arg[t] /\ pool'[h].region = arg[t].region
        /\ \A g \in Handles \ {h} : pool'[g] = pool[g]
    BY <2>1 DEF TypeOK
  <2>3. \A g \in Handles \ {h} : Exists(g)' <=> Exists(g)
    BY <2>2 DEF Exists
  <2>4. \A g \in Handles \ {h} : Exists(g)' => pool'[g].region # arg[t].region
    BY <1>1, <2>2, <2>3 DEF Ranges
  <2>5. \A f, g \in Handles :
          f # g /\ Exists(f)' /\ Exists(g)' => pool'[f].region # pool'[g].region
    BY <2>2, <2>3, <2>4 DEF Ranges
  <2>6. \A u \in Threads, g \in Handles :
          pc'[u] = "cCheck" /\ Exists(g)' => pool'[g].region # arg'[u].region
    <3>1. ASSUME NEW u \in Threads, NEW g \in Handles, pc'[u] = "cCheck", Exists(g)'
          PROVE  pool'[g].region # arg'[u].region
      <4>1. u # t /\ pc[u] = "cCheck" /\ arg'[u] = arg[u]
        BY <1>2, <2>2, <3>1
      <4>2. CASE g = h
        BY <1>1, <2>2, <4>1, <4>2 DEF Ranges
      <4>3. CASE g # h
        BY <2>2, <2>3, <3>1, <4>1, <4>3 DEF Ranges
      <4>4. QED
        BY <4>2, <4>3
    <3>2. QED
      BY <3>1
  <2>7. \A u, v \in Threads :
          u # v /\ pc'[u] = "cCheck" /\ pc'[v] \in {"cCheck"} \cup MakeLabels
            => arg'[u].region # arg'[v].region
    BY <1>1, <1>2, <2>2 DEF Ranges
  <2>8. QED
    BY <2>5, <2>6, <2>7 DEF Ranges
<1>5. QED
  BY <1>3, <1>4

(* Every step keeps the ranges of the pools apart. *)
LEMMA RangesKept == Inv /\ Next => Ranges'
<1> SUFFICES ASSUME Inv, Next PROVE Ranges'
  OBVIOUS
<1> USE DEF Inv
<1>1. CASE \E t \in Threads : CreateCheck(t)
  BY <1>1, CreateCheckRanges
<1>2. CASE \A t \in Threads : ~CreateCheck(t)
  <2>1. ASSUME NEW t \in Threads, Step(t) PROVE Ranges'
    <3>1. Others(t) /\ ~CreateCheck(t)
      BY <1>2, <2>1, StepIsLocal
    <3>2. pc'[t] # "cCheck" /\ (pc'[t] \in MakeLabels => pc[t] \in MakeLabels /\ arg'[t] = arg[t])
      <4>1. CASE CreateReadId(t) \/ CreateWriteId(t) \/ CreateLock(t) \/ CreateAdd(t)
        BY <4>1 DEF CreateReadId, CreateWriteId, CreateLock, CreateAdd, Return, ReturnTo,
                    MakeLabels, locals, TypeOK
      <4>2. CASE \/ LockGlobal(t) \/ LockPool(t) \/ AllocInPool(t) \/ FreeInPool(t)
                 \/ VisitPool(t) \/ UseDestroyed(t)
        BY <4>2 DEF LockGlobal, LockPool, AllocInPool, FreeInPool, VisitPool, UseDestroyed, Scan,
                    MakeLabels, TypeOK
      <4>3. CASE FinishAlloc(t) \/ FinishFree(t) \/ FinishWalk(t) \/ CreateReturn(t)
        BY <4>3 DEF FinishAlloc, SettleAlloc, FinishFree, FinishWalk, CreateReturn, Return,
                    ReturnTo, MakeLabels, TypeOK
      <4>4. CASE \/ DestroyFind(t) \/ DestroyLockPool(t) \/ DestroyPool(t)
                 \/ DestroyLockGlobal(t) \/ DestroyDel(t) \/ UseFreed(t)
        BY <4>4 DEF DestroyFind, DestroyLockPool, DestroyPool, DestroyLockGlobal, DestroyDel,
                    Unlist, UseFreed, Return, ReturnTo, MakeLabels, TypeOK
      <4>5. QED
        BY <2>1, <3>1, <4>1, <4>2, <4>3, <4>4 DEF Step
    <3>3. QED
      BY <1>2, <3>1, <3>2, RangesFrame
  <2>2. ASSUME NEW t \in Clients, Call(t), ~CallCreate(t) PROVE Ranges'
    <3>1. t \in Threads /\ Others(t)
      BY <2>2, CallIsLocal
    <3>2. pc'[t] \in {"lockG", "dFind"}
      BY <2>2, <3>1 DEF Call, CallAlloc, CallFree, CallWalk, CallDestroy, Calls, TypeOK
    <3>3. QED
      BY <1>2, <3>1, <3>2, RangesFrame DEF MakeLabels
  <2>3. CASE MonitorWake
    <3>1. Monitor \in Threads /\ Others(Monitor) /\ pc'[Monitor] \in {"lockG", "exited"}
      BY <2>3, WakeIsLocal, ThreadsAndLabels DEF MonitorWake, TypeOK
    <3>2. QED
      BY <1>2, <3>1, RangesFrame DEF MakeLabels
  <2>4. CASE ExitBegin \/ ExitStep
    <3>1. Rmmod \in Threads /\ Others(Rmmod)
      BY <2>4, ExitIsLocal, ThreadsAndLabels
    <3>2. pc'[Rmmod] \in {"xStop", "xJoin", "bugJoin", "xNext", "exited", "dLockP"}
      BY <2>4, <3>1 DEF ExitBegin, ExitStep, ExitStop, ExitJoin, ExitNext, TypeOK
    <3>3. QED
      BY <1>2, <3>1, <3>2, RangesFrame DEF MakeLabels
  <2>5. QED
    BY <2>1, <2>2, <2>3, <2>4, CallCreateRanges DEF Next
<1>3. QED
  BY <1>1, <1>2

(* \div is monotone, and sizes only grow when they are rounded up. *)
LEMMA DivBounds ==
  ASSUME NEW a \in Nat, NEW d \in Nat \ {0}
  PROVE  a \div d \in Nat /\ d * (a \div d) <= a /\ a < d * (a \div d) + d
  OBVIOUS

LEMMA DivMonotone ==
  ASSUME NEW a \in Nat, NEW b \in Nat, NEW d \in Nat \ {0}, a <= b
  PROVE  a \div d <= b \div d
<1> DEFINE q == a \div d
<1> DEFINE r == b \div d
<1>1. q \in Nat /\ r \in Nat /\ d * q <= a /\ b < d * r + d
  BY DivBounds
<1> HIDE DEF q, r
<1>2. ASSUME q > r PROVE FALSE
  <2>1. q = r + 1 + (q - r - 1) /\ q - r - 1 \in Nat
    BY <1>1, <1>2
  <2>2. d * q = d * r + d + d * (q - r - 1)
    BY <1>1, <2>1
  <2>3. d * (q - r - 1) >= 0
    BY <2>1
  <2>4. d * q \in Int /\ d * r \in Int /\ d * (q - r - 1) \in Int
    BY <1>1, <2>1
  <2>5. QED
    BY <1>1, <2>2, <2>3, <2>4
<1>3. q <= r
  BY <1>1, <1>2
<1>4. QED
  BY <1>3 DEF q, r

LEMMA AlignUpGrows ==
  ASSUME NEW size \in Nat, NEW align \in Nat \ {0}
  PROVE  AlignUp(size, align) \in Nat /\ size <= AlignUp(size, align)
<1> DEFINE q == (size + align - 1) \div align
<1>1. q \in Nat /\ size + align - 1 < align * q + align
  BY DivBounds
<1> HIDE DEF q
<1>2. q * align = align * q /\ q * align \in Nat
  BY <1>1
<1>3. QED
  BY <1>1, <1>2 DEF AlignUp, q

(* What a pool grants covers what was asked for: for every size, alignment and page size. *)
LEMMA GrantCovers ==
  ASSUME NEW r, r.size \in Nat \ {0}, r.align \in Nat, NEW p \in Nat
  PROVE  Span(p, r.size) \subseteq Granted(r, p) /\ p \in Span(p, r.size)
<1> USE SizesAssumption
<1>1. GrantSize(r) \in Nat /\ r.size <= GrantSize(r)
  <2>1. CASE r.align = 0
    BY <2>1 DEF GrantSize
  <2>2. CASE r.align # 0
    BY <2>2, AlignUpGrows DEF GrantSize, Granule
  <2>3. QED
    BY <2>1, <2>2
<1>2. PageCount(r.size) <= PageCount(GrantSize(r))
  <2> DEFINE a == r.size + PageSize - 1
             b == GrantSize(r) + PageSize - 1
  <2>1. PageSize \in Nat \ {0}
    OBVIOUS
  <2>2. a \in Nat /\ b \in Nat /\ a <= b
    BY <1>1, <2>1
  <2> HIDE DEF a, b
  <2>3. a \div PageSize <= b \div PageSize
    BY <2>1, <2>2, DivMonotone
  <2>4. QED
    BY <2>3 DEF PageCount, a, b
<1>3. PageCount(r.size) \in Nat /\ PageCount(GrantSize(r)) \in Nat
  BY <1>1, DivBounds DEF PageCount
<1>4. 1 <= PageCount(r.size)
  <2>1. PageSize \div PageSize = 1
    OBVIOUS
  <2>2. QED
    BY <2>1, DivMonotone DEF PageCount
<1>5. QED
  BY <1>2, <1>3, <1>4 DEF Granted, Span

LEMMA BlockHasItsPage == ASSUME NEW b \in BlockSet PROVE b.ptr \in BlockPages(b)
<1>1. b.ptr \in Nat /\ b.size \in Nat \ {0}
  BY PagesTyped, SizesAssumption DEF BlockSet
<1> DEFINE r == [size |-> b.size, align |-> 0]
<1>2. b.ptr \in Span(b.ptr, r.size)
  BY <1>1, GrantCovers
<1>3. QED
  BY <1>2 DEF BlockPages

(* Two pools that exist at once share no page. *)
LEMMA PoolsApart ==
  ASSUME Inv, NEW h \in Handles, NEW g \in Handles, h # g, Exists(h), Exists(g)
  PROVE  PagesIn(pool[h].region) \cap PagesIn(pool[g].region) = {}
<1>1. pool[h].region \in Regions /\ pool[g].region \in Regions
  BY DEF Inv, TypeOK, Pool
<1>2. pool[h].region # pool[g].region
  BY DEF Inv, Ranges
<1>3. QED
  BY <1>1, <1>2, RegionsDisjoint

(* Where a pool finds room for a request no live allocation is, of any pool. *)
LEMMA GrantIsFresh ==
  ASSUME Inv, NEW t \in Threads, arg[t].op = "alloc", NEW h \in Handles, pool[h].st = "up",
         NEW p \in Places(h, arg[t])
  PROVE  LET b == [ptr |-> p, size |-> arg[t].size]
         IN  /\ b \in BlockSet /\ p \in Pages
             /\ p \in BlockPages(b) /\ BlockPages(b) \subseteq Granted(arg[t], p)
             /\ Granted(arg[t], p) \subseteq PagesIn(pool[h].region) \ reserved[h]
             /\ \A c \in blocks : BlockPages(c) \cap Granted(arg[t], p) = {}
             /\ b \notin blocks
<1> USE DEF Inv
<1> DEFINE b == [ptr |-> p, size |-> arg[t].size]
<1>1. pool[h].region \in Regions
  BY DEF TypeOK, Pool
<1>2. /\ p \in PagesIn(pool[h].region)
      /\ Granted(arg[t], p) \subseteq PagesIn(pool[h].region) \ reserved[h]
  BY DEF Places
<1>3. p \in Pages /\ p \in Nat
  BY <1>1, <1>2, PagesTyped
<1>4. arg[t].size \in Nat \ {0} /\ arg[t].align \in Nat /\ b \in BlockSet
  BY <1>3, RequestTyped
<1>5. BlockPages(b) = Span(p, arg[t].size)
  BY DEF BlockPages
<1>6. p \in BlockPages(b) /\ BlockPages(b) \subseteq Granted(arg[t], p)
  BY <1>3, <1>4, <1>5, GrantCovers
<1>7. ASSUME NEW c \in blocks PROVE BlockPages(c) \cap Granted(arg[t], p) = {}
  <2>1. PICK g \in Handles : pool[g].st = "up" /\ BlockPages(c) \subseteq reserved[g]
    BY DEF Memory
  <2>2. CASE g = h
    BY <1>2, <2>1, <2>2
  <2>3. CASE g # h
    <3>1. PagesIn(pool[h].region) \cap PagesIn(pool[g].region) = {}
      BY <2>1, <2>3, PoolsApart DEF Exists
    <3>2. reserved[g] \subseteq PagesIn(pool[g].region)
      BY DEF Memory
    <3>3. QED
      BY <1>2, <2>1, <3>1, <3>2
  <2>4. QED
    BY <2>2, <2>3
<1>8. b \notin blocks
  BY <1>6, <1>7
<1> HIDE DEF b
<1>9. QED
  BY <1>2, <1>3, <1>4, <1>6, <1>7, <1>8 DEF b

(* A free reaches the pool that made the allocation, and finds its pages reserved. *)
LEMMA FreeFindsBlock ==
  ASSUME Inv, NEW t \in Threads, FreeInPool(t)
  PROVE  LET b == [ptr |-> arg[t].ptr, size |-> arg[t].size]
         IN  /\ b \in BlockSet /\ b \in blocks \ owned /\ Carries(t, b)
             /\ Here(t) \in Handles /\ pool[Here(t)].st = "up"
             /\ BlockPages(b) \subseteq reserved[Here(t)]
<1> USE DEF Inv
<1> DEFINE b == [ptr |-> arg[t].ptr, size |-> arg[t].size]
<1> DEFINE h == Here(t)
<1>1. pc[t] = "inPool" /\ arg[t].op = "free"
  BY DEF FreeInPool
<1>2. b \in BlockSet /\ Carries(t, b)
  BY <1>1, RequestTyped DEF Carries
<1>3. b \in blocks \ owned
  BY <1>2 DEF Custody
<1>4. h \in Handles /\ h \in Listed /\ Wanted(t, h)
  BY <1>1 DEF Scans, Here, TypeOK, Listed
<1>5. arg[t].ptr \in PagesIn(pool[h].region)
  BY <1>1, <1>4 DEF Wanted
<1>6. PICK g \in Handles : pool[g].st = "up" /\ BlockPages(b) \subseteq reserved[g]
  BY <1>3 DEF Memory
<1>7. b.ptr \in PagesIn(pool[g].region)
  BY <1>2, <1>6, BlockHasItsPage DEF Memory
<1>8. g = h
  <2>1. pool[h].st \in {"up", "dying"}
    BY <1>4 DEF Structs
  <2>2. Exists(g) /\ Exists(h)
    BY <1>6, <2>1 DEF Exists
  <2>3. b.ptr = arg[t].ptr
    OBVIOUS
  <2> HIDE DEF b, h
  <2>4. QED
    BY <1>4, <1>5, <1>6, <1>7, <2>2, <2>3, PoolsApart
<1> HIDE DEF b, h
<1>9. QED
  BY <1>2, <1>3, <1>4, <1>6, <1>8 DEF b, h

(* A step of t that respects what the other calls carry keeps Custody. *)
LEMMA CustodyFrame ==
  ASSUME Inv, NEW t \in Threads, Others(t),
         \A b \in BlockSet : Carries(t, b)' =>
           /\ b \in blocks' \ owned'
           /\ Carries(t, b) \/ \A u \in Threads \ {t} : ~Carries(u, b),
         \A b \in BlockSet, u \in Threads \ {t} : Carries(u, b) => b \in blocks' \ owned',
         pc'[t] \in {"lockP", "inPool"} /\ arg'[t].op = "alloc" => tmp'[t] = None,
         pc'[t] = "done" /\ arg'[t].op = "alloc" => tmp'[t] \in Pages \cup {None}
  PROVE  Custody'
<1> USE DEF Inv
<1>1. \A u \in Threads \ {t}, b \in BlockSet : Carries(u, b)' <=> Carries(u, b)
  BY DEF Others, Carries
<1>2. BlockSet' = BlockSet /\ Pages' = Pages
  BY DEF BlockSet, Pages
<1>3. \A u \in Threads, b \in BlockSet : Carries(u, b)' => b \in blocks' \ owned'
  BY <1>1
<1>4. \A u, v \in Threads, b \in BlockSet : Carries(u, b)' /\ Carries(v, b)' => u = v
  BY <1>1 DEF Custody
<1>5. \A u \in Threads :
        /\ pc'[u] \in {"lockP", "inPool"} /\ arg'[u].op = "alloc" => tmp'[u] = None
        /\ pc'[u] = "done" /\ arg'[u].op = "alloc" => tmp'[u] \in Pages \cup {None}
  BY DEF Others, Custody
<1>6. QED
  BY <1>2, <1>3, <1>4, <1>5 DEF Custody

(* Every step keeps each block in one pair of hands. *)
LEMMA CustodyKept == Inv /\ Next => Custody'
<1> SUFFICES ASSUME Inv, Next PROVE Custody'
  OBVIOUS
<1> USE DEF Inv
<1> DEFINE Held(t) == \A b \in BlockSet, u \in Threads \ {t} : Carries(u, b) => b \in blocks' \ owned'
<1>1. ASSUME NEW t \in Threads, Others(t), UNCHANGED <<blocks, owned>>,
             \A b \in BlockSet : Carries(t, b)' => Carries(t, b),
             pc'[t] \in {"lockP", "inPool"} /\ arg'[t].op = "alloc" => tmp'[t] = None,
             pc'[t] = "done" /\ arg'[t].op = "alloc" => tmp'[t] \in Pages \cup {None}
      PROVE  Custody'
  <2>1. \A b \in BlockSet, u \in Threads : Carries(u, b) => b \in blocks' \ owned'
    BY <1>1 DEF Custody
  <2>2. QED
    BY <1>1, <2>1, CustodyFrame
<1>2. ASSUME NEW t \in Threads, Others(t), UNCHANGED <<blocks, owned>>,
             pc'[t] \notin {"lockG", "lockP", "inPool", "done"}
      PROVE  Custody'
  <2>1. \A b \in BlockSet : ~Carries(t, b)'
    BY <1>2 DEF Carries
  <2>2. QED
    BY <1>1, <1>2, <2>1
<1>3. ASSUME NEW t \in Threads, LockGlobal(t) PROVE Custody'
  <2>1. /\ Others(t) /\ UNCHANGED <<blocks, owned>> /\ arg'[t] = arg[t] /\ tmp'[t] = None
        /\ pc[t] = "lockG"
    BY <1>3, StepIsLocal DEF Step, LockGlobal, TypeOK, None
  <2>2. \A b \in BlockSet : Carries(t, b)' => Carries(t, b)
    BY <2>1 DEF Carries
  <2>3. QED
    BY <1>1, <2>1, <2>2
<1>4. ASSUME NEW t \in Threads, LockPool(t) PROVE Custody'
  <2>1. /\ Others(t) /\ UNCHANGED <<blocks, owned>> /\ arg'[t] = arg[t] /\ tmp'[t] = tmp[t]
        /\ pc[t] = "lockP" /\ pc'[t] = "inPool"
    BY <1>4, StepIsLocal DEF Step, LockPool, TypeOK, locals
  <2>2. \A b \in BlockSet : Carries(t, b)' => Carries(t, b)
    BY <2>1 DEF Carries
  <2>3. QED
    BY <1>1, <2>1, <2>2 DEF Custody
<1>5. ASSUME NEW t \in Threads, VisitPool(t) PROVE Custody'
  <2>1. /\ Others(t) /\ UNCHANGED <<blocks, owned>> /\ arg'[t] = arg[t]
        /\ arg[t].op \notin {"alloc", "free"}
    BY <1>5, StepIsLocal DEF Step, VisitPool, WalkOps
  <2>2. \A b \in BlockSet : ~Carries(t, b)'
    BY <2>1 DEF Carries
  <2>3. QED
    BY <1>1, <2>1, <2>2
<1>6. ASSUME NEW t \in Threads, AllocInPool(t) PROVE Custody'
  <2> DEFINE h == Here(t)
  <2> DEFINE places == IF pool[h].st = "up" THEN Places(h, arg[t]) ELSE {}
  <2>0. h \in Handles
    BY <1>6 DEF AllocInPool, Scans, Here, TypeOK
  <2>0a. /\ Others(t) /\ owned' = owned /\ arg'[t] = arg[t] /\ arg[t].op = "alloc" /\ pc[t] = "inPool"
    BY <1>6, StepIsLocal DEF Step, AllocInPool
  <2>1. /\ Others(t) /\ owned' = owned /\ arg'[t] = arg[t] /\ arg[t].op = "alloc" /\ pc[t] = "inPool"
        /\ h \in Handles
    BY <2>0, <2>0a
  <2>2. CASE places = {}
    <3>1. UNCHANGED <<blocks, tmp>>
      BY <1>6, <2>2 DEF AllocInPool
    <3>2. tmp'[t] = None
      BY <2>1, <3>1 DEF Custody
    <3>3. \A b \in BlockSet : ~Carries(t, b)'
      BY <2>1, <3>2 DEF Carries
    <3>4. QED
      BY <1>1, <2>1, <3>1, <3>2, <3>3
  <2>3. CASE places # {}
    <3>1. PICK p \in places :
            /\ blocks' = blocks \cup {[ptr |-> p, size |-> arg[t].size]}
            /\ tmp' = [tmp EXCEPT ![t] = p] /\ pc' = [pc EXCEPT ![t] = "done"]
      BY <1>6, <2>3 DEF AllocInPool
    <3> DEFINE b == [ptr |-> p, size |-> arg[t].size]
    <3>2. pool[h].st = "up" /\ p \in Places(h, arg[t])
      BY <2>3
    <3>3. b \in BlockSet /\ p \in Pages /\ b \notin blocks
      BY <2>1, <3>2, GrantIsFresh
    <3>4. tmp'[t] = p /\ pc'[t] = "done"
      BY <3>1 DEF TypeOK
    <3>5. \A c \in BlockSet : Carries(t, c)' => c = b
      BY <2>1, <3>4 DEF Carries
    <3>6. b \in blocks' \ owned'
      BY <2>1, <3>1, <3>3 DEF TypeOK
    <3>7. \A u \in Threads : ~Carries(u, b)
      BY <3>3 DEF Custody
    <3>8. Held(t)
      BY <2>1, <3>1 DEF Custody
    <3> HIDE DEF b
    <3>9. QED
      BY <2>1, <3>3, <3>4, <3>5, <3>6, <3>7, <3>8, CustodyFrame
  <2>4. QED
    BY <2>2, <2>3
<1>7. ASSUME NEW t \in Threads, FreeInPool(t) PROVE Custody'
  <2> DEFINE b == [ptr |-> arg[t].ptr, size |-> arg[t].size]
  <2>1. /\ Others(t) /\ owned' = owned /\ arg'[t] = arg[t] /\ arg[t].op = "free"
        /\ pc'[t] \in {"done", "bugFree"} /\ blocks \ {b} \subseteq blocks'
    BY <1>7, StepIsLocal DEF Step, FreeInPool, TypeOK
  <2>2. b \in BlockSet /\ Carries(t, b)
    BY <1>7, FreeFindsBlock
  <2> HIDE DEF b
  <2>3. Held(t)
    BY <2>1, <2>2 DEF Custody
  <2>4. \A c \in BlockSet : ~Carries(t, c)'
    BY <2>1 DEF Carries
  <2>5. QED
    BY <2>1, <2>3, <2>4, CustodyFrame
<1>8. ASSUME NEW t \in Threads, FinishAlloc(t) PROVE Custody'
  <2>1. /\ Others(t) /\ blocks' = blocks /\ pc[t] = "done" /\ arg[t].op = "alloc" /\ pc'[t] = "idle"
    BY <1>8, StepIsLocal DEF Step, FinishAlloc, SettleAlloc, Return, ReturnTo, TypeOK
  <2> DEFINE b == [ptr |-> tmp[t], size |-> arg[t].size]
  <2>2. owned' = owned \/ (tmp[t] # None /\ owned' = owned \cup {b})
    BY <1>8 DEF FinishAlloc, SettleAlloc
  <2>3. tmp[t] # None => b \in BlockSet /\ Carries(t, b)
    BY <2>1, RequestTyped DEF Carries, Custody
  <2> HIDE DEF b
  <2>4. Held(t)
    BY <2>1, <2>2, <2>3 DEF Custody
  <2>5. \A c \in BlockSet : ~Carries(t, c)'
    BY <2>1 DEF Carries
  <2>6. QED
    BY <2>1, <2>4, <2>5, CustodyFrame
<1>9. ASSUME NEW t \in Clients, CallFree(t) PROVE Custody'
  <2>1. t \in Threads /\ Others(t)
    BY <1>9, CallIsLocal DEF Call
  <2>2. PICK b \in owned :
          /\ Calls(t, [op |-> "free", ptr |-> b.ptr, size |-> b.size], "lockG")
          /\ owned' = owned \ {b}
    BY <1>9 DEF CallFree
  <2>3. /\ pc'[t] = "lockG" /\ blocks' = blocks
        /\ arg'[t].op = "free" /\ arg'[t].ptr = b.ptr /\ arg'[t].size = b.size
    BY <2>1, <2>2 DEF Calls, TypeOK
  <2>4. b \in blocks /\ b \in BlockSet
    BY DEF TypeOK
  <2>5. b = [ptr |-> b.ptr, size |-> b.size]
    BY <2>4 DEF BlockSet
  <2>6. \A c \in BlockSet : Carries(t, c)' => c = b
    BY <2>3, <2>5 DEF Carries
  <2>7. \A u \in Threads : ~Carries(u, b)
    BY <2>4 DEF Custody
  <2>8. Held(t)
    BY <2>2, <2>3 DEF Custody
  <2>9. QED
    BY <2>1, <2>2, <2>3, <2>4, <2>6, <2>7, <2>8, CustodyFrame
<1>10. ASSUME NEW t \in Clients, CallAlloc(t) \/ CallWalk(t) PROVE Custody'
  <2>1. t \in Threads /\ Others(t)
    BY <1>10, CallIsLocal DEF Call
  <2>2. UNCHANGED <<blocks, owned>> /\ pc'[t] = "lockG" /\ arg'[t].op \in {"alloc", "defrag"}
    BY <1>10, <2>1 DEF CallAlloc, CallWalk, Calls, TypeOK
  <2>3. \A b \in BlockSet : ~Carries(t, b)'
    BY <2>2 DEF Carries
  <2>4. QED
    BY <1>1, <2>1, <2>2, <2>3
<1>11. ASSUME NEW t \in Clients, CallCreate(t) \/ CallDestroy(t) PROVE Custody'
  <2>1. t \in Threads /\ Others(t)
    BY <1>11, CallIsLocal DEF Call
  <2>2. UNCHANGED <<blocks, owned>> /\ pc'[t] \in {"cCheck", "dFind"}
    BY <1>11, <2>1 DEF CallCreate, CallDestroy, Calls, TypeOK
  <2>3. QED
    BY <1>2, <2>1, <2>2
<1>12. ASSUME NEW t \in Threads,
              \/ UseDestroyed(t) \/ FinishFree(t) \/ FinishWalk(t)
              \/ CreateCheck(t) \/ CreateReadId(t) \/ CreateWriteId(t) \/ CreateLock(t) \/ CreateAdd(t)
              \/ CreateReturn(t)
       PROVE  Custody'
  <2>1. Others(t) /\ UNCHANGED <<blocks, owned>>
    BY <1>12, StepIsLocal DEF Step, UseDestroyed, FinishFree, FinishWalk, CreateCheck, CreateReadId,
                              CreateWriteId, CreateLock, CreateAdd, CreateReturn
  <2>2. pc'[t] \notin {"lockG", "lockP", "inPool", "done"}
    BY <1>12 DEF UseDestroyed, FinishFree, FinishWalk, CreateCheck, CreateReadId, CreateWriteId,
                 CreateLock, CreateAdd, CreateReturn, Return, ReturnTo, TypeOK
  <2>3. QED
    BY <1>2, <2>1, <2>2
<1>13. ASSUME NEW t \in Threads,
              \/ DestroyFind(t) \/ DestroyLockPool(t) \/ DestroyPool(t)
              \/ DestroyLockGlobal(t) \/ DestroyDel(t) \/ UseFreed(t)
       PROVE  Custody'
  <2>1. Others(t) /\ UNCHANGED <<blocks, owned>>
    BY <1>13, StepIsLocal DEF Step, DestroyFind, DestroyLockPool, DestroyPool, DestroyLockGlobal,
                              DestroyDel, Unlist, UseFreed
  <2>2. pc'[t] \notin {"lockG", "lockP", "inPool", "done"}
    BY <1>13 DEF DestroyFind, DestroyLockPool, DestroyPool, DestroyLockGlobal, DestroyDel, Unlist,
                 UseFreed, Return, ReturnTo, TypeOK
  <2>3. QED
    BY <1>2, <2>1, <2>2
<1>14. ASSUME MonitorWake PROVE Custody'
  <2>1. /\ Monitor \in Threads /\ Others(Monitor) /\ UNCHANGED <<blocks, owned>>
        /\ arg'[Monitor].op = "monitor"
    BY <1>14, WakeIsLocal, ThreadsAndLabels DEF MonitorWake, TypeOK
  <2>2. \A b \in BlockSet : ~Carries(Monitor, b)'
    BY <2>1 DEF Carries
  <2>3. QED
    BY <1>1, <2>1, <2>2
<1>15. ASSUME ExitBegin \/ ExitStep PROVE Custody'
  <2>1. Rmmod \in Threads /\ Others(Rmmod) /\ UNCHANGED <<blocks, owned>>
    BY <1>15, ExitIsLocal, ThreadsAndLabels DEF ExitBegin, ExitStep, ExitStop, ExitJoin, ExitNext
  <2>2. pc'[Rmmod] \in {"xStop", "xJoin", "bugJoin", "xNext", "exited", "dLockP"}
    BY <1>15, <2>1 DEF ExitBegin, ExitStep, ExitStop, ExitJoin, ExitNext, TypeOK
  <2>3. QED
    BY <1>2, <2>1, <2>2
<1>16. QED
  BY <1>3, <1>4, <1>5, <1>6, <1>7, <1>8, <1>9, <1>10, <1>11, <1>12, <1>13, <1>14, <1>15
     DEF Next, Call, Step

(* A step that leaves the blocks and the bitmaps of the pools in use alone keeps Memory. *)
LEMMA MemoryFrame ==
  ASSUME Inv, UNCHANGED <<reserved, slack, blocks>>,
         \A h \in Handles : /\ reserved[h] # {} => pool'[h].region = pool[h].region
                            /\ pool[h].st = "up" /\ reserved[h] # {} => pool'[h].st = "up"
  PROVE  Memory'
<1> USE DEF Inv
<1>1. NoOverlap'
  BY DEF Memory, NoOverlap
<1>2. \A b \in blocks' : \E h \in Handles : pool'[h].st = "up" /\ BlockPages(b) \subseteq reserved'[h]
  <2>1. ASSUME NEW b \in blocks
        PROVE  \E h \in Handles : pool'[h].st = "up" /\ BlockPages(b) \subseteq reserved'[h]
    <3>1. PICK h \in Handles : pool[h].st = "up" /\ BlockPages(b) \subseteq reserved[h]
      BY DEF Memory
    <3>2. b.ptr \in BlockPages(b)
      BY BlockHasItsPage DEF TypeOK
    <3>3. QED
      BY <3>1, <3>2
  <2>2. QED
    BY <2>1
<1>3. \A h \in Handles : /\ reserved'[h] \subseteq PagesIn(pool'[h].region)
                         /\ pool'[h].st # "up" => reserved'[h] = {}
                         /\ slack'[h] \subseteq reserved'[h]
  BY DEF Memory
<1>4. \A h \in Handles :
        /\ \A b \in blocks' : slack'[h] \cap BlockPages(b) = {}
        /\ \A page \in reserved'[h] \ slack'[h] : \E b \in blocks' : page \in BlockPages(b)
  BY DEF Memory
<1>5. QED
  BY <1>1, <1>2, <1>3, <1>4 DEF Memory

LEMMA AllocMemory == ASSUME Inv, NEW t \in Threads, AllocInPool(t) PROVE Memory'
<1> USE DEF Inv
<1> DEFINE h == Here(t)
<1> DEFINE places == IF pool[h].st = "up" THEN Places(h, arg[t]) ELSE {}
<1>1. h \in Handles
  BY DEF AllocInPool, Scans, Here, TypeOK
<1>2. CASE places = {}
  <2>1. UNCHANGED <<pool, reserved, blocks, slack>>
    BY <1>2 DEF AllocInPool
  <2>2. QED
    BY <2>1, MemoryFrame
<1>3. CASE places # {}
  <2>1. PICK p \in places :
          LET b == [ptr |-> p, size |-> arg[t].size]
          IN  /\ reserved' = [reserved EXCEPT ![h] = @ \cup Granted(arg[t], p)]
              /\ slack' = [slack EXCEPT ![h] = @ \cup (Granted(arg[t], p) \ BlockPages(b))]
              /\ blocks' = blocks \cup {b}
              /\ pool' = Counted(h, arg[t].size, 1)
    BY <1>3 DEF AllocInPool
  <2> DEFINE b == [ptr |-> p, size |-> arg[t].size]
  <2> DEFINE new == Granted(arg[t], p)
  <2>2. pool[h].st = "up" /\ p \in Places(h, arg[t]) /\ arg[t].op = "alloc"
    BY <1>3 DEF AllocInPool
  <2>3. /\ b \in BlockSet /\ b \notin blocks /\ BlockPages(b) \subseteq new
        /\ new \subseteq PagesIn(pool[h].region) \ reserved[h]
        /\ \A c \in blocks : BlockPages(c) \cap new = {}
    BY <1>1, <2>2, GrantIsFresh
  <2>4. /\ blocks' = blocks \cup {b}
        /\ reserved'[h] = reserved[h] \cup new
        /\ slack'[h] = slack[h] \cup (new \ BlockPages(b))
        /\ \A g \in Handles \ {h} : reserved'[g] = reserved[g] /\ slack'[g] = slack[g]
    BY <1>1, <2>1 DEF TypeOK
  <2>5. \A g \in Handles : pool'[g].st = pool[g].st /\ pool'[g].region = pool[g].region
    BY CountingKeepsPools
  <2> HIDE DEF b, new, h
  <2>6. NoOverlap'
    BY <2>3, <2>4 DEF Memory, NoOverlap
  <2>7. \A c \in blocks' : \E g \in Handles : pool'[g].st = "up" /\ BlockPages(c) \subseteq reserved'[g]
    <3>1. ASSUME NEW c \in blocks
          PROVE  \E g \in Handles : pool'[g].st = "up" /\ BlockPages(c) \subseteq reserved'[g]
      <4>1. PICK g \in Handles : pool[g].st = "up" /\ BlockPages(c) \subseteq reserved[g]
        BY DEF Memory
      <4>2. reserved[g] \subseteq reserved'[g]
        BY <2>4
      <4>3. QED
        BY <2>5, <4>1, <4>2
    <3>2. pool'[h].st = "up" /\ BlockPages(b) \subseteq reserved'[h]
      BY <1>1, <2>2, <2>3, <2>4, <2>5 DEF h
    <3>3. QED
      BY <1>1, <2>4, <3>1, <3>2
  <2>8. \A g \in Handles : /\ reserved'[g] \subseteq PagesIn(pool'[g].region)
                           /\ pool'[g].st # "up" => reserved'[g] = {}
                           /\ slack'[g] \subseteq reserved'[g]
    <3>1. pool[h].st = "up"
      BY <2>2 DEF h
    <3>2. QED
      BY <1>1, <2>3, <2>4, <2>5, <3>1 DEF Memory
  <2>9. \A g \in Handles, c \in blocks' : slack'[g] \cap BlockPages(c) = {}
    <3>1. ASSUME NEW g \in Handles, NEW c \in blocks PROVE slack'[g] \cap BlockPages(c) = {}
      BY <2>3, <2>4 DEF Memory
    <3>2. ASSUME NEW g \in Handles PROVE slack'[g] \cap BlockPages(b) = {}
      <4>1. slack[g] \cap BlockPages(b) = {}
        <5>1. CASE g = h
          BY <2>3, <5>1 DEF Memory
        <5>2. CASE g # h
          <6>1. CASE pool[g].st = "up"
            <7>1. PagesIn(pool[h].region) \cap PagesIn(pool[g].region) = {}
              BY <1>1, <2>2, <5>2, <6>1, PoolsApart DEF Exists, h
            <7>2. slack[g] \subseteq PagesIn(pool[g].region)
              BY DEF Memory
            <7>3. QED
              BY <2>3, <7>1, <7>2
          <6>2. CASE pool[g].st # "up"
            BY <6>2 DEF Memory
          <6>3. QED
            BY <6>1, <6>2
        <5>3. QED
          BY <5>1, <5>2
      <4>2. QED
        BY <2>4, <4>1
    <3>3. QED
      BY <2>4, <3>1, <3>2
  <2>10. ASSUME NEW g \in Handles, NEW page \in reserved'[g] \ slack'[g]
         PROVE  \E c \in blocks' : page \in BlockPages(c)
    <3>1. CASE page \in reserved[g]
      <4>1. page \in reserved[g] \ slack[g]
        BY <2>4, <2>10, <3>1
      <4>2. QED
        BY <2>4, <4>1 DEF Memory
    <3>2. CASE page \notin reserved[g]
      <4>1. page \in BlockPages(b)
        BY <2>4, <2>10, <3>2
      <4>2. QED
        BY <2>4, <4>1
    <3>3. QED
      BY <3>1, <3>2
  <2>11. QED
    BY <2>6, <2>7, <2>8, <2>9, <2>10 DEF Memory
<1>4. QED
  BY <1>2, <1>3

(* The free clears the pages of its own block and no other's, and cannot stop the thread. *)
LEMMA FreeMemory ==
  ASSUME Inv, NEW t \in Threads, FreeInPool(t) PROVE Memory' /\ pc'[t] = "done"
<1> USE DEF Inv
<1> DEFINE h == Here(t)
<1> DEFINE b == [ptr |-> arg[t].ptr, size |-> arg[t].size]
<1>1. /\ h \in Handles /\ pool[h].st = "up" /\ b \in blocks
      /\ BlockPages(b) \subseteq reserved[h]
  BY FreeFindsBlock
<1>2. Cleared(b) = BlockPages(b)
  BY DEF Cleared, BlockPages
<1>3. /\ reserved' = [reserved EXCEPT ![h] = @ \ BlockPages(b)]
      /\ blocks' = blocks \ {b} /\ slack' = slack
      /\ pc' = [pc EXCEPT ![t] = "done"]
  <2>1. ~(pool[h].st # "up" \/ ~(Cleared(b) \subseteq reserved[h]))
    BY <1>1, <1>2
  <2>2. reserved' = [reserved EXCEPT ![h] = @ \ Cleared(b)]
    BY <2>1 DEF FreeInPool
  <2>3. QED
    BY <1>2, <2>1, <2>2 DEF FreeInPool
<1>4. /\ reserved'[h] = reserved[h] \ BlockPages(b)
      /\ \A g \in Handles \ {h} : reserved'[g] = reserved[g]
      /\ pc'[t] = "done"
  BY <1>1, <1>3 DEF TypeOK
<1>5. \A g \in Handles : pool'[g].st = pool[g].st /\ pool'[g].region = pool[g].region
  BY CountingKeepsPools
<1> HIDE DEF b, h
<1>6. \A c \in blocks' : c \in blocks /\ c # b /\ BlockPages(c) \cap BlockPages(b) = {}
  BY <1>1, <1>3 DEF Memory, NoOverlap
<1>7. NoOverlap'
  BY <1>6 DEF Memory, NoOverlap
<1>8. ASSUME NEW c \in blocks'
      PROVE  \E g \in Handles : pool'[g].st = "up" /\ BlockPages(c) \subseteq reserved'[g]
  <2>1. PICK g \in Handles : pool[g].st = "up" /\ BlockPages(c) \subseteq reserved[g]
    BY <1>6 DEF Memory
  <2>2. BlockPages(c) \subseteq reserved'[g]
    BY <1>4, <1>6, <2>1
  <2>3. QED
    BY <1>5, <2>1, <2>2
<1>9. \A g \in Handles : /\ reserved'[g] \subseteq PagesIn(pool'[g].region)
                         /\ pool'[g].st # "up" => reserved'[g] = {}
                         /\ slack'[g] \subseteq reserved'[g]
  <2>1. slack[h] \cap BlockPages(b) = {}
    BY <1>1 DEF Memory
  <2>2. \A g \in Handles : reserved'[g] \subseteq reserved[g]
    BY <1>4
  <2>3. \A g \in Handles : slack'[g] \subseteq reserved'[g]
    BY <1>3, <1>4, <2>1 DEF Memory
  <2>4. QED
    BY <1>5, <2>2, <2>3 DEF Memory
<1>10. \A g \in Handles, c \in blocks' : slack'[g] \cap BlockPages(c) = {}
  BY <1>3, <1>6 DEF Memory
<1>11. ASSUME NEW g \in Handles, NEW page \in reserved'[g] \ slack'[g]
       PROVE  \E c \in blocks' : page \in BlockPages(c)
  <2>1. page \in reserved[g] \ slack[g]
    BY <1>3, <1>4, <1>11
  <2>2. PICK c \in blocks : page \in BlockPages(c)
    BY <2>1 DEF Memory
  <2>3. c # b
    <3>1. CASE g = h
      BY <1>4, <1>11, <2>2, <3>1
    <3>2. CASE g # h
      <4>1. pool[g].st = "up"
        BY <2>1 DEF Memory
      <4>2. PagesIn(pool[h].region) \cap PagesIn(pool[g].region) = {}
        BY <1>1, <3>2, <4>1, PoolsApart DEF Exists
      <4>3. page \in PagesIn(pool[g].region) /\ BlockPages(b) \subseteq PagesIn(pool[h].region)
        BY <1>1, <2>1 DEF Memory
      <4>4. QED
        BY <2>2, <4>2, <4>3
    <3>3. QED
      BY <3>1, <3>2
  <2>4. QED
    BY <1>3, <2>2, <2>3
<1>12. QED
  BY <1>4, <1>7, <1>8, <1>9, <1>10, <1>11 DEF Memory

(* Every step keeps the bitmaps in tune with the blocks. *)
LEMMA MemoryKept == Inv /\ Next => Memory'
<1> SUFFICES ASSUME Inv, Next PROVE Memory'
  OBVIOUS
<1> USE DEF Inv
<1>0. pool \in [Handles -> Pool]
  BY DEF TypeOK
<1>1. ASSUME NEW t \in Threads,
             \/ LockGlobal(t) \/ LockPool(t) \/ VisitPool(t) \/ UseDestroyed(t)
             \/ FinishAlloc(t) \/ FinishFree(t) \/ FinishWalk(t) \/ CreateReadId(t) \/ CreateLock(t)
             \/ DestroyFind(t) \/ DestroyLockPool(t) \/ DestroyLockGlobal(t)
             \/ CreateReturn(t) \/ UseFreed(t)
      PROVE  Memory'
  <2>1. UNCHANGED <<pool, reserved, slack, blocks>>
    BY <1>1 DEF LockGlobal, LockPool, VisitPool, UseDestroyed, FinishAlloc, SettleAlloc, FinishFree,
                FinishWalk, CreateReadId, CreateLock, DestroyFind, DestroyLockPool,
                DestroyLockGlobal, CreateReturn, Return, ReturnTo, UseFreed
  <2>2. QED
    BY <2>1, MemoryFrame
<1>2. ASSUME NEW t \in Clients, Call(t) PROVE Memory'
  <2>1. UNCHANGED <<pool, reserved, slack, blocks>>
    BY <1>2 DEF Call, CallAlloc, CallFree, CallWalk, CallCreate, CallDestroy, Calls
  <2>2. QED
    BY <2>1, MemoryFrame
<1>3. ASSUME MonitorWake \/ ExitBegin \/ ExitStep PROVE Memory'
  <2>1. UNCHANGED <<pool, reserved, slack, blocks>>
    BY <1>3 DEF MonitorWake, ExitBegin, ExitStep, ExitStop, ExitJoin, ExitNext
  <2>2. QED
    BY <2>1, MemoryFrame
<1>4. ASSUME NEW t \in Threads, CreateCheck(t) PROVE Memory'
  <2>1. UNCHANGED <<reserved, slack, blocks>>
    BY <1>4 DEF CreateCheck
  <2>2. \A h \in Handles : pool'[h] = pool[h] \/ pool[h].st = "free"
    BY <1>0, <1>4 DEF CreateCheck, FreeStructs
  <2>3. QED
    BY <2>1, <2>2, MemoryFrame DEF Memory
<1>5. ASSUME NEW t \in Threads, CreateWriteId(t) \/ CreateAdd(t) \/ DestroyDel(t) PROVE Memory'
  <2>1. UNCHANGED <<reserved, slack, blocks>>
    BY <1>5 DEF CreateWriteId, CreateAdd, DestroyDel, Unlist
  <2>2. hnd[t] \in Handles /\ pool[hnd[t]].st # "up"
    BY <1>5 DEF CreateWriteId, CreateAdd, DestroyDel, Unlist, Structs, Placed, MakeLabels, LeftLabels, KillLabels
  <2>3. \A h \in Handles \ {hnd[t]} : pool'[h] = pool[h]
    BY <1>0, <1>5 DEF CreateWriteId, CreateAdd, DestroyDel, Unlist
  <2>4. QED
    BY <2>1, <2>2, <2>3, MemoryFrame DEF Memory
<1>6. ASSUME NEW t \in Threads, DestroyPool(t) PROVE Memory'
  <2>1. UNCHANGED <<reserved, slack, blocks>>
    BY <1>6 DEF DestroyPool
  <2>2. \A h \in Handles : pool'[h] = pool[h] \/ (h = hnd[t] /\ reserved[h] = {})
    BY <1>0, <1>6 DEF DestroyPool
  <2>3. QED
    BY <2>1, <2>2, MemoryFrame
<1>7. QED
  BY <1>1, <1>2, <1>3, <1>4, <1>5, <1>6, AllocMemory, FreeMemory DEF Next, Step

LEMMA FreeFindsKept == Inv /\ Next => FreeFindsItsPool'
<1> SUFFICES ASSUME Inv, Next PROVE FreeFindsItsPool'
  OBVIOUS
<1> USE DEF Inv
<1>1. ASSUME NEW t \in Threads, Others(t), pc'[t] # "bugFree" PROVE FreeFindsItsPool'
  BY <1>1 DEF Others, FreeFindsItsPool
<1>2. ASSUME NEW t \in Threads, Step(t) PROVE FreeFindsItsPool'
  <2>1. Others(t)
    BY <1>2, StepIsLocal
  <2>2. pc'[t] # "bugFree"
    <3>1. CASE FreeInPool(t)
      BY <3>1, FreeMemory
    <3>2. CASE \/ LockGlobal(t) \/ LockPool(t) \/ AllocInPool(t) \/ VisitPool(t) \/ UseDestroyed(t)
      BY <3>2 DEF LockGlobal, LockPool, AllocInPool, VisitPool, UseDestroyed, Scan, TypeOK
    <3>3. CASE FinishAlloc(t) \/ FinishFree(t) \/ FinishWalk(t) \/ CreateReturn(t)
      BY <3>3 DEF FinishAlloc, SettleAlloc, FinishFree, FinishWalk, CreateReturn, Return, ReturnTo,
                  TypeOK
    <3>4. CASE \/ CreateCheck(t) \/ CreateReadId(t) \/ CreateWriteId(t) \/ CreateLock(t)
               \/ CreateAdd(t)
      BY <3>4 DEF CreateCheck, CreateReadId, CreateWriteId, CreateLock, CreateAdd, Return,
                  ReturnTo, TypeOK
    <3>5. CASE \/ DestroyFind(t) \/ DestroyLockPool(t) \/ DestroyPool(t)
               \/ DestroyLockGlobal(t) \/ DestroyDel(t) \/ UseFreed(t)
      BY <3>5 DEF DestroyFind, DestroyLockPool, DestroyPool, DestroyLockGlobal, DestroyDel, Unlist,
                  UseFreed, Return, ReturnTo, TypeOK
    <3>6. QED
      BY <1>2, <3>1, <3>2, <3>3, <3>4, <3>5 DEF Step
  <2>3. QED
    BY <1>1, <2>1, <2>2
<1>3. ASSUME NEW t \in Clients, Call(t) PROVE FreeFindsItsPool'
  <2>1. t \in Threads /\ Others(t)
    BY <1>3, CallIsLocal
  <2>2. pc'[t] \in {"lockG", "cCheck", "dFind"}
    BY <1>3, <2>1 DEF Call, CallAlloc, CallFree, CallWalk, CallCreate, CallDestroy, Calls, TypeOK
  <2>3. QED
    BY <1>1, <2>1, <2>2
<1>4. CASE MonitorWake
  <2>1. Monitor \in Threads /\ Others(Monitor) /\ pc'[Monitor] \in {"lockG", "exited"}
    BY <1>4, WakeIsLocal, ThreadsAndLabels DEF MonitorWake, TypeOK
  <2>2. QED
    BY <1>1, <2>1
<1>5. CASE ExitBegin \/ ExitStep
  <2>1. Rmmod \in Threads /\ Others(Rmmod)
    BY <1>5, ExitIsLocal, ThreadsAndLabels
  <2>2. pc'[Rmmod] \in {"xStop", "xJoin", "bugJoin", "xNext", "exited", "dLockP"}
    BY <1>5, <2>1 DEF ExitBegin, ExitStep, ExitStop, ExitJoin, ExitNext, TypeOK
  <2>3. QED
    BY <1>1, <2>1, <2>2
<1>6. QED
  BY <1>2, <1>3, <1>4, <1>5 DEF Next

LEMMA InitInv == Init => Inv
<1> SUFFICES ASSUME Init PROVE Inv
  OBVIOUS
<1> USE DEF Init
<1> USE SizesAssumption, RegionsAssumption
<1>1. 1 \in Handles /\ Handles \subseteq Nat
  BY DEF Handles
<1>2. /\ \A t \in Threads : pc[t] = "idle" /\ arg[t].op = "none" /\ cur[t] = 0 /\ hnd[t] = None
      /\ \A h \in Handles : /\ reserved[h] = {} /\ slack[h] = {} /\ poolMutex[h] = NoThread
                            /\ pool[h].st = IF h = 1 /\ list # <<>> THEN "up" ELSE "free"
  BY DEF None
<1>3. TypeOK
  <2>1. pool \in [Handles -> Pool]
    BY DEF Pool
  <2>2. list \in Seq(Handles)
    <3>1. CASE list = <<1>>
      BY <1>1, <3>1
    <3>2. CASE list = <<>>
      BY <3>2
    <3>3. QED
      BY <3>1, <3>2
  <2>2a. nextId \in Nat /\ poolCount \in Nat /\ totalSize \in Int
    BY <1>1
  <2>3. pc \in [Threads -> Labels] /\ arg \in [Threads -> Arguments]
    BY ThreadsAndLabels DEF Labels
  <2>4. reserved \in [Handles -> SUBSET Pages] /\ slack \in [Handles -> SUBSET Pages]
    OBVIOUS
  <2>5. QED
    BY <2>1, <2>2, <2>2a, <2>3, <2>4 DEF TypeOK, None
<1>4. Mutexes
  BY <1>2, NoThreadNone DEF Mutexes, HoldsGlobal, HoldsPool
<1>5. Requested
  BY <1>2, ThreadsAndLabels DEF Requested, ScanLabels, MakeLabels, KillLabels
<1>6. Scans
  BY <1>2 DEF Scans
<1>7. Structs
  <2>1. /\ \A i, j \in 1..Len(list) : list[i] = list[j] => i = j
        /\ poolCount = Len(list)
    <3>1. CASE list = <<1>> /\ poolCount = 1
      <4>1. Len(list) = 1
        BY <3>1
      <4>2. QED
        BY <3>1, <4>1
    <3>2. CASE list = <<>> /\ poolCount = 0
      <4>1. Len(list) = 0
        BY <3>2
      <4>2. QED
        BY <3>2, <4>1
    <3>3. QED
      BY <3>1, <3>2
  <2>2. \A h \in Handles : pool[h].st \in {"up", "dying"} <=> h \in Listed
    <3>1. CASE list = <<1>>
      BY <1>2, <3>1 DEF Listed
    <3>2. CASE list = <<>>
      BY <1>2, <3>2 DEF Listed
    <3>3. QED
      BY <3>1, <3>2
  <2>3. \A h \in Handles : pool[h].st # "dying"
    BY <1>2
  <2>4. QED
    BY <1>2, <2>1, <2>2, <2>3, ThreadsAndLabels DEF Structs, Placed, MakeLabels, LeftLabels, KillLabels
<1>8. Ranges
  BY <1>2 DEF Ranges, Exists, MakeLabels
<1>9. Custody
  BY <1>2 DEF Custody, Carries
<1>10. Memory
  BY <1>2 DEF Memory, NoOverlap
<1>11. FreeFindsItsPool
  BY <1>2 DEF FreeFindsItsPool
<1>12. QED
  BY <1>3, <1>4, <1>5, <1>6, <1>7, <1>8, <1>9, <1>10, <1>11 DEF Inv

(* A step that changes nothing keeps everything. *)
LEMMA StutterKeeps == Inv /\ UNCHANGED vars => Inv'
<1> SUFFICES ASSUME Inv, UNCHANGED vars PROVE Inv'
  OBVIOUS
<1> USE DEF Inv, vars, manager, locals
<1>1. TypeOK'
  BY DEF TypeOK
<1>2. Mutexes'
  BY DEF Mutexes, HoldsGlobal, HoldsPool, Here
<1>3. Requested'
  BY DEF Requested
<1>4. Scans'
  BY DEF Scans, Wanted, Here
<1>5. Structs'
  BY DEF Structs, Placed, Listed
<1>6. Ranges'
  BY DEF Ranges, Exists
<1>7. Custody'
  BY DEF Custody, Carries
<1>8. Memory'
  BY DEF Memory, NoOverlap
<1>9. FreeFindsItsPool'
  BY DEF FreeFindsItsPool
<1>10. QED
  BY <1>1, <1>2, <1>3, <1>4, <1>5, <1>6, <1>7, <1>8, <1>9

LEMMA InvKept == Inv /\ [Next]_vars => Inv'
<1> SUFFICES ASSUME Inv, Next PROVE Inv'
  BY StutterKeeps
<1>1. TypeOK' /\ Mutexes' /\ Requested'
  BY TypeKept, MutexesKept, RequestedKept
<1>2. Scans' /\ Structs' /\ Ranges'
  BY ScansKept, StructsKept, RangesKept
<1>3. Custody' /\ Memory' /\ FreeFindsItsPool'
  BY CustodyKept, MemoryKept, FreeFindsKept
<1>4. QED
  BY <1>1, <1>2, <1>3 DEF Inv

(* The invariant holds of every reachable state. *)
THEOREM InvHolds == Spec => []Inv
  BY InitInv, InvKept, PTL DEF Spec

(* What the invariant says, by the names of the properties. *)
LEMMA InvGives ==
  ASSUME Inv
  PROVE  LockOrder /\ PagesAccounted /\ OnlyCallersMeetFreed
<1> USE DEF Inv
<1>1. LockOrder
  BY DEF Mutexes, HoldsPool, LockOrder
<1>2. ASSUME NEW h \in Listed
      PROVE  reserved[h] = slack[h] \cup UNION {BlockPages(b) : b \in BlocksIn(h)}
  <2>1. h \in Handles /\ Exists(h)
    BY DEF TypeOK, Listed, Structs, Exists
  <2>2. ASSUME NEW b \in blocks, NEW g \in Handles, pool[g].st = "up",
               BlockPages(b) \subseteq reserved[g]
        PROVE  b.ptr \in PagesIn(pool[h].region) <=> g = h
    <3>1. b.ptr \in PagesIn(pool[g].region)
      BY <2>2, BlockHasItsPage DEF TypeOK, Memory
    <3>2. QED
      BY <2>1, <2>2, <3>1, PoolsApart DEF Exists
  <2>3. ASSUME NEW b \in blocks, b.ptr \in PagesIn(pool[h].region)
        PROVE  BlockPages(b) \subseteq reserved[h]
    BY <2>2, <2>3 DEF Memory
  <2>4. ASSUME NEW page \in reserved[h], page \notin slack[h]
        PROVE  \E b \in blocks : b.ptr \in PagesIn(pool[h].region) /\ page \in BlockPages(b)
    <3>1. PICK b \in blocks : page \in BlockPages(b)
      BY <2>1, <2>4 DEF Memory
    <3>2. PICK g \in Handles : pool[g].st = "up" /\ BlockPages(b) \subseteq reserved[g]
      BY DEF Memory
    <3>3. page \in PagesIn(pool[h].region) /\ page \in PagesIn(pool[g].region)
      BY <2>1, <2>4, <3>1, <3>2 DEF Memory
    <3>4. g = h
      BY <2>1, <3>2, <3>3, PoolsApart DEF Exists
    <3>5. QED
      BY <2>2, <3>1, <3>2, <3>4
  <2>5. slack[h] \subseteq reserved[h]
    BY <2>1 DEF Memory
  <2> DEFINE mine == BlocksIn(h)
  <2>6. \A b \in mine : BlockPages(b) \subseteq reserved[h]
    BY <2>3 DEF BlocksIn
  <2>7. \A page \in reserved[h] : page \in slack[h] \/ \E b \in mine : page \in BlockPages(b)
    BY <2>4 DEF BlocksIn
  <2> DEFINE held == UNION {BlockPages(b) : b \in mine}
  <2> HIDE DEF mine
  <2>8. held \subseteq reserved[h]
    BY <2>6
  <2>9. ASSUME NEW page \in reserved[h] PROVE page \in held \/ page \in slack[h]
    BY <2>7
  <2> HIDE DEF held
  <2>10. reserved[h] = slack[h] \cup held
    BY <2>5, <2>8, <2>9
  <2>11. QED
    BY <2>10 DEF held, mine
<1>3. OnlyCallersMeetFreed
  <2>1. Listed \subseteq Handles
    BY DEF TypeOK, Listed
  <2>2. ASSUME NEW t \in Threads, pc[t] \in {"lockP", "inPool", "bugUse", "bugFree"}
        PROVE  pool[Here(t)].st \in {"up", "dying"}
    <3>1. Here(t) \in Listed
      BY <2>2 DEF Scans, Here, Listed
    <3>2. QED
      BY <2>1, <3>1 DEF Structs
  <2>3. ASSUME NEW t \in Threads, pc[t] \in {"bugLost", "bugTwice", "bugDel"}
        PROVE  t \in Clients /\ arg[t].op \in {"create", "destroy"}
    <3>1. t # Rmmod
      BY <2>3 DEF Structs, Placed
    <3>2. QED
      BY <2>3, <3>1 DEF Requested, KillLabels
  <2>4. pc[Rmmod] \in {"dLockP", "dPool"} => pool[hnd[Rmmod]].st = "up"
    BY ThreadsAndLabels DEF Structs, Placed
  <2>5. QED
    BY <2>2, <2>3, <2>4 DEF OnlyCallersMeetFreed
<1>4. QED
  BY <1>1, <1>2, <1>3 DEF PagesAccounted

(* Types hold always, whatever the callers ask for and however they interleave. *)
THEOREM TypeSafe == Spec => []TypeOK
<1>1. Inv => TypeOK
  BY DEF Inv
<1>2. QED
  BY <1>1, InvHolds, PTL

(* No two live allocations share a page: for every set of regions, sizes and alignments. *)
THEOREM NoOverlapSafe == Spec => []NoOverlap
<1>1. Inv => NoOverlap
  BY DEF Inv, Memory
<1>2. QED
  BY <1>1, InvHolds, PTL

(* A pool's bitmap is exactly its live allocations and what alignment loses, always. *)
THEOREM PagesAccountedSafe == Spec => []PagesAccounted
<1>1. Inv => PagesAccounted
  BY InvGives
<1>2. QED
  BY <1>1, InvHolds, PTL

(* pool_manager_free never stops its thread in gen_pool_free: callers that free what they got,
   with the size they asked for, always reach the pool that made the allocation. *)
THEOREM FreeFindsItsPoolSafe == Spec => []FreeFindsItsPool
<1>1. Inv => FreeFindsItsPool
  BY DEF Inv
<1>2. QED
  BY <1>1, InvHolds, PTL

(* The order of the mutexes is respected by every thread, pool_destroy's included. *)
THEOREM LockOrderSafe == Spec => []LockOrder
<1>1. Inv => LockOrder
  BY InvGives
<1>2. QED
  BY <1>1, InvHolds, PTL

(* Whatever ids are shared and whoever destroys what twice: no scan of the list reaches a freed
   struct memory_pool, and of the threads only callers that create or destroy pools do. *)
THEOREM OnlyCallersMeetFreedSafe == Spec => []OnlyCallersMeetFreed
<1>1. Inv => OnlyCallersMeetFreed
  BY InvGives
<1>2. QED
  BY <1>1, InvHolds, PTL

----------------------------------------------------------------------------
(* The manager implements the page allocator: AllocInPool allocates, FreeInPool releases,
   CreateAdd extends the memory, DestroyPool withdraws it, and the rest stutter. *)

AbstractNext == Abstract!Next \/ UNCHANGED <<Managed, blocks>>

LEMMA InitRefines == Init => Abstract!Init
<1> SUFFICES ASSUME Init PROVE Abstract!Init
  OBVIOUS
<1> USE DEF Init
<1>1. 1 \in Handles
  BY SizesAssumption DEF Handles
<1>2. CASE list # <<>>
  <2>1. \A h \in Handles : pool[h].st = "up" <=> h = 1
    BY <1>2
  <2>2. pool[1].region = DefaultRegion
    BY <1>1
  <2>3. Managed = PagesIn(DefaultRegion)
    BY <1>1, <2>1, <2>2 DEF Managed
  <2>4. QED
    BY <2>3, RegionsAssumption DEF Abstract!Init
<1>3. CASE list = <<>>
  <2>1. \A h \in Handles : pool[h].st # "up"
    BY <1>3
  <2>2. Managed = {}
    BY <2>1 DEF Managed
  <2>3. QED
    BY <2>2 DEF Abstract!Init
<1>4. QED
  BY <1>2, <1>3

LEMMA AllocRefines == ASSUME Inv, NEW t \in Threads, AllocInPool(t) PROVE AbstractNext
<1> USE DEF Inv
<1> DEFINE h == Here(t)
<1> DEFINE places == IF pool[h].st = "up" THEN Places(h, arg[t]) ELSE {}
<1>1. h \in Handles
  BY DEF AllocInPool, Scans, Here, TypeOK
<1>2. Managed' = Managed
  BY CountingKeepsPools DEF Managed
<1>3. CASE places = {}
  <2>1. blocks' = blocks
    BY <1>3 DEF AllocInPool
  <2>2. QED
    BY <1>2, <2>1 DEF AbstractNext
<1>4. CASE places # {}
  <2>1. PICK p \in places : blocks' = blocks \cup {[ptr |-> p, size |-> arg[t].size]}
    BY <1>4 DEF AllocInPool
  <2> DEFINE b == [ptr |-> p, size |-> arg[t].size]
  <2>2. pool[h].st = "up" /\ p \in Places(h, arg[t]) /\ arg[t].op = "alloc"
    BY <1>4 DEF AllocInPool
  <2>3. /\ b \in BlockSet /\ BlockPages(b) \subseteq PagesIn(pool[h].region)
        /\ \A c \in blocks : BlockPages(c) \cap BlockPages(b) = {}
    BY <1>1, <2>2, GrantIsFresh
  <2> HIDE DEF b, h
  <2>4. BlockPages(b) \subseteq Managed
    BY <1>1, <2>2, <2>3 DEF Managed, h
  <2>5. Abstract!Allocate(b)
    BY <1>2, <2>1, <2>3, <2>4 DEF Abstract!Allocate, Abstract!Apart, b
  <2>6. QED
    BY <2>3, <2>5 DEF AbstractNext, Abstract!Next
<1>5. QED
  BY <1>3, <1>4

LEMMA FreeRefines == ASSUME Inv, NEW t \in Threads, FreeInPool(t) PROVE AbstractNext
<1> USE DEF Inv
<1> DEFINE b == [ptr |-> arg[t].ptr, size |-> arg[t].size]
<1>1. Managed' = Managed
  BY CountingKeepsPools DEF Managed
<1>2. b \in BlockSet /\ b \in blocks
  BY FreeFindsBlock
<1>3. blocks' = blocks \/ blocks' = blocks \ {b}
  BY DEF FreeInPool
<1>4. QED
  BY <1>1, <1>2, <1>3 DEF AbstractNext, Abstract!Next, Abstract!Release

LEMMA AddRefines == ASSUME Inv, NEW t \in Threads, CreateAdd(t) PROVE AbstractNext
<1> USE DEF Inv
<1> DEFINE h == hnd[t]
<1> DEFINE extent == PagesIn(pool[h].region)
<1>1. h \in Handles /\ pool[h].st = "new" /\ pool[h].region \in Regions
  BY DEF CreateAdd, Structs, Placed, MakeLabels, TypeOK, Pool
<1>2. pool' = [pool EXCEPT ![h].st = "up"] /\ blocks' = blocks
  BY DEF CreateAdd
<1>3. pool \in [Handles -> Pool]
  BY DEF TypeOK
<1>4. /\ \A g \in Handles : pool'[g].region = pool[g].region
      /\ \A g \in Handles \ {h} : pool'[g].st = pool[g].st
      /\ pool'[h].st = "up"
  BY <1>1, <1>2, <1>3 DEF Pool
<1> HIDE DEF h
<1>5. Managed' = Managed \cup extent
  BY <1>1, <1>4 DEF Managed
<1>6. extent \cap Managed = {}
  <2>1. ASSUME NEW g \in Handles, pool[g].st = "up" PROVE extent \cap PagesIn(pool[g].region) = {}
    BY <1>1, <2>1, PoolsApart DEF Exists
  <2>2. QED
    BY <2>1 DEF Managed
<1>7. extent \in {PagesIn(r) : r \in Regions}
  BY <1>1
<1>8. QED
  BY <1>2, <1>5, <1>6, <1>7 DEF AbstractNext, Abstract!Next, Abstract!Extend

LEMMA DestroyRefines == ASSUME Inv, NEW t \in Threads, DestroyPool(t) PROVE AbstractNext
<1> USE DEF Inv
<1> DEFINE h == hnd[t]
<1> DEFINE extent == PagesIn(pool[h].region)
<1>1. h \in Handles /\ pool[h].region \in Regions
  BY DEF DestroyPool, Structs, Placed, LeftLabels, KillLabels, TypeOK, Pool
<1>2. blocks' = blocks
  BY DEF DestroyPool
<1>3. CASE reserved[h] # {}
  BY <1>2, <1>3 DEF DestroyPool, AbstractNext, Managed
<1>3a. CASE pool[h].st # "up"
  <2>1. pool' = pool
    BY <1>1, <1>3a DEF DestroyPool, TypeOK, Pool
  <2>2. QED
    BY <1>2, <2>1 DEF AbstractNext, Managed
<1>4. CASE reserved[h] = {} /\ pool[h].st = "up"
  <2>1. pool' = [pool EXCEPT ![h].st = "dying"] /\ pool \in [Handles -> Pool]
    BY <1>1, <1>4 DEF DestroyPool, TypeOK
  <2>2. /\ \A g \in Handles : pool'[g].region = pool[g].region
        /\ \A g \in Handles \ {h} : pool'[g].st = pool[g].st
        /\ pool'[h].st = "dying"
    BY <1>1, <2>1 DEF Pool
  <2>2a. pool[h].st = "up"
    BY <1>4
  <2> HIDE DEF h
  <2>3. ASSUME NEW g \in Handles, g # h, pool[g].st = "up"
        PROVE  extent \cap PagesIn(pool[g].region) = {}
    BY <1>1, <2>2a, <2>3, PoolsApart DEF Exists
  <2>4. Managed' = Managed \ extent
    <3>1. Managed' = UNION {PagesIn(pool[g].region) : g \in {f \in Handles \ {h} : pool[f].st = "up"}}
      BY <1>1, <2>2 DEF Managed
    <3>2. Managed = extent \cup UNION {PagesIn(pool[g].region) : g \in {f \in Handles \ {h} : pool[f].st = "up"}}
      BY <1>1, <2>2a DEF Managed
    <3>3. QED
      BY <2>3, <3>1, <3>2
  <2>5. ASSUME NEW b \in blocks PROVE BlockPages(b) \cap extent = {}
    <3>1. PICK g \in Handles : pool[g].st = "up" /\ BlockPages(b) \subseteq reserved[g]
      BY DEF Memory
    <3>2. b.ptr \in BlockPages(b)
      BY BlockHasItsPage DEF TypeOK
    <3>3. g # h /\ reserved[g] \subseteq PagesIn(pool[g].region)
      BY <1>4, <3>1, <3>2 DEF Memory, h
    <3>4. QED
      BY <2>3, <3>1, <3>3
  <2>6. extent \in {PagesIn(r) : r \in Regions}
    BY <1>1
  <2>7. QED
    BY <1>2, <2>4, <2>5, <2>6 DEF AbstractNext, Abstract!Next, Abstract!Withdraw
<1>5. QED
  BY <1>3, <1>3a, <1>4

(* No other step touches the memory in use. *)
LEMMA RestRefines ==
  ASSUME Inv, Next,
         \A t \in Threads : /\ ~AllocInPool(t) /\ ~FreeInPool(t)
                            /\ ~CreateAdd(t) /\ ~DestroyPool(t)
  PROVE  AbstractNext
<1> USE DEF Inv
<1>1. ASSUME UNCHANGED <<pool, blocks>> PROVE AbstractNext
  BY <1>1 DEF AbstractNext, Managed
<1>2. ASSUME NEW t \in Threads,
             \/ LockGlobal(t) \/ LockPool(t) \/ VisitPool(t) \/ UseDestroyed(t)
             \/ FinishAlloc(t) \/ FinishFree(t) \/ FinishWalk(t) \/ CreateReadId(t) \/ CreateLock(t)
             \/ DestroyFind(t) \/ DestroyLockPool(t) \/ DestroyLockGlobal(t)
             \/ CreateReturn(t) \/ UseFreed(t)
      PROVE  UNCHANGED <<pool, blocks>>
  BY <1>2 DEF LockGlobal, LockPool, VisitPool, UseDestroyed, FinishAlloc, SettleAlloc, FinishFree,
              FinishWalk, CreateReadId, CreateLock, DestroyFind, DestroyLockPool, DestroyLockGlobal,
              CreateReturn, Return, ReturnTo, UseFreed
<1>3. ASSUME NEW t \in Clients, Call(t) PROVE UNCHANGED <<pool, blocks>>
  BY <1>3 DEF Call, CallAlloc, CallFree, CallWalk, CallCreate, CallDestroy, Calls
<1>4. ASSUME MonitorWake \/ ExitBegin \/ ExitStep PROVE UNCHANGED <<pool, blocks>>
  BY <1>4 DEF MonitorWake, ExitBegin, ExitStep, ExitStop, ExitJoin, ExitNext
<1>5. ASSUME blocks' = blocks, pool' \in [Handles -> Pool],
             \A h \in Handles : pool'[h] = pool[h] \/ (pool[h].st # "up" /\ pool'[h].st # "up")
      PROVE  AbstractNext
  <2>1. {h \in Handles : pool'[h].st = "up"} = {h \in Handles : pool[h].st = "up"}
    BY <1>5
  <2>2. \A h \in Handles : pool[h].st = "up" => pool'[h].region = pool[h].region
    BY <1>5
  <2>3. Managed' = Managed
    BY <2>1, <2>2 DEF Managed
  <2>4. QED
    BY <1>5, <2>3 DEF AbstractNext
<1>6. TypeOK'
  BY TypeKept
<1>7. pool \in [Handles -> Pool] /\ pool' \in [Handles -> Pool]
  BY <1>6 DEF TypeOK
<1>8. ASSUME NEW t \in Threads, CreateCheck(t) PROVE AbstractNext
  <2>1. \A h \in Handles : pool'[h] = pool[h] \/ (pool[h].st = "free" /\ pool'[h].st = "new")
    <3>1. CASE pool' = pool
      BY <3>1
    <3>2. CASE pool' # pool
      <4>1. PICK h \in Handles :
              /\ pool[h].st = "free"
              /\ pool' = [pool EXCEPT ![h] = [st |-> "new", id |-> 0, region |-> arg[t].region,
                                              used |-> 0, active |-> 0]]
        BY <1>8, <3>2 DEF CreateCheck, FreeStructs
      <4>2. pool'[h].st = "new" /\ \A g \in Handles \ {h} : pool'[g] = pool[g]
        BY <1>7, <4>1
      <4>3. QED
        BY <4>1, <4>2
    <3>3. QED
      BY <3>1, <3>2
  <2>2. QED
    BY <1>5, <1>7, <1>8, <2>1 DEF CreateCheck
<1>9. ASSUME NEW t \in Threads, CreateWriteId(t) \/ DestroyDel(t) PROVE AbstractNext
  <2>1. hnd[t] \in Handles /\ pool[hnd[t]].st \in {"new", "dying"}
    BY <1>9 DEF CreateWriteId, DestroyDel, Unlist, Structs, Placed, MakeLabels, LeftLabels, KillLabels
  <2>2. \A h \in Handles \ {hnd[t]} : pool'[h] = pool[h]
    BY <1>7, <1>9 DEF CreateWriteId, DestroyDel, Unlist
  <2>3. pool'[hnd[t]].st # "up"
    BY <1>7, <1>9, <2>1 DEF CreateWriteId, DestroyDel, Unlist, Pool
  <2>4. blocks' = blocks
    BY <1>9 DEF CreateWriteId, DestroyDel, Unlist
  <2>5. QED
    BY <1>5, <1>7, <2>1, <2>2, <2>3, <2>4
<1>10. QED
  BY <1>1, <1>2, <1>3, <1>4, <1>8, <1>9 DEF Next, Step

(* The pool manager, with its mutexes, its scans and its races, implements the page allocator:
   what a caller gets is free memory of a pool in use, and a pool goes only when nothing of it
   is held. *)
THEOREM Refines == Spec => ImplementsAllocator
<1>1. Inv /\ [Next]_vars => [Abstract!Next]_<<Managed, blocks>>
  <2> SUFFICES ASSUME Inv, [Next]_vars PROVE AbstractNext
    BY DEF AbstractNext
  <2>1. CASE UNCHANGED vars
    BY <2>1 DEF vars, AbstractNext, Managed
  <2>2. CASE Next
    BY <2>2, AllocRefines, FreeRefines, AddRefines, DestroyRefines, RestRefines
  <2>3. QED
    BY <2>1, <2>2
<1>2. QED
  BY <1>1, InitRefines, InvHolds, PTL DEF Spec, ImplementsAllocator, Abstract!Spec, Abstract!vars

(* What an allocator of that kind promises follows: every block is in the memory of a pool in use,
   and no two share a page. *)
LEMMA AbstractKeepsDisjoint ==
  Abstract!Disjoint /\ [Abstract!Next]_(Abstract!vars) => Abstract!Disjoint'
<1> SUFFICES ASSUME Abstract!Disjoint, [Abstract!Next]_(Abstract!vars) PROVE Abstract!Disjoint'
  OBVIOUS
<1>1. ASSUME NEW b \in BlockSet, Abstract!Allocate(b) PROVE Abstract!Disjoint'
  BY <1>1 DEF Abstract!Disjoint, Abstract!Allocate, Abstract!Apart
<1>2. ASSUME NEW b \in BlockSet, Abstract!Release(b) PROVE Abstract!Disjoint'
  BY <1>2 DEF Abstract!Disjoint, Abstract!Release, Abstract!Apart
<1>3. ASSUME NEW r \in Regions, Abstract!Extend(PagesIn(r)) PROVE Abstract!Disjoint'
  BY <1>3 DEF Abstract!Disjoint, Abstract!Extend, Abstract!Apart
<1>4. ASSUME NEW r \in Regions, Abstract!Withdraw(PagesIn(r)) PROVE Abstract!Disjoint'
  BY <1>4 DEF Abstract!Disjoint, Abstract!Withdraw, Abstract!Apart
<1>5. CASE UNCHANGED Abstract!vars
  BY <1>5 DEF Abstract!Disjoint, Abstract!vars, Abstract!Apart
<1>6. QED
  BY <1>1, <1>2, <1>3, <1>4, <1>5 DEF Abstract!Next

(* The abstract allocator, with the manager's blocks and extents, keeps the blocks apart and
   inside its memory. *)
LEMMA AllocatorDisjoint == Abstract!Spec => []Abstract!Disjoint
<1>1. Abstract!Init => Abstract!Disjoint
  BY DEF Abstract!Init, Abstract!Disjoint
<1>2. QED
  BY <1>1, AbstractKeepsDisjoint, PTL DEF Abstract!Spec

(* So does the manager, because it implements the allocator: no two blocks that callers hold
   share a page, and each lies in the memory of a pool that has a gen_pool. *)
THEOREM ManagerDisjoint == Spec => []Abstract!Disjoint
BY Refines, AllocatorDisjoint, PTL DEF ImplementsAllocator

----------------------------------------------------------------------------
(* How far the callers that race past the check of the count can exceed it: each of them adds
   one pool, and the last to check saw fewer than POOL_MAX_COUNT. *)

Making == {t \in Clients : pc[t] \in MakeLabels}

Counting == poolCount + Cardinality(Making) <= MaxPools + Cardinality(Clients) - 1

LEMMA MakingFinite ==
  /\ IsFiniteSet(Making) /\ Cardinality(Making) \in Nat
  /\ Cardinality(Clients) \in Nat \ {0} /\ Cardinality(Making) <= Cardinality(Clients)
<1>1. Making \subseteq Clients
  BY DEF Making
<1>2. Cardinality(Clients) \in Nat /\ Cardinality(Clients) # 0
  BY ThreadsAssumption, FS_CardinalityType, FS_EmptySet
<1>3. QED
  BY <1>1, <1>2, ThreadsAssumption, FS_Subset, FS_CardinalityType

(* A step that adds no pool and lets nobody past the check keeps the bound. *)
LEMMA CountingFrame ==
  ASSUME TypeOK, TypeOK', Counting, poolCount' <= poolCount, Making' \subseteq Making
  PROVE  Counting'
<1>1. Cardinality(Making') <= Cardinality(Making) /\ Cardinality(Making') \in Nat
  BY MakingFinite, FS_Subset, FS_CardinalityType
<1>2. poolCount \in Nat /\ poolCount' \in Nat /\ MaxPools \in Nat
  BY SizesAssumption DEF TypeOK
<1>3. Cardinality(Making) \in Nat /\ Cardinality(Clients) \in Nat
  BY MakingFinite
<1>4. poolCount' + Cardinality(Making') <= poolCount + Cardinality(Making)
  BY <1>1, <1>2, <1>3
<1>5. poolCount' + Cardinality(Making') <= MaxPools + Cardinality(Clients) - 1
  BY <1>1, <1>2, <1>3, <1>4 DEF Counting
<1>6. QED
  BY <1>5 DEF Counting

LEMMA CreateCheckCounting ==
  ASSUME Inv, TypeOK', Counting, NEW t \in Threads, CreateCheck(t)
  PROVE  Counting'
<1> USE DEF Inv
<1>1. Others(t) /\ poolCount' = poolCount /\ pc[t] = "cCheck" /\ t \in Clients
  BY StepIsLocal DEF Step, CreateCheck, manager, Requested
<1>2. CASE Return(t)
  <2>1. pc'[t] = "idle"
    BY <1>1, <1>2 DEF Return, ReturnTo, TypeOK
  <2>2. Making' \subseteq Making
    BY <1>1, <2>1 DEF Making, MakeLabels, Others, Threads
  <2>3. QED
    BY SMTT(30), <1>1, <2>2, CountingFrame DEF TypeOK
<1>3. CASE RoomForPool
  <2>1. poolCount < MaxPools /\ poolCount \in Nat /\ MaxPools \in Nat
    BY <1>3, SizesAssumption DEF RoomForPool, TypeOK
  <2>2. IsFiniteSet(Clients) /\ Making' \subseteq Clients
    BY ThreadsAssumption DEF Making
  <2> DEFINE n == Cardinality(Making')
             c == Cardinality(Clients)
  <2>3. n \in Nat /\ c \in Nat /\ n <= c
    BY <2>2, FS_Subset, FS_CardinalityType
  <2> HIDE DEF n, c
  <2>4. poolCount + n <= MaxPools + c - 1
    BY <2>1, <2>3
  <2>5. QED
    BY <1>1, <2>4 DEF Counting, n, c
<1>4. QED
  BY <1>2, <1>3 DEF CreateCheck

LEMMA CreateAddCounting ==
  ASSUME Inv, TypeOK', Counting, NEW t \in Threads, CreateAdd(t)
  PROVE  Counting'
<1> USE DEF Inv
<1>1. Others(t) /\ poolCount' = poolCount + 1 /\ pc[t] = "cAdd" /\ t \in Clients
  BY StepIsLocal DEF Step, CreateAdd, Requested, MakeLabels
<1>2. pc'[t] = "cLog"
  BY <1>1 DEF CreateAdd, TypeOK
<1>3. Making' = Making \ {t} /\ t \in Making
  BY <1>1, <1>2 DEF Making, MakeLabels, Others, Threads
<1> DEFINE m == Cardinality(Making)
           n == Cardinality(Making')
           c == Cardinality(Clients)
<1>4. m \in Nat /\ c \in Nat /\ n = m - 1
  BY <1>3, MakingFinite, FS_RemoveElement
<1>5. poolCount + m <= MaxPools + c - 1
  BY DEF Counting
<1> HIDE DEF m, n, c
<1>6. poolCount' + n <= MaxPools + c - 1
  BY <1>1, <1>4, <1>5, SizesAssumption DEF TypeOK
<1>7. QED
  BY <1>6 DEF Counting, n, c

(* The threads past the check are among those of before, but for pool_create. *)
LEMMA RestCounting ==
  ASSUME Inv, TypeOK', Counting, Next, \A t \in Threads : ~ CreateCheck(t) /\ ~ CreateAdd(t)
  PROVE  Counting'
<1> USE DEF Inv
<1> DEFINE NoneMore == Making' \subseteq Making /\ poolCount' <= poolCount
<1>1. ASSUME NEW t \in Threads, Others(t), pc'[t] \in MakeLabels => pc[t] \in MakeLabels,
             poolCount' \in {poolCount, poolCount - 1}
      PROVE  NoneMore
  <2>1. Making' \subseteq Making
    BY <1>1 DEF Making, Others, Threads
  <2>2. poolCount \in Nat
    BY DEF TypeOK
  <2>3. poolCount' <= poolCount
    BY <1>1, <2>2
  <2>4. QED
    BY <2>1, <2>3
<1> HIDE DEF NoneMore
<1>2. ASSUME NEW t \in Threads, Step(t) PROVE NoneMore
  <2>1. Others(t)
    BY <1>2, StepIsLocal
  <2>2. CASE \/ LockGlobal(t) \/ LockPool(t) \/ AllocInPool(t) \/ FreeInPool(t) \/ VisitPool(t)
             \/ UseDestroyed(t)
    <3>1. pc'[t] \in {"lockP", "inPool", "done", "bugFree", "bugUse"} /\ poolCount' = poolCount
      BY <2>2 DEF LockGlobal, LockPool, AllocInPool, FreeInPool, VisitPool, UseDestroyed, Scan,
                  manager, TypeOK
    <3>2. QED
      BY <1>1, <2>1, <3>1 DEF MakeLabels
  <2>3. CASE FinishAlloc(t) \/ FinishFree(t) \/ FinishWalk(t) \/ CreateReturn(t)
    <3>1. pc'[t] = "idle" /\ poolCount' = poolCount
      BY <2>3 DEF FinishAlloc, SettleAlloc, FinishFree, FinishWalk, CreateReturn, Return, ReturnTo,
                  manager, TypeOK
    <3>2. QED
      BY <1>1, <2>1, <3>1 DEF MakeLabels
  <2>4. CASE CreateReadId(t) \/ CreateWriteId(t) \/ CreateLock(t)
    <3>1. pc[t] \in MakeLabels /\ poolCount' = poolCount
      BY <2>4 DEF CreateReadId, CreateWriteId, CreateLock, manager, MakeLabels
    <3>2. QED
      BY <1>1, <2>1, <3>1
  <2>5. CASE \/ DestroyFind(t) \/ DestroyLockPool(t) \/ DestroyPool(t) \/ DestroyLockGlobal(t)
             \/ UseFreed(t)
    <3>1. pc'[t] \in {"idle", "dLockP", "dPool", "bugDestroy", "dLockG", "dDel"} \cup Faults
          /\ poolCount' = poolCount
      BY <2>5 DEF DestroyFind, DestroyLockPool, DestroyPool, DestroyLockGlobal, UseFreed, Return,
                  ReturnTo, Faults, manager, TypeOK
    <3>2. QED
      BY <1>1, <2>1, <3>1 DEF MakeLabels, Faults
  <2>6. CASE DestroyDel(t)
    <3>1. pc'[t] \in {"idle", "xNext"} /\ poolCount' = poolCount - 1
      BY <2>6 DEF DestroyDel, Unlist, ReturnTo, TypeOK
    <3>2. QED
      BY <1>1, <2>1, <3>1 DEF MakeLabels
  <2>7. QED
    BY <1>2, <2>2, <2>3, <2>4, <2>5, <2>6 DEF Step
<1>3. ASSUME NEW t \in Clients, Call(t) PROVE NoneMore
  <2>1. t \in Threads /\ Others(t)
    BY <1>3, CallIsLocal
  <2>2. pc'[t] \in {"lockG", "cCheck", "dFind"} /\ poolCount' = poolCount
    BY <1>3, <2>1 DEF Call, CallAlloc, CallFree, CallWalk, CallCreate, CallDestroy, Calls, manager,
                      TypeOK
  <2>3. QED
    BY <1>1, <2>1, <2>2 DEF MakeLabels
<1>4. ASSUME MonitorWake \/ ExitBegin \/ ExitStep
      PROVE  NoneMore
  <2>1. \A t \in Clients : pc'[t] = pc[t]
    BY <1>4, NoThreadNone DEF MonitorWake, ExitBegin, ExitStep, ExitStop, ExitJoin, ExitNext, Threads, TypeOK
  <2>2. poolCount' = poolCount
    BY <1>4 DEF MonitorWake, ExitBegin, ExitStep, ExitStop, ExitJoin, ExitNext, manager
  <2>3. poolCount \in Nat
    BY DEF TypeOK
  <2>4. QED
    BY <2>1, <2>2, <2>3 DEF Making, NoneMore
<1>5. NoneMore
  BY <1>2, <1>3, <1>4 DEF Next
<1>6. QED
  BY <1>5, CountingFrame DEF NoneMore

LEMMA CountingStarts == Init => Counting
<1> SUFFICES ASSUME Init PROVE Counting
  OBVIOUS
<1>1. \A t \in Clients : pc[t] = "idle"
  BY DEF Init, Threads
<1>2. Making = {}
  BY <1>1 DEF Making, MakeLabels
<1>3. Cardinality(Making) = 0 /\ poolCount \in {0, 1} /\ MaxPools \in Nat \ {0}
  BY <1>2, FS_EmptySet, SizesAssumption DEF Init
<1> DEFINE c == Cardinality(Clients)
<1>4. c \in Nat \ {0}
  BY MakingFinite
<1> HIDE DEF c
<1>5. poolCount + 0 <= MaxPools + c - 1
  BY <1>3, <1>4
<1>6. QED
  BY <1>3, <1>5 DEF Counting, c

LEMMA CountingKept == Inv /\ Counting /\ [Next]_vars => Counting'
<1> SUFFICES ASSUME Inv, Counting, [Next]_vars PROVE Counting'
  OBVIOUS
<1>1. CASE UNCHANGED vars
  BY <1>1 DEF Counting, Making, vars, manager
<1>2. CASE Next
  <2>1. TypeOK'
    BY <1>2, TypeKept
  <2>2. CASE \E t \in Threads : CreateCheck(t)
    BY <2>1, <2>2, CreateCheckCounting
  <2>3. CASE \E t \in Threads : CreateAdd(t)
    BY <2>1, <2>3, CreateAddCounting
  <2>4. QED
    BY <1>2, <2>1, <2>2, <2>3, RestCounting
<1>3. QED
  BY <1>1, <1>2

LEMMA CountingBounds == ASSUME Inv, Counting PROVE PoolCountBound
<1> DEFINE m == Cardinality(Making)
           c == Cardinality(Clients)
<1>1. m \in Nat /\ c \in Nat
  BY MakingFinite
<1>2. poolCount + m <= MaxPools + c - 1
  BY DEF Counting
<1> HIDE DEF m, c
<1>3. poolCount <= MaxPools + c - 1
  BY <1>1, <1>2, SizesAssumption DEF Inv, TypeOK
<1>4. QED
  BY <1>3 DEF PoolCountBound, c

(* POOL_MAX_COUNT is exceeded by at most one pool for each caller but one: for every number of
   callers and every limit. *)
THEOREM PoolCountBoundSafe == Spec => []PoolCountBound
<1>1. Inv /\ Counting => PoolCountBound
  BY CountingBounds
<1>2. QED
  BY <1>1, CountingStarts, CountingKept, InvHolds, PTL DEF Spec

----------------------------------------------------------------------------
(* The reader of the debugfs file takes mutexes of pools and nothing else: all that holds of the
   manager holds beside it. *)

(* A pool on the list stays on it until somebody destroys it. *)
LEMMA ListedPoolsStay ==
  ASSUME Inv, Next, NEW h \in Handles, pool[h].st \in {"up", "dying"}
  PROVE  \/ pool'[h].st \in {"up", "dying"}
         \/ \E t \in Threads : DestroyDel(t) /\ hnd[t] = h
<1> USE DEF Inv
<1>0. pool \in [Handles -> Pool]
  BY DEF TypeOK
<1>1. ASSUME NEW t \in Threads, AllocInPool(t) \/ FreeInPool(t)
      PROVE  pool'[h].st \in {"up", "dying"}
  BY <1>1, CountingKeepsPools
<1>2. ASSUME NEW t \in Threads, CreateCheck(t) PROVE pool'[h] = pool[h]
  BY <1>0, <1>2 DEF CreateCheck, FreeStructs
<1>3. ASSUME NEW t \in Threads, CreateWriteId(t) \/ CreateAdd(t) PROVE pool'[h] = pool[h]
  <2>1. hnd[t] # h
    BY <1>3 DEF CreateWriteId, CreateAdd, Structs, Placed, MakeLabels
  <2>2. QED
    BY <1>0, <1>3, <2>1 DEF CreateWriteId, CreateAdd
<1>4. ASSUME NEW t \in Threads, DestroyPool(t) PROVE pool'[h].st \in {"up", "dying"}
  BY <1>0, <1>4 DEF DestroyPool, Pool
<1>5. ASSUME NEW t \in Threads, DestroyDel(t), hnd[t] # h PROVE pool'[h] = pool[h]
  BY <1>0, <1>5 DEF DestroyDel, Unlist
<1>6. ASSUME NEW t \in Threads,
             \/ LockGlobal(t) \/ LockPool(t) \/ VisitPool(t) \/ UseDestroyed(t)
             \/ FinishAlloc(t) \/ FinishFree(t) \/ FinishWalk(t) \/ CreateReadId(t) \/ CreateLock(t)
             \/ DestroyFind(t) \/ DestroyLockPool(t) \/ DestroyLockGlobal(t)
             \/ CreateReturn(t) \/ UseFreed(t)
      PROVE  pool' = pool
  BY <1>6 DEF LockGlobal, LockPool, VisitPool, UseDestroyed, FinishAlloc, SettleAlloc, FinishFree,
              FinishWalk, CreateReadId, CreateLock, DestroyFind, DestroyLockPool, DestroyLockGlobal,
              CreateReturn, Return, ReturnTo, UseFreed
<1>7. ASSUME NEW t \in Clients, Call(t) PROVE pool' = pool
  BY <1>7 DEF Call, CallAlloc, CallFree, CallWalk, CallCreate, CallDestroy, Calls
<1>8. ASSUME MonitorWake \/ ExitBegin \/ ExitStep PROVE pool' = pool
  BY <1>8 DEF MonitorWake, ExitBegin, ExitStep, ExitStop, ExitJoin, ExitNext
<1>9. QED
  BY <1>1, <1>2, <1>3, <1>4, <1>5, <1>6, <1>7, <1>8 DEF Next, Step

(* The manager's threads leave a mutex alone that the reader holds. *)
LEMMA ReadersKeepMutexes ==
  ASSUME Inv, Next, NEW h \in Handles, poolMutex[h] \in Readers
  PROVE  poolMutex'[h] = poolMutex[h]
<1> USE DEF Inv
<1>1. poolMutex[h] \notin Threads \cup {NoThread}
  BY ThreadsAssumption DEF ThreadsAssumption
<1>2. poolMutex \in [Handles -> Threads \cup Readers \cup {NoThread}]
  BY DEF TypeOK
<1>3. ASSUME NEW t \in Threads,
             LockPool(t) \/ AllocInPool(t) \/ FreeInPool(t) \/ VisitPool(t)
      PROVE  poolMutex'[h] = poolMutex[h]
  <2>1. Here(t) \in Handles
    BY <1>3 DEF LockPool, AllocInPool, FreeInPool, VisitPool, Scans, Here, TypeOK
  <2>2. poolMutex[Here(t)] \in {t, NoThread}
    BY <1>3, <2>1 DEF LockPool, AllocInPool, FreeInPool, VisitPool, Mutexes, HoldsPool
  <2>3. Here(t) # h
    BY <1>1, <2>2
  <2>4. QED
    BY <1>2, <1>3, <2>1, <2>3 DEF LockPool, AllocInPool, FreeInPool, VisitPool, UnlockPool
<1>4. ASSUME NEW t \in Threads, DestroyLockPool(t) \/ DestroyPool(t)
      PROVE  poolMutex'[h] = poolMutex[h]
  <2>1. hnd[t] \in Handles
    BY <1>4 DEF DestroyLockPool, DestroyPool, Structs, Placed, LeftLabels, KillLabels
  <2>2. poolMutex[hnd[t]] \in {t, NoThread}
    BY <1>4, <2>1 DEF DestroyLockPool, DestroyPool, Mutexes, HoldsPool
  <2>3. hnd[t] # h
    BY <1>1, <2>2
  <2>4. QED
    BY <1>2, <1>4, <2>1, <2>3 DEF DestroyLockPool, DestroyPool, UnlockPool
<1>5. ASSUME NEW t \in Threads,
             \/ LockGlobal(t) \/ UseDestroyed(t) \/ FinishAlloc(t) \/ FinishFree(t) \/ FinishWalk(t)
             \/ CreateCheck(t) \/ CreateReadId(t) \/ CreateWriteId(t) \/ CreateLock(t) \/ CreateAdd(t)
             \/ DestroyFind(t) \/ DestroyLockGlobal(t) \/ DestroyDel(t)
             \/ CreateReturn(t) \/ UseFreed(t)
      PROVE  poolMutex' = poolMutex
  BY <1>5 DEF LockGlobal, UseDestroyed, FinishAlloc, SettleAlloc, FinishFree, FinishWalk,
              CreateCheck, CreateReadId, CreateWriteId, CreateLock, CreateAdd, DestroyFind,
              DestroyLockGlobal, DestroyDel, Unlist, CreateReturn, UseFreed
<1>6. ASSUME NEW t \in Clients, Call(t) PROVE poolMutex' = poolMutex
  BY <1>6 DEF Call, CallAlloc, CallFree, CallWalk, CallCreate, CallDestroy, Calls
<1>7. ASSUME MonitorWake \/ ExitBegin \/ ExitStep PROVE poolMutex' = poolMutex
  BY <1>7 DEF MonitorWake, ExitBegin, ExitStep, ExitStop, ExitJoin, ExitNext
<1>8. QED
  BY <1>3, <1>4, <1>5, <1>6, <1>7 DEF Next, Step

(* Where the reader is, and what it stands at. *)
Reading ==
  /\ at \in {"out", "lock", "stats", "next", "stopped"}
  /\ at # "out" => /\ phase = "running" /\ shown \in Handles
                   /\ pool[shown].st \in {"up", "dying"} \/ shown \in destroyed
  /\ at = "stats" => poolMutex[shown] = Reader

LEMMA ManagerKeepsReading ==
  ASSUME Inv, Reading, Next, Pinned => phase' = "running", UNCHANGED <<at, shown>>,
         destroyed' = destroyed \cup {hnd[t] : t \in {c \in Clients : Frees(c)}}
  PROVE  Reading'
<1> USE DEF Inv
<1>1. CASE at = "out"
  BY <1>1 DEF Reading
<1>2. CASE at # "out"
  <2>1. phase = "running" /\ phase' = "running" /\ shown \in Handles
    BY <1>2 DEF Reading, Pinned
  <2>2. pool'[shown].st \in {"up", "dying"} \/ shown \in destroyed'
    <3>1. CASE shown \in destroyed
      BY <3>1
    <3>2. CASE pool[shown].st \in {"up", "dying"}
      <4>1. ASSUME NEW t \in Threads, DestroyDel(t), hnd[t] = shown PROVE shown \in destroyed'
        <5>1. pc[t] = "dDel" /\ t \in Threads
          BY <4>1 DEF DestroyDel, Unlist
        <5>2. pc[Rmmod] = "idle"
          BY <2>1 DEF Requested
        <5>3. t \in Clients
          BY <5>1, <5>2 DEF Requested, KillLabels
        <5>4. pc'[t] = "idle"
          BY <4>1, <5>3, NoThreadNone DEF DestroyDel, Unlist, ReturnTo, TypeOK
        <5>5. QED
          BY <4>1, <5>1, <5>3, <5>4 DEF Frees
      <4>2. QED
        BY <2>1, <3>2, <4>1, ListedPoolsStay
    <3>3. QED
      BY <1>2, <3>1, <3>2 DEF Reading
  <2>3. at = "stats" => poolMutex'[shown] = Reader
    BY <2>1, ReadersKeepMutexes, ReaderAssumption DEF Reading
  <2>4. QED
    BY <2>1, <2>2, <2>3 DEF Reading
<1>3. QED
  BY <1>1, <1>2

(* The step of the reader that moves on to position i of the list, or off its end. *)
LEMMA VisitReading ==
  ASSUME Inv, NEW i \in Nat \ {0}, Visit(i), phase = "running",
         UNCHANGED <<phase, pool, list, destroyed>>
  PROVE  Reading'
<1> USE DEF Inv
<1>1. CASE i <= Len(list)
  <2>1. i \in 1..Len(list) /\ shown' = list[i] /\ at' = "lock"
    BY <1>1 DEF Visit, TypeOK
  <2>2. shown' \in Handles /\ shown' \in Listed
    BY <2>1 DEF TypeOK, Listed
  <2>3. QED
    BY <2>1, <2>2 DEF Reading, Structs
<1>2. CASE ~ (i <= Len(list))
  BY <1>2 DEF Visit, Reading
<1>3. QED
  BY <1>1, <1>2

LEMMA ReaderKeepsReading ==
  ASSUME Inv, Reading, pool_debugfs_show, UNCHANGED <<phase, pool, list, destroyed>>
  PROVE  Reading'
<1> USE DEF Inv
<1>1. ASSUME Stop, at # "out" PROVE Reading'
  BY <1>1 DEF Stop, Reading
<1>2. CASE StartShow
  BY <1>2, VisitReading DEF StartShow
<1>3. CASE LockShown
  BY <1>1, <1>3 DEF LockShown, Reading, TypeOK
<1>4. CASE CopyStats
  BY <1>1, <1>4 DEF CopyStats, Reading
<1>5. CASE NextShown
  <2>1. CASE Stop
    BY <1>1, <1>5, <2>1 DEF NextShown
  <2>2. CASE \E i \in 1..Len(list) : list[i] = shown /\ Visit(i + 1)
    <3>1. PICK i \in 1..Len(list) : Visit(i + 1)
      BY <2>2
    <3>2. i + 1 \in Nat \ {0} /\ phase = "running"
      BY <1>5 DEF NextShown, Reading
    <3>3. QED
      BY <3>1, <3>2, VisitReading
  <2>3. QED
    BY <1>5, <2>1, <2>2 DEF NextShown
<1>6. QED
  BY <1>2, <1>3, <1>4, <1>5 DEF pool_debugfs_show

(* The reader keeps what holds of the manager. *)
LEMMA ReaderKeepsInv ==
  ASSUME Inv, Reading, pool_debugfs_show,
         UNCHANGED <<globalMutex, list, manager, pool, reserved, blocks, owned, slack, phase, pc,
                     locals>>
  PROVE  Inv'
<1> USE DEF Inv, manager, locals
<1>1. \/ poolMutex' = poolMutex
      \/ /\ shown \in Handles /\ poolMutex[shown] \in {NoThread, Reader}
         /\ \E o \in {NoThread, Reader} : poolMutex' = [poolMutex EXCEPT ![shown] = o]
  BY DEF pool_debugfs_show, StartShow, LockShown, CopyStats, NextShown, Stop, Reading
<1>2. NoThread \notin Threads /\ Reader \notin Threads
  BY ThreadsAssumption, ReaderAssumption DEF ThreadsAssumption
<1>3. poolMutex \in [Handles -> Threads \cup Readers \cup {NoThread}]
  BY DEF TypeOK
<1>4. /\ poolMutex' \in [Handles -> Threads \cup Readers \cup {NoThread}]
      /\ \A t \in Threads, h \in Handles : poolMutex'[h] = t <=> poolMutex[h] = t
  BY <1>1, <1>2, <1>3, ReaderAssumption
<1>5. TypeOK'
  BY <1>4 DEF TypeOK
<1>6. Mutexes'
  BY <1>4 DEF Mutexes, HoldsGlobal, HoldsPool, Here
<1>7. Requested'
  BY DEF Requested
<1>8. Scans'
  BY DEF Scans, Wanted, Here
<1>9. Structs'
  BY DEF Structs, Placed, Listed
<1>10. Ranges'
  BY DEF Ranges, Exists
<1>11. Custody'
  BY DEF Custody, Carries
<1>12. Memory'
  BY DEF Memory, NoOverlap
<1>13. FreeFindsItsPool'
  BY DEF FreeFindsItsPool
<1>14. QED
  BY <1>5, <1>6, <1>7, <1>8, <1>9, <1>10, <1>11, <1>12, <1>13

LEMMA DebugfsKept == Inv /\ Reading /\ [DebugfsNext]_<<vars, debugfsVars>> => (Inv /\ Reading)'
<1> SUFFICES ASSUME Inv, Reading, [DebugfsNext]_<<vars, debugfsVars>> PROVE (Inv /\ Reading)'
  OBVIOUS
<1>1. CASE UNCHANGED <<vars, debugfsVars>>
  <2>1. Inv'
    BY <1>1, StutterKeeps
  <2>2. Reading'
    BY <1>1 DEF vars, debugfsVars, Reading
  <2>3. QED
    BY <2>1, <2>2
<1>2. CASE /\ Next
           /\ Pinned => phase' = "running"
           /\ destroyed' = destroyed \cup {hnd[t] : t \in {c \in Clients : Frees(c)}}
           /\ UNCHANGED <<at, shown>>
  BY <1>2, InvKept, ManagerKeepsReading
<1>3. CASE /\ pool_debugfs_show
           /\ UNCHANGED <<globalMutex, list, manager, pool, reserved, blocks, owned, slack, phase,
                          pc, locals, destroyed>>
  BY <1>3, ReaderKeepsInv, ReaderKeepsReading
<1>4. QED
  BY <1>1, <1>2, <1>3 DEF DebugfsNext

LEMMA DebugfsAlways == DebugfsSpec => [](Inv /\ Reading)
<1>1. DebugfsInit => Inv /\ Reading
  BY InitInv DEF DebugfsInit, Reading
<1>2. QED
  BY <1>1, DebugfsKept, PTL DEF DebugfsSpec

(* The reader can be stopped only by a pool_destroy that a caller asked for: whatever the callers
   make, fail to make and destroy, and whenever the module is asked to unload. *)
THEOREM OnlyDestroyStopsReaderSafe == DebugfsSpec => []OnlyDestroyStopsReader
<1>1. Reading => OnlyDestroyStopsReader
  BY DEF Reading, OnlyDestroyStopsReader, Freed
<1>2. QED
  BY <1>1, DebugfsAlways, PTL

(* A process that reads the file disturbs nothing that is proved of the manager. *)
THEOREM InvBesideReader == DebugfsSpec => []Inv
BY DebugfsAlways, PTL

----------------------------------------------------------------------------
(* The accounts.  A call updates a pool's counters inside the pool and the manager's counters a
   step later, both under global_mutex: Owes names the call between the two steps. *)

Owes(t) == pc[t] = "done" /\ arg[t].op \in {"alloc", "free"} /\ tmp[t] # None

\* The manager's counters are behind by what the one call that owes them has done.
Books ==
  /\ Sized(blocks)
  /\ (\A t \in Threads : ~ Owes(t)) =>
       usedSize = SizeSum(blocks) /\ active = Cardinality(blocks)
  /\ \A t \in Threads : Owes(t) =>
       /\ arg[t].op = "alloc" => /\ usedSize + arg[t].size = SizeSum(blocks)
                                 /\ active + 1 = Cardinality(blocks)
       /\ arg[t].op = "free" => /\ usedSize = SizeSum(blocks) + arg[t].size
                                /\ active = Cardinality(blocks) + 1

\* A pool's counters are exact; they are zero before it is listed and after it is emptied.
PoolBooks ==
  \A h \in Handles :
    \/ /\ pool[h].st = "up"
       /\ pool[h].used = SizeSum(BlocksIn(h)) /\ pool[h].active = Cardinality(BlocksIn(h))
    \/ /\ pool[h].st # "up"
       /\ pool[h].used = 0 /\ pool[h].active = 0

Totals == totalSize = SumOver([h \in Listed |-> pool[h].region.count], Listed)

\* The blocks in the first n pools of the list.
SeenIn(n) == {b \in blocks : \E j \in 1..n : b.ptr \in PagesIn(pool[list[j]].region)}

\* What a walk has added up is what the pools behind it hold.
WalkSums(t) ==
  arg[t].op \in WalkOps =>
    /\ pc[t] \in {"lockP", "inPool"} => tmp[t] = SizeSum(SeenIn(cur[t] - 1))
    /\ pc[t] = "done" => tmp[t] = SizeSum(blocks)

Walks == \A t \in Threads : WalkSums(t)

Accounts == Books /\ PoolBooks /\ Totals /\ Walks

LEMMA OneOwes ==
  ASSUME Inv, NEW t \in Threads, HoldsGlobal(t), NEW u \in Threads, u # t
  PROVE  ~ HoldsGlobal(u) /\ ~ Owes(u)
BY DEF Inv, Mutexes, HoldsGlobal, Owes

(* A block is in the range of the pool that made it, and of no other that exists. *)
LEMMA BlockHasItsPool ==
  ASSUME Inv, NEW b \in blocks
  PROVE  \E g \in Handles :
           /\ pool[g].st = "up" /\ g \in Listed
           /\ reserved[g] # {}
           /\ \A h \in Handles : Exists(h) => (b.ptr \in PagesIn(pool[h].region) <=> h = g)
<1> USE DEF Inv
<1>1. PICK g \in Handles : pool[g].st = "up" /\ BlockPages(b) \subseteq reserved[g]
  BY DEF Memory
<1>2. b.ptr \in BlockPages(b)
  BY BlockHasItsPage DEF TypeOK
<1>3. b.ptr \in PagesIn(pool[g].region) /\ reserved[g] # {}
  BY <1>1, <1>2 DEF Memory
<1>4. ASSUME NEW h \in Handles, Exists(h), h # g PROVE b.ptr \notin PagesIn(pool[h].region)
  BY <1>1, <1>3, <1>4, PoolsApart DEF Exists
<1>5. g \in Listed
  BY <1>1 DEF Structs
<1> QED BY <1>1, <1>3, <1>4, <1>5

LEMMA NoBlocksIn ==
  ASSUME Inv, NEW h \in Handles, Exists(h), reserved[h] = {}
  PROVE  BlocksIn(h) = {}
BY BlockHasItsPool DEF BlocksIn

LEMMA BlocksSized ==
  ASSUME Inv, Sized(blocks), NEW h \in Handles
  PROVE  Sized(BlocksIn(h)) /\ SizeSum(BlocksIn(h)) \in Nat /\ Cardinality(BlocksIn(h)) \in Nat
<1>1. BlocksIn(h) \in SUBSET blocks
  BY DEF BlocksIn
<1>2. Sized(BlocksIn(h))
  BY <1>1, SizeSumSubset
<1>3. SizeSum(BlocksIn(h)) \in Nat
  BY <1>2, SizeSumNat
<1> QED BY <1>2, <1>3, FS_CardinalityType DEF Sized

(* What an allocation that finds room does, and what a free does. *)
Allocates(t, h, b) ==
  /\ h \in Handles /\ pool[h].st = "up"
  /\ b \in BlockSet \ blocks /\ b.ptr \in PagesIn(pool[h].region) /\ b.size = arg[t].size
  /\ blocks' = blocks \cup {b} /\ pool' = Counted(h, b.size, 1)
  /\ pc'[t] = "done" /\ tmp'[t] = b.ptr

GivesBack(t, h, b) ==
  /\ h \in Handles /\ pool[h].st = "up"
  /\ b \in BlockSet /\ b \in blocks /\ b.ptr \in PagesIn(pool[h].region) /\ b.size = arg[t].size
  /\ blocks' = blocks \ {b} /\ pool' = Counted(h, - b.size, -1)
  /\ pc'[t] = "done" /\ tmp'[t] = b.ptr

LEMMA AllocAllocates ==
  ASSUME Inv, NEW t \in Threads, AllocInPool(t)
  PROVE  \/ UNCHANGED <<blocks, pool>> /\ tmp'[t] = None
         \/ \E h, b : Allocates(t, h, b)
<1> USE DEF Inv
<1> DEFINE h == Here(t)
           places == IF pool[h].st = "up" THEN Places(h, arg[t]) ELSE {}
<1>1. h \in Handles /\ arg[t].op = "alloc" /\ pc[t] = "inPool"
  BY DEF AllocInPool, Scans, Here, TypeOK
<1>2. CASE places = {}
  <2>1. UNCHANGED <<blocks, pool, tmp>>
    BY <1>2 DEF AllocInPool
  <2> QED BY <1>1, <2>1 DEF Custody
<1>3. CASE places # {}
  <2>1. PICK p \in places :
          LET b == [ptr |-> p, size |-> arg[t].size]
          IN  /\ blocks' = blocks \cup {b} /\ pool' = Counted(h, arg[t].size, 1)
              /\ tmp' = [tmp EXCEPT ![t] = p] /\ pc' = [pc EXCEPT ![t] = "done"]
    BY <1>3 DEF AllocInPool
  <2> DEFINE b == [ptr |-> p, size |-> arg[t].size]
  <2>2. pool[h].st = "up" /\ p \in Places(h, arg[t])
    BY <1>3
  <2>3. b \in BlockSet /\ b \notin blocks
    BY <1>1, <2>2, GrantIsFresh
  <2>4. p \in PagesIn(pool[h].region)
    BY <2>2 DEF Places
  <2>5. pc'[t] = "done" /\ tmp'[t] = p
    BY <2>1 DEF TypeOK
  <2>6. b.ptr = p /\ b.size = arg[t].size
    OBVIOUS
  <2>7. blocks' = blocks \cup {b} /\ pool' = Counted(h, b.size, 1)
    BY <2>1
  <2> HIDE DEF b, h
  <2>8. Allocates(t, h, b)
    BY <1>1, <2>2, <2>3, <2>4, <2>5, <2>6, <2>7 DEF Allocates
  <2> QED BY <2>8
<1> QED BY <1>2, <1>3

LEMMA FreeFrees ==
  ASSUME Inv, NEW t \in Threads, FreeInPool(t)
  PROVE  \E h, b : GivesBack(t, h, b)
<1> USE DEF Inv
<1> DEFINE h == Here(t)
           b == [ptr |-> arg[t].ptr, size |-> arg[t].size]
<1>1. /\ b \in BlockSet /\ b \in blocks
      /\ h \in Handles /\ pool[h].st = "up" /\ BlockPages(b) \subseteq reserved[h]
  BY FreeFindsBlock
<1>2. Cleared(b) = BlockPages(b)
  BY DEF Cleared, BlockPages
<1>3. /\ blocks' = blocks \ {b} /\ pool' = Counted(h, - b.size, -1)
      /\ tmp' = [tmp EXCEPT ![t] = b.ptr] /\ pc' = [pc EXCEPT ![t] = "done"]
  <2>1. ~ (pool[h].st # "up" \/ ~ (Cleared(b) \subseteq reserved[h]))
    BY <1>1, <1>2
  <2> QED BY <2>1 DEF FreeInPool
<1>4. b.size = arg[t].size
  OBVIOUS
<1> HIDE DEF h, b
<1>5. b.ptr \in PagesIn(pool[h].region)
  BY <1>1, BlockHasItsPage DEF Memory
<1>6. pc'[t] = "done" /\ tmp'[t] = b.ptr
  BY <1>3 DEF TypeOK
<1>7. GivesBack(t, h, b)
  BY <1>1, <1>3, <1>4, <1>5, <1>6 DEF GivesBack
<1> QED BY <1>7

----------------------------------------------------------------------------
(* The manager's counters. *)

LEMMA BooksFrame ==
  ASSUME Inv, Books, NEW t \in Threads, Others(t), UNCHANGED <<blocks, usedSize, active>>,
         ~ Owes(t), ~ Owes(t)'
  PROVE  Books'
<1>1. \A u \in Threads : Owes(u)' <=> Owes(u)
  BY DEF Others, Owes
<1>2. \A u \in Threads : Owes(u) => arg'[u] = arg[u]
  BY DEF Others
<1>3. Sized(blocks)' /\ SizeSum(blocks)' = SizeSum(blocks) /\ Cardinality(blocks)' = Cardinality(blocks)
  BY DEF Books
<1> QED BY <1>1, <1>2, <1>3 DEF Books

LEMMA AllocBooks == ASSUME Inv, Books, NEW t \in Threads, AllocInPool(t) PROVE Books'
<1> USE DEF Inv
<1>1. /\ Others(t) /\ UNCHANGED <<usedSize, active, arg>> /\ arg[t].op = "alloc"
      /\ pc[t] = "inPool" /\ HoldsGlobal(t) /\ ~ Owes(t)
  BY StepIsLocal DEF Step, AllocInPool, manager, HoldsGlobal, Owes
<1>2. CASE UNCHANGED <<blocks, pool>> /\ tmp'[t] = None
  BY <1>1, <1>2, BooksFrame DEF Owes
<1>3. ASSUME NEW h, NEW b, Allocates(t, h, b) PROVE Books'
  <2>1. \A u \in Threads : ~ Owes(u)
    BY <1>1, OneOwes
  <2>2. usedSize = SizeSum(blocks) /\ active = Cardinality(blocks) /\ Sized(blocks)
    BY <2>1 DEF Books
  <2>3. b.size = arg[t].size /\ b \notin blocks /\ blocks' = blocks \cup {b}
    BY <1>3 DEF Allocates
  <2>4. b.size \in Nat
    BY <1>1, <2>3, RequestTyped
  <2>5. Sized(blocks') /\ SizeSum(blocks') = SizeSum(blocks) + b.size
    BY <2>2, <2>3, <2>4, SizeSumAdd
  <2>6. Cardinality(blocks') = Cardinality(blocks) + 1
    BY <2>2, <2>3, FS_AddElement DEF Sized
  <2>7. \A u \in Threads : Owes(u)' => u = t
    BY <1>1, <2>1 DEF Others, Owes
  <2>8. tmp'[t] # None
    BY <1>3, PagesTyped DEF Allocates, BlockSet
  <2>9. Owes(t)'
    BY <1>1, <1>3, <2>8 DEF Owes, Allocates
  <2>10. usedSize' + arg'[t].size = SizeSum(blocks') /\ active' + 1 = Cardinality(blocks')
    BY <1>1, <2>2, <2>3, <2>5, <2>6
  <2>11. arg'[t].op = "alloc"
    BY <1>1
  <2> QED BY <2>5, <2>7, <2>9, <2>10, <2>11 DEF Books
<1> QED BY <1>2, <1>3, AllocAllocates

LEMMA FreeBooks == ASSUME Inv, Books, NEW t \in Threads, FreeInPool(t) PROVE Books'
<1> USE DEF Inv
<1>1. /\ Others(t) /\ UNCHANGED <<usedSize, active, arg>> /\ arg[t].op = "free"
      /\ pc[t] = "inPool" /\ HoldsGlobal(t) /\ ~ Owes(t)
  BY StepIsLocal DEF Step, FreeInPool, manager, HoldsGlobal, Owes
<1>2. ASSUME NEW h, NEW b, GivesBack(t, h, b) PROVE Books'
  <2>1. \A u \in Threads : ~ Owes(u)
    BY <1>1, OneOwes
  <2>2. usedSize = SizeSum(blocks) /\ active = Cardinality(blocks) /\ Sized(blocks)
    BY <2>1 DEF Books
  <2>3. b.size = arg[t].size /\ b \in blocks /\ blocks' = blocks \ {b}
    BY <1>2 DEF GivesBack
  <2>4. b.size \in Nat
    BY <1>1, <2>3, RequestTyped
  <2>5. /\ Sized(blocks') /\ SizeSum(blocks') = SizeSum(blocks) - b.size
        /\ SizeSum(blocks) \in Nat
    BY <2>2, <2>3, SizeSumRemove, SizeSumNat
  <2>6. Cardinality(blocks') = Cardinality(blocks) - 1 /\ Cardinality(blocks) \in Nat
    BY <2>2, <2>3, FS_RemoveElement, FS_CardinalityType DEF Sized
  <2>7. \A u \in Threads : Owes(u)' => u = t
    BY <1>1, <2>1 DEF Others, Owes
  <2>8. tmp'[t] # None
    BY <1>2, PagesTyped DEF GivesBack, BlockSet
  <2>9. Owes(t)'
    BY <1>1, <1>2, <2>8 DEF Owes, GivesBack
  <2>10. usedSize' = SizeSum(blocks') + arg'[t].size
    BY <1>1, <2>2, <2>3, <2>4, <2>5
  <2>11. active' = Cardinality(blocks') + 1
    BY <1>1, <2>2, <2>6
  <2>12. arg'[t].op = "free"
    BY <1>1
  <2> QED BY <2>5, <2>7, <2>9, <2>10, <2>11, <2>12 DEF Books
<1> QED BY <1>2, FreeFrees

LEMMA FinishBooks ==
  ASSUME Inv, Books, NEW t \in Threads, FinishAlloc(t) \/ FinishFree(t)
  PROVE  Books'
<1> USE DEF Inv
<1>1. /\ Others(t) /\ blocks' = blocks /\ pc[t] = "done" /\ arg[t].op \in {"alloc", "free"}
      /\ HoldsGlobal(t)
  BY StepIsLocal DEF Step, FinishAlloc, SettleAlloc, FinishFree, HoldsGlobal
<1>2. pc'[t] = "idle"
  BY DEF FinishAlloc, SettleAlloc, FinishFree, Return, ReturnTo, TypeOK
<1>3. ~ Owes(t)'
  BY <1>2 DEF Owes
<1>4. CASE tmp[t] = None
  <2>1. UNCHANGED <<usedSize, active>>
    BY <1>4 DEF FinishAlloc, SettleAlloc, FinishFree
  <2> QED BY <1>1, <1>3, <1>4, <2>1, BooksFrame DEF Owes
<1>5. CASE tmp[t] # None
  <2>1. Owes(t)
    BY <1>1, <1>5 DEF Owes
  <2>2. \A u \in Threads : ~ Owes(u)'
    BY <1>1, <1>3, OneOwes DEF Others, Owes
  <2>3. Sized(blocks) /\ SizeSum(blocks) \in Nat /\ Cardinality(blocks) \in Nat
    BY SizeSumNat, FS_CardinalityType DEF Books, Sized
  <2>4. usedSize \in Int /\ active \in Int /\ arg[t].size \in Nat
    BY <1>1, RequestTyped DEF TypeOK
  <2>5. usedSize' = SizeSum(blocks) /\ active' = Cardinality(blocks)
    <3>1. CASE arg[t].op = "alloc"
      <4>1. usedSize' = usedSize + arg[t].size /\ active' = active + 1
        BY <1>5, <3>1 DEF FinishAlloc, SettleAlloc, FinishFree
      <4>2. usedSize + arg[t].size = SizeSum(blocks) /\ active + 1 = Cardinality(blocks)
        BY <2>1, <3>1 DEF Books
      <4> QED BY <4>1, <4>2
    <3>2. CASE arg[t].op = "free"
      <4>1. usedSize' = usedSize - arg[t].size /\ active' = active - 1
        BY <1>5, <3>2 DEF FinishAlloc, SettleAlloc, FinishFree
      <4>2. usedSize = SizeSum(blocks) + arg[t].size /\ active = Cardinality(blocks) + 1
        BY <2>1, <3>2 DEF Books
      <4>3. usedSize' = SizeSum(blocks)
        BY <2>3, <2>4, <4>1, <4>2
      <4>4. active' = Cardinality(blocks)
        BY <2>3, <4>1, <4>2
      <4> QED BY <4>3, <4>4
    <3> QED BY <1>1, <3>1, <3>2
  <2> QED BY <1>1, <2>2, <2>3, <2>5 DEF Books
<1> QED BY <1>4, <1>5

(* Only an allocation and a free move the manager's counters. *)
LEMMA BooksKept == ASSUME Inv, Next, Books PROVE Books'
<1> USE DEF Inv
<1>1. ASSUME NEW t \in Threads,
             LockGlobal(t) \/ LockPool(t) \/ VisitPool(t) \/ UseDestroyed(t) \/ FinishWalk(t)
      PROVE  Books'
  <2>1. Others(t) /\ UNCHANGED <<blocks, usedSize, active>>
    BY <1>1, StepIsLocal DEF Step, LockGlobal, LockPool, VisitPool, UseDestroyed, FinishWalk,
       manager
  <2>2. pc[t] \in {"lockG", "lockP", "inPool"} \/ arg[t].op \notin {"alloc", "free"}
    BY <1>1 DEF LockGlobal, LockPool, VisitPool, UseDestroyed, FinishWalk, WalkOps
  <2>3. ~ Owes(t)
    BY <2>2 DEF Owes
  <2>4. CASE LockGlobal(t)
    <3>1. tmp'[t] = None
      BY <2>4 DEF LockGlobal, TypeOK, None
    <3> QED BY <2>1, <2>3, <3>1, BooksFrame DEF Owes
  <2>5. CASE VisitPool(t)
    <3>1. arg'[t].op \notin {"alloc", "free"}
      BY <2>5 DEF VisitPool, WalkOps
    <3> QED BY <2>1, <2>3, <3>1, BooksFrame DEF Owes
  <2>6. CASE LockPool(t) \/ UseDestroyed(t) \/ FinishWalk(t)
    <3>1. pc'[t] \in {"inPool", "bugUse", "idle"}
      BY <2>6 DEF LockPool, UseDestroyed, FinishWalk, Return, ReturnTo, TypeOK
    <3> QED BY <2>1, <2>3, <3>1, BooksFrame DEF Owes
  <2> QED BY <1>1, <2>4, <2>5, <2>6
<1>2. ASSUME NEW t \in Threads,
             \/ CreateCheck(t) \/ CreateReadId(t) \/ CreateWriteId(t) \/ CreateLock(t)
             \/ CreateAdd(t) \/ DestroyFind(t) \/ DestroyLockPool(t) \/ DestroyPool(t)
             \/ DestroyLockGlobal(t) \/ DestroyDel(t) \/ CreateReturn(t) \/ UseFreed(t)
      PROVE  Books'
  <2>1. Others(t)
    BY <1>2, StepIsLocal DEF Step
  <2>2. UNCHANGED <<blocks, usedSize, active>> /\ pc[t] # "done"
    BY <1>2 DEF CreateCheck, CreateReadId, CreateWriteId, CreateLock, CreateAdd, CreateReturn,
                DestroyFind, DestroyLockPool, DestroyPool, DestroyLockGlobal, DestroyDel, Unlist,
                UseFreed, manager
  <2>3. pc'[t] # "done"
    BY <1>2 DEF CreateCheck, CreateReadId, CreateWriteId, CreateLock, CreateAdd, CreateReturn,
                DestroyFind, DestroyLockPool, DestroyPool, DestroyLockGlobal, DestroyDel, Unlist,
                UseFreed, Return, ReturnTo, TypeOK
  <2> QED BY <2>1, <2>2, <2>3, BooksFrame DEF Owes
<1>3. ASSUME NEW t \in Clients, Call(t) PROVE Books'
  <2>1. t \in Threads /\ Others(t) /\ UNCHANGED <<blocks, usedSize, active>> /\ pc[t] # "done"
    BY <1>3, CallIsLocal DEF Call, CallAlloc, CallFree, CallWalk, CallCreate, CallDestroy, Calls,
                             manager
  <2>2. pc'[t] # "done"
    BY <1>3, <2>1 DEF Call, CallAlloc, CallFree, CallWalk, CallCreate, CallDestroy, Calls, TypeOK
  <2> QED BY <2>1, <2>2, BooksFrame DEF Owes
<1>4. CASE MonitorWake
  <2>1. /\ Monitor \in Threads /\ Others(Monitor) /\ UNCHANGED <<blocks, usedSize, active>>
        /\ pc[Monitor] # "done" /\ pc'[Monitor] # "done"
    BY <1>4, WakeIsLocal, ThreadsAndLabels DEF MonitorWake, manager, TypeOK
  <2> QED BY <2>1, BooksFrame DEF Owes
<1>5. CASE ExitBegin \/ ExitStep
  <2>1. Rmmod \in Threads /\ Others(Rmmod) /\ UNCHANGED <<blocks, usedSize, active>>
    BY <1>5, ExitIsLocal, ThreadsAndLabels DEF ExitBegin, ExitStep, ExitStop, ExitJoin, ExitNext, manager
  <2>2. arg'[Rmmod] = arg[Rmmod] /\ arg[Rmmod].op = "none"
    BY <1>5 DEF ExitBegin, ExitStep, ExitStop, ExitJoin, ExitNext, locals, Requested
  <2> QED BY <2>1, <2>2, BooksFrame DEF Owes
<1> QED BY <1>1, <1>2, <1>3, <1>4, <1>5, AllocBooks, FreeBooks, FinishBooks DEF Next, Step

----------------------------------------------------------------------------
(* The counters of the pools. *)

LEMMA CountedFields ==
  ASSUME TypeOK, NEW h \in Handles, NEW n \in Int, NEW m \in Int
  PROVE  /\ Counted(h, n, m)[h].used = pool[h].used + n
         /\ Counted(h, n, m)[h].active = pool[h].active + m
         /\ \A g \in Handles \ {h} : Counted(h, n, m)[g] = pool[g]
<1> DEFINE sized == [pool EXCEPT ![h].used = @ + n]
<1>1. pool \in [Handles -> Pool]
  BY DEF TypeOK
<1>2. /\ sized \in [Handles -> Pool]
      /\ sized[h].used = pool[h].used + n /\ sized[h].active = pool[h].active
      /\ \A g \in Handles \ {h} : sized[g] = pool[g]
  BY <1>1 DEF Pool
<1>3. Counted(h, n, m) = [sized EXCEPT ![h].active = @ + m]
  BY DEF Counted
<1> HIDE DEF sized
<1>4. /\ [sized EXCEPT ![h].active = @ + m][h].used = sized[h].used
      /\ [sized EXCEPT ![h].active = @ + m][h].active = sized[h].active + m
      /\ \A g \in Handles \ {h} : [sized EXCEPT ![h].active = @ + m][g] = sized[g]
  BY <1>2 DEF Pool
<1> QED BY <1>2, <1>3, <1>4

LEMMA PoolBooksFrame ==
  ASSUME PoolBooks, blocks' = blocks,
         \A h \in Handles :
           \/ /\ pool[h].st = "up" <=> pool'[h].st = "up"
              /\ pool[h].st = "up" => pool'[h].region = pool[h].region
              /\ pool'[h].used = pool[h].used /\ pool'[h].active = pool[h].active
           \/ pool'[h].st # "up" /\ pool'[h].used = 0 /\ pool'[h].active = 0
  PROVE  PoolBooks'
<1>1. ASSUME NEW h \in Handles, pool'[h].region = pool[h].region
      PROVE  SizeSum(BlocksIn(h))' = SizeSum(BlocksIn(h))
             /\ Cardinality(BlocksIn(h))' = Cardinality(BlocksIn(h))
  <2>1. BlocksIn(h)' = BlocksIn(h)
    BY <1>1 DEF BlocksIn
  <2> QED BY <2>1
<1> QED BY <1>1 DEF PoolBooks

(* One block comes into the range of pool h, or leaves it; no other pool's blocks change. *)
LEMMA CountedBooks ==
  ASSUME Inv, PoolBooks, Sized(blocks), NEW t \in Threads, NEW h, NEW b,
         arg[t].op \in {"alloc", "free"}, AllocInPool(t) \/ FreeInPool(t),
         Allocates(t, h, b) \/ GivesBack(t, h, b)
  PROVE  PoolBooks'
<1> USE DEF Inv
<1>1. /\ h \in Handles /\ pool[h].st = "up" /\ b \in BlockSet /\ b.size \in Nat
      /\ b.ptr \in PagesIn(pool[h].region)
  BY RequestTyped DEF Allocates, GivesBack
<1>2. \A g \in Handles : pool'[g].st = pool[g].st /\ pool'[g].region = pool[g].region
  BY CountingKeepsPools
<1>3. \A g \in Handles : pool[g].used \in Int /\ pool[g].active \in Int
  BY DEF TypeOK, Pool
<1>4. /\ Sized(BlocksIn(h)) /\ SizeSum(BlocksIn(h)) \in Nat /\ Cardinality(BlocksIn(h)) \in Nat
      /\ IsFiniteSet(BlocksIn(h))
  BY <1>1, BlocksSized DEF Sized
<1>5. pool[h].used = SizeSum(BlocksIn(h)) /\ pool[h].active = Cardinality(BlocksIn(h))
  BY <1>1 DEF PoolBooks
<1>6. ASSUME NEW g \in Handles, g # h, pool[g].st = "up" PROVE b.ptr \notin PagesIn(pool[g].region)
  BY <1>1, <1>6, PoolsApart DEF Exists
<1>7. ASSUME NEW g \in Handles, g # h, pool[g].st = "up"
      PROVE  BlocksIn(g)' = BlocksIn(g)
  BY <1>2, <1>6, <1>7 DEF Allocates, GivesBack, BlocksIn
<1>8. ASSUME NEW n \in Int, NEW m \in Int, pool' = Counted(h, n, m)
      PROVE  /\ pool'[h].used = pool[h].used + n /\ pool'[h].active = pool[h].active + m
             /\ \A g \in Handles \ {h} : pool'[g] = pool[g]
  BY <1>1, <1>8, CountedFields
<1>9. \A g \in Handles \ {h} : pool'[g] = pool[g]
  <2>1. b.size \in Int /\ - b.size \in Int /\ 1 \in Int /\ -1 \in Int
    BY <1>1
  <2> QED BY <1>8, <2>1 DEF Allocates, GivesBack
<1>10. pool'[h].used = SizeSum(BlocksIn(h)') /\ pool'[h].active = Cardinality(BlocksIn(h)')
  <2>1. CASE Allocates(t, h, b)
    <3>1. pool'[h].used = pool[h].used + b.size /\ pool'[h].active = pool[h].active + 1
      BY <1>1, <1>8, <2>1 DEF Allocates
    <3>2. BlocksIn(h)' = BlocksIn(h) \cup {b} /\ b \notin BlocksIn(h)
      BY <1>1, <1>2, <2>1 DEF Allocates, BlocksIn
    <3>3. SizeSum(BlocksIn(h) \cup {b}) = SizeSum(BlocksIn(h)) + b.size
      BY <1>1, <1>4, <3>2, SizeSumAdd
    <3>4. Cardinality(BlocksIn(h) \cup {b}) = Cardinality(BlocksIn(h)) + 1
      BY <1>4, <3>2, FS_AddElement
    <3> QED BY <1>5, <3>1, <3>2, <3>3, <3>4
  <2>2. CASE GivesBack(t, h, b)
    <3>0. - b.size \in Int /\ -1 \in Int
      BY <1>1
    <3>1. pool'[h].used = pool[h].used + (- b.size) /\ pool'[h].active = pool[h].active + (-1)
      BY <1>8, <2>2, <3>0 DEF GivesBack
    <3>2. BlocksIn(h)' = BlocksIn(h) \ {b} /\ b \in BlocksIn(h)
      BY <1>1, <1>2, <2>2 DEF GivesBack, BlocksIn
    <3>3. SizeSum(BlocksIn(h) \ {b}) = SizeSum(BlocksIn(h)) - b.size
      BY <1>1, <1>4, <3>2, SizeSumRemove
    <3>4. Cardinality(BlocksIn(h) \ {b}) = Cardinality(BlocksIn(h)) - 1
      BY <1>4, <3>2, FS_RemoveElement
    <3>5. pool'[h].used = SizeSum(BlocksIn(h)) - b.size
      BY <1>1, <1>4, <1>5, <3>1
    <3>6. pool'[h].active = Cardinality(BlocksIn(h)) - 1
      BY <1>4, <1>5, <3>1
    <3> QED BY <3>2, <3>3, <3>4, <3>5, <3>6
  <2> QED BY <2>1, <2>2
<1>11. ASSUME NEW g \in Handles
       PROVE  \/ /\ pool'[g].st = "up" /\ pool'[g].used = SizeSum(BlocksIn(g)')
                 /\ pool'[g].active = Cardinality(BlocksIn(g)')
              \/ pool'[g].st # "up" /\ pool'[g].used = 0 /\ pool'[g].active = 0
  <2>1. CASE g = h
    BY <1>1, <1>2, <1>10, <2>1
  <2>2. CASE g # h
    <3>1. pool'[g] = pool[g]
      BY <1>9, <2>2
    <3> QED BY <1>7, <2>2, <3>1 DEF PoolBooks
  <2> QED BY <2>1, <2>2
<1> QED BY <1>11 DEF PoolBooks

LEMMA PoolBooksKept == ASSUME Inv, Next, Books, PoolBooks PROVE PoolBooks'
<1> USE DEF Inv
<1>0. pool \in [Handles -> Pool]
  BY DEF TypeOK
<1>1. ASSUME UNCHANGED <<pool, blocks>> PROVE PoolBooks'
  BY <1>1, PoolBooksFrame
<1>2. ASSUME NEW t \in Threads,
             \/ LockGlobal(t) \/ LockPool(t) \/ VisitPool(t) \/ UseDestroyed(t)
             \/ FinishAlloc(t) \/ FinishFree(t) \/ FinishWalk(t) \/ CreateReadId(t) \/ CreateLock(t)
             \/ DestroyFind(t) \/ DestroyLockPool(t) \/ DestroyLockGlobal(t)
             \/ CreateReturn(t) \/ UseFreed(t)
      PROVE  PoolBooks'
  <2>1. UNCHANGED <<pool, blocks>>
    BY <1>2 DEF LockGlobal, LockPool, VisitPool, UseDestroyed, FinishAlloc, SettleAlloc, FinishFree,
                FinishWalk, CreateReadId, CreateLock, DestroyFind, DestroyLockPool,
                DestroyLockGlobal, CreateReturn, Return, ReturnTo, UseFreed
  <2> QED BY <1>1, <2>1
<1>3. ASSUME NEW t \in Clients, Call(t) PROVE PoolBooks'
  <2>1. UNCHANGED <<pool, blocks>>
    BY <1>3 DEF Call, CallAlloc, CallFree, CallWalk, CallCreate, CallDestroy, Calls
  <2> QED BY <1>1, <2>1
<1>4. ASSUME MonitorWake \/ ExitBegin \/ ExitStep PROVE PoolBooks'
  <2>1. UNCHANGED <<pool, blocks>>
    BY <1>4 DEF MonitorWake, ExitBegin, ExitStep, ExitStop, ExitJoin, ExitNext
  <2> QED BY <1>1, <2>1
<1>5. ASSUME NEW t \in Threads, AllocInPool(t) PROVE PoolBooks'
  <2>1. arg[t].op = "alloc"
    BY <1>5 DEF AllocInPool
  <2> QED BY <1>1, <1>5, <2>1, AllocAllocates, CountedBooks DEF Books
<1>6. ASSUME NEW t \in Threads, FreeInPool(t) PROVE PoolBooks'
  <2>1. arg[t].op = "free"
    BY <1>6 DEF FreeInPool
  <2> QED BY <1>6, <2>1, FreeFrees, CountedBooks DEF Books
<1>7. ASSUME NEW t \in Threads, CreateCheck(t) PROVE PoolBooks'
  <2>1. blocks' = blocks
    BY <1>7 DEF CreateCheck
  <2>2. \A h \in Handles :
          \/ pool'[h] = pool[h]
          \/ pool'[h].st = "new" /\ pool'[h].used = 0 /\ pool'[h].active = 0
    <3>1. CASE pool' = pool
      BY <3>1
    <3>2. ASSUME NEW g \in Handles, NEW r,
                 pool' = [pool EXCEPT ![g] = [st |-> "new", id |-> 0, region |-> r,
                                              used |-> 0, active |-> 0]]
          PROVE  /\ \A h \in Handles \ {g} : pool'[h] = pool[h]
                 /\ pool'[g].st = "new" /\ pool'[g].used = 0 /\ pool'[g].active = 0
      BY <1>0, <3>2
    <3> QED BY <1>7, <3>1, <3>2 DEF CreateCheck, FreeStructs
  <2> QED BY <2>1, <2>2, PoolBooksFrame
<1>8. ASSUME NEW t \in Threads, CreateWriteId(t) \/ DestroyDel(t) PROVE PoolBooks'
  <2>1. blocks' = blocks
    BY <1>8 DEF CreateWriteId, DestroyDel, Unlist
  <2>2. hnd[t] \in Handles /\ pool[hnd[t]].st # "up"
    BY <1>8 DEF CreateWriteId, DestroyDel, Unlist, Structs, Placed, MakeLabels, LeftLabels, KillLabels
  <2>3. \A h \in Handles \ {hnd[t]} : pool'[h] = pool[h]
    BY <1>0, <1>8 DEF CreateWriteId, DestroyDel, Unlist
  <2>4. /\ pool'[hnd[t]].st # "up"
        /\ pool'[hnd[t]].used = pool[hnd[t]].used /\ pool'[hnd[t]].active = pool[hnd[t]].active
    BY <1>0, <1>8, <2>2 DEF CreateWriteId, DestroyDel, Unlist, Pool
  <2> QED BY <2>1, <2>2, <2>3, <2>4, PoolBooksFrame
<1>9. ASSUME NEW t \in Threads, DestroyPool(t) PROVE PoolBooks'
  <2> DEFINE h == hnd[t]
  <2>1. blocks' = blocks /\ h \in Handles
    BY <1>9 DEF DestroyPool, Structs, Placed, LeftLabels, KillLabels
  <2>2. CASE reserved[h] # {} \/ pool[h].st # "up"
    <3>1. pool' = pool
      BY <1>0, <1>9, <2>1, <2>2 DEF DestroyPool, Pool
    <3> QED BY <1>1, <2>1, <3>1
  <2>3. CASE reserved[h] = {} /\ pool[h].st = "up"
    <3>1. pool' = [pool EXCEPT ![h].st = "dying"]
      BY <1>0, <1>9, <2>1, <2>3 DEF DestroyPool
    <3>2. /\ pool'[h].st = "dying" /\ pool'[h].used = pool[h].used
          /\ pool'[h].active = pool[h].active
          /\ \A g \in Handles \ {h} : pool'[g] = pool[g]
      BY <1>0, <2>1, <3>1 DEF Pool
    <3>3. BlocksIn(h) = {}
      BY <2>1, <2>3, NoBlocksIn DEF Exists
    <3>4. SizeSum({}) = 0 /\ Cardinality({}) = 0
      BY SizeSumEmpty, FS_EmptySet
    <3>5. pool[h].used = 0 /\ pool[h].active = 0
      BY <2>1, <2>3, <3>3, <3>4 DEF PoolBooks
    <3> HIDE DEF h
    <3> QED BY <2>1, <3>2, <3>5, PoolBooksFrame
  <2> QED BY <2>2, <2>3
<1>10. ASSUME NEW t \in Threads, CreateAdd(t) PROVE PoolBooks'
  <2>0. hnd[t] \in Handles /\ pool[hnd[t]].st = "new"
    BY <1>10 DEF CreateAdd, Structs, Placed, MakeLabels
  <2> PICK h \in Handles : h = hnd[t]
    BY <2>0
  <2>1. blocks' = blocks /\ h \in Handles /\ pool[h].st = "new"
    BY <1>10, <2>0 DEF CreateAdd
  <2>2. /\ pool'[h].st = "up" /\ pool'[h].used = pool[h].used
        /\ pool'[h].active = pool[h].active /\ pool'[h].region = pool[h].region
        /\ \A g \in Handles \ {h} : pool'[g] = pool[g]
    BY <1>0, <1>10, <2>1 DEF CreateAdd, Pool
  <2>3. BlocksIn(h) = {}
    BY <2>1, NoBlocksIn DEF Exists, Memory
  <2>4. BlocksIn(h)' = {}
    BY <2>1, <2>2, <2>3 DEF BlocksIn
  <2>5. SizeSum(BlocksIn(h)') = 0 /\ Cardinality(BlocksIn(h)') = 0
    BY <2>4, SizeSumEmpty, FS_EmptySet
  <2>6. pool[h].used = 0 /\ pool[h].active = 0
    BY <2>1 DEF PoolBooks
  <2>7. \A g \in Handles \ {h} : BlocksIn(g)' = BlocksIn(g)
    BY <2>1, <2>2 DEF BlocksIn
  <2>8. ASSUME NEW g \in Handles
        PROVE  \/ /\ pool'[g].st = "up" /\ pool'[g].used = SizeSum(BlocksIn(g)')
                  /\ pool'[g].active = Cardinality(BlocksIn(g)')
               \/ pool'[g].st # "up" /\ pool'[g].used = 0 /\ pool'[g].active = 0
    <3>1. CASE g = h
      BY <2>2, <2>5, <2>6, <3>1
    <3>2. CASE g # h
      BY <2>2, <2>7, <3>2 DEF PoolBooks
    <3> QED BY <3>1, <3>2
  <2> QED BY <2>8 DEF PoolBooks
<1> QED
  BY <1>2, <1>3, <1>4, <1>5, <1>6, <1>7, <1>8, <1>9, <1>10 DEF Next, Step

----------------------------------------------------------------------------
(* The size of all pools, counted under global_mutex as they join and leave the list. *)

LEMMA ListedFinite ==
  ASSUME TypeOK
  PROVE  Listed \subseteq Handles /\ IsFiniteSet(Listed)
<1>1. IsFiniteSet(Handles)
  BY SizesAssumption, FS_Interval DEF Handles
<1>2. Listed \subseteq Handles
  BY DEF TypeOK, Listed
<1> QED BY <1>1, <1>2, FS_Subset

LEMMA CountsTyped ==
  ASSUME TypeOK, NEW h \in Handles
  PROVE  pool[h].region \in Regions /\ pool[h].region.count \in Nat \ {0}
<1>1. pool[h].region \in Regions
  BY DEF TypeOK, Pool
<1> QED BY <1>1, RegionsAssumption

LEMMA TotalsFrame ==
  ASSUME Inv, Next, Totals, UNCHANGED <<list, totalSize>>
  PROVE  Totals'
<1>1. Listed' = Listed
  BY DEF Listed
<1>2. \A h \in Listed : pool'[h].region = pool[h].region
  <2>1. \A h \in Listed : h \in Handles /\ pool[h].st # "free"
    BY ListedFinite DEF Inv, Structs
  <2> QED BY <2>1, PoolsKeepTheirRange
<1>3. [h \in Listed' |-> pool'[h].region.count] = [h \in Listed |-> pool[h].region.count]
  BY <1>1, <1>2
<1> QED BY <1>1, <1>3 DEF Totals

LEMMA CreateAddTotals ==
  ASSUME Inv, Next, Totals, NEW t \in Threads, CreateAdd(t) PROVE Totals'
<1> USE DEF Inv
<1>0. hnd[t] \in Handles /\ pool[hnd[t]].st = "new"
  BY DEF CreateAdd, Structs, Placed, MakeLabels
<1> PICK h \in Handles : h = hnd[t]
  BY <1>0
<1>1. h \notin Listed
  BY <1>0 DEF Structs
<1>2. Listed' = Listed \cup {h}
  <2>1. list' = Append(list, h)
    BY DEF CreateAdd
  <2>2. /\ Len(list') = Len(list) + 1 /\ list'[Len(list) + 1] = h
        /\ \A i \in 1..Len(list) : list'[i] = list[i]
        /\ Len(list) \in Nat
    BY <2>1 DEF TypeOK
  <2> QED BY <2>2 DEF Listed
<1> DEFINE f == [g \in Listed |-> pool[g].region.count]
           e == [g \in Listed \cup {h} |-> pool'[g].region.count]
<1>3. \A g \in Handles : pool'[g].region = pool[g].region
  BY <1>0 DEF CreateAdd, TypeOK, Pool
<1>4. \A g \in Listed \cup {h} : pool[g].region.count \in Int
  BY ListedFinite, CountsTyped
<1>5. IsFiniteSet(Listed) /\ Listed \subseteq Handles
  BY ListedFinite
<1>6. \A g \in Listed : f[g] \in Int /\ f[g] = e[g]
  BY <1>3, <1>4, <1>5
<1>7. \A g \in Listed \cup {h} : e[g] \in Int
  BY <1>3, <1>4, <1>5
<1>8. e[h] = pool[h].region.count
  BY <1>3
<1>9. totalSize' = totalSize + pool[h].region.count
  BY DEF CreateAdd
<1>10. totalSize = SumOver(f, Listed)
  BY DEF Totals
<1>11. [g \in Listed' |-> pool'[g].region.count] = e
  BY <1>2
<1> HIDE DEF f, e
<1>12. SumOver(f, Listed) = SumOver(e, Listed)
  BY <1>5, <1>6, SumCongruent
<1>13. SumOver(e, Listed \cup {h}) = SumOver(e, Listed) + e[h]
  <2>1. IsFiniteSet(Listed) /\ h \notin Listed /\ \A x \in Listed \cup {h} : e[x] \in Int
    BY <1>1, <1>5, <1>7
  <2> QED BY ONLY <2>1, SumAdd
<1>14. totalSize' = SumOver(e, Listed')
  BY <1>2, <1>8, <1>9, <1>10, <1>12, <1>13
<1> QED BY <1>11, <1>14 DEF Totals

LEMMA DestroyDelTotals ==
  ASSUME Inv, Next, Totals, NEW t \in Threads, DestroyDel(t) PROVE Totals'
<1> USE DEF Inv
<1>0. hnd[t] \in Handles /\ pool[hnd[t]].st = "dying"
  BY DEF DestroyDel, Unlist, Structs, Placed, LeftLabels, KillLabels
<1> PICK h \in Handles : h = hnd[t]
  BY <1>0
<1>1. h \in Listed
  BY <1>0 DEF Structs
<1>2. Listed' = Listed \ {h}
  <2>1. list' = Without(h)
    BY DEF DestroyDel, Unlist
  <2>2. list \in Seq(Handles) /\ \A i, j \in 1..Len(list) : list[i] = list[j] => i = j
    BY DEF TypeOK, Structs
  <2>3. {Without(h)[i] : i \in 1..Len(Without(h))} = Listed \ {h}
    BY <1>1, <2>2, WithoutTyped
  <2> DEFINE w == Without(h)
  <2>4. list' = w /\ {w[i] : i \in 1..Len(w)} = Listed \ {h}
    BY <2>1, <2>3
  <2> HIDE DEF w
  <2> QED BY <2>4 DEF Listed
<1> DEFINE f == [g \in Listed |-> pool[g].region.count]
           e == [g \in Listed \ {h} |-> pool'[g].region.count]
<1>3. \A g \in Handles : pool'[g].region = pool[g].region
  BY <1>0 DEF DestroyDel, Unlist, TypeOK, Pool
<1>4. \A g \in Listed : pool[g].region.count \in Int
  BY ListedFinite, CountsTyped
<1>5. IsFiniteSet(Listed) /\ Listed \subseteq Handles /\ IsFiniteSet(Listed \ {h})
  BY ListedFinite, FS_RemoveElement
<1>6. \A g \in Listed \ {h} : f[g] \in Int /\ f[g] = e[g]
  BY <1>3, <1>4, <1>5
<1>7. \A g \in Listed : f[g] \in Int
  BY <1>4
<1>8. f[h] = pool[h].region.count
  BY <1>1
<1>9. totalSize' = totalSize - pool[h].region.count
  BY DEF DestroyDel, Unlist
<1>10. totalSize = SumOver(f, Listed)
  BY DEF Totals
<1>11. [g \in Listed' |-> pool'[g].region.count] = e
  BY <1>2
<1> HIDE DEF f, e
<1>12. SumOver(f, Listed \ {h}) = SumOver(e, Listed \ {h})
  BY <1>5, <1>6, SumCongruent
<1>13. SumOver(f, Listed) = f[h] + SumOver(f, Listed \ {h})
  BY <1>1, <1>5, <1>7, SumRemove
<1>14. SumOver(f, Listed \ {h}) \in Int /\ f[h] \in Int
  BY <1>1, <1>5, <1>6, <1>7, SumType
<1>15. totalSize' = SumOver(e, Listed')
  BY <1>2, <1>8, <1>9, <1>10, <1>12, <1>13, <1>14
<1> QED BY <1>11, <1>15 DEF Totals

LEMMA TotalsKept == ASSUME Inv, Next, Totals PROVE Totals'
<1>1. ASSUME NEW t \in Threads, ~ CreateAdd(t), ~ DestroyDel(t), Step(t)
      PROVE  UNCHANGED <<list, totalSize>>
  BY <1>1 DEF Step, LockGlobal, LockPool, AllocInPool, FreeInPool, VisitPool, UseDestroyed,
              FinishAlloc, SettleAlloc, FinishFree, FinishWalk, CreateCheck, CreateReadId,
              CreateWriteId, CreateLock, CreateReturn, DestroyFind, DestroyLockPool, DestroyPool,
              DestroyLockGlobal, UseFreed, manager
<1>2. ASSUME NEW t \in Clients, Call(t) PROVE UNCHANGED <<list, totalSize>>
  BY <1>2 DEF Call, CallAlloc, CallFree, CallWalk, CallCreate, CallDestroy, Calls, manager
<1>3. ASSUME MonitorWake \/ ExitBegin \/ ExitStep PROVE UNCHANGED <<list, totalSize>>
  BY <1>3 DEF MonitorWake, ExitBegin, ExitStep, ExitStop, ExitJoin, ExitNext, manager
<1> QED
  BY <1>1, <1>2, <1>3, TotalsFrame, CreateAddTotals, DestroyDelTotals DEF Next

----------------------------------------------------------------------------
(* The walks.  While a walk holds global_mutex nothing it has seen changes: allocations, frees,
   and whatever changes the list need the mutex too. *)

LEMMA SeenAll ==
  ASSUME Inv
  PROVE  SeenIn(0) = {} /\ SeenIn(Len(list)) = blocks
<1>1. SeenIn(0) = {}
  BY DEF SeenIn
<1>2. ASSUME NEW b \in blocks PROVE \E j \in 1..Len(list) : b.ptr \in PagesIn(pool[list[j]].region)
  <2>1. PICK g \in Handles :
          g \in Listed /\ \A h \in Handles : Exists(h) => (b.ptr \in PagesIn(pool[h].region) <=> h = g)
    BY BlockHasItsPool
  <2>2. Exists(g)
    BY <2>1 DEF Inv, Structs, Exists
  <2>3. b.ptr \in PagesIn(pool[g].region)
    BY <2>1, <2>2
  <2> QED BY <2>1, <2>3 DEF Listed
<1>3. SeenIn(Len(list)) = blocks
  BY <1>2 DEF SeenIn
<1> QED BY <1>1, <1>3

LEMMA SeenMore ==
  ASSUME Inv, Sized(blocks), PoolBooks, NEW n \in 1..Len(list)
  PROVE  /\ SizeSum(SeenIn(n)) = SizeSum(SeenIn(n - 1)) + pool[list[n]].used
         /\ SizeSum(SeenIn(n - 1)) \in Nat /\ pool[list[n]].used \in Nat
<1> USE DEF Inv
<1> DEFINE h == list[n]
<1>1. Len(list) \in Nat /\ \A j \in 1..Len(list) : list[j] \in Handles /\ list[j] \in Listed
  BY DEF TypeOK, Listed
<1>2. \A j \in 1..Len(list) : Exists(list[j])
  BY <1>1 DEF Structs, Exists
<1>3. h \in Handles /\ Exists(h)
  BY <1>1, <1>2
<1>4. SeenIn(n) = SeenIn(n - 1) \cup BlocksIn(h)
  <2>1. 1..n = (1..(n - 1)) \cup {n}
    BY <1>1
  <2> QED BY <2>1 DEF SeenIn, BlocksIn
<1>5. ASSUME NEW b, b \in SeenIn(n - 1), b \in BlocksIn(h) PROVE FALSE
  <2>1. b \in blocks /\ b.ptr \in PagesIn(pool[h].region)
    BY <1>5 DEF BlocksIn
  <2>2. PICK j \in 1..(n - 1) : b.ptr \in PagesIn(pool[list[j]].region)
    BY <1>5 DEF SeenIn
  <2>3. j \in 1..Len(list) /\ j # n
    BY <1>1
  <2>4. list[j] # h /\ list[j] \in Handles /\ Exists(list[j])
    BY <1>1, <1>2, <2>3 DEF Structs
  <2> HIDE DEF h
  <2> QED BY <1>3, <2>1, <2>2, <2>4, BlockHasItsPool
<1>6. SeenIn(n - 1) \cap BlocksIn(h) = {}
  BY <1>5
<1>7. SeenIn(n - 1) \in SUBSET blocks
  BY DEF SeenIn
<1>8. Sized(SeenIn(n - 1)) /\ Sized(BlocksIn(h))
  BY <1>3, <1>7, SizeSumSubset, BlocksSized
<1>9. pool[h].used = SizeSum(BlocksIn(h))
  <2>1. CASE pool[h].st = "up"
    BY <1>3, <2>1 DEF PoolBooks
  <2>2. CASE pool[h].st # "up"
    <3>1. BlocksIn(h) = {}
      BY <1>3, <2>2, NoBlocksIn DEF Memory
    <3> QED BY <1>3, <2>2, <3>1, SizeSumEmpty DEF PoolBooks
  <2> QED BY <2>1, <2>2
<1> HIDE DEF h
<1>10. SizeSum(SeenIn(n - 1) \cup BlocksIn(h)) = SizeSum(SeenIn(n - 1)) + SizeSum(BlocksIn(h))
  BY <1>6, <1>8, SizeSumUnion
<1>11. SizeSum(SeenIn(n - 1)) \in Nat /\ SizeSum(BlocksIn(h)) \in Nat
  BY <1>8, SizeSumNat
<1> QED BY <1>4, <1>9, <1>10, <1>11 DEF h

LEMMA WalksFrame ==
  ASSUME Inv, Next, Walks, NEW t \in Threads, Others(t),
         UNCHANGED <<blocks, list>> \/ HoldsGlobal(t), WalkSums(t)'
  PROVE  Walks'
<1> USE DEF Inv
<1>1. ASSUME NEW u \in Threads, u # t PROVE WalkSums(u)'
  <2>1. pc'[u] = pc[u] /\ arg'[u] = arg[u] /\ cur'[u] = cur[u] /\ tmp'[u] = tmp[u]
    BY <1>1 DEF Others
  <2>2. CASE HoldsGlobal(t)
    <3>1. pc[u] \notin {"lockP", "inPool", "done"}
      BY <1>1, <2>2, OneOwes DEF HoldsGlobal
    <3> QED BY <2>1, <3>1 DEF WalkSums
  <2>3. CASE UNCHANGED <<blocks, list>>
    <3>1. Len(list) \in Nat /\ \A j \in 1..Len(list) : list[j] \in Handles /\ list[j] \in Listed
      BY DEF TypeOK, Listed
    <3>2. \A j \in 1..Len(list) : pool[list[j]].st # "free"
      BY <3>1 DEF Structs
    <3>3. \A j \in 1..Len(list) : pool'[list[j]].region = pool[list[j]].region
      BY <3>1, <3>2, PoolsKeepTheirRange
    <3>4. ASSUME NEW n \in 1..Len(list) PROVE SeenIn(n - 1)' = SeenIn(n - 1)
      <4>1. \A j \in 1..(n - 1) : pool'[list[j]].region = pool[list[j]].region
        BY <3>1, <3>3
      <4> QED BY <2>3, <4>1 DEF SeenIn
    <3>5. CASE pc[u] \in {"lockP", "inPool"} /\ arg[u].op \in WalkOps
      <4>1. cur[u] \in 1..Len(list) /\ tmp[u] = SizeSum(SeenIn(cur[u] - 1))
        BY <3>5 DEF Scans, Walks, WalkSums
      <4> PICK n \in 1..Len(list) : n = cur[u]
        BY <4>1
      <4>2. tmp'[u] = SizeSum(SeenIn(n - 1)') /\ cur'[u] = n
        BY <2>1, <3>4, <4>1
      <4>3. tmp'[u] = SizeSum(SeenIn(cur[u] - 1)')
        BY <4>2 DEF SeenIn
      <4> QED BY <2>1, <3>5, <4>3 DEF WalkSums
    <3>6. CASE pc[u] = "done" /\ arg[u].op \in WalkOps
      BY <2>1, <2>3, <3>6 DEF Walks, WalkSums
    <3>7. CASE arg[u].op \notin WalkOps \/ pc[u] \notin {"lockP", "inPool", "done"}
      BY <2>1, <3>7 DEF WalkSums
    <3> QED BY <3>5, <3>6, <3>7
  <2> QED BY <2>2, <2>3
<1> QED BY <1>1 DEF Walks

(* A walk wants every pool, and so goes on to the next one. *)
LEMMA WalkScans ==
  ASSUME TypeOK, NEW t \in Threads, arg[t].op \in WalkOps, NEW i \in 1..(Len(list) + 1), Scan(t, i)
  PROVE  \/ i <= Len(list) /\ cur'[t] = i /\ pc'[t] = "lockP"
         \/ i = Len(list) + 1 /\ pc'[t] = "done"
<1> DEFINE S == {j \in i..Len(list) : Wanted(t, list[j])}
<1>1. pc \in [Threads -> Labels] /\ cur \in [Threads -> Nat] /\ Len(list) \in Nat
  BY DEF TypeOK
<1>2. \A h : Wanted(t, h)
  BY DEF Wanted, WalkOps
<1>3. S = i..Len(list)
  BY <1>2
<1>4. CASE i <= Len(list)
  <2>1. i \in S
    BY <1>1, <1>3, <1>4
  <2>2. PICK j \in S : /\ Least(j, S)
                       /\ cur' = [cur EXCEPT ![t] = j] /\ pc' = [pc EXCEPT ![t] = "lockP"]
    BY <2>1 DEF Scan
  <2>3. j <= i
    BY <2>1, <2>2 DEF Least
  <2>4. j \in i..Len(list)
    BY <1>3
  <2>5. j = i
    BY <1>1, <2>3, <2>4
  <2> QED BY <1>1, <1>4, <2>2, <2>5
<1>5. CASE i = Len(list) + 1
  <2>1. S = {}
    BY <1>1, <1>3, <1>5
  <2>2. pc' = [pc EXCEPT ![t] = "done"]
    BY <2>1 DEF Scan
  <2> QED BY <1>1, <1>5, <2>2
<1> QED BY <1>1, <1>4, <1>5

(* Where the scan stands after it has gone on from pool n, its sum is that of pools 1 to n. *)
LEMMA WalkGoesOn ==
  ASSUME Inv, NEW t \in Threads, arg[t].op \in WalkOps, arg'[t] = arg[t],
         UNCHANGED <<blocks, list, pool>>, NEW n \in 0..Len(list), Scan(t, n + 1),
         tmp'[t] = SizeSum(SeenIn(n))
  PROVE  WalkSums(t)'
<1> USE DEF Inv
<1>1. Len(list) \in Nat
  BY DEF TypeOK
<1>2. n + 1 \in 1..(Len(list) + 1)
  BY <1>1
<1>3. CASE cur'[t] = n + 1 /\ pc'[t] = "lockP"
  <2>1. cur'[t] - 1 = n
    BY <1>3
  <2>2. SeenIn(cur[t] - 1)' = SeenIn(n)
    BY <2>1 DEF SeenIn
  <2> QED BY <1>3, <2>2 DEF WalkSums
<1>4. CASE n + 1 = Len(list) + 1 /\ pc'[t] = "done"
  <2>1. n = Len(list)
    BY <1>1, <1>4
  <2>2. SeenIn(n) = blocks
    BY <2>1, SeenAll
  <2> QED BY <1>4, <2>2 DEF WalkSums
<1> QED BY <1>2, <1>3, <1>4, WalkScans

LEMMA WalksKept == ASSUME Inv, Next, Books, PoolBooks, Walks PROVE Walks'
<1> USE DEF Inv
<1>1. ASSUME NEW t \in Threads, LockGlobal(t) PROVE Walks'
  <2>1. /\ Others(t) /\ UNCHANGED <<blocks, list, pool, arg>> /\ Scan(t, 1) /\ tmp'[t] = 0
    BY <1>1, StepIsLocal DEF Step, LockGlobal, TypeOK
  <2>2. CASE arg[t].op \in WalkOps
    <3>1. tmp'[t] = SizeSum(SeenIn(0))
      BY <2>1, SeenAll, SizeSumEmpty
    <3>2. 0 \in 0..Len(list) /\ 0 + 1 = 1
      BY DEF TypeOK
    <3>3. Scan(t, 0 + 1)
      BY <2>1, <3>2
    <3>4. WalkSums(t)'
      BY <2>1, <2>2, <3>1, <3>2, <3>3, WalkGoesOn
    <3> QED BY <2>1, <3>4, WalksFrame
  <2>3. CASE arg[t].op \notin WalkOps
    <3>1. WalkSums(t)'
      BY <2>1, <2>3 DEF WalkSums
    <3> QED BY <2>1, <3>1, WalksFrame
  <2> QED BY <2>2, <2>3
<1>2. ASSUME NEW t \in Threads, VisitPool(t) PROVE Walks'
  <2>1. /\ Others(t) /\ UNCHANGED <<blocks, list, pool, arg>> /\ Scan(t, cur[t] + 1)
        /\ tmp'[t] = tmp[t] + pool[Here(t)].used
        /\ pc[t] = "inPool" /\ arg[t].op \in WalkOps
    BY <1>2, StepIsLocal DEF Step, VisitPool, TypeOK
  <2>2. cur[t] \in 1..Len(list) /\ tmp[t] = SizeSum(SeenIn(cur[t] - 1)) /\ Len(list) \in Nat
    BY <2>1 DEF Scans, Walks, WalkSums, TypeOK
  <2>3. tmp'[t] = SizeSum(SeenIn(cur[t]))
    BY <2>1, <2>2, SeenMore DEF Books, Here
  <2>4. cur[t] \in 0..Len(list)
    BY <2>2
  <2>5. WalkSums(t)'
    BY <2>1, <2>3, <2>4, WalkGoesOn
  <2> QED BY <2>1, <2>5, WalksFrame
<1>3. ASSUME NEW t \in Threads, LockPool(t) PROVE Walks'
  <2>1. /\ Others(t) /\ UNCHANGED <<blocks, list, pool, arg, cur, tmp>>
        /\ pc[t] = "lockP" /\ pc'[t] = "inPool"
    BY <1>3, StepIsLocal DEF Step, LockPool, locals, TypeOK
  <2>2. WalkSums(t)'
    BY <2>1 DEF Walks, WalkSums, SeenIn
  <2> QED BY <2>1, <2>2, WalksFrame
<1>4. ASSUME NEW t \in Threads,
             AllocInPool(t) \/ FreeInPool(t) \/ CreateAdd(t) \/ DestroyDel(t)
      PROVE  Walks'
  <2>1. Others(t) /\ HoldsGlobal(t)
    BY <1>4, StepIsLocal DEF Step, AllocInPool, FreeInPool, CreateAdd, DestroyDel, Unlist,
       HoldsGlobal
  <2>2. arg'[t].op \notin WalkOps
    <3>1. CASE CreateAdd(t)
      <4>1. arg[t].op = "create" /\ arg' = arg
        BY <3>1 DEF CreateAdd, locals, Requested, MakeLabels
      <4> QED BY <4>1 DEF WalkOps
    <3>2. CASE AllocInPool(t) \/ FreeInPool(t) \/ DestroyDel(t)
      BY <3>2 DEF AllocInPool, FreeInPool, DestroyDel, Unlist, ReturnTo, WalkOps, TypeOK
    <3> QED BY <1>4, <3>1, <3>2
  <2> QED BY <2>1, <2>2, WalksFrame DEF WalkSums
<1>5. ASSUME NEW t \in Threads,
             \/ UseDestroyed(t) \/ FinishAlloc(t) \/ FinishFree(t) \/ FinishWalk(t)
             \/ CreateCheck(t) \/ CreateReadId(t) \/ CreateWriteId(t) \/ CreateLock(t)
             \/ DestroyFind(t) \/ DestroyLockPool(t) \/ DestroyPool(t) \/ DestroyLockGlobal(t)
             \/ CreateReturn(t) \/ UseFreed(t)
      PROVE  Walks'
  <2>1. Others(t)
    BY <1>5, StepIsLocal DEF Step
  <2>2. UNCHANGED <<blocks, list>>
    BY <1>5 DEF UseDestroyed, FinishAlloc, SettleAlloc, FinishFree, FinishWalk, CreateCheck,
                CreateReadId, CreateWriteId, CreateLock, DestroyFind, DestroyLockPool, DestroyPool,
                DestroyLockGlobal, CreateReturn, UseFreed
  <2>3. pc'[t] \notin {"lockP", "inPool", "done"}
    BY <1>5 DEF UseDestroyed, FinishAlloc, SettleAlloc, FinishFree, FinishWalk, CreateCheck,
                CreateReadId, CreateWriteId, CreateLock, DestroyFind, DestroyLockPool, DestroyPool,
                DestroyLockGlobal, CreateReturn, UseFreed, Return, ReturnTo, TypeOK
  <2> QED BY <2>1, <2>2, <2>3, WalksFrame DEF WalkSums
<1>6. ASSUME NEW t \in Clients, Call(t) PROVE Walks'
  <2>1. t \in Threads /\ Others(t) /\ UNCHANGED <<blocks, list>>
    BY <1>6, CallIsLocal DEF Call, CallAlloc, CallFree, CallWalk, CallCreate, CallDestroy, Calls
  <2>2. pc'[t] \in {"lockG", "cCheck", "dFind"}
    BY <1>6, <2>1 DEF Call, CallAlloc, CallFree, CallWalk, CallCreate, CallDestroy, Calls, TypeOK
  <2> QED BY <2>1, <2>2, WalksFrame DEF WalkSums
<1>7. CASE MonitorWake
  <2>1. /\ Monitor \in Threads /\ Others(Monitor) /\ UNCHANGED <<blocks, list>>
        /\ pc'[Monitor] \in {"lockG", "exited"}
    BY <1>7, WakeIsLocal, ThreadsAndLabels DEF MonitorWake, TypeOK
  <2> QED BY <2>1, WalksFrame DEF WalkSums
<1>8. CASE ExitBegin \/ ExitStep
  <2>1. Rmmod \in Threads /\ Others(Rmmod) /\ UNCHANGED <<blocks, list>>
    BY <1>8, ExitIsLocal, ThreadsAndLabels DEF ExitBegin, ExitStep, ExitStop, ExitJoin, ExitNext
  <2>2. arg'[Rmmod] = arg[Rmmod] /\ arg[Rmmod].op = "none"
    BY <1>8 DEF ExitBegin, ExitStep, ExitStop, ExitJoin, ExitNext, locals, Requested
  <2> QED BY <2>1, <2>2, WalksFrame DEF WalkSums, WalkOps
<1> QED BY <1>1, <1>2, <1>3, <1>4, <1>5, <1>6, <1>7, <1>8 DEF Next, Step

----------------------------------------------------------------------------
(* The accounts hold at the start and for ever. *)

LEMMA AccountsStart == Init => Accounts
<1> SUFFICES ASSUME Init PROVE Accounts
  OBVIOUS
<1> USE DEF Init
<1>0. Inv
  BY InitInv
<1>1. blocks = {} /\ Sized(blocks) /\ SizeSum(blocks) = 0 /\ Cardinality(blocks) = 0
  BY SizeSumEmpty, FS_EmptySet DEF Sized
<1>2. \A t \in Threads : pc[t] = "idle"
  OBVIOUS
<1>3. Books
  BY <1>1, <1>2 DEF Books, Owes
<1>4. \A h \in Handles : BlocksIn(h) = {} /\ pool[h].used = 0 /\ pool[h].active = 0
  BY <1>1 DEF BlocksIn
<1>5. PoolBooks
  BY <1>1, <1>4 DEF PoolBooks
<1>6. Walks
  BY <1>2 DEF Walks, WalkSums
<1>7. Totals
  <2> DEFINE f == [h \in Listed |-> pool[h].region.count]
  <2>1. CASE list = <<>> /\ totalSize = 0
    <3>1. Listed = {}
      BY <2>1 DEF Listed
    <3>2. SumOver(f, {}) = 0
      BY SumEmpty
    <3> QED BY <2>1, <3>1, <3>2 DEF Totals
  <2>2. CASE list = <<1>> /\ totalSize = DefaultRegion.count
    <3>1. Listed = {1}
      BY <2>2 DEF Listed
    <3>2. 1 \in Handles
      BY SizesAssumption DEF Handles
    <3>3. f[1] = DefaultRegion.count /\ f[1] \in Int
      <4>1. pool[1].region = DefaultRegion
        BY <3>2
      <4>2. f[1] = pool[1].region.count
        BY <3>1
      <4> QED BY <3>2, <4>1, <4>2, RegionsAssumption
    <3> HIDE DEF f
    <3>4. {} \cup {1} = {1} /\ IsFiniteSet({}) /\ 1 \notin {} /\ \A x \in {} \cup {1} : f[x] \in Int
      BY <3>3, FS_EmptySet
    <3>5. SumOver(f, {} \cup {1}) = SumOver(f, {}) + f[1]
      BY ONLY <3>4, SumAdd
    <3>6. SumOver(f, {}) = 0
      BY SumEmpty
    <3>7. SumOver(f, Listed) = f[1]
      BY <3>1, <3>3, <3>4, <3>5, <3>6
    <3> QED BY <2>2, <3>3, <3>7 DEF Totals, f
  <2> QED BY <2>1, <2>2
<1> QED BY <1>3, <1>5, <1>6, <1>7 DEF Accounts

LEMMA AccountsStutter == ASSUME Accounts, UNCHANGED vars PROVE Accounts'
<1>1. /\ UNCHANGED <<blocks, usedSize, active, pool, list, totalSize, pc, arg, cur, tmp>>
  BY DEF vars, manager, locals
<1>2. Books'
  BY <1>1 DEF Accounts, Books, Owes
<1>3. \A h : BlocksIn(h)' = BlocksIn(h)
  BY <1>1 DEF BlocksIn
<1>4. PoolBooks'
  BY <1>1, <1>3 DEF Accounts, PoolBooks
<1>5. Totals'
  BY <1>1 DEF Accounts, Totals, Listed
<1>6. Walks'
  BY <1>1 DEF Accounts, Walks, WalkSums, SeenIn
<1> QED BY <1>2, <1>4, <1>5, <1>6 DEF Accounts

LEMMA AccountsKept == Inv /\ Accounts /\ [Next]_vars => Accounts'
BY AccountsStutter, BooksKept, PoolBooksKept, TotalsKept, WalksKept DEF Accounts

LEMMA AccountsAlways == Spec => [](Inv /\ Accounts)
BY AccountsStart, AccountsKept, InvHolds, PTL DEF Spec

LEMMA AccountsGive == ASSUME Inv, Accounts PROVE ManagerAccounts /\ WalkConsistent
<1> USE DEF Inv, Accounts
<1>1. /\ Sized(blocks) /\ SizeSum(blocks) \in Nat /\ Cardinality(blocks) \in Nat
      /\ IsFiniteSet(blocks)
  BY SizeSumNat, FS_CardinalityType DEF Books, Sized
<1>2. usedSize \in Int /\ active \in Int
  BY DEF TypeOK
<1>3. usedSize >= 0 /\ active >= 0
  <2>1. CASE \A t \in Threads : ~ Owes(t)
    BY <1>1, <2>1 DEF Books
  <2>2. ASSUME NEW t \in Threads, Owes(t), arg[t].op = "alloc" PROVE usedSize >= 0 /\ active >= 0
    <3> DEFINE b == [ptr |-> tmp[t], size |-> arg[t].size]
    <3>1. tmp[t] \in Pages
      BY <2>2 DEF Owes, Custody
    <3>2. b \in BlockSet /\ Carries(t, b)
      BY <2>2, <3>1, RequestTyped DEF Owes, Carries
    <3>3. b \in blocks /\ b.size = arg[t].size
      BY <3>2 DEF Custody
    <3> HIDE DEF b
    <3>4. /\ Sized(blocks \ {b}) /\ SizeSum(blocks \ {b}) = SizeSum(blocks) - b.size
          /\ Cardinality(blocks \ {b}) = Cardinality(blocks) - 1
      BY <1>1, <3>3, SizeSumRemove, FS_RemoveElement
    <3>5. SizeSum(blocks \ {b}) \in Nat /\ Cardinality(blocks \ {b}) \in Nat
      BY <3>4, SizeSumNat, FS_CardinalityType DEF Sized
    <3>6. usedSize + arg[t].size = SizeSum(blocks) /\ active + 1 = Cardinality(blocks)
      BY <2>2 DEF Books
    <3>7. arg[t].size \in Nat
      BY <2>2, RequestTyped
    <3>8. usedSize = SizeSum(blocks \ {b})
      BY <1>1, <1>2, <3>3, <3>4, <3>6, <3>7
    <3>9. active = Cardinality(blocks \ {b})
      BY <1>1, <1>2, <3>4, <3>6
    <3> QED BY <3>5, <3>8, <3>9
  <2>3. ASSUME NEW t \in Threads, Owes(t), arg[t].op = "free" PROVE usedSize >= 0 /\ active >= 0
    <3>1. usedSize = SizeSum(blocks) + arg[t].size /\ active = Cardinality(blocks) + 1
      BY <2>3 DEF Books
    <3>2. arg[t].size \in Nat
      BY <2>3, RequestTyped
    <3> QED BY <1>1, <3>1, <3>2
  <2> QED BY <2>1, <2>2, <2>3 DEF Owes
<1>4. \A h \in Handles :
        SizeSum(BlocksIn(h)) \in Nat /\ Cardinality(BlocksIn(h)) \in Nat
  BY <1>1, BlocksSized
<1>5. ASSUME NEW h \in Handles PROVE pool[h].used >= 0 /\ pool[h].active >= 0
  <2>1. pool[h].used \in Nat /\ pool[h].active \in Nat
    BY <1>4 DEF PoolBooks
  <2> QED BY <2>1
<1>6. totalSize >= 0
  <2> DEFINE f == [h \in Listed |-> pool[h].region.count]
  <2>1. IsFiniteSet(Listed) /\ \A h \in Listed : f[h] \in Nat
    BY ListedFinite, CountsTyped
  <2>2. totalSize = SumOver(f, Listed)
    BY DEF Totals
  <2> HIDE DEF f
  <2>3. totalSize \in Nat
    BY <2>1, <2>2, SumNat
  <2> QED BY <2>3
<1>7. ASSUME NEW h \in Listed
      PROVE  pool[h].used = SizeSum(BlocksIn(h)) /\ pool[h].active = Cardinality(BlocksIn(h))
  <2>1. h \in Handles /\ pool[h].st \in {"up", "dying"}
    BY ListedFinite DEF Structs
  <2>2. CASE pool[h].st = "up"
    BY <2>1, <2>2 DEF PoolBooks
  <2>3. CASE pool[h].st = "dying"
    <3>1. BlocksIn(h) = {}
      BY <2>1, <2>3, NoBlocksIn DEF Memory, Exists
    <3> QED BY <2>1, <2>3, <3>1, SizeSumEmpty, FS_EmptySet DEF PoolBooks
  <2> QED BY <2>1, <2>2, <2>3
<1>8. ASSUME globalMutex = NoThread
      PROVE  usedSize = SizeSum(blocks) /\ active = Cardinality(blocks)
  <2>1. \A t \in Threads : ~ Owes(t)
    BY <1>8, NoThreadNone DEF Mutexes, HoldsGlobal, Owes
  <2> QED BY <2>1 DEF Books
<1>9. ManagerAccounts
  BY <1>3, <1>5, <1>6, <1>7, <1>8 DEF ManagerAccounts, Structs, Totals
<1>10. ASSUME NEW t \in Threads, pc[t] = "done", arg[t].op \in WalkOps
       PROVE  tmp[t] = usedSize
  <2>1. HoldsGlobal(t) /\ ~ Owes(t)
    BY <1>10 DEF HoldsGlobal, Owes, WalkOps
  <2>2. \A u \in Threads : ~ Owes(u)
    BY <2>1, OneOwes
  <2> QED BY <1>10, <2>2 DEF Books, Walks, WalkSums
<1> QED BY <1>9, <1>10 DEF WalkConsistent

(* The manager's counters and the pools' are exact whenever nobody holds global_mutex, and never
   negative in between: for every number of callers, pools and blocks, and every interleaving of
   the two steps in which an allocation or a free updates them. *)
THEOREM ManagerAccountsSafe == Spec => []ManagerAccounts
<1>1. Inv /\ Accounts => ManagerAccounts
  BY AccountsGive
<1> QED BY <1>1, AccountsAlways, PTL

(* Statistics gathered under global_mutex agree with the manager's counters, always. *)
THEOREM WalkConsistentSafe == Spec => []WalkConsistent
<1>1. Inv /\ Accounts => WalkConsistent
  BY AccountsGive
<1> QED BY <1>1, AccountsAlways, PTL

=============================================================================
