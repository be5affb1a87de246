------------------------- MODULE MemoryUtilsProofs -------------------------
(***************************************************************************)
(* libmemory_utils for every set of threads, addresses, sizes and          *)
(* memories, every number of pools, alignment and address space: its list  *)
(* and what it reports of it, the room in its array of pools, and the      *)
(* memory its pools give out.                                              *)
(***************************************************************************)
EXTENDS MemoryUtils, SumTheorems

----------------------------------------------------------------------------
(* Lists *)

(* RemoveFirst takes one entry for the element out, and keeps the others in their order. *)
LEMMA RemovedFirst ==
  ASSUME NEW S, NEW s \in Seq(S), NEW e, Contains(s, e)
  PROVE  \E k \in 1..Len(s) :
           LET r == RemoveFirst(s, e)
           IN  /\ s[k] = e
               /\ r \in Seq(S) /\ Len(r) = Len(s) - 1
               /\ \A i \in 1..Len(r) : r[i] = IF i < k THEN s[i] ELSE s[i + 1]
<1> DEFINE I == {i \in 1..Len(s) : s[i] = e}
           k == Min(I)
           r == RemoveFirst(s, e)
           a == SubSeq(s, 1, k - 1)
           z == SubSeq(s, k + 1, Len(s))
<1>1. I # {} /\ I \in SUBSET Nat
  BY DEF Contains
<1>2. k \in I
  <2> HIDE DEF I
  <2> QED BY <1>1, LeastNumber DEF Min
<1>3. k \in 1..Len(s) /\ s[k] = e
  BY <1>2
<1>4. SelectInSeq(s, LAMBDA v : v = e) = k
  BY <1>1 DEF SelectInSeq
<1>5. r = a \o z
  BY <1>3, <1>4 DEF RemoveFirst, RemoveAt
<1> HIDE DEF k, I
<1>6. /\ a \in Seq(S) /\ Len(a) = k - 1 /\ \A i \in 1..k - 1 : a[i] = s[i]
      /\ z \in Seq(S) /\ Len(z) = Len(s) - k /\ \A i \in 1..Len(s) - k : z[i] = s[k + i]
  BY <1>3
<1> HIDE DEF a, z, r
<1>7. /\ r \in Seq(S) /\ Len(r) = Len(s) - 1
      /\ \A i \in 1..k - 1 : r[i] = a[i]
      /\ \A i \in k..Len(s) - 1 : r[i] = z[i - (k - 1)]
  BY <1>3, <1>5, <1>6
<1>8. ASSUME NEW i \in 1..Len(s) - 1 PROVE r[i] = IF i < k THEN s[i] ELSE s[i + 1]
  <2>1. CASE i < k
    <3>1. i \in 1..k - 1
      BY <1>3, <2>1
    <3> QED BY <1>6, <1>7, <2>1, <3>1
  <2>2. CASE ~ (i < k)
    <3>1. i \in k..Len(s) - 1 /\ i - (k - 1) \in 1..Len(s) - k /\ k + (i - (k - 1)) = i + 1
      BY <1>3, <2>2
    <3> QED BY <1>6, <1>7, <2>2, <3>1
  <2> QED BY <2>1, <2>2
<1> QED BY <1>3, <1>7, <1>8 DEF r

LEMMA TotalEmpty == Total(<< >>) = 0
<1>1. DOMAIN << >> = {}
  OBVIOUS
<1> QED BY <1>1, SumEmpty DEF Total

LEMMA TotalPrepended ==
  ASSUME NEW s \in Seq(Addresses), NEW a \in Addresses
  PROVE  /\ <<a>> \o s \in Seq(Addresses) /\ Len(<<a>> \o s) = Len(s) + 1
         /\ Total(s) \in Int
         /\ Total(<<a>> \o s) = Total(s) + SizeOf[a]
<1> DEFINE n == Len(s)
           r == <<a>> \o s
           e == [i \in 1..n |-> SizeOf[s[i]]]
           f == [i \in 1..n + 1 |-> SizeOf[r[i]]]
           g == [i \in 1..n |-> i + 1]
<1>1. /\ r \in Seq(Addresses) /\ n \in Nat /\ Len(r) = n + 1 /\ r[1] = a
      /\ \A i \in 1..n : r[i + 1] = s[i]
      /\ DOMAIN s = 1..n /\ DOMAIN r = 1..n + 1
  OBVIOUS
<1>2. /\ \A i \in 1..n : e[i] = SizeOf[s[i]] /\ e[i] \in Int
      /\ \A i \in 1..n + 1 : f[i] = SizeOf[r[i]] /\ f[i] \in Int
      /\ f[1] = SizeOf[a]
  BY <1>1, UtilsAssumption
<1>3. Total(s) = SumOver(e, 1..n) /\ Total(r) = SumOver(f, 1..n + 1)
  BY <1>1 DEF Total
<1> HIDE DEF e, f, n, r
<1>4. IsFiniteSet(1..n) /\ IsFiniteSet(1..n + 1)
  BY <1>1, FS_Interval
<1>5. SumOver(e, 1..n) = SumOver(f, {g[i] : i \in 1..n}) /\ SumOver(e, 1..n) \in Int
  <2>0. \A i \in 1..n : g[i] = i + 1 /\ i \in Int
    BY <1>1
  <2> HIDE DEF g
  <2>1. ASSUME NEW i \in 1..n PROVE f[g[i]] \in Int /\ e[i] = f[g[i]]
    <3>1. i + 1 \in 1..n + 1 /\ g[i] = i + 1 /\ r[i + 1] = s[i]
      BY <1>1, <2>0
    <3>2. f[i + 1] = SizeOf[r[i + 1]] /\ f[i + 1] \in Int
      BY <1>2, <3>1
    <3> QED BY <1>2, <3>1, <3>2
  <2>2. \A i, j \in 1..n : g[i] = g[j] => i = j
    BY <2>0
  <2> DEFINE S == 1..n
  <2>3. /\ IsFiniteSet(S) /\ \A i \in S : e[i] \in Int
        /\ \A i \in S : f[g[i]] \in Int /\ e[i] = f[g[i]]
        /\ \A i, j \in S : g[i] = g[j] => i = j
    BY <1>2, <1>4, <2>1, <2>2
  <2> HIDE DEF g, S
  <2>4. SumOver(e, S) = SumOver(f, {g[i] : i \in S})
    BY ONLY <2>3, SumReindexed
  <2>5. SumOver(e, S) \in Int
    BY ONLY <2>3, SumType
  <2> QED BY <2>4, <2>5 DEF S
<1>6. {g[i] : i \in 1..n} = (1..n + 1) \ {1}
  <2>1. \A i \in 1..n : g[i] \in (1..n + 1) \ {1}
    BY <1>1
  <2>2. ASSUME NEW j \in (1..n + 1) \ {1} PROVE j - 1 \in 1..n /\ g[j - 1] = j
    BY <1>1
  <2> HIDE DEF g
  <2> QED BY <2>1, <2>2
<1>7. SumOver(f, 1..n + 1) = f[1] + SumOver(f, (1..n + 1) \ {1})
  <2> DEFINE S == 1..n + 1
  <2>1. IsFiniteSet(S) /\ 1 \in S /\ \A i \in S : f[i] \in Int
    BY <1>1, <1>2, <1>4
  <2> HIDE DEF S
  <2>2. SumOver(f, S) = f[1] + SumOver(f, S \ {1})
    BY ONLY <2>1, SumRemove
  <2> QED BY <2>2 DEF S
<1>8. f[1] \in Int
  BY <1>1, <1>2
<1>9. /\ Total(s) \in Int
      /\ Total(r) = Total(s) + SizeOf[a]
  <2> HIDE DEF g
  <2>1. SumOver(e, 1..n) = SumOver(f, (1..n + 1) \ {1}) /\ SumOver(e, 1..n) \in Int
    BY <1>5, <1>6
  <2>2. SumOver(f, 1..n + 1) = SumOver(e, 1..n) + SizeOf[a]
    <3>1. f[1] = SizeOf[a]
      BY <1>2
    <3> QED BY <1>7, <1>8, <2>1, <3>1
  <2> QED BY <1>3, <2>1, <2>2
<1> QED BY <1>1, <1>9 DEF r, n

LEMMA TotalRemoved ==
  ASSUME NEW s \in Seq(Addresses), NEW a \in Addresses, Contains(s, a)
  PROVE  /\ RemoveFirst(s, a) \in Seq(Addresses) /\ Len(RemoveFirst(s, a)) = Len(s) - 1
         /\ Total(s) \in Int
         /\ Total(RemoveFirst(s, a)) = Total(s) - SizeOf[a]
<1> DEFINE n == Len(s)
           r == RemoveFirst(s, a)
<1>1. PICK k \in 1..n : /\ s[k] = a /\ r \in Seq(Addresses) /\ Len(r) = n - 1
                        /\ \A i \in 1..Len(r) : r[i] = IF i < k THEN s[i] ELSE s[i + 1]
  BY RemovedFirst
<1> DEFINE e == [i \in 1..n - 1 |-> SizeOf[r[i]]]
           f == [i \in 1..n |-> SizeOf[s[i]]]
           g == [i \in 1..n - 1 |-> IF i < k THEN i ELSE i + 1]
<1>2. n \in Nat /\ DOMAIN s = 1..n /\ DOMAIN r = 1..n - 1
  BY <1>1
<1>3. \A i \in 1..n : f[i] = SizeOf[s[i]] /\ f[i] \in Int
  BY <1>2, UtilsAssumption
<1>4. Total(s) = SumOver(f, 1..n) /\ Total(r) = SumOver(e, 1..n - 1)
  BY <1>2 DEF Total
<1>5. \A i \in 1..n - 1 : g[i] \in (1..n) \ {k} /\ e[i] = f[g[i]]
  BY <1>1, <1>2
<1>6. \A i, j \in 1..n - 1 : g[i] = g[j] => i = j
  BY <1>2
<1>7. {g[i] : i \in 1..n - 1} = (1..n) \ {k}
  <2>1. ASSUME NEW j \in (1..n) \ {k} PROVE \E i \in 1..n - 1 : g[i] = j
    <3>1. CASE j < k
      <4>1. j \in 1..n - 1 /\ g[j] = j
        BY <1>1, <1>2, <3>1
      <4> QED BY <4>1
    <3>2. CASE ~ (j < k)
      <4>1. j - 1 \in 1..n - 1 /\ g[j - 1] = j
        BY <1>1, <1>2, <3>2
      <4> QED BY <4>1
    <3> QED BY <3>1, <3>2
  <2>2. \A i \in 1..n - 1 : g[i] \in (1..n) \ {k}
    BY <1>5
  <2> HIDE DEF g
  <2> QED BY <2>1, <2>2
<1> HIDE DEF e, f, g, n, r
<1>8. IsFiniteSet(1..n) /\ IsFiniteSet(1..n - 1)
  BY <1>1, <1>2, FS_Interval
<1>9. SumOver(e, 1..n - 1) = SumOver(f, (1..n) \ {k})
  <2> DEFINE S == 1..n - 1
  <2>1. /\ IsFiniteSet(S)
        /\ \A i \in S : f[g[i]] \in Int /\ e[i] = f[g[i]]
        /\ \A i, j \in S : g[i] = g[j] => i = j
    BY <1>3, <1>5, <1>6, <1>8
  <2> HIDE DEF S
  <2>2. SumOver(e, S) = SumOver(f, {g[i] : i \in S})
    BY ONLY <2>1, SumReindexed
  <2> QED BY <1>7, <2>2 DEF S
<1>10. SumOver(f, 1..n) = f[k] + SumOver(f, (1..n) \ {k}) /\ SumOver(f, 1..n) \in Int
  BY <1>3, <1>8, SumRemove, SumType
<1>11. f[k] = SizeOf[a] /\ f[k] \in Int /\ SumOver(f, (1..n) \ {k}) \in Int
  <2>1. IsFiniteSet((1..n) \ {k})
    BY <1>8, FS_RemoveElement
  <2> QED BY <1>1, <1>3, <2>1, SumType
<1> QED BY <1>1, <1>4, <1>9, <1>10, <1>11 DEF r, n

----------------------------------------------------------------------------
(* Calls.  What is past its look at the context has a label and an argument of its own. *)

Calls == {"set_config", "track_alloc", "track_free", "clear_leaks", "query", "create", "created",
          "pool_alloc", "pool_reset", "pool_destroy"}

CallsTyped ==
  /\ pc \in [Threads -> Calls \cup {"idle", "stuck"}]
  /\ arg \in [Threads -> Addresses \cup Int]
  /\ ids \subseteq Int /\ poolCount \in Int
  /\ \A t \in Threads : pc[t] \in {"track_alloc", "track_free"} => arg[t] \in Addresses
  /\ OverrunsOnlyOvertaken

(* A step of a call that is not a create leaves the count or lowers it, and takes no create along;
   a create begins where the count is below the array. *)
LEMMA ProceedKeepsCalls ==
  ASSUME UtilsAssumption, CallsTyped, ~ overrun, NEW t \in Threads,
         NEW call \in Calls \cup {"idle", "stuck"}, NEW a \in Addresses \cup Int,
         Proceed(t, call, a),
         call \in {"track_alloc", "track_free"} => a \in Addresses,
         call = "create" => poolCount < MaxPools,
         overrun' = overrun, overtaken' = overtaken \/ overtaken' = overtaken \ {t},
         ids' \subseteq Int, poolCount' \in Int, poolCount' <= poolCount
  PROVE  CallsTyped'
<1>1. MaxPools \in Int
  BY DEF UtilsAssumption
<1>2. /\ pc' \in [Threads -> Calls \cup {"idle", "stuck"}]
      /\ arg' \in [Threads -> Addresses \cup Int]
      /\ \A u \in Threads : pc'[u] \in {"track_alloc", "track_free"} => arg'[u] \in Addresses
  BY DEF CallsTyped, Proceed
<1>3. ASSUME NEW u \in Threads, pc'[u] = "create", u \notin overtaken' PROVE poolCount < MaxPools
  <2>1. CASE u = t
    BY <1>3, <2>1 DEF CallsTyped, Proceed
  <2>2. CASE u # t
    BY <1>3, <2>2 DEF CallsTyped, Proceed, OverrunsOnlyOvertaken
  <2> QED BY <2>1, <2>2
<1>4. OverrunsOnlyOvertaken'
  BY <1>1, <1>3 DEF OverrunsOnlyOvertaken, CallsTyped
<1> QED BY <1>2, <1>4 DEF CallsTyped

LEMMA ReturnKeepsCalls ==
  ASSUME UtilsAssumption, CallsTyped, ~ overrun, NEW t \in Threads, Return(t),
         overrun' = overrun, overtaken' = overtaken \/ overtaken' = overtaken \ {t},
         ids' \subseteq Int, poolCount' \in Int, poolCount' <= poolCount
  PROVE  CallsTyped'
BY ProceedKeepsCalls DEF Return

(* A create takes a slot, and whoever waits behind it is overtaken; one past the array has been
   overtaken itself. *)
LEMMA CreateKeepsCalls ==
  ASSUME UtilsAssumption, CallsTyped, ~ overrun, NEW t \in Threads, PoolCreate(t)
  PROVE  CallsTyped'
<1>1. pc[t] = "create" /\ ids' = ids /\ poolCount \in Int /\ MaxPools \in Int
  BY DEF PoolCreate, Inside, CallsTyped, UtilsAssumption
<1>2. CASE Return(t) /\ overtaken' = overtaken \ {t} /\ UNCHANGED <<poolCount, overrun>>
  BY <1>1, <1>2, ReturnKeepsCalls DEF CallsTyped
<1>3. ASSUME Proceed(t, "created", 0), poolCount' \in Int, OverrunsOnlyOvertaken' PROVE CallsTyped'
  BY <1>1, <1>3 DEF CallsTyped, Proceed, Calls
<1>4. ASSUME NEW m, NEW b, TakeSlot(t, m, b) PROVE CallsTyped'
  <2>1. /\ Proceed(t, "created", 0) /\ poolCount' = poolCount + 1 /\ overrun' = overrun
        /\ overtaken' = (overtaken \cup {u \in Threads : pc[u] = "create"}) \ {t}
    BY <1>4 DEF TakeSlot
  <2>2. \A u \in Threads : pc'[u] = "create" => u \in overtaken'
    BY <2>1 DEF Proceed, CallsTyped
  <2> QED BY <1>1, <1>3, <2>1, <2>2 DEF OverrunsOnlyOvertaken
<1>5. CASE Overrun(t)
  <2>1. /\ Proceed(t, "created", 0) /\ overrun' = TRUE /\ overtaken' = overtaken
        /\ poolCount >= MaxPools
    BY <1>5 DEF Overrun
  <2>2. poolCount' \in Int
    BY <1>5 DEF Overrun, UtilsAssumption
  <2>3. t \in overtaken
    BY <1>1, <2>1 DEF CallsTyped, OverrunsOnlyOvertaken
  <2> QED BY <1>3, <2>1, <2>2, <2>3 DEF OverrunsOnlyOvertaken
<1> QED BY <1>2, <1>4, <1>5 DEF PoolCreate

LEMMA StepKeepsCalls ==
  ASSUME UtilsAssumption, CallsTyped, ~ overrun, NEW t \in Threads, UtilsStep(t)
  PROVE  CallsTyped'
<1> USE DEF Calls
<1>1. poolCount \in Int /\ poolCount - 1 \in Int /\ poolCount - 1 <= poolCount
  BY DEF CallsTyped
<1>2. CASE memory_utils_init(t)
  BY <1>2 DEF memory_utils_init, CallsTyped, OverrunsOnlyOvertaken, poolState
<1>3. CASE memory_utils_cleanup(t)
  <2>1. /\ overrun' = overrun /\ overtaken' = overtaken /\ ids' = ids
        /\ \/ Proceed(t, "stuck", 0) /\ poolCount' = poolCount
           \/ pc' = pc /\ arg' = arg /\ poolCount' = 0
    BY <1>3 DEF memory_utils_cleanup
  <2>2. CASE Proceed(t, "stuck", 0) /\ poolCount' = poolCount
    <3>1. ids' \subseteq Int /\ poolCount' \in Int /\ poolCount' <= poolCount
      BY <1>1, <2>1, <2>2 DEF CallsTyped
    <3>2. /\ "stuck" \in Calls \cup {"idle", "stuck"} /\ 0 \in Addresses \cup Int
          /\ "stuck" \notin {"track_alloc", "track_free"} /\ "stuck" # "create"
      OBVIOUS
    <3> HIDE DEF Calls
    <3> QED BY <2>1, <2>2, <3>1, <3>2, ProceedKeepsCalls
  <2>3. CASE pc' = pc /\ arg' = arg /\ poolCount' = 0
    BY <2>1, <2>3 DEF CallsTyped, OverrunsOnlyOvertaken, UtilsAssumption
  <2> QED BY <2>1, <2>2, <2>3
<1>4. ASSUME NEW call \in Calls, NEW args \in SUBSET (Addresses \cup Int),
             Begin(t, call, args),
             call \in {"track_alloc", "track_free"} => args \subseteq Addresses,
             call = "create" => poolCount < MaxPools
      PROVE  CallsTyped'
  <2>1. PICK a \in args : Proceed(t, call, a)
    BY <1>4 DEF Begin
  <2>2. UNCHANGED <<overrun, overtaken, poolCount, ids>>
    BY <1>4 DEF Begin, poolState
  <2>3. ids' \subseteq Int /\ poolCount' \in Int /\ poolCount' <= poolCount
    BY <1>1, <2>2 DEF CallsTyped
  <2> QED BY <1>4, <2>1, <2>2, <2>3, ProceedKeepsCalls
<1>5. CASE \/ BeginSetConfig(t) \/ BeginTrackAlloc(t) \/ BeginTrackFree(t)
           \/ BeginClearLeaks(t) \/ BeginQuery(t) \/ BeginCreate(t)
  BY <1>4, <1>5 DEF BeginSetConfig, BeginTrackAlloc, BeginTrackFree, BeginClearLeaks, BeginQuery,
                    BeginCreate
<1>6. CASE \E call \in {"pool_alloc", "pool_reset", "pool_destroy"} : BeginPool(t, call)
  <2>1. {i \in ids : i < poolCount} \in SUBSET (Addresses \cup Int)
    BY DEF CallsTyped
  <2> QED BY <1>4, <1>6, <2>1 DEF BeginPool
<1>7. ASSUME Return(t), UNCHANGED <<overrun, overtaken>>,
             ids' = ids \/ ids' = ids \cup {i \in {poolCount - 1} : i >= 0},
             poolCount' = poolCount \/ poolCount' = poolCount - 1
      PROVE  CallsTyped'
  <2>1. ids' \subseteq Int
    BY <1>1, <1>7 DEF CallsTyped
  <2>2. poolCount' \in Int /\ poolCount' <= poolCount
    BY <1>1, <1>7
  <2> QED BY <1>7, <2>1, <2>2, ReturnKeepsCalls
<1>8. CASE SetConfig(t) \/ TrackAlloc(t) \/ TrackFree(t) \/ ClearLeaks(t) \/ Query(t)
  BY <1>7, <1>8 DEF SetConfig, TrackAlloc, TrackFree, ClearLeaks, Query, poolState
<1>9. CASE PoolAlloc(t) \/ PoolReset(t)
  BY <1>7, <1>9 DEF PoolAlloc, PoolReset
<1>10. CASE PoolDestroy(t)
  BY <1>7, <1>10 DEF PoolDestroy
<1>11. CASE PoolCreate(t)
  BY <1>11, CreateKeepsCalls
<1>12. CASE Created(t)
  BY <1>7, <1>12 DEF Created, poolState
<1> QED BY <1>2, <1>3, <1>5, <1>6, <1>8, <1>9, <1>10, <1>11, <1>12 DEF UtilsStep

LEMMA CallsTypedHolds == UtilsSpec => []CallsTyped
<1>1. UtilsStart => CallsTyped
  BY UtilsAssumption DEF UtilsStart, CallsTyped, Calls, OverrunsOnlyOvertaken, UtilsAssumption
<1>2. CallsTyped /\ [UtilsNext]_utilsVars => CallsTyped'
  <2>1. CASE UNCHANGED utilsVars
    BY <2>1 DEF utilsVars, poolState, CallsTyped, OverrunsOnlyOvertaken
  <2> QED BY <2>1, StepKeepsCalls, UtilsAssumption DEF UtilsNext
<1> QED BY <1>1, <1>2, PTL DEF UtilsSpec

(* A create that no other create has overtaken finds room, whatever else the threads do, so that
   only creates that race write a pool over the context: for any number of threads and slots. *)
THEOREM OverrunsOnlyOvertakenSafe == UtilsSpec => []OverrunsOnlyOvertaken
<1>1. CallsTyped => OverrunsOnlyOvertaken
  BY DEF CallsTyped
<1> QED BY <1>1, CallsTypedHolds, PTL

----------------------------------------------------------------------------
(* The list and what is reported of it.  The accounts of a library that is not initialised may be
   anything: the next initialisation starts them over, and notices a list that is not empty. *)

ListInv ==
  /\ blocks \in Seq(Addresses)
  /\ stats \in [current : Int, count : Int]
  /\ AccountsExact

LEMMA UnlistedKeepsAccounts ==
  ASSUME ListInv, UNCHANGED tracking, initialized' = initialized \/ initialized' = FALSE,
         lock' = lock \/ lock' # Nobody, overrun' = overrun
  PROVE  ListInv'
BY DEF ListInv, AccountsExact, tracking

LEMMA TrackKeepsAccounts ==
  ASSUME CallsTyped, ListInv, NEW t \in Threads, TrackAlloc(t) \/ TrackFree(t)
  PROVE  ListInv'
<1> DEFINE a == arg[t]
<1>1. /\ lock = Nobody /\ initialized' = initialized /\ stale' = stale /\ a \in Addresses
      /\ lock' = lock /\ overrun' = overrun
  BY DEF TrackAlloc, TrackFree, Inside, CallsTyped, poolState
<1>2. SizeOf[a] \in Int /\ stats.current \in Int /\ stats.count \in Int /\ Len(blocks) \in Int
  BY <1>1, UtilsAssumption DEF ListInv
<1>3. ASSUME blocks' = blocks, stats' = stats PROVE ListInv'
  BY <1>1, <1>3 DEF ListInv, AccountsExact
<1>4. CASE /\ blocks' = <<a>> \o blocks
           /\ stats' = [current |-> stats.current + SizeOf[a], count |-> stats.count + 1]
  <2>1. /\ <<a>> \o blocks \in Seq(Addresses) /\ Len(<<a>> \o blocks) = Len(blocks) + 1
        /\ Total(<<a>> \o blocks) = Total(blocks) + SizeOf[a]
    BY <1>1, TotalPrepended DEF ListInv
  <2>2. stats' \in [current : Int, count : Int]
    BY <1>2, <1>4
  <2>3. AccountsExact'
    BY <1>1, <1>4, <2>1 DEF AccountsExact, ListInv
  <2> QED BY <1>4, <2>1, <2>2, <2>3 DEF ListInv
<1>5. CASE /\ Contains(blocks, a) /\ blocks' = RemoveFirst(blocks, a)
           /\ stats' = [current |-> stats.current - SizeOf[a], count |-> stats.count - 1]
  <2>1. /\ RemoveFirst(blocks, a) \in Seq(Addresses)
        /\ Len(RemoveFirst(blocks, a)) = Len(blocks) - 1
        /\ Total(RemoveFirst(blocks, a)) = Total(blocks) - SizeOf[a]
    BY <1>1, <1>5, TotalRemoved DEF ListInv
  <2>2. stats' \in [current : Int, count : Int]
    BY <1>2, <1>5
  <2>3. AccountsExact'
    BY <1>1, <1>5, <2>1 DEF AccountsExact, ListInv
  <2> QED BY <1>5, <2>1, <2>2, <2>3 DEF ListInv
<1>6. QED
  BY <1>3, <1>4, <1>5 DEF TrackAlloc, TrackFree

LEMMA EmptiedKeepsAccounts ==
  ASSUME blocks' = << >>, stats' = [current |-> 0, count |-> 0]
  PROVE  ListInv'
<1>1. << >> \in Seq(Addresses) /\ Len(<< >>) = 0
  OBVIOUS
<1> QED BY <1>1, TotalEmpty DEF ListInv, AccountsExact

LEMMA StepKeepsAccounts ==
  ASSUME UtilsAssumption, CallsTyped, ListInv, NEW t \in Threads, UtilsStep(t)
  PROVE  ListInv'
<1>1. CASE memory_utils_init(t)
  <2>1. CASE UNCHANGED <<initialized, stats, stale>>
    BY <1>1, <2>1, UnlistedKeepsAccounts DEF memory_utils_init, tracking, poolState
  <2>2. CASE stats' = [current |-> 0, count |-> 0] /\ stale' = (blocks # << >>)
    <3>1. blocks' = blocks
      BY <1>1 DEF memory_utils_init
    <3>2. CASE blocks = << >>
      BY <2>2, <3>1, <3>2, EmptiedKeepsAccounts
    <3>3. CASE blocks # << >>
      <4>1. stale'
        BY <2>2, <3>3
      <4>2. stats' \in [current : Int, count : Int]
        BY <2>2
      <4> QED BY <3>1, <4>1, <4>2 DEF ListInv, AccountsExact
    <3> QED BY <3>2, <3>3
  <2> QED BY <1>1, <2>1, <2>2 DEF memory_utils_init
<1>2. CASE memory_utils_cleanup(t)
  <2>1. t # Nobody /\ stats' = stats /\ (initialized' = FALSE \/ lock' = t)
    BY <1>2 DEF memory_utils_cleanup, UtilsAssumption
  <2>2. blocks' \in Seq(Addresses)
    <3>1. blocks' = blocks \/ blocks' = << >>
      BY <1>2 DEF memory_utils_cleanup
    <3>2. << >> \in Seq(Addresses)
      OBVIOUS
    <3> QED BY <3>1, <3>2 DEF ListInv
  <2> QED BY <2>1, <2>2 DEF ListInv, AccountsExact
<1>3. CASE TrackAlloc(t) \/ TrackFree(t)
  BY <1>3, TrackKeepsAccounts
<1>4. CASE ClearLeaks(t)
  BY <1>4, EmptiedKeepsAccounts DEF ClearLeaks
<1>5. CASE \/ BeginSetConfig(t) \/ BeginTrackAlloc(t) \/ BeginTrackFree(t)
           \/ BeginClearLeaks(t) \/ BeginQuery(t) \/ BeginCreate(t)
           \/ \E call \in {"pool_alloc", "pool_reset", "pool_destroy"} : BeginPool(t, call)
  BY <1>5, UnlistedKeepsAccounts DEF BeginSetConfig, BeginTrackAlloc, BeginTrackFree,
     BeginClearLeaks, BeginQuery, BeginCreate, BeginPool, Begin, poolState
<1>6. CASE \/ SetConfig(t) \/ Query(t) \/ Created(t)
           \/ PoolAlloc(t) \/ PoolReset(t) \/ PoolDestroy(t)
  BY <1>6, UnlistedKeepsAccounts DEF SetConfig, Query, Created, PoolAlloc, PoolReset, PoolDestroy,
     poolState
<1>7. CASE PoolCreate(t)
  <2>1. blocks' = blocks /\ stale' = stale /\ initialized' = initialized
    BY <1>7 DEF PoolCreate
  <2>2. CASE stats' = stats /\ overrun' = overrun /\ lock' = lock
    BY <2>1, <2>2, UnlistedKeepsAccounts DEF tracking
  <2>3. CASE Overrun(t)
    <3>1. stats' \in [current : Int, count : Int] /\ overrun'
      BY <2>3 DEF Overrun, UtilsAssumption
    <3> QED BY <2>1, <3>1 DEF ListInv, AccountsExact
  <2> QED BY <1>7, <2>2, <2>3 DEF PoolCreate, TakeSlot
<1> QED BY <1>1, <1>2, <1>3, <1>4, <1>5, <1>6, <1>7 DEF UtilsStep

(* What an initialised library reports as allocated is what its list holds, in bytes and in
   blocks, until a call that a cleanup overtook adds to it or a pool is written over it: for every
   set of addresses and their sizes and any number of threads. *)
THEOREM AccountsExactSafe == UtilsSpec => []AccountsExact
<1>1. UtilsStart => ListInv
  <2>1. << >> \in Seq(Addresses) /\ Len(<< >>) = 0
    OBVIOUS
  <2> QED BY <2>1, TotalEmpty DEF UtilsStart, ListInv, AccountsExact
<1>2. CallsTyped /\ ListInv /\ [UtilsNext]_utilsVars => ListInv'
  <2>1. CASE UNCHANGED utilsVars
    BY <2>1, UnlistedKeepsAccounts DEF utilsVars, poolState
  <2> QED BY <2>1, StepKeepsAccounts, UtilsAssumption DEF UtilsNext
<1>3. ListInv => AccountsExact
  BY DEF ListInv
<1> QED BY <1>1, <1>2, <1>3, CallsTypedHolds, PTL DEF UtilsSpec

----------------------------------------------------------------------------
(* Pools.  A memory belongs to one pool at most: malloc does not give what is allocated.  A pool
   that is created over leaves its memory allocated and out of reach, so what it gave out stays. *)

(* No request makes current pass the end of the pool, so that aligning it does not wrap. *)
LEMMA AlignUp ==
  ASSUME UtilsAssumption, NEW b \in Bases, NEW a \in Nat, a <= b + PoolSize
  PROVE  AlignedUp[a] \in Nat /\ AlignedUp[a] >= a /\ AlignedUp[a] < AddressSpace
<1>1. /\ b \in Nat /\ PoolSize \in Nat /\ Align \in Nat \ {0} /\ AddressSpace \in Nat
      /\ b + PoolSize + Align <= AddressSpace
  BY DEF UtilsAssumption
<1>2. a \in 0 .. AddressSpace - Align /\ a + Align - 1 < AddressSpace
  BY <1>1
<1>3. AlignedUp[a] \in a .. a + Align - 1
  BY <1>2 DEF UtilsAssumption
<1> QED BY <1>1, <1>2, <1>3

(* A piece whose end does not lie before its start has not wrapped, and starts at current or
   behind. *)
LEMMA PieceBehind ==
  ASSUME UtilsAssumption, NEW b \in Bases, NEW p, p.current \in Nat, p.current <= b + PoolSize,
         NEW s \in PieceSizes
  PROVE  LET new == Piece(p, s)
         IN  /\ new = [memory |-> p.memory, from |-> new.from, to |-> new.to]
             /\ new.from \in Nat /\ new.to \in Nat /\ new.from >= p.current
<1> DEFINE ptr == AlignedUp[p.current]
           end == (ptr + s) % AddressSpace
<1>1. ptr \in Nat /\ ptr >= p.current /\ ptr < AddressSpace
  BY AlignUp
<1>2. s \in Nat /\ AddressSpace \in Nat
  BY DEF UtilsAssumption
<1>3. end \in Nat
  BY <1>1, <1>2
<1>4. Piece(p, s) = [memory |-> p.memory, from |-> ptr, to |-> end]
  BY DEF Piece
<1> HIDE DEF ptr, end
<1> QED BY <1>1, <1>3, <1>4

PoolsInv ==
  /\ pools \in [DOMAIN pools -> [memory : Memories, start : Bases, current : Nat]]
  /\ \A i \in DOMAIN pools :
       /\ pools[i].memory \in allocated
       /\ pools[i].current <= pools[i].start + PoolSize
  /\ \A i, j \in DOMAIN pools : pools[i].memory = pools[j].memory => i = j
  /\ wild \subseteq allocated
  /\ pieces \subseteq [memory : Memories, from : Nat, to : Nat]
  /\ \A p \in pieces : p.memory \in allocated /\ p.memory \notin wild
  /\ \A i \in DOMAIN pools : pools[i].memory \notin wild =>
       /\ pools[i].start <= pools[i].current
       /\ \A p \in pieces :
            p.memory = pools[i].memory => p.from >= pools[i].start /\ p.to <= pools[i].current
  /\ \A p, q \in pieces : p # q /\ p.memory = q.memory => p.to <= q.from \/ q.to <= p.from

LEMMA SamePoolsKeepInv ==
  ASSUME PoolsInv, UNCHANGED <<pools, memories>>
  PROVE  PoolsInv'
BY DEF PoolsInv, memories

(* A pool in a slot, empty or not, or in none, with memory that was not allocated. *)
LEMMA CreateKeepsPools ==
  ASSUME UtilsAssumption, PoolsInv, NEW t \in Threads, PoolCreate(t)
  PROVE  PoolsInv'
<1>1. UNCHANGED <<pieces, wild>>
  BY DEF PoolCreate
<1>2. CASE UNCHANGED <<pools, allocated>>
  BY <1>1, <1>2, SamePoolsKeepInv DEF memories
<1>3. ASSUME NEW m \in Memories \ allocated, allocated' = allocated \cup {m}, pools' = pools
      PROVE  PoolsInv'
  BY <1>1, <1>3 DEF PoolsInv
<1>4. ASSUME NEW m \in Memories \ allocated, NEW b \in Bases,
             pools' = [i \in DOMAIN pools \cup ({poolCount} \cap Slots) |->
                         IF i = poolCount
                         THEN [memory |-> m, start |-> b, current |-> b] ELSE pools[i]],
             allocated' = allocated \cup {m}
      PROVE  PoolsInv'
  <2>1. b \in Nat /\ PoolSize \in Nat /\ b <= b + PoolSize
    BY DEF UtilsAssumption
  <2>2. /\ DOMAIN pools' = DOMAIN pools \cup ({poolCount} \cap Slots)
        /\ poolCount \in DOMAIN pools' =>
             pools'[poolCount] = [memory |-> m, start |-> b, current |-> b]
        /\ \A i \in DOMAIN pools' \ {poolCount} : i \in DOMAIN pools /\ pools'[i] = pools[i]
    BY <1>4
  <2>3. pools' \in [DOMAIN pools' -> [memory : Memories, start : Bases, current : Nat]]
    BY <1>4, <2>1, <2>2 DEF PoolsInv
  <2>4. \A i \in DOMAIN pools' : /\ pools'[i].memory \in allocated'
                                 /\ pools'[i].current <= pools'[i].start + PoolSize
    BY <1>4, <2>1, <2>2 DEF PoolsInv
  <2>5. \A i, j \in DOMAIN pools' : pools'[i].memory = pools'[j].memory => i = j
    BY <1>4, <2>2 DEF PoolsInv
  <2>6. \A p \in pieces' : p.memory \in allocated' /\ p.memory # m /\ p.memory \notin wild'
    BY <1>1, <1>4 DEF PoolsInv
  <2>7. ASSUME NEW i \in DOMAIN pools', pools'[i].memory \notin wild'
        PROVE  /\ pools'[i].start <= pools'[i].current
               /\ \A p \in pieces' : p.memory = pools'[i].memory =>
                    p.from >= pools'[i].start /\ p.to <= pools'[i].current
    <3>1. CASE i = poolCount
      BY <2>1, <2>2, <2>6, <3>1
    <3>2. CASE i # poolCount
      BY <1>1, <2>2, <2>7, <3>2 DEF PoolsInv
    <3> QED BY <3>1, <3>2
  <2> QED BY <1>1, <1>4, <2>3, <2>4, <2>5, <2>6, <2>7 DEF PoolsInv
<1>5. ASSUME NEW m \in Memories \ allocated, NEW b \in Bases,
             allocated' = allocated \cup {m}, TakeSlot(t, m, b) \/ Overrun(t)
      PROVE  PoolsInv'
  BY <1>3, <1>4, <1>5 DEF TakeSlot, Overrun
<1> QED BY <1>2, <1>5 DEF PoolCreate

(* A piece starts where the last one of its memory ended, or behind; where its end lies before its
   start, nothing more is said of the pool. *)
LEMMA AllocKeepsPools ==
  ASSUME UtilsAssumption, PoolsInv, NEW t \in Threads, PoolAlloc(t)
  PROVE  PoolsInv'
<1> DEFINE k == arg[t]
           pool == pools[k]
<1>1. allocated' = allocated
  BY DEF PoolAlloc
<1>2. CASE UNCHANGED <<pieces, wild, pools>>
  BY <1>1, <1>2, SamePoolsKeepInv DEF memories
<1>3. ASSUME NEW s \in PieceSizes, HasRoom(k, s),
             wild' = wild \cup IF Piece(pool, s).to < Piece(pool, s).from
                               THEN {pool.memory} ELSE {},
             pieces' = {p \in pieces \cup {Piece(pool, s)} : p.memory \notin wild'},
             pools' = [pools EXCEPT ![k] = MovedOn(pool, s)]
      PROVE  PoolsInv'
  <2> DEFINE new == Piece(pool, s)
  <2>1. /\ k \in DOMAIN pools /\ new.to <= pool.start + PoolSize
        /\ pool \in [memory : Memories, start : Bases, current : Nat]
        /\ pool.current <= pool.start + PoolSize
    BY <1>3 DEF HasRoom, PoolsInv
  <2>2. /\ new = [memory |-> pool.memory, from |-> new.from, to |-> new.to]
        /\ new.from \in Nat /\ new.to \in Nat /\ new.from >= pool.current
    BY <2>1, PieceBehind
  <2>3. /\ DOMAIN pools' = DOMAIN pools
        /\ pools'[k] = [memory |-> pool.memory, start |-> pool.start, current |-> new.to]
        /\ \A i \in DOMAIN pools \ {k} : pools'[i] = pools[i]
    BY <1>3, <2>1 DEF PoolsInv, MovedOn
  <2>4. /\ wild' = wild \cup IF new.to < new.from THEN {pool.memory} ELSE {}
        /\ pieces' = {p \in pieces \cup {new} : p.memory \notin wild'}
        /\ pool.memory \in allocated
    BY <1>3, <2>1 DEF PoolsInv
  <2>5. pools' \in [DOMAIN pools' -> [memory : Memories, start : Bases, current : Nat]]
    <3> HIDE DEF new
    <3> QED BY <1>3, <2>1, <2>2, <2>3 DEF PoolsInv
  <2> HIDE DEF new, pool
  <2>6. \A i \in DOMAIN pools' : pools'[i].memory = pools[i].memory
    BY <2>3 DEF pool
  <2>7. \A i \in DOMAIN pools' : /\ pools'[i].memory \in allocated'
                                 /\ pools'[i].current <= pools'[i].start + PoolSize
    BY <1>1, <2>1, <2>3, <2>4 DEF PoolsInv
  <2>8. \A i, j \in DOMAIN pools' : pools'[i].memory = pools'[j].memory => i = j
    BY <2>3, <2>6 DEF PoolsInv
  <2>9. wild' \subseteq allocated' /\ wild \subseteq wild'
    BY <1>1, <2>4 DEF PoolsInv
  <2>10. /\ pieces' \subseteq [memory : Memories, from : Nat, to : Nat]
         /\ \A p \in pieces' : p.memory \in allocated' /\ p.memory \notin wild'
    <3>1. new \in [memory : Memories, from : Nat, to : Nat]
      BY <2>1, <2>2
    <3>2. new.memory \in allocated
      BY <2>2, <2>4
    <3> QED BY <1>1, <2>4, <3>1, <3>2 DEF PoolsInv
  <2>11. ASSUME NEW p \in pieces, p.memory = pool.memory, pool.memory \notin wild
         PROVE  p.from >= pool.start /\ p.to <= pool.current /\ p.to <= new.from
    <3>1. p.from >= pool.start /\ p.to <= pool.current
      BY <2>1, <2>11 DEF PoolsInv, pool
    <3>2. p.to \in Nat /\ pool.current \in Nat
      BY <2>1, <2>11 DEF PoolsInv
    <3> QED BY <2>2, <3>1, <3>2
  <2>12. ASSUME NEW i \in DOMAIN pools', pools'[i].memory \notin wild'
         PROVE  /\ pools'[i].start <= pools'[i].current
                /\ \A p \in pieces' : p.memory = pools'[i].memory =>
                     p.from >= pools'[i].start /\ p.to <= pools'[i].current
    <3>1. CASE i = k
      <4>1. pool.memory \notin wild' /\ pool.memory \notin wild /\ new.to >= new.from
        BY <2>2, <2>3, <2>4, <2>12, <3>1
      <4>2. pool.start <= pool.current /\ pool.start \in Nat /\ pool.current \in Nat
        BY <2>1, <4>1 DEF PoolsInv, pool, UtilsAssumption
      <4>3. /\ new.to >= pool.start /\ new.from >= pool.start /\ new.to >= pool.current
        BY <2>2, <4>1, <4>2
      <4>4. ASSUME NEW p \in pieces', p.memory = pool.memory
            PROVE  p.from >= pool.start /\ p.to <= new.to
        <5>1. CASE p = new
          BY <2>2, <4>3, <5>1
        <5>2. CASE p # new
          <6>1. p \in pieces
            BY <2>4, <4>4, <5>2
          <6>2. p.from >= pool.start /\ p.to <= pool.current /\ p.to \in Nat
            BY <2>11, <4>1, <4>4, <6>1 DEF PoolsInv
          <6> QED BY <2>2, <4>2, <4>3, <6>2
        <5> QED BY <5>1, <5>2
      <4> QED BY <2>3, <3>1, <4>3, <4>4
    <3>2. CASE i # k
      <4>1. pools'[i] = pools[i] /\ i \in DOMAIN pools /\ pools[i].memory # pool.memory
        BY <2>1, <2>3, <3>2 DEF PoolsInv, pool
      <4>2. pools[i].memory \notin wild
        BY <2>9, <2>12, <4>1
      <4>3. \A p \in pieces' : p.memory = pools[i].memory => p \in pieces
        BY <2>2, <2>4, <4>1
      <4> QED BY <4>1, <4>2, <4>3 DEF PoolsInv
    <3> QED BY <3>1, <3>2
  <2>13. ASSUME NEW p \in pieces', NEW q \in pieces', p # q, p.memory = q.memory
         PROVE  p.to <= q.from \/ q.to <= p.from
    <3>1. CASE p \in pieces /\ q \in pieces
      BY <2>13, <3>1 DEF PoolsInv
    <3>2. CASE p \in pieces /\ q = new
      BY <2>2, <2>11, <2>4, <2>13, <3>2
    <3>3. CASE p = new /\ q \in pieces
      BY <2>2, <2>11, <2>4, <2>13, <3>3
    <3> QED BY <2>4, <2>13, <3>1, <3>2, <3>3
  <2> QED BY <2>5, <2>7, <2>8, <2>9, <2>10, <2>12, <2>13 DEF PoolsInv
<1> QED BY <1>2, <1>3 DEF PoolAlloc

(* A pool that is reset or destroyed takes the pieces of its memory back, and of no other. *)
LEMMA ResetKeepsPools ==
  ASSUME UtilsAssumption, PoolsInv, NEW t \in Threads, PoolReset(t)
  PROVE  PoolsInv'
<1> DEFINE k == arg[t]
           m == pools[k].memory
<1>1. allocated' = allocated
  BY DEF PoolReset
<1>2. CASE UNCHANGED <<pools, pieces, wild>>
  BY <1>1, <1>2, SamePoolsKeepInv DEF memories
<1>3. CASE /\ k \in DOMAIN pools
           /\ pools' = [pools EXCEPT ![k].current = pools[k].start]
           /\ pieces' = pieces \ PiecesOf(m)
           /\ wild' = wild \ {m}
  <2>1. pools[k].start \in Nat /\ pools[k].start <= pools[k].start + PoolSize
    BY <1>3 DEF UtilsAssumption, PoolsInv
  <2>2. /\ DOMAIN pools' = DOMAIN pools
        /\ pools'[k] = [memory |-> m, start |-> pools[k].start, current |-> pools[k].start]
        /\ \A i \in DOMAIN pools \ {k} : pools'[i] = pools[i]
        /\ pools' \in [DOMAIN pools' -> [memory : Memories, start : Bases, current : Nat]]
    BY <1>3, <2>1 DEF PoolsInv
  <2>3. \A i \in DOMAIN pools' : pools'[i].memory = pools[i].memory
    BY <2>2
  <2>4. \A p \in pieces' : p \in pieces /\ p.memory # m
    BY <1>3 DEF PiecesOf
  <2>5. \A i \in DOMAIN pools' : /\ pools'[i].memory \in allocated'
                                 /\ pools'[i].current <= pools'[i].start + PoolSize
    BY <1>1, <2>1, <2>2, <2>3 DEF PoolsInv
  <2>6. \A i, j \in DOMAIN pools' : pools'[i].memory = pools'[j].memory => i = j
    BY <2>2, <2>3 DEF PoolsInv
  <2>7. ASSUME NEW i \in DOMAIN pools', pools'[i].memory \notin wild'
        PROVE  /\ pools'[i].start <= pools'[i].current
               /\ \A p \in pieces' : p.memory = pools'[i].memory =>
                    p.from >= pools'[i].start /\ p.to <= pools'[i].current
    <3>1. CASE i = k
      BY <2>1, <2>2, <2>4, <3>1
    <3>2. CASE i # k
      <4>1. pools'[i] = pools[i] /\ i \in DOMAIN pools /\ pools[i].memory # m
        BY <1>3, <2>2, <3>2 DEF PoolsInv
      <4>2. pools[i].memory \notin wild
        BY <1>3, <2>7, <4>1
      <4> QED BY <2>4, <4>1, <4>2 DEF PoolsInv
    <3> QED BY <3>1, <3>2
  <2>8. \A p, q \in pieces' :
          p # q /\ p.memory = q.memory => p.to <= q.from \/ q.to <= p.from
    BY <2>4 DEF PoolsInv
  <2>9. /\ pieces' \subseteq [memory : Memories, from : Nat, to : Nat]
        /\ \A p \in pieces' : p.memory \in allocated' /\ p.memory \notin wild'
        /\ wild' \subseteq allocated'
    BY <1>1, <1>3, <2>4 DEF PoolsInv
  <2> QED BY <2>2, <2>5, <2>6, <2>7, <2>8, <2>9 DEF PoolsInv
<1> QED BY <1>2, <1>3 DEF PoolReset

LEMMA DestroyKeepsPools ==
  ASSUME PoolsInv, NEW t \in Threads, PoolDestroy(t)
  PROVE  PoolsInv'
<1> DEFINE k == arg[t]
           m == pools[k].memory
<1>1. CASE UNCHANGED <<memories, pools, poolCount>>
  BY <1>1, SamePoolsKeepInv
<1>2. CASE /\ k \in DOMAIN pools
           /\ allocated' = allocated \ {m}
           /\ pieces' = pieces \ PiecesOf(m)
           /\ wild' = wild \ {m}
           /\ pools' = [i \in DOMAIN pools \ {k} |-> pools[i]]
  <2>1. /\ DOMAIN pools' = DOMAIN pools \ {k}
        /\ \A i \in DOMAIN pools' : pools'[i] = pools[i]
        /\ pools' \in [DOMAIN pools' -> [memory : Memories, start : Bases, current : Nat]]
    BY <1>2 DEF PoolsInv
  <2>2. \A i \in DOMAIN pools' : i \in DOMAIN pools /\ pools'[i].memory # m
    BY <1>2, <2>1 DEF PoolsInv
  <2>3. \A p \in pieces' : p \in pieces /\ p.memory # m
    BY <1>2 DEF PiecesOf
  <2> HIDE DEF m
  <2>4. \A i \in DOMAIN pools' : /\ pools'[i].memory \in allocated'
                                 /\ pools'[i].current <= pools'[i].start + PoolSize
    BY <1>2, <2>1, <2>2 DEF PoolsInv
  <2>5. \A i, j \in DOMAIN pools' : pools'[i].memory = pools'[j].memory => i = j
    BY <2>1, <2>2 DEF PoolsInv
  <2>6. \A i \in DOMAIN pools' : pools'[i].memory \notin wild' =>
          /\ pools'[i].start <= pools'[i].current
          /\ \A p \in pieces' : p.memory = pools'[i].memory =>
               p.from >= pools'[i].start /\ p.to <= pools'[i].current
    BY <1>2, <2>1, <2>2, <2>3 DEF PoolsInv
  <2>7. /\ pieces' \subseteq [memory : Memories, from : Nat, to : Nat]
        /\ \A p \in pieces' : p.memory \in allocated' /\ p.memory \notin wild'
        /\ wild' \subseteq allocated'
        /\ \A p, q \in pieces' :
             p # q /\ p.memory = q.memory => p.to <= q.from \/ q.to <= p.from
    BY <1>2, <2>3 DEF PoolsInv
  <2> QED BY <2>1, <2>4, <2>5, <2>6, <2>7 DEF PoolsInv
<1> QED BY <1>1, <1>2 DEF PoolDestroy

LEMMA StepKeepsPools ==
  ASSUME UtilsAssumption, PoolsInv, NEW t \in Threads, UtilsStep(t)
  PROVE  PoolsInv'
<1>1. CASE memory_utils_init(t) \/ memory_utils_cleanup(t)
  BY <1>1, SamePoolsKeepInv DEF memory_utils_init, memory_utils_cleanup, poolState
<1>2. CASE \/ BeginSetConfig(t) \/ BeginTrackAlloc(t) \/ BeginTrackFree(t)
           \/ BeginClearLeaks(t) \/ BeginQuery(t) \/ BeginCreate(t)
           \/ \E call \in {"pool_alloc", "pool_reset", "pool_destroy"} : BeginPool(t, call)
  BY <1>2, SamePoolsKeepInv DEF BeginSetConfig, BeginTrackAlloc, BeginTrackFree, BeginClearLeaks,
     BeginQuery, BeginCreate, BeginPool, Begin, poolState
<1>3. CASE \/ SetConfig(t) \/ TrackAlloc(t) \/ TrackFree(t) \/ ClearLeaks(t) \/ Query(t)
           \/ Created(t)
  BY <1>3, SamePoolsKeepInv DEF SetConfig, TrackAlloc, TrackFree, ClearLeaks, Query, Created,
     poolState
<1> QED BY <1>1, <1>2, <1>3, CreateKeepsPools, AllocKeepsPools, ResetKeepsPools, DestroyKeepsPools
        DEF UtilsStep

LEMMA PoolsInvApart == PoolsInv => PiecesApart
<1> SUFFICES ASSUME PoolsInv PROVE PiecesApart
  OBVIOUS
<1>1. ASSUME NEW i \in DOMAIN pools, pools[i].memory \notin wild
      PROVE  /\ memory_utils_pool_stats(i).free >= 0
             /\ \A p \in PiecesOf(pools[i].memory) :
                  /\ p.from >= pools[i].start
                  /\ p.to - pools[i].start <= memory_utils_pool_stats(i).used
  <2>1. /\ pools[i].current \in Nat /\ pools[i].start \in Nat /\ PoolSize \in Nat
        /\ pools[i].current <= pools[i].start + PoolSize
    BY UtilsAssumption DEF PoolsInv, UtilsAssumption
  <2>2. /\ memory_utils_pool_stats(i).used = pools[i].current - pools[i].start
        /\ memory_utils_pool_stats(i).free = PoolSize - (pools[i].current - pools[i].start)
    BY DEF memory_utils_pool_stats
  <2>3. \A p \in PiecesOf(pools[i].memory) :
          p.to \in Nat /\ p.from >= pools[i].start /\ p.to <= pools[i].current
    BY <1>1 DEF PoolsInv, PiecesOf
  <2> QED BY <2>1, <2>2, <2>3
<1> QED BY <1>1 DEF PoolsInv, PiecesApart

(* What pools gave out lies in memory that is allocated and does not overlap, and what a pool
   reports covers it, unless the end of a piece wrapped: for every number of pools, size, alignment,
   base and address space, and any threads. *)
THEOREM PiecesApartSafe == UtilsSpec => []PiecesApart
<1>1. UtilsStart => PoolsInv
  <2>1. DOMAIN << >> = {}
    OBVIOUS
  <2> QED BY <2>1 DEF UtilsStart, PoolsInv
<1>2. PoolsInv /\ [UtilsNext]_utilsVars => PoolsInv'
  <2>1. CASE UNCHANGED utilsVars
    BY <2>1, SamePoolsKeepInv DEF utilsVars, poolState
  <2> QED BY <2>1, StepKeepsPools, UtilsAssumption DEF UtilsNext
<1> QED BY <1>1, <1>2, PoolsInvApart, PTL DEF UtilsSpec

=============================================================================
