----------------------------- MODULE DdrLayout -----------------------------
(***************************************************************************)
(* src/ddr_config/ddr_layout.c: the memory layout in force, a heap object  *)
(* that current_layout points to under layout_mutex.  ddr_layout_init      *)
(* takes a board's default and ddr_layout_set a caller's layout; both      *)
(* check it first, without the mutex, then put a copy of it in force.      *)
(*                                                                         *)
(* An address or a size is a number below AddrSpace, the width of          *)
(* phys_addr_t, and sums wrap.  A step is what a thread does between two   *)
(* operations on the mutex; kzalloc and kmemdup may fail.  What get and     *)
(* region_info copy out, and ddr_pool, which nothing ever sets, are left   *)
(* out.                                                                    *)
(***************************************************************************)
EXTENDS BoardMemory, FiniteSets

CONSTANTS
  Threads,         \* callers
  Nobody,          \* the owner of the mutex when it is free, and the null pointer
  Objects,         \* where kzalloc and kmemdup can put a layout
  AddrSpace,       \* 2^64, in units of addresses
  Candidates,      \* the layouts callers pass to ddr_layout_set
  BlockSizes       \* the sizes callers look for

ASSUME LayoutAssumption ==
  /\ Nobody \notin Threads /\ Nobody \notin Objects
  /\ AddrSpace \in Nat
  /\ \A b \in Boards : \A n \in RegionNames :
        DefaultLayout(b)[n].start < AddrSpace /\ DefaultLayout(b)[n].size < AddrSpace
  /\ Candidates \subseteq [RegionNames -> [start : 0 .. AddrSpace - 1, size : 0 .. AddrSpace - 1]]
  /\ BlockSizes \subseteq 0 .. AddrSpace - 1

VARIABLES
  heap,            \* the layouts in allocated objects
  current,         \* current_layout
  mutex,           \* layout_mutex: its owner
  pc, op, obj,     \* per thread: control, the call under way, the object it works on
  result           \* per thread: what its last call answered

layoutVars == <<heap, current, mutex, pc, op, obj, result>>

(***************************************************************************)
(* Checking a layout                                                       *)
(***************************************************************************)

Plus(a, b) == IF a + b < AddrSpace THEN a + b ELSE a + b - AddrSpace

End(r) == Plus(r.start, r.size)

\* Mutant: a sum that wraps is not noticed.
ValidateIgnoringOverflow(r) == IF r.size = 0 \/ r.start = 0 THEN "EINVAL" ELSE "ok"

ddr_layout_validate_region(r) ==
  IF r.size = 0 \/ r.start = 0 THEN "EINVAL"
  ELSE IF End(r) < r.start THEN "EOVERFLOW" ELSE "ok"

\* Only nine of the twelve regions are looked at.
ddr_layout_validate(l) == \A n \in Validated : ddr_layout_validate_region(l[n]) = "ok"

Overlap(r, s) ==
  r.size # 0 /\ s.size # 0 /\ ~ (End(r) <= s.start \/ End(s) <= r.start)

ddr_layout_check_overlap(l) ==
  \A m, n \in RegionNames : m # n => ~ Overlap(l[m], l[n])

Check(l) == ddr_layout_validate(l) /\ ddr_layout_check_overlap(l)

(***************************************************************************)
(* Calls                                                                   *)
(***************************************************************************)

LayoutStart ==
  /\ heap = << >> /\ current = Nobody /\ mutex = Nobody
  /\ pc = [t \in Threads |-> "idle"]
  /\ op = [t \in Threads |-> "none"]
  /\ obj = [t \in Threads |-> Nobody]
  /\ result = [t \in Threads |-> [value |-> "none"]]

Allocated == DOMAIN heap
Without(o) == [x \in Allocated \ {o} |-> heap[x]]
With(o, l) == [x \in Allocated \cup {o} |-> IF x = o THEN l ELSE heap[x]]

Return(t, v) ==
  /\ pc' = [pc EXCEPT ![t] = "idle"]
  /\ op' = [op EXCEPT ![t] = "none"]
  /\ obj' = [obj EXCEPT ![t] = Nobody]
  /\ result' = [result EXCEPT ![t] = v]

\* A copy of l is allocated, and becomes the current layout when the mutex is free.
Prepare(t, what, l) ==
  \E o \in Objects \ Allocated :
    /\ heap' = With(o, l)
    /\ pc' = [pc EXCEPT ![t] = "publish"]
    /\ op' = [op EXCEPT ![t] = what]
    /\ obj' = [obj EXCEPT ![t] = o]
    /\ UNCHANGED <<current, mutex, result>>

Refuse(t, why) ==
  /\ Return(t, [value |-> why])
  /\ UNCHANGED <<heap, current, mutex>>

ddr_layout_init(t, b) ==
  /\ pc[t] = "idle"
  /\ \/ Refuse(t, "ENOMEM")
     \/ IF ~ HasDefinition(b) THEN Refuse(t, "ENODEV")
        ELSE IF ~ Check(DefaultLayout(b)) THEN Refuse(t, "EINVAL")
        ELSE Prepare(t, "init", DefaultLayout(b))

ddr_layout_set(t, l) ==
  /\ pc[t] = "idle"
  /\ IF ~ Check(l) THEN Refuse(t, "EINVAL")
     ELSE Prepare(t, "set", l) \/ Refuse(t, "ENOMEM")

\* Mutant: the layout that is replaced is not freed.
PublishKeepingOld(t) ==
  /\ pc[t] = "publish" /\ mutex = Nobody
  /\ current' = obj[t]
  /\ Return(t, [value |-> "ok"])
  /\ UNCHANGED <<heap, mutex>>

\* ddr_layout_set frees the layout it replaces; ddr_layout_init does not, and then prints the
\* layout it put in force after it let the mutex go.
Publish(t) ==
  /\ pc[t] = "publish" /\ mutex = Nobody
  /\ current' = obj[t]
  /\ heap' = IF op[t] = "set" /\ current # Nobody THEN Without(current) ELSE heap
  /\ IF op[t] = "init"
     THEN pc' = [pc EXCEPT ![t] = "read"] /\ UNCHANGED <<op, obj, result>>
     ELSE Return(t, [value |-> "ok"])
  /\ UNCHANGED mutex

ddr_layout_cleanup(t) ==
  /\ pc[t] = "idle" /\ mutex = Nobody
  /\ heap' = IF current # Nobody THEN Without(current) ELSE heap
  /\ current' = Nobody
  /\ UNCHANGED <<mutex, pc, op, obj, result>>

\* Mutant: a lookup that does not hold the mutex.
LookupUnlocked(t, what) ==
  /\ pc[t] = "idle" /\ current # Nobody
  /\ pc' = [pc EXCEPT ![t] = "read"]
  /\ op' = [op EXCEPT ![t] = what]
  /\ obj' = [obj EXCEPT ![t] = current]
  /\ UNCHANGED <<heap, current, mutex, result>>

\* get, region_info, find_free and print: take the mutex and the pointer,
Lookup(t, what) ==
  /\ pc[t] = "idle" /\ mutex = Nobody
  /\ IF current = Nobody THEN Return(t, [value |-> "ENODEV"]) /\ UNCHANGED mutex
     ELSE /\ mutex' = t
          /\ pc' = [pc EXCEPT ![t] = "read"]
          /\ op' = [op EXCEPT ![t] = what]
          /\ obj' = [obj EXCEPT ![t] = current]
          /\ UNCHANGED result
  /\ UNCHANGED <<heap, current>>

\* Mutant: the size of the system region is not looked at.
FoundUnchecked(l, size) == [value |-> "found", layout |-> l, block |-> Region(l.system.start, size)]

\* ddr_layout_find_free gives the start of the system region whatever was given before, and
\* does not look at its limit.
Found(l, size) ==
  IF Plus(l.system.start, size) > End(l.system) THEN [value |-> "ENOSPC"]
  ELSE [value |-> "found", layout |-> l, block |-> Region(l.system.start, size)]

\* The lines of ddr_layout_print, for eight of the twelve regions: the end is past the last address.
ddr_layout_print(l) ==
  [n \in Validated \ {"reserved"} |-> [start |-> l[n].start, end |-> End(l[n]), size |-> l[n].size]]

\* then read it and let the mutex go; region_info may be asked for a name it does not know.
Read(t) ==
  /\ pc[t] = "read"
  /\ LET l == heap[obj[t]]
     IN  \/ op[t] = "find_free" /\ \E s \in BlockSizes \ {0} : Return(t, Found(l, s))
         \/ op[t] = "region_info" /\ Return(t, [value |-> "ENOENT"])
         \/ op[t] # "find_free" /\ Return(t, [value |-> "ok"])
  /\ mutex' = IF mutex = t THEN Nobody ELSE mutex
  /\ UNCHANGED <<heap, current>>

\* The board types ddr_layout_init is called with: what detection answers, and BOARD_CUSTOM.
BoardTypes == UNION {Detected(b) : b \in Boards} \cup {"custom"}

LayoutStep(t) ==
  \/ \E b \in BoardTypes : ddr_layout_init(t, b)
  \/ \E l \in Candidates : ddr_layout_set(t, l)
  \/ Publish(t)
  \/ ddr_layout_cleanup(t)
  \/ \E what \in {"get", "region_info", "find_free", "print"} : Lookup(t, what)
  \/ Read(t)

LayoutNext == \E t \in Threads : LayoutStep(t)

LayoutSpec == LayoutStart /\ [][LayoutNext]_layoutVars

(***************************************************************************)
(* What must hold                                                          *)
(***************************************************************************)

Wraps(r) == r.start + r.size >= AddrSpace

\* Two regions have no address in common, in whole numbers.
Apart(r, s) == r.start + r.size <= s.start \/ s.start + s.size <= r.start

(* A layout that may be in force: its nine main regions are not empty, start past zero and end
   in the address space, and no two regions that end there have an address in common. *)
Sound(l) ==
  /\ \A n \in Validated : l[n].size > 0 /\ l[n].start > 0 /\ ~ Wraps(l[n])
  /\ \A m, n \in RegionNames :
       m # n /\ l[m].size > 0 /\ l[n].size > 0 /\ ~ Wraps(l[m]) /\ ~ Wraps(l[n])
         => Apart(l[m], l[n])

Layouts == {DefaultLayout(b) : b \in Boards} \cup Candidates

Register ==
  INSTANCE LayoutRegister WITH
    Accepted <- {[layout |-> l] : l \in {k \in Layouts : Sound(k)}},
    NoLayout <- [pointer |-> "null"],
    inForce  <- IF current = Nobody THEN [pointer |-> "null"]
                ELSE IF current \in Allocated THEN [layout |-> heap[current]]
                ELSE [pointer |-> "dangling"]

(* The detailed module implements the abstract place: whatever the callers pass, however their
   checks, replacements, lookups and cleanups interleave, the layout in force is none or a
   sound one, and the pointer never leads to freed memory. *)
LayoutIsRegister == Register!RegisterSpec

(* Nobody reads a layout that has been freed: a thread that has taken the pointer, under the
   mutex or to print what it just put in force, finds the object allocated until it is done. *)
ReadersSafe == \A t \in Threads : pc[t] = "read" => obj[t] \in Allocated

(* A layout that is allocated is in force or on its way there: no path of the calls loses one. *)
NothingLost ==
  Allocated = {obj[t] : t \in {u \in Threads : pc[u] = "publish"}}
                \cup (IF current = Nobody THEN {} ELSE {current})

(* A block that ddr_layout_find_free gave lies in the system region of the layout it was found
   in and touches no other region, unless its size or that region wraps. *)
FoundBlocksApart ==
  \A t \in Threads : result[t].value = "found" =>
    LET l == result[t].layout
        b == result[t].block
    IN  ~ Wraps(b) =>
          /\ b.start + b.size <= l.system.start + l.system.size
          /\ \A n \in RegionNames \ {"system"} :
               l[n].size = 0 \/ Wraps(l[n]) \/ Apart(b, l[n])

LayoutTypeOK ==
  /\ Allocated \subseteq Objects
  /\ \A o \in Allocated : heap[o] \in Layouts
  /\ current \in Objects \cup {Nobody}
  /\ mutex \in Threads \cup {Nobody}
  /\ pc \in [Threads -> {"idle", "publish", "read"}]
  /\ obj \in [Threads -> Objects \cup {Nobody}]

=============================================================================
