# Memory management project: models and proofs

TLA+ models of the RK3568 DDR memory-management stack in `src/`, the TLC runs that check them
on small instances, and TLAPS proofs of the properties that matter most for every instance.
`PROJECT.json` lists runs, mutants, the source lines each definition stands for, hazards,
findings and theorems; this file explains them.

## The system

| Component | State it keeps | Operations | Hard part |
| --- | --- | --- | --- |
| Pool manager, `kernel/drivers/memory_allocator/pool_manager.c` | list of pools, a gen_pool each, manager and pool counters, one global mutex, one mutex per pool | alloc, aligned alloc, free, statistics, defragment, create, destroy, monitor thread, module exit | two-level locking, unlocked checks, teardown in two critical sections |
| DMA allocator, `.../dma_allocator.c` | DMA pools with free and used block lists, per-pool and global counters | pool create/destroy, alloc, free, defragment, health thread | three locks, block lists, size rounding, thread against free |
| DDR platform driver, `kernel/drivers/ddr_driver/ddr_driver.c` | device registers, configuration, tracked allocations, timers, work items, power state | probe, remove, file operations, ioctl, mmap, interrupt, timers, suspend, resume | non-recursive mutex taken twice, unlocked register updates, teardown against callbacks |
| DDR kernel module, `kernel/ddr_kernel_module.c` | regions, statistics, configuration, monitoring threads | ioctl, mmap, proc, module init and exit | a mutex and a spinlock over related state, partial failure of configuration |
| U-Boot DDR code, `src/uboot-ddr-init/` | partition table, controller configuration | init, add, remove, get, find; controller init, set frequency, voltage, timing | identifiers derived from positions, partial failure of init |
| Memory layout, `src/ddr_config/` | the layout in force, a heap object behind a pointer; the boards' defaults | init, set, get, look a region up, find a free block, print, cleanup; board detection | a pointer replaced under readers, address arithmetic at the boundaries |
| libddr_manager, `user-space/libraries/libddr_manager/` | library context with its lock and the device's file | constructor, init, destructor, calls that ask whether it is initialised | a non-recursive lock taken twice, before `main` |
| libmemory_utils, `user-space/libraries/libmemory_utils/` | list of tracked blocks, statistics, pool slots | init, configure, track, pools, leak detection, cleanup; functions on memory and text without state | checks before the lock, a slot array addressed by a count, the lock in cleanup |

How they interact: the layout and partition code runs before Linux and fixes the physical
ranges; the kernel components register ranges of their own and do not call one another (each has
its own list and locks); the libraries reach the kernel through `ioctl` and `mmap` on
`/dev/ddr_manager`. Within a component the interaction is shared state under mutexes, kernel threads,
timers and work items. The tools, scripts, device trees, images and examples only call these.

Several files define one name twice (for example `pool_manager_alloc`, or the register helper
and the file operation `ddr_read`), and would not compile as they are. The models follow the
evident intent: the static function does the work, the exported one calls it.

## The plan

Modules are written in the order in which the components matter to the rest: the memory
allocators of the kernel first, then the driver that user space reaches them through, then the
code that runs before Linux, then the libraries.

| Order | Module | Models | State |
| --- | --- | --- | --- |
| 1 | `PageAllocator` | what an allocator of pages promises (abstract) | done, proved of the manager |
| 2 | `PoolManager` (refines 1), and `PoolDebugfs` over it | `pool_manager.c` | done, proved |
| 3 | `DdrPartition`, `DdrInit`, `UbootOutput`, composed in `MCUbootDdr` | `ddr_partition.c`, `ddr_init.c`, `ddr_print.c` | done, table and controller proved |
| 4 | `DdrDriver` | `ddr_driver.c`: file operations, timers and work items, remove | done, proved |
| 5 | `DdrController` | `ddr_driver.c`: control register, interrupt registrations, calibration, commands, probe, shutdown, sleep | done, proved |
| 6 | `DmaAllocator` | `dma_allocator.c` | done, proved |
| 7 | `LayoutRegister` | what the layout code promises: one place, replaced atomically (abstract) | done |
| 8 | `DdrLayout` (refines 7) over `BoardMemory` | `ddr_layout.c`, `board_memory.c` | done, proved |
| 9 | `DdrKernelModule` and `LibDdrManager`, composed in `DdrSystem` | `ddr_kernel_module.c`, and `ddr_manager.c` as far as it can run | done, proved |
| 10 | `MemoryUtils`, `MemoryAlgorithms` | `memory_utils.c`: its context, and its functions without state | done, the context proved |

`Sums` holds the sums of sizes and of values that the accounts are stated with, over finite sets.
"Proved" means that every safety property and refinement a run checks of the module is a theorem.
What is left for theorems is listed at the end of "What is proved".

## The modules

### `PoolManager`: the pool manager

A pool is a handle, `Handles`, the address of a `struct memory_pool`: `pool[h]` is its record,
`reserved[h]` the bitmap of its gen_pool, `poolMutex[h]` its mutex, `list` the manager's list in
order. `manager` holds the manager's counters. A thread has a control label, the request it works
on and the code's locals (`cur`, the list cursor; `hnd`, the pool it makes or destroys; `tmp`).
An action is what a thread does between two points at which another can interfere: taking a mutex,
the section under a mutex, or one unlocked access (the count check and the two halves of
`next_id++` in `pool_create`).

`pool_manager_alloc`, `_alloc_aligned`, `_free`, `_get_stats`, `_defrag` and the monitor share one
shape in the code, a scan of the list under `global_mutex` that locks some of the pools one after
the other; they share `LockGlobal`, `LockPool` and `Scan` here, and differ in what they do inside
a pool (`AllocInPool`, `FreeInPool`, `VisitPool`) and at the end (`Finish...`). Creation and
destruction follow the code's critical sections: `pool_destroy` frees the gen_pool under the
pool's mutex, lets it go, and unlists the pool under `global_mutex`, so that a scan in between
meets a pool in state `"dying"` (`UseDestroyed`). A creation reads its pool once more after it let
`global_mutex` go (`CreateReturn`). Since `next_id++` runs without a lock, two pools can have one id
and two callers destroy one pool: whoever comes to a pool that another has freed or destroyed may
find its memory as it was and go on, or stop (`UseFreed`), and always stops at the second `list_del`.
A struct that was freed is not used again for another pool, so that `"freed"` stays visible.
Where a thread stopped is its label: `bugLost` (a pool that was freed), `bugTwice` (a gen_pool
that was destroyed), `bugDel` (the second `list_del`), `bugUse`, `bugFree` and `bugDestroy` (the
gen_pool), and `bugJoin`, `kthread_stop` of a monitor that had left by itself.

gen_pool is external: a bitmap of pages with first fit, which stops the calling thread (BUG_ON)
when a pool with reserved pages is destroyed or pages that are not reserved are freed. A stopped
thread is taken to stay where it is and to keep its mutexes.

Callers keep their side: they free once, what they were given, with the size they asked for; they
do not make two pools of one range, or call once the module is being removed (rmmod waits for the
modules that use it). They destroy any id that a pool was given, at any time, two of them at once
if they like. `Operations` chooses which calls a run has; without `"monitor"` the monitoring thread
sleeps until the module is stopped. The ghosts `blocks`, `owned` and `slack` record what is allocated, who holds it and what alignment cost.

`PageAllocator` is the promise: blocks lie in managed memory, share no page, and memory is
withdrawn only when no block lies in it. `Abstract` maps the pools that have a gen_pool to `mem`
and `blocks` to `live`.

`PoolDebugfs` adds the one walk of the list that does not hold `global_mutex`, that of the debugfs
file: `at` is where its reader is, `shown` the pool it has come to. The reader takes each pool's
mutex for the copy of the statistics and follows the link after it let the mutex go; `pool_destroy`
frees a pool under `global_mutex` alone, so the reader can come to a pool that is gone. It is then
`"stopped"`, and the model says nothing of what the kernel does next. An open file pins the module
(`Pinned`, the `.owner` of the file operations), which is why unloading never meets a reader.

### `DdrPartition`, `DdrInit`: U-Boot

U-Boot has one thread, so an operation is one step and the difficulty is in long sequences.
`table` is the array up to `num_partitions`. Ids are the count at the time of the add, and a
removal moves later entries up without renaming them: `IdsFollowPositions`, `IssuedIdsPresent` and
`LookupsChangeOnlyByRemoval` say what still holds of ids after that. A call that the code refuses is
a guard that is false. `DdrInit` keeps the copies the code has of a setting and the registers that
hold it; a failure can end `ddr_init` after each stage, and `settled` are the settings no failure
has left in doubt. `MCUbootDdr` composes them: neither touches the other's variables, and they run
in one program. `ddr_partition_get_count` and `ddr_partition_dump`, the loop over positions that
shows the table, are operators; `IssuedIdsPresent` is stated of what they return.

Timings are in their registers in packed form, and the packing loses bits (a tRFC of 350 becomes 94):
`Pack` gives what the registers hold for a timing, so what is believed of timings is compared
with them by way of `Pack`, never directly. `g_ddr_config` has its own copy of the timings, which
`ddr_set_timing` does not change and `ddr_get_config` returns: it is right only from a successful
`ddr_init` to the next `ddr_set_timing`, when `"saved"` is in `settled`.

`UbootOutput` has no state: `ddr_timing_init` packs eleven timings into three registers by shifts
without masks, `ddr_print_timing_table` takes them out again, and `ddr_print_hexdump` fills lines
of a fixed buffer. `MCUbootDdr` compares what comes out with what went in, in ASSUMEs that TLC
evaluates for chosen timings and lengths.

### `DdrDriver`: the platform driver

`lock` is `dev->lock`, a mutex; `tracked` the tracking list, with a block as often as it is on it;
`used` and `count` the counters; `live` what the kernel gave and did not get back. A user process
is in one file operation: `"lock"` waiting for `dev->lock`, `"held"` inside an ioctl, `"stuck"`
when the ioctl waits for the lock it holds, then the stages of `ddr_mmap`. `ddr_ioctl` takes the
lock and calls functions that take it again; what they do before is `IoctlAllocates` (the allocation
and the tracking) and `IoctlFrees`: a FREE of an address that is on the tracking list takes the entry
off before it hangs (`"stuckFree"`), and the block is then known to nobody else. Bytes and number of the
allocations are counted and taken back in two steps each, under the lock. `/proc` lists at most 51
entries, so a block is sure to be on it only while the list is no longer. Timers and work items are `pending` and `running`; `ddr_remove` is the
sequence in `removal`. External: `del_timer_sync` waits for a running callback and takes the timer
off in one step; `cancel_delayed_work_sync` takes the item off the queue, keeps it off, and waits.

rmmod starts when no file is open and nothing is mapped: both hold a reference on the module.

`ddr_proc_show` is the text of `/proc` as a record. It takes no lock but the spinlock, so a page is no
snapshot: `AccountsExact` is stated figure by figure, of the moment at which each is read, and
says which blocks each may miss (those between their allocation and that figure's update, or between
its reversal and the free). That the figures of one page agree with one another is not claimed and
would be false.

### `DdrController`: the other half of the driver

The control register is a set of bits. `ddr_set_bit` and `ddr_clear_bit` read it in one step
(`seen`) and write it in another, without a lock of their own, so that a write in between is lost
(`lost` remembers it). What a thread has yet to do is its `todo`, a sequence of tasks: setting and
clearing bits, `ready` and `calibrated` (where the hardware may say no), `irq`, and so on; an
operation of the driver is such a sequence. A probe makes the registrations one by one and may fail
at each; `stray` remembers that a reset requested the interrupt once more or that a failed probe
kept it, the two leaks the code has. The two halves share no variable: the memory half waits for no
register, and what the controller half takes of `dev->lock` is its own `lock`.

### `DmaAllocator`: the DMA allocator

Its probe creates one pool, so the pool is plain variables. Every call holds `global_mutex` from
its start; the pool's mutex is taken only under it, or by remove when nobody is left, and is not
modelled. The health thread and the statistics files read the counters without a lock: every counter is
written in a step of its own (`counts`, `WriteCounter`), those of one critical section (`todo`) in
any order, for nothing orders the stores. An allocation goes from the pool's section (`"listed"`) to the
allocator's counters (`"count"`); a free has two sections in the pool with the return of the memory
between them (`"unlisted"`, `"disposed"`), in which the block is on neither list. `Return` ends a call. A
default pool has no flag, so no request matches it (`contiguous = FALSE`); a pool of the device tree
has `DMA_FLAG_CONTIGUOUS`, and its allocations come from `dma_alloc_coherent`.

A merge in `dma_block_merge` frees the descriptor that the iterator has already fetched, and
continues with it; `list_del` has poisoned its pointers, and the next access stops the thread
(`"bugMerge"`), which keeps `global_mutex`.

`dma_pool_stats`, `dma_allocator_get_stats` and `dma_debugfs_show` are what readers are told;
`AccountsExact` is stated of them. Of debugfs it says of each figure that it is the one of the lists
before or after the call that is at work on them (`Views`); figures of one page may be of different
moments. A caller of `dma_allocator_get_stats`, who has the mutex, gets exact ones. `CallsReturn` and
`RemoveEnds` excuse what a merge has stopped, and show that nothing else stops a call or the removal.

### `DdrLayout`, `BoardMemory`: the memory layout

`current` is `current_layout`, a pointer to an object of `heap`, under the mutex `mutex`.
`ddr_layout_set` checks its caller's layout, copies it and swaps the pointer (`Prepare`,
`Publish`); lookups and `ddr_layout_print` take the pointer and read what it leads to. `heap` keeps
which objects are allocated, so that a read through a stale pointer is a state and not an accident.
Validation and the overlap check are operators over regions whose ends wrap at `AddrSpace`, as in the
code. `BoardMemory` has the defaults of the three boards and how a board is detected, in units of
16 MB. `LayoutRegister` is the promise, and `Register` the mapping: what the pointer leads to.

### `DdrKernelModule`, `LibDdrManager`: user space and its device

`phase` follows `ddr_device_init` step by step, each of which may fail and be undone; the device can
be opened from the first of them (`Present`). Ioctls run under `dev->mutex` from their start to
their end, in the steps that others can see: the debugfs files, `/proc`, reads and the two threads
look at the same data without it. The loading does not take it either, though the device can be open:
`ddr_hw_init` reads the frequency (`reg`), stores it, reads the voltage and stores it, in four steps,
and a CONFIG may write, verify and keep another frequency between the first two, which the store then
undoes in `config`. `hw` is what the controller runs at and `config` what the module believes; CONFIG
writes frequency, voltage and timings one by one, and the controller may settle on another value than the
one written. `astray` remembers that the frequencies were separated by a CONFIG that changed it and
is under way or failed, by a write to debugfs, which changes `config` alone, or by such a store of
the loading (`overtaken`); it says nothing as long as none of these happened, and a RESET or a CONFIG
that ends well clears it.

CONFIG and RESET before the registers are mapped kill the process, with the mutex held (`Oops`).
`kthread_stop` of a thread that saw `stop_threads` and left by itself may use a task that is gone:
rmmod then stays in phase `"stuck"`. The proc and debugfs files are there until they are taken away, which
is after the threads are stopped.

A program linked with the library starts in its constructor. `ddr_init` locks the context, opens
the device and calls `ddr_get_info`, whose first question locks it again; the lock is of the default
kind. So a program that gets the device never reaches `main`, and one that does not get it is told
by every function that the library is not initialised. What the functions do beyond this question
has no execution, and is not modelled. `DdrSystem` composes the two: an open or a kill of a
program is one step of both.

### `MemoryUtils`, `MemoryAlgorithms`: libmemory_utils

A call looks at the context, then takes the lock and acts without looking again: two steps, between
which a cleanup, a create or a destroy may come. A pool is a slot of an array, with the block of
memory it cuts pieces off; `pool_destroy` lowers the count whichever slot goes, and `pool_create`
fills the slot of the count (`TakeSlot`), which may be in use. A cleanup with leak detection on or with a
pool left waits for the lock it holds, and stays.

A create that lost the race for the last slot writes its pool past the array (`Overrun`): the name
lies over `pool_count` and the statistics, a mutex over `g_ctx.lock`, then the count is raised. `Overlays`
are what names can be there. What calls do in a context like that cannot be said, and the
model ends. `overtaken` are the creates that waited while another took a slot, the only ones that can
get there.

Addresses wrap at `AddressSpace`, and so does the end of a piece whose size is huge: the check of
`pool_alloc` lets it pass and `current` moves back. From then on, until the pool is reset or destroyed,
its memory is in `wild`, and its pieces are no longer kept, for they may overlap. `pieces` are those of
the other pools. Since two callers may have one id, a pool may be reset or destroyed under a caller
that uses its pieces; they count as given back, and nothing is claimed of such a caller. `AlignedUp` is
the mask that `memory_utils_align_up` computes, also for alignments that are no powers of two, which
`pool_create` accepts; proofs need of it only that it does not go back and moves less than `Align`,
which the ASSUME `AnyAlignment` shows of the mask.

`MemoryAlgorithms` has the functions without state, as operators over words of `Width` bits and
bytes of `ByteBits`. The ASSUMEs of `MCMemoryUtils` compare each with what it is for.

## The runs

| Run | Question | Instance | Distinct states |
| --- | --- | --- | --- |
| `pool_manager` | Is the pool manager safe, whatever ids are destroyed, and does it implement the page allocator? | two callers, monitor, rmmod; adjacent ranges of two pages and one; a request of one byte and one of a page aligned to two; two structs | 440,351 |
| `pool_live` | Does every call return and does rmmod end? | as above with one range and one request | 8,343 |
| `pool_race` | What comes of the accesses without `global_mutex`: how far can racing creates exceed the limit, and what can free a pool under a reader of debugfs? | limit of one pool, three ranges of a page, two callers that create and destroy, a reader | 3,304,253 |
| `pool_destroy` | Does `pool_destroy` refuse a pool in use, as its comment says? | as `pool_manager` | violated |
| `uboot_ddr` | Do table and controller stay consistent over any sequence of calls, and does the output show what is there? | four names for three slots, two types, two values of frequency and voltage, a timing the packing keeps and one it does not, wrap of `total_size` at 3; output of timings at and over a byte, dumps of up to 40 bytes | 104,489 |
| `ddr_driver` | Is memory accounted for, and does the driver come down? | two processes, two places for blocks, all four callbacks | 103,270 |
| `ddr_ioctl` | Does every ioctl return, as its documentation says? | one process | violated |
| `ddr_controller` | Is the controller switched right, and does a driver that is gone leave nothing? | two processes, the work item, sleep and the driver core; two registrations of the interrupt | 5,149,038 |
| `dma_allocator` | Do the books agree, and do frees find their blocks? | two callers and the health thread; three pages of two bytes; sizes that round up within a page and across; three descriptors | 92,691 |
| `layout` | Is the layout in force always sound, whole and allocated? | two callers, three objects, nine layouts: two right, one for each thing that can be wrong; four block sizes | 15,178 |
| `kernel_module` | Are the module's books and beliefs right, and is it quiet when it is gone? What becomes of a program with the library? | two processes, one program, three addresses (one in no region), two sizes, two values per setting, a CONFIG during the loading | 2,469,976 |
| `memory_utils` | Do list and statistics agree, who writes past the array of pools, and do pools give memory out once? Are the functions without state right? | two threads, one address tracked up to twice, two slots, three memories off the alignment, a size that fits and one that wraps, short and long names; words and bytes of four bits | 1,844,982 |

**Why the bounds are enough.** Two callers and the monitor give every pair of critical sections
that can overlap, and a third thread (rmmod) starts only when callers are gone. Two adjacent
ranges of different length put a boundary between two bitmaps, where an off-by-one in the address
search lands in the neighbour; requests of less than a page, of a page aligned to two, and (in the
liveness run) of a page and a half make rounding and slack differ. `MaxStructs` is one more than the pool a
run starts with, which is enough for a pool made while another is destroyed, and for two that
get one id where it starts with none; in `pool_race` there are
three structs and three ranges for a limit of one pool, so that a third pool could be made. The partition table
runs past its capacity, and through removals at the front, in the middle and at the end. The driver's
`TotalMemory` lets one block in and refuses a second. In the DMA run two rounded allocations lift
`used_size` over nine tenths of the pool, so that the health thread runs; three descriptors are
enough for two freed neighbours and one block in use. In the layout run three objects are one in
force and one on its way for each caller, and the layouts are chosen so that every check of the code
is the only one to refuse some of them. In the kernel run one address lies in no region and two
in the system region, and two processes and a program are enough for an ioctl that runs while
another waits and a third opens, also during the loading. In `memory_utils` the slots are filled and
destroyed in either order with two threads between their look and their act, so that a third pool is
created over one in use, written past the array, or made below the first slot; one size fits a pool
twice and one wraps from within it; four-bit words hold every carry and every wrap
of the alignment functions, and four-bit bytes every pair of digits. The same properties that are proved hold for
every value of these constants.

**Symmetry.** Callers (pool runs), processes (controller, kernel module), threads and objects
(layout), threads and memories (`memory_utils`), names and values (U-Boot) are interchangeable: no
action and no property tells two of them apart, and no run that checks liveness uses symmetry. The
refinements that are checked under symmetry are safety properties.

**Deadlock** is checked in `uboot_ddr` and `layout`, where a caller can always call again. It is not
checked elsewhere, because those systems may stop: after rmmod, after a kernel BUG
or a self-deadlock, and, when callers choose not to call, at any time. That a call under way is
never left waiting is stated as liveness instead (`CallsReturn`, `OperationsReturn`, `ExitEnds`,
`RemoveEnds`).

**Fairness.** A thread inside a call keeps running, and kernel mutexes hand a lock that is released
again and again to each waiter, hence strong fairness of each thread's `Step`. The monitor and
health threads wake after a sleep of fixed length, timers and work items end, and the code of rmmod
runs on: weak fairness. `ddr_remove` waits for callbacks that rearm themselves, and
`del_timer_sync` succeeds at the next moment they are at rest: strong fairness of `RemoveStep`.
That callers call, or that anybody unloads a module, is never assumed.

## What is proved

Every safety property, every action property and both refinements that a passing run checks are
theorems: TLAPS checks them for every value of the constants, under the named assumptions of each
module. TLC evaluates these on every run. They say

- that actors are distinct: callers, the monitor, rmmod, the value that means nobody, and in the
  controller the driver's own contexts, which are not processes;
- that sizes, counts and limits are natural numbers, and those the code fixes are not zero; a rounded
  size is what the code rounds to;
- that the memory ranges of different pools do not overlap, as those of the code do not; that an aligned
  address of the kernel module with its size lies in the memory;
- in the pool manager, that there is a caller and finitely many of them, because the bound on the
  count of pools speaks of their number.

The argument is the same everywhere: an inductive invariant, checked by TLC on the instance of the run
before the proof, one lemma per action or kind of action, and the property as a consequence.

*Sums* (`SumTheorems`). The accounts are sums over sets, and a sum is a fold, which TLA+ defines by a
recursive function that `CHOOSE` picks. That it exists, that it is the only one and that a sum does not
depend on the order of its elements are inductions. The library's induction theorems take an operator as a
parameter, which the provers cannot instantiate; the induction here is over a set of naturals or a
family of subsets instead (`NatSetInduction`, `SubsetInduction`), derived from the well-foundedness
of `<` on the naturals. From them: what a sum is after an element came, went, or changed
(`SumRemove`, `SumChange`), that it does not matter what its terms are called (`SumReindexed`), and
that blocks that share nothing hold no more than the memory (`SizeSumFits`).

*Pool manager* (`PoolManagerProofs`). Type correctness (which no run repeats), `NoOverlap`,
`PagesAccounted`, `FreeFindsItsPool`, `LockOrder`, `OnlyCallersMeetFreed`, and that the manager implements
the page allocator. None is inductive alone. `Inv` adds: who holds which mutex is a matter of his label
(`Mutexes`); what a thread's request can be where it stands (`Requested`); a scan stands at a
listed pool that it wants (`Scans`); which struct is listed, made or destroyed and by whom
(`Structs`), which is what keeps a struct from being freed under a scan: unlisting needs
`global_mutex`, and a scan holds it; creates and destroys may hold a struct that is freed, and
what the invariant says of theirs is that it was a pool once; existing pools have different ranges (`Ranges`), without
which a free could find the wrong pool; a block is in the hands of one caller or of one call
(`Custody`), without which a free could meet pages already cleared; and what each bitmap contains
(`Memory`). There is one lemma per part of `Inv` and one step per action in it. Refinement then follows:
an allocation is an `Allocate`, a free a `Release`, the listing of a pool an `Extend`, the
destruction of its gen_pool a `Withdraw`, and every other step a stutter (`Refines`). That the abstract
allocator keeps blocks apart and in managed memory is proved of its own actions, and so holds of the
manager (`ManagerDisjoint`).

Three results rest on `Inv`. `PoolCountBound`: pools plus the callers past the check of the count never
exceed the limit plus all callers but one, because the last to pass the check saw a count below the
limit. `ManagerAccounts` and `WalkConsistent`: a call updates the pool's counters inside
the pool and the manager's a step later; `Owes` names the one call that may be between the two, `Books`
says by how much the manager is behind it, and `Walks` that what a walk has added up so far is
what the pools behind it hold. A walk and a call that owes both hold `global_mutex`, so they never
meet. `OnlyDestroyStopsReader`: whoever frees the pool the reader has come to is a `pool_destroy` of
a caller, or a failed `pool_create` whose pool was never on the list; and `Inv` itself holds beside the reader
(`InvBesideReader`).

*U-Boot and the layout* (`BoardDdrProofs`). Of the partition table: the capacity bound, `NamesUnique`,
`IdsFollowPositions` (their conjunction is inductive), `IssuedIdsPresent` (removing an entry makes the
positions of each id one fewer or leaves their number, by a bijection between the positions before
and after) and `LookupsChangeOnlyByRemoval` (a search takes the least position that fits; an add puts its
entry behind all others and a removal moves the others without changing their order). The work is in
the array: what appending and closing a gap do to the entries of a sequence. Of the
controller: `BelievedSettings`; a setting counts as settled only while the controller is up, so the
copies the getters return exist for it, and the saved timings only while those in force are.
Nothing is assumed of `Pack`, so that it holds whatever bits the packing loses. Of the layout: `ReadersSafe`, `NothingLost`, `FoundBlocksApart`,
and that the layout code implements `LayoutRegister`. The invariant says where every allocated object is: in
force, or on its way there in the hands of one caller; that each of them passed validation; and that a
reader holds the mutex and reads what is in force. That validation means what it should (regions
that end where they say, apart from each other) is proved of the wrapping arithmetic for every
width of addresses; the boards' defaults are refused by it because their first region starts at 0.

*Driver, memory half* (`DdrDriverProofs`). `QuietAfterRemove`: which callbacks are stopped
at each point of `ddr_remove`; a stopped timer can not be rearmed because only its own callback
rearms it and that has ended, and a cancelled work item can not be queued while it is being cancelled.
`NothingLost` and `AccountsExact`: a block is in the hands of at most one operation (`Hands`); while a
`ddr_mmap` has it, it is on the list at most once, so that taking the first entry off takes the only one,
and off it only when a FREE took it (`Listing`); `used` and `count` are those of the blocks that are not
in hand at the point where each is written (`Booking`). An operation under way has the file open, which keeps `ddr_remove` away.

*Driver, controller half* (`DdrControllerProofs`). `GoneLeavesNothing` and `SwitchedRight`. A property of
the moments at which nothing is under way is inductive only with what holds in between: `Plans` gives,
for each context, the lists of tasks it can have before it, whole or in part (a probe may at
any moment have calibrations and modes to set before its last three tasks); `Turns` who may run in which phase;
`Registered` what exists at each point of a probe and of a removal; and `Switches` what the register holds between
the two writes of a reset, of a suspend and of a resume. `Switches` is required only as long as no
change was overwritten: the code does lose changes, and then nothing follows.

*DMA allocator* (`DmaAllocatorProofs`). `UsedNeverUnder`, `OwnedIsUsed`, `AccountsExact`. The invariant has the
custody of every block by one caller or one call, and the books with the correction for the call
that is between its updates: each counter differs from the lists by what the call at work has still to write
to it, and is exact when there is none. A free lowers `used_size` by the size asked for, which is at
most the size of the block that custody leads it to.

*Kernel module and library* (`KernelModuleProofs`, of `DdrSystem`). `QuietAfterExit`: a process is
in an ioctl only with the device open, an open device holds the module, and the health thread
exists only while the registers are mapped, because everything of the loading that can fail does so
before it starts. `AccountsExact`: a block is on the books from the check of its region until it is
taken back, only the owner of the mutex has one that is not, and blocks that share no memory hold no
more than there is, which is why the free memory shown does not wrap. `FrequencyBelieved` needs what
holds within the loading and within a CONFIG: between its read and its store the loading has the
frequency of the controller in hand unless it was overtaken (`FrequencyInv`), and a CONFIG has a
configuration to keep from its start to its check (`WantInv`).
`QuietAfterExit` holds also when rmmod dies in `kthread_stop`. `DeviceOnlyBehindLock`: the library never calls itself
initialised, and from there its lock and its file are a matter of where the program is.

*libmemory_utils* (`MemoryUtilsProofs`). `OverrunsOnlyOvertaken` is inductive with the types of the
calls: only a create that takes a slot raises the count, and it takes every create along that waits; a
destroy and a cleanup lower it. `AccountsExact`: the list may hold an address twice, and a free takes one entry out, whose place in the sum
the others close (`SumReindexed`). `PiecesApart`: a memory belongs to one pool at most, since malloc
gives nothing that is allocated, and a pool's pieces lie between its start and the point it allocates
from next unless an end wrapped, for every alignment, base, size and address space.

Only model-checked: the liveness properties `CallsReturn`, `ExitEnds`, `OperationsReturn` and `RemoveEnds`,
which are out of the prover's reach. What the functions of `MemoryAlgorithms` and `UbootOutput`
compute is compared with its meaning for every input of the bounds given, by evaluation: they are
stated with bitwise operators, of which the prover knows nothing.

## What the checks found

The findings of `PROJECT.json`, in short: `pool_destroy` never refuses a pool in use, because
nothing fills the list it looks at; the partition table starts empty, because its defaults are
added before the flag that allows it, and a removal makes ids ambiguous; an ioctl of the driver
that allocates, frees or configures deadlocks on its own lock; a mapped block is on the tracking
list twice and freed twice; each reset registers the interrupt once more; an update of the control
register can be lost and a reset bit come back; no board's default layout passes its own validation,
and one ends past the memory; the refresh cycle time does not fit the bits it is packed in; a program
that links libddr_manager and can open the device hangs before `main`; cleaning up libmemory_utils
with leak detection on or a pool left hangs too, its pool slots can be handed out twice and written past
the array, and a huge request moves a pool back over what it gave out; the next
power of two of a number over half the address space is searched for ever. The models also show behaviour
that no document of the repository speaks of: racing creates exceed the pool limit by one pool
each; aligned allocations never give their rounding back; the DMA allocator's `used_size` drifts
upwards until the health thread defragments an empty pool, and the first merge stops it; a reader
of the pool manager's debugfs file can use a pool that `pool_destroy` has freed, and so can two
callers that destroy pools whose ids are the same; and a CONFIG during the loading of the kernel
module can be forgotten by the module and not by the hardware.

## What is not modelled

In the modelled components: log text, names beyond their identity, memory contents except where a
function is about them, since-boot, peak and error counters that nothing reads back, and the values
of hardware registers beyond the settings. What `/proc`, debugfs and the statistics calls report is
modelled where it is memory, counts or settings.

- *Driver*: the info that the monitor timer copies, the body of the interrupt handler (it counts and
  logs), and the configuration registers: `ddr_hw_config` takes a lock its only caller holds, before
  it writes any of them.
- *DMA allocator*: a probe that fails after it made its pool (it frees what the armed statistics
  timer reads: nothing is left to state a property of), and the gen_pool path, which no pool's flags
  let a call reach.
- *Pool manager*: the statistics timer, which reads two counters, and `pool_shrink` and `get_pool_by_name`, which nothing calls.
- *Kernel module*: its mmap, which maps the physical address it computes from an ioremapped one,
  a value that means nothing; `ddr_dma_alloc` and `ddr_dma_free`, which nothing calls.
- *Drivers unbound through sysfs* while others use them: rmmod, which waits for users, is modelled.
- *libddr_manager* beyond the first question of each function: no execution gets there (see above).
- *libmemory_utils*: access to registers, caches, time and logging, which do one system or library
  call each, and traces, which nothing records.
- *Declarations without a definition* in `ddr_config.h`, `memory_table.h` and the other headers.

Whole components: the tools and examples call `ddr_init` of libddr_manager first of all and so hang
or fail there, and several include headers the repository does not have (`ddr_npu.h`, `ddr_debug.h`,
`ddr_allocator.h`); they keep no state of the system's own. Scripts, device trees, configurations and
images build and deploy it. The tests say what is expected and are quoted in the findings.
