# Verification of the CSC369 assignments

TLA+ models of the programs of `src/`: what they are made of, what is checked of them with TLC, what is proved
with TLAPS, and what is left out. Paths are relative to the repository; line numbers are those of the commit
the models were written from.

The repository is a collection of course work. Four programs in it have logic of their own:

| | program | kind | modules |
|---|---|---|---|
| A1 | `Assignment1/interceptor.c` | kernel module that intercepts system calls and monitors processes | `Interceptor`, `InterceptorProofs` |
| A2 | `Assignment2/starter` | pthreads program, cars at a four-way intersection | `Traffic`, `Intersection`, `TrafficProofs`, `TrafficOrderProofs` |
| A3 | `Assignment3/starter` | simulator of virtual memory: page table, swap file, five replacement algorithms | `Paging`, `VirtualMemory`, `EvictionQueue`, `PagingProofs`, `PagingQueueProofs`, `Opt`, `OptProofs` |
| A4 | `Assignment4` | tools that change an ext2 disk image | `Ext2`, `FileTree`, `Ext2Proofs`, `Ext2TreeProofs` |

The programs do not interact with each other. The modules named `MC...` hold the instances TLC checks.

## 1. Inventory

### A1, the system call interceptor

*State.* `table[NR_syscalls]`, one entry per system call: the saved handler `f`, the flag `intercepted`, the flag
`monitored` (0 nobody, 1 the pids of the list, 2 everybody), the linked list `my_list` of pids with its length
`listcount`, and `list_inversed`, which makes the list one of exceptions. Beside it the kernel's `sys_call_table`,
`orig_exit_group`, `orig_custom_syscall`, and two spin locks.

*Operations.* `my_syscall` (system call 0) with the commands INTERCEPT, RELEASE, START and STOP; `interceptor`, put
in the place of an intercepted call; `my_exit_group`, in the place of `exit_group`; `init_function` and
`exit_function`, run when the module is loaded and unloaded.

*Interaction.* All of them share the table. `my_syscall` takes `my_table_lock` to change an entry, and
`sys_call_table_lock`, later and separately, to change the handler; its checks, the interceptor's walk and
`del_pid` (from `my_exit_group`) take no lock.

*Hard behaviour.* Two processes in the kernel at once; checks that are stale when they are acted on; six ways out of
one critical section; flags and counters set by assignments and again by the helpers called next to them; a process
that exits while it is on lists; memory for an entry that is not there; a module that is unloaded.

*Correct when* a call is marked as intercepted exactly if its handler is the interceptor; counter, flag and list of
an entry agree; a command that returned 0 has its effect; a caller that is not root intercepts and releases nothing
and lists its own processes only; no list names a dead process; every call returns; unloading leaves nothing behind.

### A2, the traffic monitor

*State.* One `struct lane` per direction: the lists `in_cars` (to arrive) and `out_cars` (crossed), counters, a ring
`buffer` with `head`, `tail`, `in_buf`, a mutex and the condition variables `producer_cv` and `consumer_cv`. One
mutex per quadrant of the intersection.

*Operations.* `parse_schedule` puts the cars of a file on the lists. One thread per lane runs `car_arrive`, which
moves cars from the list to the ring, and one runs `car_cross`, which takes a car from the ring, locks the quadrants
`compute_path` returns, moves the car to the `out_cars` of its own lane, prints a line, unlocks, and at the end frees
the ring. `main` joins them.

*Interaction.* The two threads of a lane share the lane, the crossing threads of all lanes the quadrants. A crossing
thread holds the mutex of its lane while it waits for quadrants.

*Hard behaviour.* Deadlock on quadrants, lost signals, spurious wakeups, a condition that was examined before a wait
and is not after it, a ring that is freed without a mutex, an order that two list reversals and a ring have to keep.

*Correct when* it behaves as an intersection does: cars of a lane cross in the order of the schedule, no two cars
are on one quadrant, nobody waits for ever, all cars cross, and each is filed with the lane it leaves by.

### A3, the paging simulator

*State.* A two-level page table (bits valid, dirty, on-swap, referenced; frame; offset in swap), the `coremap` with
one entry per frame, simulated memory `physmem`, a swap file with a bitmap, counters, and what each algorithm keeps
(a clock, the clock hand, timestamps; for OPT the trace, a search tree and a table of next uses).

*Operations.* `replay_trace` reads references and calls `access_mem`, which calls `find_physpage`; that finds the
page or has `allocate_frame` find a frame, which calls the algorithm's evict function and `swap_pageout`; then
`init_frame` or `swap_pagein` fills the frame. The algorithm's ref function is called for every reference.

*Interaction.* Calls and shared tables; one thread. The algorithms see the coremap only.

*Hard behaviour.* Page table and coremap are updated in different places; a clean victim is thrown away on the
strength of its dirty bit; swap can be full and the disk can fail, which the callers do not look at; local variables
that are set only if a loop finds something (`minPos`, `latestFrame`); a hand that goes round until it finds a bit
clear; a table of the future that is built backwards.

*Correct when* paging does not show (a load returns what was stored last), each frame and each swap slot belongs to
one page, the algorithms evict the page they are named after, every reference is served and counted.

### A4, the ext2 tools

*State.* A disk image mapped into memory: superblock and group descriptor with free counts, two bitmaps, the inode
table, and directory blocks, which are lists of entries chained by their record lengths; the gap behind an entry may
hold a removed one.

*Operations.* `ext2_mkdir`, `ext2_cp`, `ext2_rm`, `ext2_rm_bonus` (recursive), `ext2_restore`, on the helpers of
`ext2_helper.h` (path walk, `search_in_dir_inode`, `allocate_inode`, `allocate_block`, `free_block`). One command per
process; what one leaves in the image the next one finds.

*Hard behaviour.* Long sequences of legal commands; bit numbers and block numbers that differ by one; free counts
that drift from the bitmaps; record lengths that must keep every entry reachable; a restore that meets blocks that
were given to another file, or fails after its first half; files with two names.

*Correct when* bitmaps, counts, inodes and directories agree after every command: no block has two owners, every
entry that was added and not removed is found, a command that reports success has added or removed its name, a
restored file is the one removed.

What the tools do wrong in detail, and where, is in section 5.

### The rest

`TE7`, `TE8`, `TE9` (print an ext2 image), `LE8` and `Assignment3/starter/traceprogs` (programs to be traced), the
scripts, and the images, traces and expected outputs are inputs or pure output, with no state to verify.
`Assignment1/test_*.c` drive the kernel module and were read for the results they expect. `ext2_ln.c` does not
compile (the block opened at line 142 is never closed), `ext2_utl.c` calls a function no file defines, and the
Makefile names an `ext2_checker.c` that is not there: there is nothing to model.

## 2. Traffic

`Traffic` follows the C code by thread. `arrive[l]` and `cross[l]` say where the two threads of lane `l` are; a step
goes from one point where another thread can make a difference to the next: the taking of a mutex, a wait, the end
of a critical section, one quadrant. All fields of a lane are written with its mutex held, so that a critical section
with no blocking call in it is one step (`ArrivePut` is lines 121-127 of `cars.c`, with its signal and unlock).
`pthread_cond_wait` gives the mutex back (`ArriveWait`, `CrossWait`) and, after a signal or for no reason
(`SpuriousWakeup`), takes it again. `locks[l]` is the path and `todo[l]` the part of it the loop has still to go
through, smallest quadrant first, as the sorted array has it. `compute_path` is the arithmetic of the code.

`Intersection` is the promise: queues, `Enter` only when what a car covers (from the rules of the road and the
numbering of `traffic.h`, not from `compute_path`) is free, `Leave` in order. `ImplementsIntersection` is the
refinement.

| property | what could break it |
|---|---|
| `NoOvertaking` | two reversals, a ring and two threads keep the order, for every interleaving |
| `RingConsistent` | `head`, `tail` and `in_buf` are moved by different threads; head = tail both when full and when empty |
| `NoLostWakeup` | a thread sleeps only while its partner is awake and bound to signal |
| `NoUseAfterFree` | `free(l->buffer)` runs with no mutex held |
| `NoCollision` | the paths of all 16 routes, and all of a path taken before the car moves |
| `DeadlockFree` | quadrants are waited for with the lane's mutex held; both condition variables may have sleepers |
| `ImplementsIntersection`, `Termination` | the whole |
| `FiledByOutDir` (does not hold) | a car is filed by the lane it came from |

The order in which the cars of a lane cross is read off the lines `car_cross` prints (`printed[l]`, `cars.c:194`), not
off `out_cars`: which list a car ends on is a question of its own, and the code gets it wrong.

*Run `traffic_two`.* Two neighbouring lanes, rings of two slots (the code has ten). Schedules: one car in each lane
with all 16 pairs of routes, and up to four cars of two conflicting routes in any order. That is enough to fill the
ring, to wrap it twice, to have both threads of a lane asleep one after the other and two crossing threads contend
for overlapping paths. Four lanes are not run: what they add, a ring of four lanes that wait for each other, is
excluded by proof for any set of lanes (`DeadlockFreeHolds`), and two lanes already deadlock when the quadrants are
taken in another order (section 6).

*Run `traffic_outdir`*, the same instance: `FiledByOutDir` is violated by the first car whose `out_dir` is not the lane
it came from. `car_cross` puts it on `out_cars` of the latter (`cars.c:188-189`); the comments (`cars.c:145-147`,
`traffic.h:39`) say that `out_cars` has the cars that passed *into* the lane.

*Fairness.* Weak fairness of each thread and of `main`: a thread that can go on does. Nothing is assumed of mutexes
beyond that, which POSIX does not promise either. The spurious wakeups must come to an end: without that a thread
woken for nothing again and again may always be the one to get the mutex. Termination needs no more, because each
thread runs out of cars.

*Proved* (`TrafficProofs`, for every set of lanes, ring length, schedule): `TypeOK`, `RingConsistent`,
`NoLostWakeup`, `NoUseAfterFree`, `NoCollision`, `DeadlockFree`. The invariant is `IInv`:

- `LockHeld`: the mutex of a lane belongs to the thread whose place is inside the critical section. With it each
  step disturbs one thread's knowledge only.
- `LaneProgress`: what a thread knows where it can sleep or return. A crossing thread at `relock` or `drain` with an
  empty ring knows that cars are pending; this is what makes the second examination of the loop condition
  superfluous, and it is why `car_arrive` may use `in_cars` after a wait without looking again: only its own lane's
  arrival thread takes cars off.
- `RingFilled`: the ring with its wrap spelt out; `RingConsistent` follows by arithmetic.
- `QuadsHeld`: the quadrants a lane holds are those its loop has passed, and all are below those it wants. If all
  threads were blocked, a lane that waits for a quadrant would wait for a lane that waits for a larger one, and there
  are four: so nobody waits for a quadrant, hence nobody for a lane, and a sleeper's partner does not sleep
  (`DeadlockFree`).
- `PathOfCar`: the path belongs to the car on the road. `NoCollision` follows, with the lemma that for all 16 routes
  `compute_path` covers the footprint.
- `NotStarted`: before the threads exist the lanes are as initialised.

*Proved* (`TrafficOrderProofs`, for the same): `NoOvertaking` and the refinement `ImplementsIntersection`. The
invariant is `OInv`: `IInv`, `NoOvertaking` itself, and `AllRead` (the threads run once the whole file is read; no car
crossed before). `Lines(l)[n]` are the cars of lane `l` among the first n lines of the file, a recursive function.
That the function exists and returns cars is shown for every n from the least n it would fail for, which the
well-foundedness of < on the numbers provides (`LeastNumber`). `ArrivePut` and `CrossMove` then each move one car
across one of the joints of `printed \o queued \o pending`; `QueueInRing` says what that does to the ring. In the
refinement the cars that wait while the file is read are those of the file, so that nothing of `parse_schedule` is
seen; `ArrivePut` is `Arrive`, the `CrossAcquire` of the last quadrant is `Enter`, `CrossMove` is `Leave`, and every
other step is invisible (`Unseen`). `Enter` may take place because `QuadsHeld` gives each quadrant one owner.

Only model-checked: `Termination` (liveness).

## 3. Interceptor

Each process is in user space or at a place in the kernel; up to `CPUS` of them are in the kernel. A critical section
is one step. What the code does without a lock is split where another process can get in between: the read of the
flags (`CheckContext`), the walk of the list (`CheckWalk`), the walk of the interceptor, and in `del_pid` the
unlinking and the counting. `WriteHook` is the second critical section of INTERCEPT and RELEASE. The four commands are
`InterceptCall` to `StopPid`, each with all assignments of its branch in the order of the code, and with -ENOMEM and
-EINVAL on the way out; a command `my_syscall` does not know returns 0 and does nothing. A list is modelled by how
often each pid is on it: its order is never observed.

| property | what could break it |
|---|---|
| `HookedIffIntercepted` | two tables, written in two critical sections |
| `ListsConsistent` | counter, flag and list are changed by four helpers, one of them without the lock and in two steps |
| `DeadPidsForgotten` | `my_exit_group` must still be the handler, and its loop must reach every list |
| `StartStarts`, `StopStops` | the command returned 0; its effect rests on `monitored`, the list and `list_inversed` together |
| `UnloadRestores` | every command may have happened before |
| `NonRootConfined` | checks are made outside of the lock by one process, and changes inside by another. It is about `intercepted`, `list_inversed` and who is on the lists; counter and flag of a list are not the caller's, and change with it |
| `EveryCallReturns` | six ways out of the critical section |

*Run `interceptor_one`*: three processes (root, two of one other user), one in the kernel at a time, good and bad
arguments, failing allocations, two processes that may exit, loading and unloading. One process at a time is the
setting in which the code is meant to be right; `exit_group` itself is not intercepted by command. What this run
shows is that the commands and helpers fit together over long sequences; races it cannot show. *Run
`interceptor_two`*: two processes in the kernel at a time, of which one is not root.

*Run `interceptor_hookrace`* shows where the code and its comments disagree (PROJECT.json quotes them): an INTERCEPT
and a RELEASE that overlap leave the tables in disagreement. For that reason `HookedIffIntercepted` and the list
properties are checked with one process in the kernel at a time only: with two they do not hold of this code (two
START commands for one pid that overlap put it on the list twice).

*Proved* (`InterceptorProofs`, for any number of system calls, processes, users and arguments). With any number of
processors: `TypeOK` and `NonRootConfined`. The invariant is `TypeInv`: beside the types, what a process in the kernel
has been checked for (`Requests`: its permissions hold until it leaves, because owners do not change) and which saved
handlers exist (`Pointers`). Under `OneProcessor` (`CPUS = 1`, and no command names `exit_group`):
`HookedIffIntercepted`, `ListsConsistent`, `DeadPidsForgotten`, `StartStarts`, `StopStops` and `UnloadRestores`, from
`SInv`: `Alone` (nobody else is in the kernel), `ByModule` (only the module itself changes the handlers of system call
0 and of `exit_group`), `Lists` (counter and flag of each list, also while `del_pid` has unlinked what it has not yet
counted) and `Progress` (the checks made without the lock still hold when they are acted on, the step that the run
`hookrace` breaks). Only model-checked: `EveryCallReturns` (liveness).

*Observed, no run.* START for all pids returns 0 and monitors nobody: `destroy_list` clears `monitored` (line 198) after
it was set to 2 (line 486), where line 282 says "monitored=2 => all pids are monitored for this syscall". `StartAll`
does what the code does. A START that fails for want of memory leaves `monitored` at 1 with an empty list, which
logs nobody.

An INTERCEPT of `exit_group` by command and its RELEASE replace `my_exit_group` for good
(`interceptor.c:475`), so that from then on the pids of dead processes stay on lists. No comment speaks of that case;
the runs and the proofs leave it out by `EXIT_GROUP \notin SyscallArgs`.

*Fairness.* A process inside the kernel goes on (`WF` of `KernelStep`), and the spin lock is a ticket lock: whoever
waits gets it (`SF` of `Lock`). This is idealised in one place: `add_pid_sysc` calls `kmalloc` with `GFP_KERNEL` while
the spin lock is held (lines 102 and 506), which may sleep; a sleeper keeps the lock, and is taken to wake up.
Processes need not make calls, and the module need not be unloaded.

*Left out.* `set_addr_rw`/`set_addr_ro` (page protection), the text of log messages, reuse of pids. The number
`NR_syscalls` itself passes the check of line 385; the access past the table that follows is outside of the model
(`CheckContext` is disabled there). A walk is a step and sees the list as it is then; that an entry can be freed
under a walk is plain from the code, and nothing here depends on it. The check of the arguments and the look at the
owner of the pid are one step. A process inside `my_exit_group` while the module is unloaded goes on to call a
pointer set to NULL (place `oops`); with `CPUS = 1` that cannot happen, and no property excuses it.

## 4. Paging

`Paging` serves one reference at a time through the phases `pc`: `trace` (the next reference: `Hit`,
`AllocateFree`, `Replace`), `evict` (`ClockSweep`, `Evict`), `fill` (`FillNew`, `FillFromSwap`, `FillFails`,
`FillAborts`), `ref` (`Access`). The simulator is sequential; the phases are there because each of them can fail,
and because the invariants have to say what holds while a frame changes hands. A page's contents are the two fields
the code itself checks: the address it was made for (`init_frame`) and the version counter `access_mem` increments.
The bitmap is the set of slots in use. `Victims` is what each evict function may return; `rand` any frame, `fifo` and
`lru` the first frame with the least timestamp below `time`. `alg` is chosen at the start, as the option `-a` is.

`VirtualMemory` is memory without paging: a version counter per page that only a write to that page changes.
`EvictionQueue` is what FIFO and LRU promise: a queue of pages.

| property | what could break it |
|---|---|
| `ImplementsMemory`, `ExpectedPage` | all the bookkeeping below, over several evictions of the same page |
| `CleanPagesOnSwap` | a dirty bit that is cleared at the wrong place, or not set |
| `SwapSlotsOwned`, `PageinFromSwap` | a slot is allocated once per page and reused; a full swap |
| `MappingsAgree` | two tables, updated in `allocate_frame` and, on two paths, in `find_physpage` |
| `EvictionSound` | the path for a page on swap calls evict with no look for a free frame; `minPos` uninitialised |
| `CountersAddUp` | eight increments, spread over the paths of two functions |
| `ImplementsQueue` | FIFO and LRU share the timestamp and differ in `new_swapin` |
| `EveryReferenceServed` | the clock hand has to clear the bits it passes |

*Runs.* `paging_memory`: three pages, two frames, swap for all pages, loads and stores, `rand` (hence any victim) and
`clock`. Seven references make every page leave and return, clean and dirty. `paging_queue`: four pages, three
frames, swap for two pages, a disk that may fail at every read and write, `fifo` and `lru`; eight references.
Bounds: `MAX_REFS` only; everything else is the size of the machine. The runs stop when the trace does, so deadlock
is not checked. `paging_modify` shows a disagreement: the dirty bit is set for stores (`S`) only, although access_mem
also writes for `M`.

*Observed, no run.* When the swap file is full the failure of `swap_pageout` is stored as the page's offset
(`pagetable.c:45-46`, `189-190`), so that the assertion of `swap_pagein` (`swap.c:193`) fails when the page is needed
again (`FillAborts`, which `paging_queue` reaches). With `SWAPSIZE = 1` in `paging_memory` TLC finds
`PageinFromSwap` violated.

*Fairness.* The simulator is a sequential program that keeps running: weak fairness of serving a reference.

*Proved* (`PagingProofs`, for every number of pages, frames and slots and every algorithm). With no assumption, so
also with a full swap and a failing disk: `TypeOK`, `MappingsAgree`, `EvictionSound`, `CountersAddUp`. The invariant is
`Bookkeeping`; beside the two it has `FramesOwned` (once a page is on swap every frame is in use: this is why
`find_physpage` need not look for a free one), `Phases` (what is known of page and frame in each phase) and `Stamped`
(timestamps lie in the past: this is why a victim is found). Under `Reliable` (a slot for every page, no failing
disk, no `M` references): `SwapSlotsOwned`, `PageinFromSwap`, `CleanPagesOnSwap`, `ExpectedPage` and the refinement
`ImplementsMemory`, from `Contents` (clean copies, every page carries its own address). That `swap_pageout` finds a
free slot is counting: the page that leaves owns no slot, the other pages own one each at most, so fewer slots
are in use than there are pages. The run `paging_modify` violates `ImplementsMemory` where `Reliable` is given up.

`PagingQueueProofs` proves `ImplementsQueue` for `ALGS` within FIFO and LRU, with no assumption on swap or disk. Its
invariant adds two parts to `Bookkeeping`: there is a sequence of the pages in memory in the order of their timestamps
(a lemma says that it is the only one, so `ByTimestamp` is it), and under FIFO `new_swapin` is set in exactly the
frames whose page has not been used yet (so a page is stamped once). Each step then says what it does to the
sequence: the oldest frame is that of its first page, a page that is stamped goes to its end.

Only model-checked: `EveryReferenceServed`.

*Left out.* The second level of the page table, addresses within a page, `PG_REF` (never read), printing. `fifo.c`,
`lru.c` and `opt.c` each define a global `time`; with a linker that merges them they share it, and since only one
algorithm runs that makes no difference.

### Opt

`opt_init` walks the trace backwards and asks a search tree for the next use of each page; `update` is recursive in
the code and a walk of `node` down the tree here (`Found`, `Descend`, `Insert`). Then the replay. The run `opt_all`
checks all traces of up to six references to four pages with two frames: the table says "never again" exactly where
that is so (`NeverExact`), a page still needed is not evicted while one that is not is in memory (`UnneededFirst`),
and the search ends (`InitTerminates`). Four pages make trees with nodes on both sides and a depth of four.
`latestFrame` of `opt_evict` (`opt.c:55`) is uninitialised if every frame's next access time is 0, which is a matter of
the wrong times below: the number it returns is then any frame (`Evict`), or one outside of the coremap, after which
nothing is defined (`EvictOutside`). Both happen in the run; `UnneededFirst` says that they do not while memory holds a
page that is not used any more.

*Proved* (`OptProofs`, for every trace, set of pages and memory): `TypeOK`, `NeverExact`, `UnneededFirst`. The
difficulty is the search: `update` must find each page that has a node. The invariant `Search` does not speak of the
order of the tree at all. It says that a page with a node is in every set of nodes that contains the root and, with
each node, the child the search for that page goes to (`Findable`), and that the node looked at is on that way
(`OnTheWay`); a new node is put at the end of the way of its own page, and the ways of all others stay or grow. For
the replay `Loaded` says which line of the table a frame's next use was taken from. Only model-checked:
`InitTerminates` (liveness).

*Observed, no run.* The *times* of the table are wrong: `update` stores the time of a page it inserts in the parent of
the new node (`opt.c:171`). The model keeps that; what the replay runs is therefore not the optimal algorithm, only
right about the pages that are never used again.

## 5. Ext2

`Ext2` is one image and the five tools. A tool runs alone on the image and exits, so a command is one step; what the
interleavings are elsewhere, the *sequences* of commands are here, because each of them finds what the others left in
bitmaps, inodes and the gaps of directory blocks. A command that fails before its first write changes nothing and is
no step; one that fails later is a step with what it wrote: `ext2_cp` of a file that is too large leaves entry and
inode behind, a restore that meets a taken block leaves the blocks before it marked. `succeeded` says whether the last
command ended with status 0.

*A full disk.* `ext2_mkdir` writes the entry and the inode before it asks for a block. If there is none its pointer
becomes -1 (`NO_BLOCK`), the free count goes down, and '.' and '..' are written into the kilobyte before the image,
which may kill the program or not; either way the directory stays, with no block. `Kind` marks it ("no_block"): the
walks of the other commands do not go into it (see "Left out"). `ext2_cp` gets the pointer -1 when the bitmap runs out
before the count does, reads into the same kilobyte, and may be killed there, end with "Space full" if the count comes
to 0, or end with status 0 (`Copied`). That the write before the image may hit other memory of the process, and what
follows, is not modelled: only that it stops the program or does not.

*State.* `ind_bmp` and `blk_bmp` are the bitmaps, `blk_bmp` as the set of blocks b whose bit b - 1 is set, which is
how `allocate_block` and `free_block` read it; `is_available_block` looks at the bit after that. `ind_tbl` has mode
and block pointers of each inode, also of free ones: `free_inode` leaves them, and `ext2_restore` lives on that.
`dirs` has the headers of each block. A directory entry takes one *slot* (12 bytes: a name has one to four
characters), record lengths count slots, and a slot out of the chain keeps the header it had; so the gaps hold exactly
what the code's searches through gaps see. `free_blocks` is the one count a tool reads (`ext2_cp`), with the wrap of
an unsigned number; the others are only written and are left out.

*Operations.* `cd`, `search_in_dir_block`, `RoomIn`/`RoomBlock` (the search for room, which goes through the gaps, and
from a full block on to the pointer 0 after it, that is to block 0 of the disk, `ext2_helper.h:311`),
`allocate_inode`, `allocate_block` are operators of the names of the code; `ext2_mkdir`, `ext2_cp`, `ext2_rm`,
`ext2_rm_bonus`, `ext2_restore` are the actions. `FileTree` is what they promise: a set of paths, each with its kind
and inode. A command that reports success adds one or takes one away with all below it; one that fails takes none
away, and adds at most the name of a file, or of a directory that got no block. There is one exception, `Misplace`:
while some directory holds as many names as fit, a command may report success and do nothing. That is what becomes of
an entry that goes to block 0; `ext2_full` below is the run that shows it. Without it `FileTree` would not hold of the
code; with it a success that does nothing while there is room is still a violation.

| property | what could break it |
|---|---|
| `RecordsFit` | lengths are split by mkdir, added by rm, recomputed by cp and restore, also inside gaps |
| `NoSharedBlocks` | blocks are marked, freed and looked at through three different bit offsets |
| `EntriesSound` | the chain must reach the end of its block, past gaps that are opened and closed in any order; bits and entries are changed apart |
| `ParentsAgree` | inodes and blocks of directories are used again |
| `ImplementsFileTree` | all of it, for every name of the disk, and what the exit status says |
| `RestoreUndoes` | restore guesses from a gap what rm changed in three places |
| `CopyKeeps` (does not hold) | the length of the new entry is guessed from the header behind it |
| `SuccessShows` (does not hold) | a full directory, or an old header of the name |

`EntriesSound` and `ParentsAgree` are about directories that have a block. `NoSharedBlocks` says that what a file in use
owns is marked and its own; a block that stays marked and belongs to nobody (a restore that failed after its first
half leaves one), and free counts that drift, are not errors for it, and the code produces both. `RestoreUndoes` is
about a restore that succeeds, directly after the removal, and finds the header of the file that was removed.

*Run `ext2_tools`*: eight commands of all five tools on a root directory with room for two entries and directories
below it, three names, three inodes and three free blocks, files of one and two blocks. That is enough to fill the
directory (the next entry goes to block 0), the inodes and the blocks (the next directory gets none), to have two gaps
side by side, and to reuse inode and block of a removed directory. Names are interchangeable, hence the symmetry.

*Run `ext2_full`*: a root with room for one entry, `ext2_mkdir` and `ext2_cp`. The second directory made in it is
written to block 0 (`ext2_helper.h:305-313`); the status is 0, and no search finds the name, against the header of
`ext2_mkdir.c` (lines 14-15).

*The damaging uses.* With some sequences of commands the tools damage the image, or do not do what they report.
`ALLOWED` names four kinds that the run leaves out, so that what it checks is that, within its bounds and beside what is
listed as left out, no others break a property. A full directory and a full disk are not among them: they are in the
run.

- `wide_gap`: `ext2_cp` into a gap of more than one entry. The new entry takes the rest of the block, and the entries
  behind the gap are lost (`ext2_cp.c:116-125`). This contradicts the comment at `ext2_cp.c:121`: run `ext2_gap`, where
  the third of three files is gone. With it TLC also finds `EntriesSound`, `ParentsAgree` and `ImplementsFileTree`
  violated.
- `late_restore`: a restore that is not the next command after the removal. Blocks or inode may belong to another file
  by then, since the check looks at the wrong bit (`ext2_helper.h:471`), and the block owned by two files that results
  violates `NoSharedBlocks`, and then the rest.
- `same_name`: `ext2_mkdir` refuses a name only if a *directory* has it (`ext2_mkdir.c:92`); a file of the name is
  then hidden or hides the directory. Of the run's properties this violates `ImplementsFileTree` only.
- `stale_restore`: a restore directly after the removal, but the first header of the name that the search through gaps
  meets is left from an *earlier* removal (`ext2_restore.c:104`). If the inode of that header is free, restore marks
  it, shortens the header before the old one, which may itself be in the gap, and returns 0; the name does not show
  up. With room for three entries: copy x, y, z; remove y and z; copy z; remove x and z; restore z. The header of x,
  out of the chain, still says that nothing is behind it, so the z that was removed last is passed by and the header
  of the first z is taken. So a restore that reports success does not bring the name back: `SuccessShows` is violated
  after these nine commands with `NAMES = {a, b, c}`, `SLOTS = 5`, `LAST_INODE = 14`, `FIRST = 10`, `LAST = 14`,
  `SIZES = {1}`, `DEPTH = 0`, `COUNTER_MOD = 6`, the tools `ext2_cp`, `ext2_rm`, `ext2_restore`, `MAX_COMMANDS = 9` and
  `ALLOWED = {"stale_restore"}`. It takes more entries and commands than `ext2_tools` has, so that run would not see it
  if it were allowed; the attempt to prove `RestoreUndoes` brought it up.

*Proved* (`Ext2Proofs`, for every size of disk and directory, every set of names, every `ALLOWED`): `TypeOK` and
`RecordsFit`, so no walk leaves its block, in a damaged image either; and `NoSharedBlocks` for every set of tools
without `ext2_restore`.

*Proved* (`Ext2TreeProofs`, for every size, every depth, every set of tools): with `ALLOWED` at most `{"same_name"}`,
`EntriesSound`, `ParentsAgree`, `RestoreUndoes`, and `NoSharedBlocks` with restore among the tools; with `ALLOWED`
empty, `ImplementsFileTree`. The assumptions on `ALLOWED` are what the theorems are about: each use left out is one for
which TLC shows a property broken.

The inductive invariant `TreeInv` is `DiskSound`, five facts about the image, and `UndoSound`.

- `Typed`, `Owned`, `Shaped`: bitmaps, inodes and headers have their types; a block that a file or directory in use
  points to is marked and has no other owner; the chain of a directory covers its block, and no length *inside* a gap
  is zero or leads past the gap. The last is what the search for room rests on: it goes by the same lengths,
  so it finds a header of the chain and the new entry lands between that header and the next (`RoomInChain`,
  `AddedToChain`).
- `NamedOnce`: an inode is named by one entry at most. Without it, a removal would free an inode that another entry
  still names, and `EntriesSound` would not be inductive. For `rm -r` it says that what is freed with a directory is
  named from inside the freed directories only.
- `Parented`: `..` of a directory is the one that has its entry.
- `UndoSound`: after the removal of a file, the image before it satisfies the same facts and differs by that file
  alone, and `cd` still finds its directory. `ext2_rm` and `ext2_rm_bonus` leave such an image, every other command
  leaves nothing to undo, and `ext2_restore` uses it. The entry behind which restore finds the header is the
  predecessor it had, so the lengths go back exactly (`LengthBack`), and `RestoreUndoes` follows; and since the image that comes back was
  sound, so is the invariant.

For the refinement `NamesInv` is added: names in a directory differ, in the image and in the one before the removal.
Then `cd` and the tree agree on every path (`CdInTree`), `ext2_mkdir`, `ext2_cp` and `ext2_restore` add at most one
name to `Tree` and keep the rest (`Gains`), and `ext2_rm` and `ext2_rm_bonus` take one away with all below it
(`Loses`). That a command with status 0 that adds none had a full directory is counting: the entries of the chain, each
with a length of one slot, are as many as there is room for. These are the steps of `FileTree`; none is a stutter.

The walks of the model (`Chain`, `cd`, `Subtree`, `Tree`) are recursive functions. That such a function exists, and
that two walks do not part, is shown at the least place where it would fail, so no induction over an operator is
needed; the proofs then speak of `Links`, the least set of slots closed under the step of the walk, and of levels.

*Observed, no run.* The free counts change only when an allocation fails (`ext2_helper.h:494`) and when
`ext2_restore` or the removal of a directory counts blocks, so that they drift from the bitmaps. A path that begins
with `/` never leads anywhere: the walk looks for an entry with an empty name. `ext2_rm` does not look at the link
count (`ext2_rm.c:126`): a file with two names loses its inode with one of them; since `ext2_ln` does not compile,
only a given image can hold such a file, and `Init` is an empty one. `restore_block` is never reached, because the only
caller passes `recursive = false`.

*Left out*, and so neither checked nor proved to be harmless:

- `ext2_mkdir` and `ext2_cp` with no free inode (guard `Inode \ ind_bmp # {}`): the code writes an entry that names inode
  0, and an inode before the table.
- `ext2_mkdir` and `ext2_cp` when block 0 is full as well (guard `HasRoom`): the search goes on to blocks whose numbers it
  reads from block 0.
- A path into a directory that has no block, or through something that is not a directory: the walk reads what is before
  the image, fails an assertion, or reads data as entries.
- The removal, with `ext2_rm` or `rm -r`, of a file or directory with the pointer -1, or of a directory above one, and the
  restore of such a file: `free_block` gets a block that is not there, and an assertion or a signal may kill the program
  halfway. Every other removal passes its assertions while `EntriesSound` and `NoSharedBlocks` hold.
- Files of twelve blocks and more. With twelve the loop ends before `cp_complete` is set (`ext2_cp.c:162-177`), and like
  for larger ones an indirect block is allocated whose number goes where `i_block[12] = 0` points, into block 0.
- What the writes before the image do to the process, beyond stopping it or not.
- `lost+found` (an entry more in the root, never touched); names of different lengths, which would need gaps that fit one
  entry and not another; times, sizes and contents of files.

## 6. The properties against faulty code

Definitions with a suffix (`Signal_lost`) stand before the definition they get wrong and are used by nothing. Put in
its place, each makes TLC find the property violated in the run named.

| run | faulty definition | the mistake | property |
|---|---|---|---|
| `traffic_two` | `Advance_unwrapped` | head and tail are not wrapped | `TypeOK` |
| | `Advance_stuck` | head and tail do not move | `RingConsistent` |
| | `Full_never` | no wait for room | `NoOvertaking`, `ImplementsIntersection` |
| | `Signal_lost` | no signal | `NoLostWakeup`, `Termination` |
| | `AllCrossed_early` | return as soon as the ring is empty | `NoUseAfterFree` |
| | `Sweep_short` | the last quadrant is left out | `NoCollision` |
| | `NextQuad_driving` | quadrants in driving order | `DeadlockFree` |
| `interceptor_one` | `Hook_unsaved` | RELEASE writes a handler never saved | `TypeOK` |
| | `Hook_kept` | RELEASE leaves the handler | `HookedIffIntercepted` |
| | `destroy_list_uncounted` | `listcount` not reset | `ListsConsistent` |
| | `Unlink_nothing` | `del_pid` counts only | `DeadPidsForgotten` |
| | `SomeMonitored_not` | `monitored` not set to 1 | `StartStarts` |
| | `del_pid_sysc_kept` | the entry stays on the list | `StopStops` |
| | `destroy_list_kept` | the entries are not freed | `UnloadRestores` |
| `interceptor_two` | `SameOwner_unchecked` | owner not compared | `NonRootConfined` |
| | `Commit_leaky` | no unlock on -ENOMEM | `EveryCallReturns` |
| `paging_memory` | `PageoutSlot_end` | one slot too far | `TypeOK` |
| | `PageoutSlot_fresh` | a new slot each time | `SwapSlotsOwned` |
| | `PageoutSlot_first` | always the first slot | `ExpectedPage` |
| | `MarksDirty_never` | stores do not set the dirty bit | `CleanPagesOnSwap`, `ImplementsMemory` |
| | `FillNew_clean` | a new page is clean | `PageinFromSwap` |
| | `ClockSweep_keepsBit` | the hand does not clear bits | `EveryReferenceServed` |
| `paging_queue` | `Leave_valid` | the victim stays valid | `MappingsAgree` |
| | `FreeFrames_fromOne` | the search begins at frame 1 | `EvictionSound` |
| | `EvictClean_uncounted` | a path that does not count | `CountersAddUp` |
| | `Referenced_swapped` | FIFO stamps every use, LRU arrivals | `ImplementsQueue` |
| `opt_all` | `Return_unset` | a time after the end of the trace | `TypeOK` |
| | `Inserted_unlinked` | the new node is not linked | `NeverExact` |
| | `Victim_latestOnly` | "never again" is not looked for | `UnneededFirst` |
| | `Descend_stays` | the recursion is on the same node | `InitTerminates` |
| `ext2_tools` | `allocate_block_past` | one block past the last is looked at | `TypeOK` |
| | `Spare_whole` | a split does not shorten the entry before | `RecordsFit` |
| | `BlocksOf_unshifted` | the bits freed are those of the next blocks | `NoSharedBlocks` |
| | `Unlinked_kept` | the entry of a removed file stays | `EntriesSound` |
| | `NewDirectory_root` | `..` is always the root | `ParentsAgree` |
| | `DirRecLen_end` | mkdir swallows what is behind its gap | `ImplementsFileTree` |
| | `Regained_unshifted` | restore marks the bits it looked at | `RestoreUndoes` |

## 7. State of the development

| module | types | safety | refinement | liveness |
|---|---|---|---|---|
| `Traffic` | proved | proved | proved | model-checked |
| `Interceptor` | proved | proved (one processor; `NonRootConfined` for any number) | | model-checked |
| `Paging` | proved | proved | `VirtualMemory` proved, `EvictionQueue` proved | model-checked |
| `Opt` | proved | proved | | model-checked |
| `Ext2` | proved | proved (`RecordsFit` for every `ALLOWED`, the others without the damaging uses) | `FileTree` proved | a tool runs to its end in one step |

"Proved" is for every value of the constants, "model-checked" for the instance of the run. Liveness under fairness is
out of the provers' reach: `Termination`, `EveryCallReturns`, `EveryReferenceServed` and `InitTerminates` are checked by
TLC and not proved. Every other property of a passing run is stated by a theorem. Facts about recursive functions need
induction over data, which the provers do not have as a rule; where one was needed (`Lines` of `Traffic`, the least
element and the walks of `Ext2`) it is replaced by the argument of the least counterexample.

Not modelled, beside what each section says under "left out": the programs of "The rest" in section 1; files of twelve
blocks and more, and names of different lengths (section 5). `Opt` is not composed with the contents of `Paging`'s
memory: it evicts, and `rand` of `paging_memory` already takes every victim any algorithm could choose.
