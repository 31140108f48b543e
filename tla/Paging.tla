------------------------------- MODULE Paging -------------------------------
(***************************************************************************)
(* The virtual memory simulator of Assignment3/starter: the replay of a    *)
(* trace (sim.c), the page table and the coremap (pagetable.c), the swap   *)
(* file (swap.c) and the replacement algorithms that only look back        *)
(* (rand.c, fifo.c, lru.c, clock.c).                                       *)
(*                                                                         *)
(* One reference of the trace takes up to four kinds of steps: find_physpage *)
(* looks the page up (Hit, AllocateFree, Replace), the replacement         *)
(* algorithm picks a victim and the victim leaves (ClockSweep, Evict...),  *)
(* the page is brought into the frame (FillNew, FillFromSwap...), and the  *)
(* reference itself is made (Access).  An address is modelled by its page: *)
(* the traces of the repository hold page addresses only                   *)
(* (traceprogs/fastslim.py:29).  A frame's content is the address and the  *)
(* version counter that the simulator keeps in it.                         *)
(***************************************************************************)
EXTENDS Integers, FiniteSets, SequencesExt

CONSTANTS Page,        \* the virtual pages of the trace
          NoPage,      \* the null pointer in a coremap entry
          TYPES,       \* the access types in the trace
          MEMSIZE,     \* number of frames (-m)
          SWAPSIZE,    \* number of pages the swap file holds (-s)
          ALGS,        \* the replacement algorithms to choose from (-a)
          IO_FAILS,    \* TRUE: reads and writes of the swap file may fail
          MAX_REFS     \* bound: the length of the trace

AccessType == {"I", "L", "S", "M"}
Algorithms == {"rand", "fifo", "lru", "clock"}

ASSUME PageAssumption == IsFiniteSet(Page) /\ Page # {} /\ NoPage \notin Page
ASSUME TypesAssumption == TYPES \subseteq AccessType /\ TYPES # {}
ASSUME MemsizeAssumption == MEMSIZE \in Nat \ {0}
ASSUME SwapsizeAssumption == SWAPSIZE \in Nat
ASSUME AlgsAssumption == ALGS \subseteq Algorithms /\ ALGS # {}
ASSUME IoAssumption == IO_FAILS \in BOOLEAN
ASSUME BoundAssumption == MAX_REFS \in Nat

Frame == 0 .. MEMSIZE - 1
Slot == 0 .. SWAPSIZE - 1
INVALID_SWAP == -1
Content == [vaddr : Page \cup {NoPage}, version : Nat]
Blank == [vaddr |-> NoPage, version |-> 0]

Pte == [valid : BOOLEAN, dirty : BOOLEAN, onswap : BOOLEAN,
        frame : Frame, swap_off : Slot \cup {INVALID_SWAP}]
FrameEntry == [in_use : BOOLEAN, pte : Page \cup {NoPage}, timestamp : Nat,
               new_swapin : BOOLEAN, referenced : BOOLEAN]

VARIABLES pc,                 \* where find_physpage and its caller are
          type, vpage,        \* the reference being served
          frame,              \* find_physpage's frame
          pte,                \* the page table entry of each page
          coremap,            \* the coremap entry of each frame
          physmem,            \* the content of each frame
          swapfile,           \* the content of each page of the swap file
          swapmap,            \* the pages of the swap file that are allocated
          alg,                \* the replacement algorithm
          time,               \* the clock of fifo.c and lru.c
          arm,                \* the hand of clock.c
          hit_count, miss_count, ref_count,
          evict_clean_count, evict_dirty_count

request == <<type, vpage>>
memory == <<physmem, swapfile, swapmap>>
policy == <<alg, time, arm>>
counters == <<hit_count, miss_count, ref_count, evict_clean_count,
              evict_dirty_count>>
vars == <<pc, request, frame, pte, coremap, memory, policy, counters>>

-----------------------------------------------------------------------------
(* Choosing a frame and a victim.                                          *)

\* Faulty: the search for a free frame misses the first one.
FreeFrames_fromOne == {f \in Frame : f > 0 /\ ~coremap[f].in_use}

FreeFrames == {f \in Frame : ~coremap[f].in_use}

\* fifo_evict and lru_evict: the first frame whose timestamp is the least.
\* minPos stays uninitialised unless some timestamp is below time; the set
\* is then empty.
Oldest ==
  {f \in Frame : /\ coremap[f].timestamp < time
                 /\ \A g \in Frame :
                      \/ coremap[f].timestamp < coremap[g].timestamp
                      \/ coremap[f].timestamp = coremap[g].timestamp /\ f <= g}

\* The frame under the hand of the clock.
Hand == IF arm >= MEMSIZE THEN 0 ELSE arm

\* The frames that evict_fcn may return now.
Victims ==
  CASE alg = "rand" -> Frame
    [] alg = "clock" -> {f \in {Hand} : ~coremap[f].referenced}
    [] OTHER -> Oldest

\* Faulty: FIFO stamps every reference, LRU only the arrival of a page.
Referenced_swapped(e) ==
  CASE alg = "fifo" -> [e EXCEPT !.timestamp = time]
    [] alg = "lru" /\ e.new_swapin ->
         [e EXCEPT !.timestamp = time, !.new_swapin = FALSE]
    [] alg = "clock" -> [e EXCEPT !.referenced = TRUE]
    [] OTHER -> e

\* ref_fcn: what a reference leaves in the coremap entry e of its frame.
Referenced(e) ==
  CASE alg = "lru" -> [e EXCEPT !.timestamp = time]
    [] alg = "fifo" /\ e.new_swapin ->
         [e EXCEPT !.timestamp = time, !.new_swapin = FALSE]
    [] alg = "clock" -> [e EXCEPT !.referenced = TRUE]
    [] OTHER -> e

\* Faulty: writes do not mark their page dirty.
MarksDirty_never(t) == FALSE

\* The access types for which find_physpage sets the dirty bit, and those
\* for which access_mem changes the page.
MarksDirty(t) == t = "S"
Modifies(t) == t \in {"S", "M"}

\* Faulty: every page that is written out gets a new place in the swap file.
PageoutSlot_fresh(s) ==
  IF Slot \subseteq swapmap THEN INVALID_SWAP ELSE Min(Slot \ swapmap)

\* Faulty: slots are numbered from one up to the size of the swap file.
PageoutSlot_end(s) ==
  IF s # INVALID_SWAP THEN s ELSE Min(((Slot \cup {SWAPSIZE}) \ swapmap) \ {0})

\* Faulty: the bitmap is not consulted: every page goes to the first place.
PageoutSlot_first(s) == IF s # INVALID_SWAP THEN s ELSE Min(Slot)

\* swap_pageout: where the page that holds the slot s is written.
PageoutSlot(s) ==
  IF s # INVALID_SWAP THEN s
  ELSE IF Slot \subseteq swapmap THEN INVALID_SWAP
  ELSE Min(Slot \ swapmap)

-----------------------------------------------------------------------------
Init ==
  /\ pc = "trace"
  /\ type = CHOOSE t \in TYPES : TRUE
  /\ vpage = CHOOSE p \in Page : TRUE
  /\ frame = 0
  /\ pte = [p \in Page |-> [valid |-> FALSE, dirty |-> FALSE,
                            onswap |-> FALSE, frame |-> 0,
                            swap_off |-> INVALID_SWAP]]
  /\ coremap = [f \in Frame |-> [in_use |-> FALSE, pte |-> NoPage,
                                 timestamp |-> 0, new_swapin |-> FALSE,
                                 referenced |-> FALSE]]
  /\ physmem = [f \in Frame |-> Blank]
  /\ swapfile = [s \in Slot |-> Blank]
  /\ swapmap = {}
  /\ alg \in ALGS
  /\ time = 0 /\ arm = 0
  /\ hit_count = 0 /\ miss_count = 0 /\ ref_count = 0
  /\ evict_clean_count = 0 /\ evict_dirty_count = 0

\* replay_trace reads the next reference of the trace.
Reference(t, p) ==
  /\ pc = "trace"
  /\ ref_count < MAX_REFS
  /\ type' = t /\ vpage' = p

\* find_physpage: the page is in memory.
Hit(t, p) ==
  /\ Reference(t, p)
  /\ pte[p].valid
  /\ frame' = pte[p].frame
  /\ hit_count' = hit_count + 1
  /\ pc' = "ref"
  /\ UNCHANGED <<pte, coremap, memory, policy, miss_count, ref_count,
                 evict_clean_count, evict_dirty_count>>

\* The first reference to the page, and allocate_frame finds a free frame.
AllocateFree(t, p) ==
  /\ Reference(t, p)
  /\ ~pte[p].valid /\ ~pte[p].onswap
  /\ FreeFrames # {}
  /\ frame' = Min(FreeFrames)
  /\ pc' = "fill"
  /\ UNCHANGED <<pte, coremap, memory, policy, counters>>

\* A page has to make room: allocate_frame found no free frame, or the page
\* is on swap, in which case find_physpage does not look for one.
Replace(t, p) ==
  /\ Reference(t, p)
  /\ ~pte[p].valid
  /\ pte[p].onswap \/ FreeFrames = {}
  /\ pc' = "evict"
  /\ UNCHANGED <<frame, pte, coremap, memory, policy, counters>>

\* Faulty: the hand passes a referenced frame without clearing its bit.
ClockSweep_keepsBit ==
  /\ pc = "evict"
  /\ alg = "clock"
  /\ coremap[Hand].referenced
  /\ arm' = Hand + 1
  /\ UNCHANGED <<pc, request, frame, pte, coremap, memory, alg, time, counters>>

\* clock_evict passes a frame that was referenced and gives it a second
\* chance.
ClockSweep ==
  /\ pc = "evict"
  /\ alg = "clock"
  /\ coremap[Hand].referenced
  /\ coremap' = [coremap EXCEPT ![Hand].referenced = FALSE]
  /\ arm' = Hand + 1
  /\ UNCHANGED <<pc, request, frame, pte, memory, alg, time, counters>>

\* Faulty: the victim keeps its valid bit.
Leave_valid(f, s) ==
  /\ frame' = f
  /\ arm' = IF alg = "clock" THEN Hand ELSE arm
  /\ pte' = [pte EXCEPT ![coremap[f].pte].onswap = TRUE,
                        ![coremap[f].pte].swap_off = s]
  /\ pc' = "fill"
  /\ UNCHANGED <<request, coremap, physmem, alg, time, hit_count,
                 miss_count, ref_count>>

\* The page in frame f leaves memory; s becomes its offset in the swap file.
Leave(f, s) ==
  /\ frame' = f
  /\ arm' = IF alg = "clock" THEN Hand ELSE arm
  /\ pte' = [pte EXCEPT ![coremap[f].pte].valid = FALSE,
                        ![coremap[f].pte].onswap = TRUE,
                        ![coremap[f].pte].swap_off = s]
  /\ pc' = "fill"
  /\ UNCHANGED <<request, coremap, physmem, alg, time, hit_count,
                 miss_count, ref_count>>

\* Faulty: clean evictions are not counted.
EvictClean_uncounted(f) ==
  LET victim == pte[coremap[f].pte] IN
  /\ ~victim.dirty
  /\ Leave(f, victim.swap_off)
  /\ UNCHANGED <<swapfile, swapmap, evict_clean_count, evict_dirty_count>>

\* The victim is clean.
EvictClean(f) ==
  LET victim == pte[coremap[f].pte] IN
  /\ ~victim.dirty
  /\ Leave(f, victim.swap_off)
  /\ evict_clean_count' = evict_clean_count + 1
  /\ UNCHANGED <<swapfile, swapmap, evict_dirty_count>>

\* The victim is dirty and swap_pageout writes it.
EvictDirty(f) ==
  LET victim == pte[coremap[f].pte]
      slot == PageoutSlot(victim.swap_off) IN
  /\ victim.dirty
  /\ slot # INVALID_SWAP
  /\ Leave(f, slot)
  /\ swapmap' = swapmap \cup {slot}
  /\ swapfile' = [swapfile EXCEPT ![slot] = physmem[f]]
  /\ evict_dirty_count' = evict_dirty_count + 1
  /\ UNCHANGED evict_clean_count

\* The victim is dirty and swap_pageout fails: the swap file is full, or a
\* seek or a write fails after the slot was allocated.  Its result is stored
\* without a look at it.
EvictFails(f) ==
  LET victim == pte[coremap[f].pte]
      slot == PageoutSlot(victim.swap_off) IN
  /\ victim.dirty
  /\ slot = INVALID_SWAP \/ IO_FAILS
  /\ Leave(f, INVALID_SWAP)
  /\ swapmap' = swapmap \cup ({slot} \ {INVALID_SWAP})
  /\ evict_dirty_count' = evict_dirty_count + 1
  /\ UNCHANGED <<swapfile, evict_clean_count>>

\* The page is entered in the coremap and, with the dirty bit d, in its page
\* table entry; the assignment of the frame number clears the other bits.
Fill(d) ==
  /\ coremap' = [coremap EXCEPT ![frame].in_use = TRUE,
                                ![frame].pte = vpage,
                                ![frame].new_swapin = TRUE,
                                ![frame].referenced = TRUE]
  /\ pte' = [pte EXCEPT ![vpage].frame = frame,
                        ![vpage].dirty = d,
                        ![vpage].onswap = FALSE]
  /\ miss_count' = miss_count + 1
  /\ pc' = "ref"
  /\ UNCHANGED <<request, frame, swapfile, swapmap, policy, hit_count,
                 ref_count, evict_clean_count, evict_dirty_count>>

\* Faulty: A page is marked clean when it is created.
FillNew_clean ==
  /\ pc = "fill"
  /\ ~pte[vpage].onswap
  /\ physmem' = [physmem EXCEPT ![frame] = [vaddr |-> vpage, version |-> 0]]
  /\ Fill(FALSE)

\* The first reference to the page: init_frame fills the frame.
FillNew ==
  /\ pc = "fill"
  /\ ~pte[vpage].onswap
  /\ physmem' = [physmem EXCEPT ![frame] = [vaddr |-> vpage, version |-> 0]]
  /\ Fill(TRUE)

\* swap_pagein reads the page from the swap file.
FillFromSwap ==
  /\ pc = "fill"
  /\ pte[vpage].onswap
  /\ pte[vpage].swap_off # INVALID_SWAP
  /\ physmem' = [physmem EXCEPT ![frame] = swapfile[pte[vpage].swap_off]]
  /\ Fill(FALSE)

\* swap_pagein fails; nobody looks at its result, and the frame keeps what
\* was in it.
FillFails ==
  /\ pc = "fill"
  /\ pte[vpage].onswap
  /\ pte[vpage].swap_off # INVALID_SWAP
  /\ IO_FAILS
  /\ UNCHANGED physmem
  /\ Fill(FALSE)

\* The assertion at the start of swap_pagein fails and the program aborts.
FillAborts ==
  /\ pc = "fill"
  /\ pte[vpage].onswap
  /\ pte[vpage].swap_off = INVALID_SWAP
  /\ pc' = "aborted"
  /\ UNCHANGED <<request, frame, pte, coremap, memory, policy, counters>>

\* The end of find_physpage and access_mem: the reference is recorded and,
\* if it is a write, made.
Access ==
  /\ pc = "ref"
  /\ pte' = [pte EXCEPT ![vpage].valid = TRUE,
                        ![vpage].onswap = FALSE,
                        ![vpage].dirty = @ \/ MarksDirty(type)]
  /\ coremap' = [coremap EXCEPT ![pte[vpage].frame] = Referenced(@)]
  /\ time' = IF alg \in {"fifo", "lru"} THEN time + 1 ELSE time
  /\ physmem' = IF Modifies(type)
                THEN [physmem EXCEPT ![pte[vpage].frame].version = @ + 1]
                ELSE physmem
  /\ ref_count' = ref_count + 1
  /\ pc' = "trace"
  /\ UNCHANGED <<request, frame, swapfile, swapmap, alg, arm, hit_count,
                 miss_count, evict_clean_count, evict_dirty_count>>

\* evict_fcn returns a victim, and the victim leaves.
Evict ==
  /\ pc = "evict"
  /\ \E f \in Victims : EvictClean(f) \/ EvictDirty(f) \/ EvictFails(f)

FillFrame == FillNew \/ FillFromSwap \/ FillFails \/ FillAborts

\* The steps that serve a reference once it has been read.
Serve == ClockSweep \/ Evict \/ FillFrame \/ Access

Next ==
  \/ \E t \in TYPES, p \in Page :
       Hit(t, p) \/ AllocateFree(t, p) \/ Replace(t, p)
  \/ Serve

Spec == Init /\ [][Next]_vars

\* The simulator is a sequential program that keeps running.
FairSpec == Spec /\ WF_vars(Serve)

-----------------------------------------------------------------------------
(* Properties.                                                             *)

TypeOK ==
  /\ pc \in {"trace", "evict", "fill", "ref", "aborted"}
  /\ type \in TYPES /\ vpage \in Page /\ frame \in Frame
  /\ pte \in [Page -> Pte]
  /\ coremap \in [Frame -> FrameEntry]
  /\ physmem \in [Frame -> Content]
  /\ swapfile \in [Slot -> Content]
  /\ swapmap \subseteq Slot
  /\ alg \in ALGS /\ time \in Nat /\ arm \in 0 .. MEMSIZE
  /\ hit_count \in Nat /\ miss_count \in Nat /\ ref_count \in Nat
  /\ evict_clean_count \in Nat /\ evict_dirty_count \in Nat

\* The page table and the coremap agree (pagetable.c): the frame of a page
\* in memory points back to its page table entry, so no two pages share a
\* frame, and a frame in use holds a page in memory, except the frame that
\* is just changing hands.
MappingsAgree ==
  /\ \A p \in Page : pte[p].valid =>
       coremap[pte[p].frame].in_use /\ coremap[pte[p].frame].pte = p
  /\ \A f \in Frame : coremap[f].in_use =>
       \/ pte[coremap[f].pte].valid /\ pte[coremap[f].pte].frame = f
       \/ pc \in {"fill", "ref", "aborted"} /\ f = frame
  /\ pc = "ref" => /\ pte[vpage].frame = frame
                   /\ coremap[frame].in_use /\ coremap[frame].pte = vpage

\* evict_fcn is called only when every frame holds a page, although
\* find_physpage calls it for a page on swap without a look for a free frame
\* (pagetable.c:186), and fifo_evict and lru_evict then find a victim: they
\* never return the uninitialised minPos.
EvictionSound ==
  pc = "evict" =>
    /\ \A f \in Frame : coremap[f].in_use
    /\ Victims # {} \/ alg = "clock"

\* Every allocated page of the swap file belongs to exactly one virtual page
\* (swap.c:228-235): a page that is written out again reuses its place.
SwapSlotsOwned ==
  /\ swapmap = {pte[p].swap_off : p \in Page} \ {INVALID_SWAP}
  /\ \A p, q \in Page :
       pte[p].swap_off = pte[q].swap_off /\ p # q
         => pte[p].swap_off = INVALID_SWAP

\* A clean page in memory is the same as its copy on swap: throwing it away
\* at eviction loses nothing (pagetable.c:44-50, 188-195).
CleanPagesOnSwap ==
  \A p \in Page : pte[p].valid /\ ~pte[p].dirty =>
    /\ pte[p].swap_off # INVALID_SWAP
    /\ swapfile[pte[p].swap_off] = physmem[pte[p].frame]

\* The assertion of swap_pagein (swap.c:193): a page marked as on swap has a
\* place in the swap file.
PageinFromSwap ==
  \A p \in Page : pte[p].onswap => pte[p].swap_off # INVALID_SWAP

\* The check of access_mem (sim.c:54): the frame that find_physpage returns
\* holds the page asked for.
ExpectedPage == pc = "ref" => physmem[frame].vaddr = vpage

\* The counters add up: every reference is a hit or a miss, and every miss
\* took a free frame or evicted a page.
CountersAddUp ==
  LET used == {f \in Frame : coremap[f].in_use /\ (pc = "fill" => f # frame)}
      looked_up == IF pc = "ref" THEN 1 ELSE 0
  IN pc # "aborted" =>
       /\ hit_count + miss_count = ref_count + looked_up
       /\ miss_count = evict_clean_count + evict_dirty_count + Cardinality(used)

\* The version counter of page p, wherever the page is.
Version(p) ==
  IF pte[p].valid \/ (pc = "ref" /\ vpage = p) THEN physmem[pte[p].frame].version
  ELSE IF pte[p].swap_off # INVALID_SWAP THEN swapfile[pte[p].swap_off].version
  ELSE 0

\* Paging does not show: the simulator is a memory in which a write
\* increments the version of its page and no page changes otherwise.
Memory == INSTANCE VirtualMemory WITH mem <- [p \in Page |-> Version(p)]
ImplementsMemory == Memory!Spec

\* The pages in memory, the one with the least timestamp first.
Resident == {p \in Page : pte[p].valid}
Stamp(p) == coremap[pte[p].frame].timestamp
ByTimestamp ==
  CHOOSE q \in SetToSeqs(Resident) :
    \A i, j \in DOMAIN q : i < j => Stamp(q[i]) < Stamp(q[j])

\* fifo.c evicts the pages in the order in which they came into memory, and
\* lru.c the one whose last use is the longest ago.
Queue == INSTANCE EvictionQueue WITH
           queue <- ByTimestamp,
           wanted <- IF pc = "trace" THEN NoPage ELSE vpage,
           CAPACITY <- MEMSIZE,
           recency <- alg = "lru"
ImplementsQueue == Queue!Spec

\* The hand of the clock finds a victim however many frames were referenced,
\* so that every reference is served (clock.c:24-37).
EveryReferenceServed == (pc # "trace") ~> (pc = "trace")

-----------------------------------------------------------------------------
(* The inductive invariants behind the properties: Bookkeeping holds for   *)
(* every trace and disk, Contents when swap is Reliable.                   *)

\* The page that is being brought in or used.
InFlight(p) == pc = "ref" /\ vpage = p
InMemory(p) == pte[p].valid \/ InFlight(p)

\* A frame in use has an owner, and never becomes free again.
FramesOwned ==
  /\ \A f \in Frame : coremap[f].in_use => coremap[f].pte \in Page
  /\ (\E p \in Page : pte[p].onswap) \/ pc = "evict"
       => \A f \in Frame : coremap[f].in_use

\* What is known of the page wanted and its frame in each phase.
Phases ==
  /\ pc \in {"evict", "fill"} => ~pte[vpage].valid
  /\ pc = "fill" => \A p \in Page : pte[p].valid => pte[p].frame # frame
  /\ pc = "ref" => ~pte[vpage].onswap
  /\ \A p \in Page : ~(pte[p].valid /\ pte[p].onswap)

\* The timestamps of fifo.c and lru.c lie in the past.
Stamped ==
  /\ alg = "lru" \/ alg = "fifo" =>
       \A f \in Frame :
         coremap[f].in_use /\ ~(pc = "ref" /\ f = frame)
           => coremap[f].timestamp < time
  /\ pc = "ref" /\ alg = "fifo" =>
       coremap[frame].new_swapin \/ coremap[frame].timestamp < time

Bookkeeping == TypeOK /\ MappingsAgree /\ FramesOwned /\ Phases /\ Stamped

\* A page not in memory is on swap once it has been referenced.
NewPages ==
  \A p \in Page : ~InMemory(p) /\ ~pte[p].onswap => pte[p].swap_off = INVALID_SWAP

\* Clean pages in memory are as on swap, also before they are used.
CleanCopies ==
  \A p \in Page : InMemory(p) /\ ~pte[p].dirty =>
    /\ pte[p].swap_off # INVALID_SWAP
    /\ swapfile[pte[p].swap_off] = physmem[pte[p].frame]

\* Every page, in memory or on swap, carries its own address.
OwnAddress ==
  \A p \in Page :
    /\ InMemory(p) => physmem[pte[p].frame].vaddr = p
    /\ pte[p].onswap => swapfile[pte[p].swap_off].vaddr = p

Contents ==
  /\ PageinFromSwap /\ SwapSlotsOwned
  /\ NewPages /\ CleanCopies /\ OwnAddress

\* The swap file has a place for every page, the disk does not fail, and the
\* trace has no modify references.
Reliable ==
  /\ Cardinality(Page) <= SWAPSIZE
  /\ ~IO_FAILS
  /\ "M" \notin TYPES
=============================================================================
