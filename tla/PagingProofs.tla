---------------------------- MODULE PagingProofs ----------------------------
(***************************************************************************)
(* Paging is correct for every set of pages, every memory, every algorithm *)
(* and every trace.  Bookkeeping, an invariant whatever the disk does,     *)
(* gives the consistency of page table and coremap and a victim for every  *)
(* eviction.  Contents, an invariant when swap is Reliable, gives that     *)
(* nothing is lost, and with it that Paging implements VirtualMemory.      *)
(***************************************************************************)
EXTENDS Paging, FiniteSetTheorems, WellFoundedInduction, TLAPS

-----------------------------------------------------------------------------
(* A loop from 0 upwards finds the least element of a set of numbers.      *)
LEMMA MinNat ==
    ASSUME NEW S, S \subseteq Nat, S # {}
    PROVE  Min(S) \in S /\ \A y \in S : Min(S) <= y
<1>1. PICK x \in S : \A y \in S : ~ (<<y, x>> \in OpToRel(<, Nat))
  BY NatLessThanWellFounded, WFMin, Zenon
<1>2. \A y \in S : y \in Nat /\ x \in Nat OBVIOUS
<1>3. ASSUME NEW y \in S, y < x PROVE FALSE
  <2>1. <<y, x>> \in Nat \X Nat BY <1>2
  <2>2. <<y, x>>[1] < <<y, x>>[2] BY <1>3
  <2>3. <<y, x>> \in OpToRel(<, Nat) BY <2>1, <2>2, Zenon DEF OpToRel
  <2> QED BY <1>1, <2>3, Zenon
<1>4. \A y \in S : x <= y BY <1>2, <1>3
<1> QED BY <1>4 DEF Min

(* fifo_evict and lru_evict find a frame when all timestamps lie in the past. *)
LEMMA OldestExists ==
    ASSUME TypeOK, \A f \in Frame : coremap[f].timestamp < time
    PROVE  Oldest # {}
<1> DEFINE Stamps == {coremap[f].timestamp : f \in Frame}
           least == Min(Stamps)
           Old == {f \in Frame : coremap[f].timestamp = least}
<1>1. Stamps \subseteq Nat /\ Stamps # {}
  BY MemsizeAssumption DEF TypeOK, FrameEntry, Frame
<1>2. least \in Stamps /\ \A t \in Stamps : least <= t
  <2> HIDE DEF Stamps
  <2> QED BY <1>1, MinNat
<1>3. Old \subseteq Nat /\ Old # {}
  <2> HIDE DEF least
  <2>1. PICK f \in Frame : coremap[f].timestamp = least BY <1>2
  <2> QED BY <2>1 DEF Frame
<1>4. Min(Old) \in Old /\ \A f \in Old : Min(Old) <= f
  <2> HIDE DEF Old
  <2> QED BY <1>3, MinNat
<1> DEFINE o == Min(Old)
<1>5. o \in Frame /\ coremap[o].timestamp = least BY <1>4
<1>6. ASSUME NEW g \in Frame
      PROVE  \/ coremap[o].timestamp < coremap[g].timestamp
             \/ coremap[o].timestamp = coremap[g].timestamp /\ o <= g
  <2>1. coremap[g].timestamp \in Nat /\ least \in Nat /\ least <= coremap[g].timestamp
    BY <1>1, <1>2 DEF TypeOK, FrameEntry
  <2>2. CASE coremap[g].timestamp = least BY <1>4, <1>5, <2>2
  <2>3. CASE coremap[g].timestamp # least BY <1>5, <2>1, <2>3
  <2> QED BY <2>2, <2>3
<1> HIDE DEF o
<1> QED BY <1>5, <1>6 DEF Oldest

(* evict_fcn returns a frame. *)
LEMMA VictimsAreFrames == TypeOK => Victims \subseteq Frame /\ Hand \in Frame
<1> SUFFICES ASSUME TypeOK PROVE Victims \subseteq Frame /\ Hand \in Frame
  OBVIOUS
<1>1. Hand \in Frame BY MemsizeAssumption DEF TypeOK, Hand, Frame
<1> QED BY <1>1, AlgsAssumption DEF Victims, Oldest, Algorithms

(* A page is written out to a slot of the swap file, one that is free unless *)
(* it is the page's own.                                                     *)
LEMMA PageoutSlotType ==
    ASSUME TypeOK, NEW s \in Slot \cup {INVALID_SWAP}
    PROVE  /\ PageoutSlot(s) \in Slot \cup {INVALID_SWAP}
           /\ s # INVALID_SWAP => PageoutSlot(s) = s
           /\ s = INVALID_SWAP /\ ~(Slot \subseteq swapmap) =>
                PageoutSlot(s) \in Slot \ swapmap
<1>1. CASE s # INVALID_SWAP BY <1>1 DEF PageoutSlot
<1>2. CASE s = INVALID_SWAP /\ Slot \subseteq swapmap BY <1>2 DEF PageoutSlot
<1>3. CASE s = INVALID_SWAP /\ ~(Slot \subseteq swapmap)
  <2> DEFINE free == Slot \ swapmap
  <2>1. free \subseteq Nat /\ free # {} BY <1>3 DEF Slot
  <2>2. Min(free) \in free BY <2>1, MinNat
  <2> QED BY <1>3, <2>2 DEF PageoutSlot
<1> QED BY <1>1, <1>2, <1>3

(* ref_fcn keeps the owner of the frame and its type. *)
LEMMA ReferencedType ==
    ASSUME NEW e \in FrameEntry, time \in Nat
    PROVE  /\ Referenced(e) \in FrameEntry
           /\ Referenced(e).in_use = e.in_use /\ Referenced(e).pte = e.pte
           /\ Referenced(e).timestamp \in {e.timestamp, time}
           /\ alg = "lru" => Referenced(e).timestamp = time
           /\ alg = "fifo" /\ e.new_swapin => Referenced(e).timestamp = time
           /\ alg = "fifo" /\ ~e.new_swapin => Referenced(e).timestamp = e.timestamp
BY AlgsAssumption DEF FrameEntry, Referenced, Algorithms

-----------------------------------------------------------------------------
(* Bookkeeping. *)

(* The simulator begins in Bookkeeping. *)
LEMMA BookkeepingInit == Init => Bookkeeping
<1> SUFFICES ASSUME Init PROVE Bookkeeping OBVIOUS
<1> USE PageAssumption, TypesAssumption, MemsizeAssumption, SwapsizeAssumption DEF Init
<1>1. TypeOK
  BY DEF TypeOK, Pte, FrameEntry, Content, Blank, Frame, Slot, INVALID_SWAP
<1>2. MappingsAgree /\ FramesOwned /\ Phases /\ Stamped
  BY DEF MappingsAgree, FramesOwned, Phases, Stamped, Frame
<1> QED BY <1>1, <1>2 DEF Bookkeeping

(* A hit keeps Bookkeeping. *)
LEMMA BookkeepingHit ==
    ASSUME Bookkeeping, NEW t \in TYPES, NEW p \in Page, Hit(t, p)
    PROVE  Bookkeeping'
<1> USE DEF Bookkeeping, Hit, Reference, memory, policy
<1>1. TypeOK' BY DEF TypeOK, Pte
<1>2. MappingsAgree' BY DEF TypeOK, MappingsAgree
<1>3. FramesOwned' BY DEF FramesOwned
<1>4. Phases' BY DEF Phases
<1>5. Stamped'
  <2>1. pte[p].frame \in Frame /\ coremap[pte[p].frame].in_use
    BY DEF TypeOK, Pte, MappingsAgree
  <2> QED BY <2>1 DEF Stamped
<1> QED BY <1>1, <1>2, <1>3, <1>4, <1>5

(* The allocation of a free frame keeps Bookkeeping. *)
LEMMA BookkeepingAllocateFree ==
    ASSUME Bookkeeping, NEW t \in TYPES, NEW p \in Page, AllocateFree(t, p)
    PROVE  Bookkeeping'
<1> USE DEF Bookkeeping, AllocateFree, Reference, memory, policy, counters
<1>0. Min(FreeFrames) \in FreeFrames
  <2>1. FreeFrames \subseteq Nat /\ FreeFrames # {} BY DEF FreeFrames, Frame
  <2> QED BY <2>1, MinNat
<1>00. frame' \in Frame /\ ~coremap[frame'].in_use BY <1>0 DEF FreeFrames
<1>1. TypeOK' BY <1>00 DEF TypeOK
<1>2. MappingsAgree' BY DEF MappingsAgree
<1>3. FramesOwned' BY DEF FramesOwned
<1>4. Phases' BY <1>00 DEF Phases, MappingsAgree
<1>5. Stamped' BY DEF Stamped
<1> QED BY <1>1, <1>2, <1>3, <1>4, <1>5

(* A miss with no frame free keeps Bookkeeping. *)
LEMMA BookkeepingReplace ==
    ASSUME Bookkeeping, NEW t \in TYPES, NEW p \in Page, Replace(t, p)
    PROVE  Bookkeeping'
<1> USE DEF Bookkeeping, Replace, Reference, memory, policy, counters
<1>1. TypeOK' BY DEF TypeOK
<1>2. MappingsAgree' BY DEF MappingsAgree
<1>3. FramesOwned' BY DEF FramesOwned, FreeFrames
<1>4. Phases' BY DEF Phases
<1>5. Stamped' BY DEF Stamped
<1> QED BY <1>1, <1>2, <1>3, <1>4, <1>5

(* The sweep of the clock keeps Bookkeeping. *)
LEMMA BookkeepingClockSweep == Bookkeeping /\ ClockSweep => Bookkeeping'
<1> SUFFICES ASSUME Bookkeeping, ClockSweep PROVE Bookkeeping' OBVIOUS
<1> USE DEF Bookkeeping, ClockSweep, request, memory, counters
<1>0. Hand \in Frame /\ arm' \in 0 .. MEMSIZE
  BY VictimsAreFrames, MemsizeAssumption DEF Frame
<1>00. \A f \in Frame : coremap'[f] \in FrameEntry
                        /\ coremap'[f].in_use = coremap[f].in_use
                        /\ coremap'[f].pte = coremap[f].pte
                        /\ coremap'[f].timestamp = coremap[f].timestamp
  BY <1>0 DEF TypeOK, FrameEntry
<1>1. TypeOK' BY <1>0, <1>00 DEF TypeOK
<1>2. MappingsAgree' BY <1>00 DEF MappingsAgree, TypeOK, Pte
<1>3. FramesOwned' BY <1>00 DEF FramesOwned
<1>4. Phases' BY DEF Phases
<1>5. Stamped' BY <1>00 DEF Stamped
<1> QED BY <1>1, <1>2, <1>3, <1>4, <1>5

(* Before a victim leaves its frame belongs to it, and to no other page. *)
LEMMA VictimOwnsFrame ==
    ASSUME Bookkeeping, pc = "evict", NEW f \in Frame
    PROVE  /\ coremap[f].in_use
           /\ coremap[f].pte \in Page
           /\ pte[coremap[f].pte].valid
           /\ pte[coremap[f].pte].frame = f
           /\ coremap[f].pte # vpage
           /\ \A p \in Page : pte[p].valid /\ pte[p].frame = f => p = coremap[f].pte
BY DEF Bookkeeping, TypeOK, FramesOwned, MappingsAgree, Phases

(* What the departure of a victim does to the page table. *)
LEMMA LeaveEffect ==
    ASSUME Bookkeeping, pc = "evict", NEW f \in Frame,
           NEW s \in Slot \cup {INVALID_SWAP}, Leave(f, s),
           NEW v, v = coremap[f].pte
    PROVE  /\ pte' \in [Page -> Pte]
           /\ ~pte'[v].valid /\ pte'[v].onswap /\ pte'[v].swap_off = s
           /\ \A p \in Page : p # v => pte'[p] = pte[p]
<1>1. v \in Page /\ pte \in [Page -> Pte] /\ pte[v] \in Pte
  BY VictimOwnsFrame DEF Bookkeeping, TypeOK
<1>2. pte' = [pte EXCEPT ![v] = [pte[v] EXCEPT !.valid = FALSE,
                                               !.onswap = TRUE, !.swap_off = s]]
  BY <1>1 DEF Leave
<1>3. pte'[v] = [pte[v] EXCEPT !.valid = FALSE, !.onswap = TRUE, !.swap_off = s]
      /\ \A p \in Page : p # v => pte'[p] = pte[p]
  BY <1>1, <1>2
<1>4. pte'[v] \in Pte /\ ~pte'[v].valid /\ pte'[v].onswap /\ pte'[v].swap_off = s
  BY <1>1, <1>3 DEF Pte
<1> QED BY <1>1, <1>2, <1>3, <1>4

(* What becomes of the victim keeps Bookkeeping. *)
LEMMA BookkeepingLeave ==
    ASSUME Bookkeeping, pc = "evict", NEW f \in Frame,
           NEW s \in Slot \cup {INVALID_SWAP}, Leave(f, s),
           swapfile' \in [Slot -> Content], swapmap' \subseteq Slot,
           evict_clean_count' \in Nat, evict_dirty_count' \in Nat
    PROVE  Bookkeeping'
<1> DEFINE v == coremap[f].pte
<1>0. /\ v \in Page /\ v # vpage /\ pte[v].valid /\ pte[v].frame = f
      /\ \A p \in Page : pte[p].valid /\ pte[p].frame = f => p = v
  BY VictimOwnsFrame
<1>1. /\ pte' \in [Page -> Pte] /\ ~pte'[v].valid /\ pte'[v].onswap
      /\ \A p \in Page : p # v => pte'[p] = pte[p]
  BY LeaveEffect
<1>2. /\ pc' = "fill" /\ frame' = f
      /\ arm' = (IF alg = "clock" THEN Hand ELSE arm)
      /\ UNCHANGED <<type, vpage, coremap, physmem, alg, time, hit_count,
                     miss_count, ref_count>>
  BY DEF Leave, request
<1> HIDE DEF v
<1> USE DEF Bookkeeping
<1>3. TypeOK'
  <2>1. arm' \in 0 .. MEMSIZE
    BY <1>2, VictimsAreFrames, MemsizeAssumption DEF TypeOK, Frame
  <2> QED BY <1>1, <1>2, <2>1 DEF TypeOK
<1>4. MappingsAgree'
  <2>1. ASSUME NEW p \in Page, pte'[p].valid
        PROVE  coremap'[pte'[p].frame].in_use /\ coremap'[pte'[p].frame].pte = p
    BY <1>1, <1>2, <2>1 DEF MappingsAgree
  <2>2. ASSUME NEW g \in Frame, coremap'[g].in_use, g # f
        PROVE  pte'[coremap'[g].pte].valid /\ pte'[coremap'[g].pte].frame = g
    <3>1. coremap[g].pte \in Page /\ pte[coremap[g].pte].frame = g
          /\ pte[coremap[g].pte].valid
      BY <2>2, VictimOwnsFrame
    <3> QED BY <1>0, <1>1, <1>2, <2>2, <3>1
  <2> QED BY <1>2, <2>1, <2>2 DEF MappingsAgree
<1>5. FramesOwned' BY <1>2 DEF FramesOwned
<1>6. Phases' BY <1>0, <1>1, <1>2 DEF Phases, TypeOK
<1>7. Stamped' BY <1>2 DEF Stamped
<1> QED BY <1>3, <1>4, <1>5, <1>6, <1>7

(* An eviction keeps Bookkeeping. *)
LEMMA BookkeepingEvict == Bookkeeping /\ Evict => Bookkeeping'
<1> SUFFICES ASSUME Bookkeeping, pc = "evict", NEW f \in Victims,
                    EvictClean(f) \/ EvictDirty(f) \/ EvictFails(f)
             PROVE  Bookkeeping'
  BY DEF Evict
<1> DEFINE victim == pte[coremap[f].pte]
           slot == PageoutSlot(victim.swap_off)
<1>0. f \in Frame /\ coremap[f].pte \in Page
  BY VictimsAreFrames, VictimOwnsFrame DEF Bookkeeping
<1>1. victim \in Pte /\ victim.swap_off \in Slot \cup {INVALID_SWAP}
  BY <1>0 DEF Bookkeeping, TypeOK, Pte
<1>2. slot \in Slot \cup {INVALID_SWAP}
  BY <1>1, PageoutSlotType DEF Bookkeeping
<1> HIDE DEF victim, slot
<1>3. CASE EvictClean(f)
  <2>1. Leave(f, victim.swap_off) BY <1>3 DEF EvictClean, victim
  <2> QED BY <1>0, <1>1, <1>3, <2>1, BookkeepingLeave DEF EvictClean, Bookkeeping, TypeOK
<1>4. CASE EvictDirty(f)
  <2>1. Leave(f, slot) /\ slot \in Slot BY <1>2, <1>4 DEF EvictDirty, victim, slot
  <2>2. swapfile' = [swapfile EXCEPT ![slot] = physmem[f]] /\ swapmap' = swapmap \cup {slot}
    BY <1>4 DEF EvictDirty, victim, slot
  <2>3. swapfile' \in [Slot -> Content] /\ swapmap' \subseteq Slot
    BY <1>0, <2>1, <2>2 DEF Bookkeeping, TypeOK
  <2> QED BY <1>0, <1>2, <1>4, <2>1, <2>3, BookkeepingLeave DEF EvictDirty, Bookkeeping, TypeOK
<1>5. CASE EvictFails(f)
  <2>1. Leave(f, INVALID_SWAP) BY <1>5 DEF EvictFails
  <2>2. swapmap' = swapmap \cup ({slot} \ {INVALID_SWAP}) BY <1>5 DEF EvictFails, victim, slot
  <2>3. swapmap' \subseteq Slot BY <1>2, <2>2 DEF Bookkeeping, TypeOK
  <2> QED BY <1>0, <1>5, <2>1, <2>3, BookkeepingLeave DEF EvictFails, Bookkeeping, TypeOK
<1> QED BY <1>3, <1>4, <1>5

(* What bringing a page in does to the page table and the coremap. *)
LEMMA FillEffect ==
    ASSUME Bookkeeping, NEW d \in BOOLEAN, Fill(d)
    PROVE  /\ pte' \in [Page -> Pte] /\ coremap' \in [Frame -> FrameEntry]
           /\ pte'[vpage].valid = pte[vpage].valid /\ ~pte'[vpage].onswap
           /\ pte'[vpage].frame = frame /\ pte'[vpage].dirty = d
           /\ pte'[vpage].swap_off = pte[vpage].swap_off
           /\ \A p \in Page : p # vpage => pte'[p] = pte[p]
           /\ coremap'[frame].in_use /\ coremap'[frame].pte = vpage
           /\ coremap'[frame].new_swapin
           /\ coremap'[frame].timestamp = coremap[frame].timestamp
           /\ \A f \in Frame : f # frame => coremap'[f] = coremap[f]
<1>0. /\ vpage \in Page /\ frame \in Frame /\ pte[vpage] \in Pte
      /\ coremap[frame] \in FrameEntry
      /\ pte \in [Page -> Pte] /\ coremap \in [Frame -> FrameEntry]
  BY DEF Bookkeeping, TypeOK
<1>1. pte' = [pte EXCEPT ![vpage] = [pte[vpage] EXCEPT !.frame = frame, !.dirty = d,
                                                       !.onswap = FALSE]]
  BY <1>0 DEF Fill
<1>2. pte'[vpage] = [pte[vpage] EXCEPT !.frame = frame, !.dirty = d, !.onswap = FALSE]
      /\ \A p \in Page : p # vpage => pte'[p] = pte[p]
  BY <1>0, <1>1
<1>3. /\ pte'[vpage] \in Pte /\ pte'[vpage].valid = pte[vpage].valid
      /\ ~pte'[vpage].onswap /\ pte'[vpage].frame = frame /\ pte'[vpage].dirty = d
      /\ pte'[vpage].swap_off = pte[vpage].swap_off
  BY <1>0, <1>2 DEF Pte
<1>4. coremap' = [coremap EXCEPT ![frame] = [coremap[frame] EXCEPT
                     !.in_use = TRUE, !.pte = vpage, !.new_swapin = TRUE, !.referenced = TRUE]]
  BY <1>0 DEF Fill
<1>5. coremap'[frame] = [coremap[frame] EXCEPT !.in_use = TRUE, !.pte = vpage,
                                               !.new_swapin = TRUE, !.referenced = TRUE]
      /\ \A f \in Frame : f # frame => coremap'[f] = coremap[f]
  BY <1>0, <1>4
<1>6. /\ coremap'[frame] \in FrameEntry /\ coremap'[frame].in_use
      /\ coremap'[frame].pte = vpage /\ coremap'[frame].new_swapin
      /\ coremap'[frame].timestamp = coremap[frame].timestamp
  BY <1>0, <1>5 DEF FrameEntry
<1>7. pte' \in [Page -> Pte] BY <1>0, <1>1, <1>3
<1>8. coremap' \in [Frame -> FrameEntry] BY <1>0, <1>4, <1>6
<1> QED BY <1>2, <1>3, <1>5, <1>6, <1>7, <1>8

(* Filling a frame keeps Bookkeeping, with the counts it makes. *)
LEMMA BookkeepingFill ==
    ASSUME Bookkeeping, pc = "fill", NEW d \in BOOLEAN, Fill(d),
           physmem' \in [Frame -> Content]
    PROVE  Bookkeeping'
<1>0. vpage \in Page /\ frame \in Frame
  BY DEF Bookkeeping, TypeOK
<1>1. /\ pte' \in [Page -> Pte] /\ coremap' \in [Frame -> FrameEntry]
      /\ pte'[vpage].valid = pte[vpage].valid
      /\ pte'[vpage].frame = frame /\ ~pte'[vpage].onswap
      /\ \A p \in Page : p # vpage => pte'[p] = pte[p]
  BY FillEffect
<1>2. /\ coremap'[frame].in_use
      /\ coremap'[frame].pte = vpage /\ coremap'[frame].new_swapin
      /\ coremap'[frame].timestamp = coremap[frame].timestamp
      /\ \A f \in Frame : f # frame => coremap'[f] = coremap[f]
  BY FillEffect
<1>3. /\ pc' = "ref" /\ miss_count' = miss_count + 1
      /\ UNCHANGED <<type, vpage, frame, swapfile, swapmap, alg, time, arm,
                     hit_count, ref_count, evict_clean_count, evict_dirty_count>>
  BY DEF Fill, request, policy
<1> USE DEF Bookkeeping
<1>4. TypeOK' BY <1>1, <1>3 DEF TypeOK
<1>5. MappingsAgree'
  <2>1. ASSUME NEW p \in Page, pte'[p].valid
        PROVE  coremap'[pte'[p].frame].in_use /\ coremap'[pte'[p].frame].pte = p
    <3>1. p # vpage BY <1>1, <2>1 DEF Phases
    <3>2. pte'[p] = pte[p] /\ pte[p].valid /\ pte[p].frame # frame BY <1>1, <2>1, <3>1 DEF Phases
    <3>3. pte[p].frame \in Frame BY DEF TypeOK, Pte
    <3>4. coremap'[pte'[p].frame] = coremap[pte[p].frame] BY <1>2, <3>2, <3>3
    <3> QED BY <3>2, <3>4 DEF MappingsAgree
  <2>2. ASSUME NEW f \in Frame, coremap'[f].in_use, f # frame
        PROVE  pte'[coremap'[f].pte].valid /\ pte'[coremap'[f].pte].frame = f
    <3>1. /\ coremap[f].in_use /\ coremap[f].pte \in Page
          /\ pte[coremap[f].pte].valid /\ pte[coremap[f].pte].frame = f
      BY <1>2, <2>2 DEF MappingsAgree, FramesOwned
    <3> QED BY <1>1, <1>2, <2>2, <3>1 DEF Phases
  <2> QED BY <1>0, <1>1, <1>2, <1>3, <2>1, <2>2 DEF MappingsAgree
<1>6. FramesOwned' BY <1>0, <1>1, <1>2, <1>3 DEF FramesOwned
<1>7. Phases' BY <1>0, <1>1, <1>3 DEF Phases
<1>8. Stamped' BY <1>0, <1>2, <1>3 DEF Stamped
<1> QED BY <1>4, <1>5, <1>6, <1>7, <1>8

(* Each way to fill a frame keeps Bookkeeping. *)
LEMMA BookkeepingFillFrame == Bookkeeping /\ FillFrame => Bookkeeping'
<1> SUFFICES ASSUME Bookkeeping, FillFrame PROVE Bookkeeping' OBVIOUS
<1>0. vpage \in Page /\ frame \in Frame /\ pte[vpage].swap_off \in Slot \cup {INVALID_SWAP}
  BY DEF Bookkeeping, TypeOK, Pte
<1>1. CASE FillNew
  <2>1. [vaddr |-> vpage, version |-> 0] \in Content BY <1>0 DEF Content
  <2>2. physmem' \in [Frame -> Content] BY <1>1, <2>1 DEF FillNew, Bookkeeping, TypeOK
  <2> QED BY <1>1, <2>2, BookkeepingFill DEF FillNew
<1>2. CASE FillFromSwap
  <2>1. physmem' \in [Frame -> Content] BY <1>0, <1>2 DEF FillFromSwap, Bookkeeping, TypeOK
  <2> QED BY <1>2, <2>1, BookkeepingFill DEF FillFromSwap
<1>3. CASE FillFails
  BY <1>3, BookkeepingFill DEF FillFails, Bookkeeping, TypeOK
<1>4. CASE FillAborts
  <2> USE <1>4 DEF FillAborts, request, memory, policy, counters, Bookkeeping
  <2>1. TypeOK' BY DEF TypeOK
  <2>2. MappingsAgree' BY DEF MappingsAgree
  <2>3. FramesOwned' BY DEF FramesOwned
  <2>4. Phases' /\ Stamped' BY DEF Phases, Stamped
  <2> QED BY <2>1, <2>2, <2>3, <2>4
<1> QED BY <1>1, <1>2, <1>3, <1>4 DEF FillFrame

(* What a reference does to the page table, the coremap and memory. *)
LEMMA AccessEffect ==
    ASSUME Bookkeeping, Access
    PROVE  /\ pte[vpage].frame = frame
           /\ coremap[frame].in_use /\ coremap[frame].pte = vpage
           /\ pte' \in [Page -> Pte]
           /\ pte'[vpage].valid /\ ~pte'[vpage].onswap
           /\ pte'[vpage].frame = frame /\ pte'[vpage].swap_off = pte[vpage].swap_off
           /\ pte'[vpage].dirty = (pte[vpage].dirty \/ MarksDirty(type))
           /\ \A p \in Page : p # vpage => pte'[p] = pte[p]
           /\ coremap'[frame] = Referenced(coremap[frame])
           /\ coremap' \in [Frame -> FrameEntry]
           /\ \A f \in Frame : f # frame => coremap'[f] = coremap[f]
           /\ physmem' \in [Frame -> Content]
<1>0. /\ vpage \in Page /\ frame \in Frame /\ pte[vpage] \in Pte
      /\ coremap[frame] \in FrameEntry /\ pte[vpage].frame = frame
      /\ coremap[frame].in_use /\ coremap[frame].pte = vpage
      /\ pte \in [Page -> Pte] /\ coremap \in [Frame -> FrameEntry]
      /\ physmem \in [Frame -> Content] /\ physmem[frame] \in Content
      /\ time \in Nat
  BY DEF Access, Bookkeeping, TypeOK, MappingsAgree
<1> DEFINE d == pte[vpage].dirty \/ MarksDirty(type)
<1>1. d \in BOOLEAN BY <1>0 DEF Pte, MarksDirty
<1>2. pte' = [pte EXCEPT ![vpage] = [pte[vpage] EXCEPT !.valid = TRUE, !.onswap = FALSE,
                                                       !.dirty = d]]
  BY <1>0 DEF Access
<1> HIDE DEF d
<1>3. pte'[vpage] = [pte[vpage] EXCEPT !.valid = TRUE, !.onswap = FALSE, !.dirty = d]
      /\ \A p \in Page : p # vpage => pte'[p] = pte[p]
  BY <1>0, <1>2
<1>4. /\ pte'[vpage] \in Pte /\ pte'[vpage].valid /\ ~pte'[vpage].onswap
      /\ pte'[vpage].frame = frame /\ pte'[vpage].swap_off = pte[vpage].swap_off
      /\ pte'[vpage].dirty = d
  <2> DEFINE e == pte[vpage]
             r == pte'[vpage]
  <2>1. /\ e \in Pte /\ e.frame = frame
        /\ r = [e EXCEPT !.valid = TRUE, !.onswap = FALSE, !.dirty = d]
    BY <1>0, <1>3
  <2> HIDE DEF e, r
  <2>2. r \in Pte /\ r.valid /\ ~r.onswap /\ r.frame = e.frame
        /\ r.swap_off = e.swap_off /\ r.dirty = d
    BY <2>1, <1>1 DEF Pte
  <2> QED BY <2>1, <2>2 DEF e, r
<1>5. pte' \in [Page -> Pte] BY <1>0, <1>2, <1>4
<1>6. coremap' = [coremap EXCEPT ![frame] = Referenced(coremap[frame])]
  BY <1>0 DEF Access
<1>7. Referenced(coremap[frame]) \in FrameEntry BY <1>0, ReferencedType
<1>8. /\ coremap'[frame] = Referenced(coremap[frame])
      /\ coremap' \in [Frame -> FrameEntry]
      /\ \A f \in Frame : f # frame => coremap'[f] = coremap[f]
  BY <1>0, <1>6, <1>7
<1>9. physmem' \in [Frame -> Content]
  <2>1. [physmem[frame] EXCEPT !.version = @ + 1] \in Content
    BY <1>0 DEF Content
  <2>2. \/ physmem' = [physmem EXCEPT ![frame] = [physmem[frame] EXCEPT !.version = @ + 1]]
        \/ physmem' = physmem
    BY <1>0 DEF Access
  <2> QED BY <1>0, <2>1, <2>2
<1> QED BY <1>0, <1>3, <1>4, <1>5, <1>8, <1>9 DEF d

(* The access itself keeps Bookkeeping. *)
LEMMA BookkeepingAccess == Bookkeeping /\ Access => Bookkeeping'
<1> SUFFICES ASSUME Bookkeeping, Access PROVE Bookkeeping' OBVIOUS
<1>0. /\ vpage \in Page /\ frame \in Frame /\ coremap[frame] \in FrameEntry
      /\ pte[vpage].frame = frame
      /\ coremap[frame].in_use /\ coremap[frame].pte = vpage
  BY AccessEffect DEF Bookkeeping, TypeOK
<1>1. /\ pte' \in [Page -> Pte] /\ pte'[vpage].valid /\ ~pte'[vpage].onswap
      /\ pte'[vpage].frame = frame
      /\ \A p \in Page : p # vpage => pte'[p] = pte[p]
  BY AccessEffect
<1>2. /\ time \in Nat /\ time' \in Nat /\ time <= time'
      /\ alg \in {"fifo", "lru"} => time' = time + 1
  BY DEF Access, Bookkeeping, TypeOK
<1>3. /\ coremap'[frame] = Referenced(coremap[frame])
      /\ coremap' \in [Frame -> FrameEntry]
      /\ coremap'[frame].in_use /\ coremap'[frame].pte = vpage
      /\ \A f \in Frame : f # frame => coremap'[f] = coremap[f]
  BY <1>0, <1>2, AccessEffect, ReferencedType
<1>4. physmem' \in [Frame -> Content] BY AccessEffect
<1>40. /\ pc = "ref" /\ pc' = "trace" /\ ref_count' = ref_count + 1
       /\ UNCHANGED <<type, vpage, frame, swapfile, swapmap, alg, arm, hit_count,
                      miss_count, evict_clean_count, evict_dirty_count>>
  BY DEF Access, request
<1> USE DEF Bookkeeping
<1>5. TypeOK' BY <1>1, <1>2, <1>3, <1>4, <1>40 DEF TypeOK
<1>6. MappingsAgree'
  <2>1. ASSUME NEW p \in Page, pte'[p].valid
        PROVE  coremap'[pte'[p].frame].in_use /\ coremap'[pte'[p].frame].pte = p
    <3>1. CASE p = vpage BY <1>1, <1>3, <3>1
    <3>2. CASE p # vpage
      <4>1. pte[p].valid /\ pte[p].frame \in Frame /\ pte'[p] = pte[p]
        BY <1>1, <2>1, <3>2 DEF TypeOK, Pte
      <4>2. coremap[pte[p].frame].in_use /\ coremap[pte[p].frame].pte = p
        BY <4>1 DEF MappingsAgree
      <4> QED BY <1>0, <1>3, <3>2, <4>1, <4>2
    <3> QED BY <3>1, <3>2
  <2>2. ASSUME NEW f \in Frame, coremap'[f].in_use
        PROVE  pte'[coremap'[f].pte].valid /\ pte'[coremap'[f].pte].frame = f
    <3>1. CASE f = frame BY <1>1, <1>3, <3>1
    <3>2. CASE f # frame
      <4>1. /\ coremap[f].in_use /\ coremap[f].pte \in Page /\ coremap'[f] = coremap[f]
            /\ pte[coremap[f].pte].valid /\ pte[coremap[f].pte].frame = f
        BY <1>3, <1>40, <2>2, <3>2 DEF MappingsAgree, FramesOwned
      <4> QED BY <1>0, <1>1, <3>2, <4>1
    <3> QED BY <3>1, <3>2
  <2> QED BY <1>40, <2>1, <2>2 DEF MappingsAgree
<1>7. FramesOwned' BY <1>0, <1>1, <1>3, <1>40 DEF FramesOwned
<1>8. Phases' BY <1>1, <1>40 DEF Phases
<1>9. Stamped'
  <2> SUFFICES ASSUME alg \in {"fifo", "lru"}, NEW f \in Frame, coremap'[f].in_use
               PROVE  coremap'[f].timestamp < time'
    BY <1>40 DEF Stamped
  <2>1. time' = time + 1 /\ coremap[f] \in FrameEntry BY <1>2 DEF TypeOK
  <2>2. CASE f # frame
    BY <1>2, <1>3, <1>40, <2>1, <2>2 DEF Stamped, FrameEntry
  <2>3. CASE f = frame /\ (alg = "lru" \/ coremap[frame].new_swapin)
    BY <1>0, <1>2, <1>3, <2>1, <2>3, ReferencedType
  <2>4. CASE f = frame /\ alg = "fifo" /\ ~coremap[frame].new_swapin
    <3>1. coremap'[f].timestamp = coremap[f].timestamp
      BY <1>0, <1>2, <1>3, <2>4, ReferencedType
    <3> QED BY <1>2, <1>40, <2>1, <2>4, <3>1 DEF Stamped, FrameEntry
  <2> QED BY <2>2, <2>3, <2>4
<1> QED BY <1>5, <1>6, <1>7, <1>8, <1>9

(* Bookkeeping is inductive. *)
LEMMA BookkeepingStep == Bookkeeping /\ [Next]_vars => Bookkeeping'
<1> SUFFICES ASSUME Bookkeeping, [Next]_vars PROVE Bookkeeping' OBVIOUS
<1>1. ASSUME NEW t \in TYPES, NEW p \in Page,
             Hit(t, p) \/ AllocateFree(t, p) \/ Replace(t, p)
      PROVE  Bookkeeping'
  BY <1>1, BookkeepingHit, BookkeepingAllocateFree, BookkeepingReplace
<1>2. CASE UNCHANGED vars
  BY <1>2 DEF vars, request, memory, policy, counters, Bookkeeping, TypeOK,
     MappingsAgree, FramesOwned, Phases, Stamped
<1> QED BY <1>1, <1>2, BookkeepingClockSweep, BookkeepingEvict, BookkeepingFillFrame,
           BookkeepingAccess DEF Next, Serve

(* Types, the agreement of page table and coremap, frames without a page, *)
(* the place in find_physpage and the timestamps: an inductive invariant,  *)
(* whatever happens to the swap file.                                      *)
THEOREM BookkeepingHolds == Spec => []Bookkeeping
BY BookkeepingInit, BookkeepingStep, PTL DEF Spec

(* The variables keep their types. *)
THEOREM TypeOKHolds == Spec => []TypeOK
BY BookkeepingHolds, PTL DEF Bookkeeping

(* The page table and the coremap agree whatever happens to the swap file. *)
THEOREM MappingsAgreeHolds == Spec => []MappingsAgree
BY BookkeepingHolds, PTL DEF Bookkeeping

(* evict_fcn is called with a full memory only, and finds a victim. *)
THEOREM EvictionSoundHolds == Spec => []EvictionSound
<1>1. Bookkeeping => EvictionSound
  <2> SUFFICES ASSUME Bookkeeping, pc = "evict"
               PROVE  /\ \A f \in Frame : coremap[f].in_use
                      /\ Victims # {} \/ alg = "clock"
    BY DEF EvictionSound
  <2>1. \A f \in Frame : coremap[f].in_use BY DEF Bookkeeping, FramesOwned
  <2>2. CASE alg \in {"lru", "fifo"}
    <3>1. Oldest # {} BY <2>1, <2>2, OldestExists DEF Bookkeeping, Stamped
    <3> QED BY <2>1, <2>2, <3>1 DEF Victims
  <2>3. CASE alg = "rand" BY <2>1, <2>3, MemsizeAssumption DEF Victims, Frame
  <2> QED BY <2>1, <2>2, <2>3, AlgsAssumption DEF Bookkeeping, TypeOK, Algorithms
<1> QED BY <1>1, BookkeepingHolds, PTL

-----------------------------------------------------------------------------
(* The counters.                                                           *)

(* The frames in use that do not just change hands. *)
Used == {f \in Frame : coremap[f].in_use /\ (pc = "fill" => f # frame)}

(* CountersAddUp, with its frames named. *)
LEMMA CountersOfUsed ==
    CountersAddUp <=>
      (pc # "aborted" =>
         /\ hit_count + miss_count = ref_count + (IF pc = "ref" THEN 1 ELSE 0)
         /\ miss_count = evict_clean_count + evict_dirty_count + Cardinality(Used))
BY DEF CountersAddUp, Used

(* The same after a step. *)
LEMMA CountersOfUsedNext ==
    CountersAddUp' <=>
      (pc' # "aborted" =>
         /\ hit_count' + miss_count' = ref_count' + (IF pc' = "ref" THEN 1 ELSE 0)
         /\ miss_count' = evict_clean_count' + evict_dirty_count' + Cardinality(Used'))
BY DEF CountersAddUp, Used

(* Frames are counted by the finite number of them. *)
LEMMA UsedIsFinite == IsFiniteSet(Used) /\ Cardinality(Used) \in Nat
<1>1. IsFiniteSet(Frame) BY MemsizeAssumption, FS_Interval DEF Frame
<1>2. Used \subseteq Frame BY DEF Used
<1>3. IsFiniteSet(Used) BY <1>1, <1>2, FS_Subset
<1> QED BY <1>3, FS_CardinalityType

(* The counters are numbers. *)
LEMMA CountersAreNumbers ==
    Bookkeeping => /\ hit_count \in Nat /\ miss_count \in Nat /\ ref_count \in Nat
                   /\ evict_clean_count \in Nat /\ evict_dirty_count \in Nat
BY DEF Bookkeeping, TypeOK

(* No frame is in use before the first reference, and nothing is counted. *)
LEMMA CountersInit == Init => CountersAddUp
<1> SUFFICES ASSUME Init PROVE CountersAddUp OBVIOUS
<1>1. Used = {} BY DEF Init, Used
<1>2. Cardinality(Used) = 0 BY <1>1, FS_EmptySet
<1>3. hit_count = 0 /\ miss_count = 0 /\ ref_count = 0
      /\ evict_clean_count = 0 /\ evict_dirty_count = 0 /\ pc = "trace"
  BY DEF Init
<1> QED BY <1>2, <1>3, CountersOfUsed

(* The victim's frame is the one more that is not counted as used, and every *)
(* eviction counts itself, the one whose page could not be written as well. *)
LEMMA CountersEvict ==
    ASSUME Bookkeeping, CountersAddUp, Evict
    PROVE  CountersAddUp'
<1>1. PICK f \in Victims : EvictClean(f) \/ EvictDirty(f) \/ EvictFails(f) BY DEF Evict
<1>2. pc = "evict" /\ f \in Frame BY VictimsAreFrames DEF Evict, Bookkeeping
<1>3. /\ pc' = "fill" /\ frame' = f /\ coremap' = coremap
      /\ hit_count' = hit_count /\ miss_count' = miss_count /\ ref_count' = ref_count
  BY <1>1 DEF EvictClean, EvictDirty, EvictFails, Leave
<1>4. evict_clean_count' + evict_dirty_count' = evict_clean_count + evict_dirty_count + 1
  BY <1>1, CountersAreNumbers DEF EvictClean, EvictDirty, EvictFails
<1>5. Used = Frame /\ Used' = Used \ {f}
  BY <1>2, <1>3, VictimOwnsFrame DEF Used
<1>6. Cardinality(Used') = Cardinality(Used) - 1
  BY <1>2, <1>5, UsedIsFinite, FS_RemoveElement
<1> HIDE DEF Used
<1>7. /\ hit_count + miss_count = ref_count
      /\ miss_count = evict_clean_count + evict_dirty_count + Cardinality(Used)
  BY <1>2, CountersOfUsed, CountersAreNumbers
<1> DEFINE evictions == evict_clean_count + evict_dirty_count
<1>8. miss_count' = evictions' + Cardinality(Used')
  <2>1. evictions \in Nat /\ evictions' = evictions + 1 BY <1>4, CountersAreNumbers
  <2> HIDE DEF evictions
  <2>2. miss_count = evictions + Cardinality(Used) BY <1>7 DEF evictions
  <2> QED BY <1>3, <1>6, <2>1, <2>2, UsedIsFinite
<1>9. hit_count' + miss_count' = ref_count' /\ pc' # "ref" BY <1>3, <1>7
<1>10. ref_count' + (IF pc' = "ref" THEN 1 ELSE 0) = ref_count'
  BY <1>3, CountersAreNumbers
<1> QED BY <1>8, <1>9, <1>10, CountersOfUsedNext

(* The frame that is filled is counted from then on, with the miss. *)
LEMMA CountersFill ==
    ASSUME Bookkeeping, CountersAddUp, pc = "fill", NEW d \in BOOLEAN, Fill(d)
    PROVE  CountersAddUp'
<1>0. frame \in Frame BY DEF Bookkeeping, TypeOK
<1>1. /\ coremap'[frame].in_use
      /\ \A f \in Frame : f # frame => coremap'[f] = coremap[f]
  BY FillEffect
<1>2. /\ pc' = "ref" /\ miss_count' = miss_count + 1
      /\ UNCHANGED <<frame, hit_count, ref_count, evict_clean_count, evict_dirty_count>>
  BY DEF Fill
<1>3. Used' = Used \cup {frame} /\ frame \notin Used BY <1>0, <1>1, <1>2 DEF Used
<1>4. Cardinality(Used') = Cardinality(Used) + 1 BY <1>3, UsedIsFinite, FS_AddElement
<1> HIDE DEF Used
<1>5. /\ hit_count + miss_count = ref_count
      /\ miss_count = evict_clean_count + evict_dirty_count + Cardinality(Used)
  BY CountersOfUsed, CountersAreNumbers
<1>6. /\ hit_count' + miss_count' = ref_count' + 1
      /\ miss_count' = evict_clean_count' + evict_dirty_count' + Cardinality(Used')
  BY <1>2, <1>4, <1>5, UsedIsFinite, CountersAreNumbers
<1> QED BY <1>2, <1>6, CountersOfUsedNext

(* The other steps leave the frames that are counted as they are. *)
LEMMA CountersSame ==
    ASSUME Bookkeeping, CountersAddUp, pc # "aborted", Used' = Used,
           evict_clean_count' = evict_clean_count, evict_dirty_count' = evict_dirty_count,
           miss_count' = miss_count,
           hit_count' - ref_count' - (IF pc' = "ref" THEN 1 ELSE 0)
             = hit_count - ref_count - (IF pc = "ref" THEN 1 ELSE 0),
           hit_count' \in Nat, ref_count' \in Nat
    PROVE  CountersAddUp'
<1>1. /\ hit_count + miss_count = ref_count + (IF pc = "ref" THEN 1 ELSE 0)
      /\ miss_count = evict_clean_count + evict_dirty_count + Cardinality(Used)
  BY CountersOfUsed
<1>2. hit_count' + miss_count' = ref_count' + (IF pc' = "ref" THEN 1 ELSE 0)
  <2> DEFINE up == IF pc = "ref" THEN 1 ELSE 0
  <2>1. up \in Nat /\ up' \in Nat OBVIOUS
  <2>2. hit_count + miss_count = ref_count + up /\ hit_count' - ref_count' - up' = hit_count - ref_count - up
    BY <1>1
  <2> HIDE DEF up
  <2>3. hit_count' + miss_count' = ref_count' + up' BY <2>1, <2>2, CountersAreNumbers
  <2> QED BY <2>3 DEF up
<1>3. miss_count' = evict_clean_count' + evict_dirty_count' + Cardinality(Used')
  BY <1>1
<1> QED BY <1>2, <1>3, CountersOfUsedNext

(* The counters add up at every step. *)
LEMMA CountersStep ==
    ASSUME Bookkeeping, CountersAddUp, [Next]_vars
    PROVE  CountersAddUp'
<1> USE DEF Bookkeeping, TypeOK
<1>1. ASSUME NEW t \in TYPES, NEW p \in Page, Hit(t, p) PROVE CountersAddUp'
  <2>1. pc = "trace" /\ pc' = "ref" /\ Used' = Used
    BY <1>1 DEF Hit, Reference, Used
  <2> QED BY <1>1, <2>1, CountersSame DEF Hit
<1>2. ASSUME NEW t \in TYPES, NEW p \in Page, AllocateFree(t, p) PROVE CountersAddUp'
  <2>1. FreeFrames \subseteq Nat /\ FreeFrames # {}
    BY <1>2 DEF AllocateFree, FreeFrames, Frame
  <2>2. Min(FreeFrames) \in FreeFrames BY <2>1, MinNat
  <2>3. pc = "trace" /\ pc' = "fill" /\ frame' \in FreeFrames /\ coremap' = coremap
    BY <1>2, <2>2 DEF AllocateFree, Reference
  <2>4. Used' = Used BY <2>3 DEF Used, FreeFrames
  <2> QED BY <1>2, <2>3, <2>4, CountersSame DEF AllocateFree, counters
<1>3. ASSUME NEW t \in TYPES, NEW p \in Page, Replace(t, p) PROVE CountersAddUp'
  <2>1. pc = "trace" /\ pc' = "evict" /\ Used' = Used
    BY <1>3 DEF Replace, Reference, Used
  <2> QED BY <1>3, <2>1, CountersSame DEF Replace, counters
<1>4. CASE ClockSweep
  <2>1. \A f \in Frame : coremap'[f].in_use = coremap[f].in_use
    BY <1>4, VictimsAreFrames DEF ClockSweep, FrameEntry
  <2>2. pc = "evict" /\ pc' = "evict" /\ Used' = Used
    BY <1>4, <2>1 DEF ClockSweep, Used
  <2> QED BY <1>4, <2>2, CountersSame DEF ClockSweep, counters
<1>5. CASE Evict BY <1>5, CountersEvict
<1>6. CASE FillNew BY <1>6, CountersFill DEF FillNew
<1>7. CASE FillFromSwap BY <1>7, CountersFill DEF FillFromSwap
<1>8. CASE FillFails BY <1>8, CountersFill DEF FillFails
<1>9. CASE FillAborts BY <1>9 DEF FillAborts, CountersAddUp
<1>10. CASE Access
  <2>1. pte[vpage].frame = frame /\ frame \in Frame /\ vpage \in Page
    BY <1>10 DEF Access, MappingsAgree
  <2>2. \A f \in Frame : coremap'[f].in_use = coremap[f].in_use
    <3>1. coremap' = [coremap EXCEPT ![frame] = Referenced(coremap[frame])]
      BY <1>10, <2>1 DEF Access
    <3>2. Referenced(coremap[frame]).in_use = coremap[frame].in_use
      BY <2>1, ReferencedType
    <3> QED BY <2>1, <3>1, <3>2
  <2>3. pc = "ref" /\ pc' = "trace" /\ Used' = Used
    BY <1>10, <2>2 DEF Access, Used
  <2> QED BY <1>10, <2>3, CountersSame DEF Access
<1>11. CASE UNCHANGED vars BY <1>11 DEF vars, CountersAddUp, counters
<1> QED BY <1>1, <1>2, <1>3, <1>4, <1>5, <1>6, <1>7, <1>8, <1>9, <1>10, <1>11
    DEF Next, Serve, FillFrame

(* Every reference is a hit or a miss, and every miss took a free frame or *)
(* evicted a page, whatever fails.                                         *)
THEOREM CountersAddUpHolds == Spec => []CountersAddUp
<1>1. Bookkeeping /\ CountersAddUp /\ [Next]_vars => CountersAddUp' BY CountersStep
<1> QED BY <1>1, CountersInit, BookkeepingHolds, PTL DEF Spec

-----------------------------------------------------------------------------
(* Contents. *)

(* A page without a place in the swap file finds one: the other pages own  *)
(* at most one slot each.                                                  *)
LEMMA PageoutFits ==
    ASSUME SwapSlotsOwned, Reliable, NEW p \in Page,
           pte[p].swap_off = INVALID_SWAP
    PROVE  ~(Slot \subseteq swapmap)
<1> SUFFICES ASSUME Slot \subseteq swapmap PROVE FALSE OBVIOUS
<1> DEFINE Others == Page \ {p}
           owner == [s \in Slot |-> CHOOSE q \in Others : pte[q].swap_off = s]
<1>1. ASSUME NEW s \in Slot PROVE \E q \in Others : pte[q].swap_off = s
  <2>1. s \in {pte[q].swap_off : q \in Page} /\ s # INVALID_SWAP
    BY DEF SwapSlotsOwned, Slot, INVALID_SWAP
  <2> QED BY <2>1
<1>2. \A s \in Slot : owner[s] \in Others /\ pte[owner[s]].swap_off = s
  BY <1>1
<1>3. owner \in Injection(Slot, Others)
  <2>1. owner \in [Slot -> Others] BY <1>2
  <2>2. \A a, b \in Slot : owner[a] = owner[b] => a = b BY <1>2
  <2> HIDE DEF owner, Others
  <2> QED BY <2>1, <2>2 DEF Injection, IsInjective
<1>4. IsFiniteSet(Others) /\ Cardinality(Others) = Cardinality(Page) - 1
  BY PageAssumption, FS_RemoveElement
<1>5. Cardinality(Slot) <= Cardinality(Others)
  <2> HIDE DEF owner, Others
  <2> QED BY <1>3, <1>4, FS_Injection
<1>6. Cardinality(Slot) = SWAPSIZE
  BY SwapsizeAssumption, FS_Interval DEF Slot
<1>7. Cardinality(Page) \in Nat BY PageAssumption, FS_CardinalityType
<1> HIDE DEF Others
<1> QED BY <1>4, <1>5, <1>6, <1>7, SwapsizeAssumption DEF Reliable

(* The simulator begins in Contents. *)
LEMMA ContentsInit == Init => Contents
BY PageAssumption DEF Init, Contents, PageinFromSwap, SwapSlotsOwned, NewPages,
   CleanCopies, OwnAddress, InMemory, InFlight

(* A victim leaves for the slot s, which holds it then: nothing is lost. *)
LEMMA LeaveContents ==
    ASSUME Bookkeeping, Contents, pc = "evict", NEW f \in Frame, NEW s \in Slot,
           Leave(f, s), NEW v, v = coremap[f].pte,
           \/ s = pte[v].swap_off
           \/ pte[v].swap_off = INVALID_SWAP /\ s \notin swapmap,
           swapmap' = swapmap \cup {s},
           swapfile'[s] = physmem[f],
           \A r \in Slot : r # s => swapfile'[r] = swapfile[r]
    PROVE  Contents' /\ \A p \in Page : Version(p)' = Version(p)
<1>0. /\ v \in Page /\ pte[v].valid /\ pte[v].frame = f /\ s # INVALID_SWAP
      /\ \A p \in Page : pte[p] \in Pte
  BY VictimOwnsFrame DEF Bookkeeping, TypeOK, Slot, INVALID_SWAP
<1>1. /\ ~pte'[v].valid /\ pte'[v].onswap /\ pte'[v].swap_off = s
      /\ \A p \in Page : p # v => pte'[p] = pte[p]
  BY LeaveEffect
<1>2. pc' = "fill" /\ physmem' = physmem BY DEF Leave
<1>3. \A p \in Page : pte[p].swap_off # INVALID_SWAP =>
        pte[p].swap_off \in swapmap /\ pte[p].swap_off \in Slot
  BY <1>0 DEF Contents, SwapSlotsOwned, Pte
<1>4. \A p \in Page : p # v => pte[p].swap_off # s
  BY <1>0, <1>3 DEF Contents, SwapSlotsOwned
<1>5. \A p \in Page : InMemory(p) <=> pte[p].valid BY DEF InMemory, InFlight
<1>6. \A p \in Page : InMemory(p)' <=> pte'[p].valid BY <1>2 DEF InMemory, InFlight
<1> USE DEF Contents
<1>7. PageinFromSwap' BY <1>0, <1>1 DEF PageinFromSwap
<1>8. SwapSlotsOwned'
  <2>1. {pte'[p].swap_off : p \in Page} \ {INVALID_SWAP}
          = ({pte[p].swap_off : p \in Page} \ {INVALID_SWAP}) \cup {s}
    BY <1>0, <1>1
  <2>2. ASSUME NEW p \in Page, NEW q \in Page, pte'[p].swap_off = pte'[q].swap_off, p # q
        PROVE  pte'[p].swap_off = INVALID_SWAP
    BY <1>1, <1>4, <2>2 DEF SwapSlotsOwned
  <2> QED BY <2>1, <2>2 DEF SwapSlotsOwned
<1>9. NewPages' BY <1>1, <1>5, <1>6 DEF NewPages
<1>10. CleanCopies'
  <2> SUFFICES ASSUME NEW p \in Page, pte'[p].valid, ~pte'[p].dirty
               PROVE  /\ pte'[p].swap_off # INVALID_SWAP
                      /\ swapfile'[pte'[p].swap_off] = physmem'[pte'[p].frame]
    BY <1>6 DEF CleanCopies
  <2>1. p # v /\ pte'[p] = pte[p] BY <1>1
  <2> QED BY <1>2, <1>3, <1>4, <1>5, <2>1 DEF CleanCopies
<1>11. OwnAddress'
  <2> SUFFICES ASSUME NEW p \in Page
               PROVE  /\ pte'[p].valid => physmem'[pte'[p].frame].vaddr = p
                      /\ pte'[p].onswap => swapfile'[pte'[p].swap_off].vaddr = p
    BY <1>6 DEF OwnAddress
  <2>1. CASE p = v BY <1>0, <1>1, <1>5, <2>1 DEF OwnAddress
  <2>2. CASE p # v
    <3>1. pte'[p] = pte[p] BY <1>1, <2>2
    <3>2. pte[p].onswap => swapfile'[pte[p].swap_off] = swapfile[pte[p].swap_off]
      BY <1>3, <1>4, <2>2 DEF PageinFromSwap
    <3> QED BY <1>2, <1>5, <3>1, <3>2 DEF OwnAddress
  <2> QED BY <2>1, <2>2
<1>12. ASSUME NEW p \in Page PROVE Version(p)' = Version(p)
  <2>1. CASE p = v BY <1>0, <1>1, <1>2, <2>1 DEF Version
  <2>2. CASE p # v
    <3>1. pte'[p] = pte[p] BY <1>1, <2>2
    <3>2. pte[p].swap_off # INVALID_SWAP =>
            swapfile'[pte[p].swap_off] = swapfile[pte[p].swap_off]
      BY <1>3, <1>4, <2>2
    <3> QED BY <1>2, <3>1, <3>2 DEF Version
  <2> QED BY <2>1, <2>2
<1> QED BY <1>7, <1>8, <1>9, <1>10, <1>11, <1>12

(* An eviction keeps Contents: the victim has its last version on swap. *)
LEMMA EvictContents ==
    ASSUME Bookkeeping, Contents, Reliable, Evict
    PROVE  Contents' /\ \A p \in Page : Version(p)' = Version(p)
<1> PICK f \in Victims : EvictClean(f) \/ EvictDirty(f) \/ EvictFails(f)
  BY DEF Evict
<1> DEFINE v == coremap[f].pte
           slot == PageoutSlot(pte[v].swap_off)
<1>0. /\ f \in Frame /\ v \in Page /\ pte[v].valid /\ pte[v].frame = f /\ pc = "evict"
      /\ pte[v].swap_off \in Slot \cup {INVALID_SWAP} /\ InMemory(v)
  BY VictimsAreFrames, VictimOwnsFrame DEF Evict, Bookkeeping, TypeOK, Pte, InMemory
<1>00. /\ slot \in Slot
       /\ slot = pte[v].swap_off \/ (pte[v].swap_off = INVALID_SWAP /\ slot \notin swapmap)
  BY <1>0, PageoutSlotType, PageoutFits DEF Bookkeeping, Contents
<1>1. CASE EvictClean(f)
  <2>1. ~pte[v].dirty /\ Leave(f, pte[v].swap_off) /\ UNCHANGED <<swapfile, swapmap>>
    BY <1>1 DEF EvictClean
  <2>2. pte[v].swap_off \in Slot /\ swapfile[pte[v].swap_off] = physmem[f]
    BY <1>0, <2>1 DEF Contents, CleanCopies
  <2>3. pte[v].swap_off \in swapmap
    BY <1>0, <2>2 DEF Contents, SwapSlotsOwned, Slot, INVALID_SWAP
  <2> HIDE DEF v
  <2>4. swapmap' = swapmap \cup {pte[v].swap_off} BY <2>1, <2>3
  <2> QED BY <1>0, <2>1, <2>2, <2>4, LeaveContents DEF v
<1>2. CASE EvictDirty(f)
  <2>1. /\ Leave(f, slot) /\ swapmap' = swapmap \cup {slot}
        /\ swapfile' = [swapfile EXCEPT ![slot] = physmem[f]]
    BY <1>2 DEF EvictDirty
  <2> HIDE DEF slot, v
  <2>2. /\ swapfile'[slot] = physmem[f]
        /\ \A r \in Slot : r # slot => swapfile'[r] = swapfile[r]
    BY <1>00, <2>1 DEF Bookkeeping, TypeOK
  <2> QED BY <1>0, <1>00, <2>1, <2>2, LeaveContents DEF v
<1>3. CASE EvictFails(f)
  <2>1. slot = INVALID_SWAP \/ IO_FAILS BY <1>3 DEF EvictFails
  <2> QED BY <1>00, <2>1 DEF Reliable, Slot, INVALID_SWAP
<1> QED BY <1>1, <1>2, <1>3

(* The page comes in with its own address and its last version. *)
LEMMA FillContents ==
    ASSUME Bookkeeping, Contents, pc = "fill", NEW d \in BOOLEAN, Fill(d),
           NEW c, physmem' = [physmem EXCEPT ![frame] = c],
           c.vaddr = vpage, c.version = Version(vpage),
           ~d => /\ pte[vpage].swap_off # INVALID_SWAP
                 /\ swapfile[pte[vpage].swap_off] = c
    PROVE  Contents' /\ \A p \in Page : Version(p)' = Version(p)
<1>0. vpage \in Page /\ frame \in Frame /\ ~pte[vpage].valid
  BY DEF Bookkeeping, TypeOK, Phases
<1>1. /\ pte'[vpage].valid = pte[vpage].valid /\ ~pte'[vpage].onswap
      /\ pte'[vpage].frame = frame /\ pte'[vpage].dirty = d
      /\ pte'[vpage].swap_off = pte[vpage].swap_off
      /\ \A p \in Page : p # vpage => pte'[p] = pte[p]
  BY FillEffect
<1>2. pc' = "ref" /\ vpage' = vpage /\ swapfile' = swapfile /\ swapmap' = swapmap
  BY DEF Fill, request
<1>3. /\ physmem'[frame] = c
      /\ \A p \in Page : pte[p].valid =>
           pte[p].frame # frame /\ physmem'[pte[p].frame] = physmem[pte[p].frame]
  BY <1>0 DEF Bookkeeping, TypeOK, Phases, Pte
<1>4. \A p \in Page : InMemory(p) <=> pte[p].valid BY DEF InMemory, InFlight
<1>5. \A p \in Page : InMemory(p)' <=> pte[p].valid \/ p = vpage
  BY <1>0, <1>1, <1>2 DEF InMemory, InFlight
<1> USE DEF Contents
<1>6. PageinFromSwap' BY <1>1 DEF PageinFromSwap
<1>7. SwapSlotsOwned'
  <2>1. \A p \in Page : pte'[p].swap_off = pte[p].swap_off BY <1>1
  <2> QED BY <1>2, <2>1 DEF SwapSlotsOwned
<1>8. NewPages' BY <1>1, <1>4, <1>5 DEF NewPages
<1>9. CleanCopies'
  <2> SUFFICES ASSUME NEW p \in Page, InMemory(p)', ~pte'[p].dirty
               PROVE  /\ pte'[p].swap_off # INVALID_SWAP
                      /\ swapfile'[pte'[p].swap_off] = physmem'[pte'[p].frame]
    BY DEF CleanCopies
  <2>1. CASE p = vpage BY <1>1, <1>2, <1>3, <2>1
  <2>2. CASE p # vpage BY <1>1, <1>2, <1>3, <1>4, <1>5, <2>2 DEF CleanCopies
  <2> QED BY <2>1, <2>2
<1>10. OwnAddress'
  <2> SUFFICES ASSUME NEW p \in Page
               PROVE  /\ InMemory(p)' => physmem'[pte'[p].frame].vaddr = p
                      /\ pte'[p].onswap => swapfile'[pte'[p].swap_off].vaddr = p
    BY DEF OwnAddress
  <2>1. CASE p = vpage BY <1>1, <1>3, <2>1
  <2>2. CASE p # vpage BY <1>1, <1>2, <1>3, <1>4, <1>5, <2>2 DEF OwnAddress
  <2> QED BY <2>1, <2>2
<1>11. ASSUME NEW p \in Page PROVE Version(p)' = Version(p)
  <2>1. CASE p = vpage
    <3>1. Version(p)' = physmem'[frame].version BY <1>1, <1>2, <2>1 DEF Version
    <3> QED BY <1>3, <2>1, <3>1
  <2>2. CASE p # vpage
    <3>1. pte'[p] = pte[p] BY <1>1, <2>2
    <3> QED BY <1>2, <1>3, <2>2, <3>1 DEF Version
  <2> QED BY <2>1, <2>2
<1> QED BY <1>6, <1>7, <1>8, <1>9, <1>10, <1>11

(* A filled frame carries its own address and last version. *)
LEMMA FillFrameContents ==
    ASSUME Bookkeeping, Contents, Reliable, FillFrame
    PROVE  Contents' /\ \A p \in Page : Version(p)' = Version(p)
<1>0. vpage \in Page BY DEF Bookkeeping, TypeOK
<1>1. CASE FillNew
  <2>1. ~pte[vpage].valid /\ ~pte[vpage].onswap /\ pc = "fill"
    BY <1>1 DEF FillNew, Bookkeeping, Phases
  <2>2. pte[vpage].swap_off = INVALID_SWAP
    BY <1>0, <2>1 DEF Contents, NewPages, InMemory, InFlight
  <2>3. Version(vpage) = 0 BY <2>1, <2>2 DEF Version
  <2> DEFINE c == [vaddr |-> vpage, version |-> 0]
  <2>4. physmem' = [physmem EXCEPT ![frame] = c] /\ Fill(TRUE) BY <1>1 DEF FillNew
  <2>5. c.vaddr = vpage /\ c.version = Version(vpage) BY <2>3
  <2> HIDE DEF c
  <2> QED BY <2>1, <2>4, <2>5, FillContents
<1>2. CASE FillFromSwap
  <2>1. /\ ~pte[vpage].valid /\ pte[vpage].onswap /\ pc = "fill"
        /\ pte[vpage].swap_off # INVALID_SWAP
    BY <1>2 DEF FillFromSwap, Bookkeeping, Phases
  <2> DEFINE c == swapfile[pte[vpage].swap_off]
  <2>2. c.vaddr = vpage /\ c.version = Version(vpage)
    BY <1>0, <2>1 DEF Contents, OwnAddress, Version
  <2>3. physmem' = [physmem EXCEPT ![frame] = c] /\ Fill(FALSE) BY <1>2 DEF FillFromSwap
  <2> QED BY <2>1, <2>2, <2>3, FillContents
<1>3. CASE FillFails BY <1>3 DEF FillFails, Reliable
<1>4. CASE FillAborts
  <2>1. pte[vpage].onswap /\ pte[vpage].swap_off = INVALID_SWAP BY <1>4 DEF FillAborts
  <2> QED BY <1>0, <2>1 DEF Contents, PageinFromSwap
<1> QED BY <1>1, <1>2, <1>3, <1>4 DEF FillFrame

(* A reference changes no page but its own, and that one only by a store. *)
LEMMA AccessContents ==
    ASSUME Bookkeeping, Contents, Reliable, Access
    PROVE  /\ Contents'
           /\ \A p \in Page :
                Version(p)' = IF p = vpage /\ type = "S" THEN Version(p) + 1 ELSE Version(p)
<1>0. /\ vpage \in Page /\ frame \in Frame /\ pte[vpage].frame = frame
      /\ pc = "ref" /\ type # "M" /\ pte[vpage] \in Pte /\ coremap[frame].pte = vpage
      /\ physmem \in [Frame -> Content]
  BY AccessEffect DEF Access, Bookkeeping, TypeOK, Reliable
<1>1. /\ pte'[vpage].valid /\ ~pte'[vpage].onswap
      /\ pte'[vpage].frame = frame /\ pte'[vpage].swap_off = pte[vpage].swap_off
      /\ pte'[vpage].dirty = (pte[vpage].dirty \/ type = "S")
      /\ \A p \in Page : p # vpage => pte'[p] = pte[p]
  BY AccessEffect DEF MarksDirty
<1>2. pc' = "trace" /\ vpage' = vpage /\ swapfile' = swapfile /\ swapmap' = swapmap
  BY DEF Access, request
<1>3. physmem' = IF type = "S"
                 THEN [physmem EXCEPT ![frame] = [physmem[frame] EXCEPT !.version = @ + 1]]
                 ELSE physmem
  BY <1>0 DEF Access, Modifies
<1>4. /\ physmem'[frame].vaddr = physmem[frame].vaddr
      /\ physmem'[frame].version = IF type = "S" THEN physmem[frame].version + 1
                                                 ELSE physmem[frame].version
      /\ type # "S" => physmem' = physmem
  <2>1. physmem[frame] \in Content BY <1>0
  <2> HIDE DEF Bookkeeping, Contents
  <2>2. CASE type = "S"
    <3>1. physmem'[frame] = [physmem[frame] EXCEPT !.version = @ + 1] BY <1>0, <1>3, <2>2
    <3> QED BY <2>1, <2>2, <3>1 DEF Content
  <2>3. CASE type # "S" BY <1>3, <2>3
  <2> QED BY <2>2, <2>3
<1>5. ASSUME NEW p \in Page, p # vpage, pte[p].valid
      PROVE  physmem'[pte[p].frame] = physmem[pte[p].frame]
  <2>1. pte[p].frame # frame /\ pte[p].frame \in Frame
    BY <1>0, <1>5 DEF Bookkeeping, TypeOK, Pte, MappingsAgree
  <2> QED BY <1>0, <1>3, <2>1
<1>6. \A p \in Page : InMemory(p) <=> pte[p].valid \/ p = vpage
  BY <1>0 DEF InMemory, InFlight
<1>7. \A p \in Page : InMemory(p)' <=> pte[p].valid \/ p = vpage
  BY <1>0, <1>1, <1>2 DEF InMemory, InFlight
<1> USE DEF Contents
<1>8. PageinFromSwap' BY <1>1 DEF PageinFromSwap
<1>9. SwapSlotsOwned'
  <2>1. \A p \in Page : pte'[p].swap_off = pte[p].swap_off BY <1>1
  <2> QED BY <1>2, <2>1 DEF SwapSlotsOwned
<1>10. NewPages' BY <1>1, <1>6, <1>7 DEF NewPages
<1>11. CleanCopies'
  <2> SUFFICES ASSUME NEW p \in Page, InMemory(p)', ~pte'[p].dirty
               PROVE  /\ pte'[p].swap_off # INVALID_SWAP
                      /\ swapfile'[pte'[p].swap_off] = physmem'[pte'[p].frame]
    BY DEF CleanCopies
  <2>1. CASE p = vpage
    <3>1. ~pte[vpage].dirty /\ physmem' = physmem BY <1>1, <1>4, <2>1
    <3> QED BY <1>0, <1>1, <1>2, <1>6, <2>1, <3>1 DEF CleanCopies
  <2>2. CASE p # vpage
    <3>1. pte'[p] = pte[p] /\ pte[p].valid BY <1>1, <1>7, <2>2
    <3> QED BY <1>2, <1>5, <1>6, <2>2, <3>1 DEF CleanCopies
  <2> QED BY <2>1, <2>2
<1>12. OwnAddress'
  <2> SUFFICES ASSUME NEW p \in Page
               PROVE  /\ InMemory(p)' => physmem'[pte'[p].frame].vaddr = p
                      /\ pte'[p].onswap => swapfile'[pte'[p].swap_off].vaddr = p
    BY DEF OwnAddress
  <2>1. CASE p = vpage
    <3>1. physmem[frame].vaddr = vpage BY <1>0, <1>6 DEF OwnAddress
    <3> QED BY <1>1, <1>4, <2>1, <3>1
  <2>2. CASE p # vpage
    <3>1. pte'[p] = pte[p] /\ (InMemory(p)' => pte[p].valid) BY <1>1, <1>7, <2>2
    <3> QED BY <1>2, <1>5, <1>6, <2>2, <3>1 DEF OwnAddress
  <2> QED BY <2>1, <2>2
<1>13. ASSUME NEW p \in Page, p # vpage PROVE Version(p)' = Version(p)
  <2>1. pte'[p] = pte[p] BY <1>1, <1>13
  <2> QED BY <1>2, <1>5, <1>13, <2>1 DEF Version
<1>14. ASSUME NEW p \in Page, p = vpage
       PROVE  Version(p) = physmem[frame].version /\ Version(p)' = physmem'[frame].version
  BY <1>0, <1>1, <1>2, <1>14 DEF Version
<1> QED BY <1>4, <1>8, <1>9, <1>10, <1>11, <1>12, <1>13, <1>14

(* A step that leaves page table and memory alone. *)
LEMMA LookupContents ==
    ASSUME Bookkeeping, Contents, UNCHANGED <<pte, memory>>,
           \/ UNCHANGED <<pc, vpage>>
           \/ /\ pc = "trace" /\ vpage' \in Page
              /\ pc' = "ref" => pte[vpage'].valid
    PROVE  Contents' /\ \A p \in Page : Version(p)' = Version(p)
<1>1. \A p \in Page : InMemory(p)' <=> InMemory(p)
  BY DEF InMemory, InFlight
<1>2. \A p \in Page : Version(p)' = Version(p) BY DEF Version, memory
<1>3. UNCHANGED <<pte, physmem, swapfile, swapmap>> BY DEF memory
<1> QED BY <1>1, <1>2, <1>3 DEF Contents, PageinFromSwap, SwapSlotsOwned, NewPages,
           CleanCopies, OwnAddress

(* Every step keeps the contents; only the use of a page by a store makes a *)
(* new version, of that page.                                               *)
LEMMA ContentsStep ==
    ASSUME Bookkeeping, Contents, Reliable, [Next]_vars
    PROVE  /\ Contents'
           /\ \/ \A p \in Page : Version(p)' = Version(p)
              \/ \E q \in Page : /\ Version(q)' = Version(q) + 1
                                 /\ \A p \in Page : p # q => Version(p)' = Version(p)
<1>1. CASE UNCHANGED vars
  BY <1>1, LookupContents DEF vars, request
<1>2. ASSUME NEW t \in TYPES, NEW p \in Page,
             Hit(t, p) \/ AllocateFree(t, p) \/ Replace(t, p)
      PROVE  Contents' /\ \A q \in Page : Version(q)' = Version(q)
  <2>1. /\ pc = "trace" /\ vpage' = p /\ UNCHANGED <<pte, memory>>
        /\ pc' = "ref" => pte[p].valid
    BY <1>2 DEF Hit, AllocateFree, Replace, Reference
  <2> QED BY <2>1, LookupContents
<1>3. CASE ClockSweep
  BY <1>3, LookupContents DEF ClockSweep, request
<1>4. CASE Evict BY <1>4, EvictContents
<1>5. CASE FillFrame BY <1>5, FillFrameContents
<1>6. CASE Access
  <2>1. vpage \in Page BY DEF Bookkeeping, TypeOK
  <2>2. /\ Contents'
        /\ \A p \in Page :
             Version(p)' = IF p = vpage /\ type = "S" THEN Version(p) + 1 ELSE Version(p)
    BY <1>6, AccessContents
  <2>3. CASE type = "S"
    <3>1. PICK q \in Page : q = vpage BY <2>1
    <3>2. Version(q)' = Version(q) + 1 /\ \A p \in Page : p # q => Version(p)' = Version(p)
      BY <2>2, <2>3, <3>1
    <3> QED BY <2>2, <3>2
  <2>4. CASE type # "S" BY <2>2, <2>4
  <2> QED BY <2>3, <2>4
<1> QED BY <1>1, <1>2, <1>3, <1>4, <1>5, <1>6 DEF Next, Serve

(* Every page is in its frame or in its own slot of the swap file, with its *)
(* address and its last version: inductive together with Bookkeeping.       *)
THEOREM ContentsHolds == ASSUME Reliable PROVE Spec => []Contents
<1>1. Bookkeeping /\ Contents /\ [Next]_vars => Contents' BY ContentsStep
<1> QED BY <1>1, ContentsInit, BookkeepingHolds, PTL DEF Spec

(* No slot of the swap file is shared or leaked. *)
THEOREM SwapSlotsOwnedHolds == ASSUME Reliable PROVE Spec => []SwapSlotsOwned
BY ContentsHolds, PTL DEF Contents

(* swap_pagein is never called for a page without a slot. *)
THEOREM PageinFromSwapHolds == ASSUME Reliable PROVE Spec => []PageinFromSwap
BY ContentsHolds, PTL DEF Contents

(* A clean page can be thrown away. *)
THEOREM CleanPagesOnSwapHolds == ASSUME Reliable PROVE Spec => []CleanPagesOnSwap
<1>1. Contents => CleanPagesOnSwap BY DEF Contents, CleanCopies, CleanPagesOnSwap, InMemory
<1> QED BY <1>1, ContentsHolds, PTL

(* find_physpage returns the frame of the page it was asked for. *)
THEOREM ExpectedPageHolds == ASSUME Reliable PROVE Spec => []ExpectedPage
<1>1. Bookkeeping /\ Contents => ExpectedPage
  BY DEF Bookkeeping, TypeOK, MappingsAgree, Contents, OwnAddress, InMemory, InFlight, ExpectedPage
<1> QED BY <1>1, ContentsHolds, BookkeepingHolds, PTL

(* Paging does not show: the simulator implements a memory with room for   *)
(* every page.                                                             *)
THEOREM ImplementsMemoryHolds == ASSUME Reliable PROVE Spec => ImplementsMemory
<1>1. Init => Memory!Init
  BY PageAssumption DEF Init, Memory!Init, Version
<1>2. Bookkeeping /\ Contents /\ [Next]_vars =>
        Memory!Next \/ UNCHANGED [p \in Page |-> Version(p)]
  <2> SUFFICES ASSUME Bookkeeping, Contents, [Next]_vars
               PROVE  Memory!Next \/ UNCHANGED [p \in Page |-> Version(p)]
    OBVIOUS
  <2>1. CASE \A p \in Page : Version(p)' = Version(p) BY <2>1
  <2>2. ASSUME NEW q \in Page, Version(q)' = Version(q) + 1,
               \A p \in Page : p # q => Version(p)' = Version(p)
        PROVE  Memory!Write(q)
    <3>1. [p \in Page |-> Version(p)]' = [[p \in Page |-> Version(p)] EXCEPT ![q] = @ + 1]
      BY <2>2
    <3> QED BY <3>1 DEF Memory!Write
  <2> QED BY <2>1, <2>2, ContentsStep DEF Memory!Next
<1> QED BY <1>1, <1>2, ContentsHolds, BookkeepingHolds, PTL
     DEF Spec, ImplementsMemory, Memory!Spec

=============================================================================
