--------------------------------- MODULE Opt ---------------------------------
(***************************************************************************)
(* The OPT replacement of Assignment3/starter/opt.c.  opt_init reads the   *)
(* whole trace and walks it backwards; for every reference it asks a binary *)
(* search tree when the page is used next and stores the answer in         *)
(* nextAccessTime.  During the replay opt_ref copies the answer into the   *)
(* coremap and opt_evict looks there for the page that is used last.       *)
(* A tree node is identified by its vPage: update inserts a page only when *)
(* the search for it has failed.                                           *)
(***************************************************************************)
EXTENDS Integers, FiniteSets, FiniteSetsExt

CONSTANTS VPage,       \* the virtual page numbers in the trace
          MEMSIZE,     \* number of frames
          MAX_TRACE    \* bound: the length of the trace

ASSUME VPageAssumption == VPage \subseteq Nat /\ VPage # {}
ASSUME MemsizeAssumption == MEMSIZE \in Nat \ {0}
ASSUME BoundAssumption == MAX_TRACE \in Nat \ {0}

Frame == 0 .. MEMSIZE - 1
NULL == -1              \* no child, no page
NEVER == -1             \* the next access time of a page never used again

VARIABLES pc,               \* "init" during opt_init, "replay", "done", or "undefined"
          vPageRecord,      \* the page of each reference of the trace
          nextAccessTime,   \* the table that opt_init builds
          tree,             \* the nodes of the search tree, by vPage
          root,             \* the page at the root of the tree
          node,             \* the node that update looks at
          i,                \* the reference that opt_init has come to
          time,             \* the next reference of the replay
          resident,         \* the page in each frame
          coremapNext       \* coremap[f].nextAccessTime

table == <<vPageRecord, nextAccessTime>>
search == <<tree, root, node, i>>
replay == <<time, resident, coremapNext>>
vars == <<pc, table, search, replay>>

traceSize == Cardinality(DOMAIN vPageRecord)

\* A node as calloc leaves it, but for its time.
NewNode(t) == [time |-> t, left |-> NULL, right |-> NULL]

\* opt_init has read the trace and made the last reference the root.
Init ==
  /\ \E n \in 1 .. MAX_TRACE : vPageRecord \in [0 .. n - 1 -> VPage]
  /\ pc = "init"
  /\ nextAccessTime = [k \in DOMAIN vPageRecord |-> 0]
  /\ root = vPageRecord[traceSize - 1]
  /\ tree = [p \in {root} |-> NewNode(traceSize - 1)]
  /\ node = root
  /\ i = traceSize - 2
  /\ time = 0
  /\ resident = [f \in Frame |-> NULL]
  /\ coremapNext = [f \in Frame |-> 0]

-----------------------------------------------------------------------------
(* opt_init: one call of update(root, vPageRecord[i], i) for each i.       *)

\* Faulty: update returns a time after the end of the trace.
Return_unset(t) ==
  /\ nextAccessTime' = [nextAccessTime EXCEPT ![i] = traceSize]
  /\ i' = i - 1
  /\ node' = root
  /\ UNCHANGED <<pc, vPageRecord, root, replay>>

\* update returns t for reference i, and the loop goes on to the reference
\* before it.
Return(t) ==
  /\ nextAccessTime' = [nextAccessTime EXCEPT ![i] = t]
  /\ i' = i - 1
  /\ node' = root
  /\ UNCHANGED <<pc, vPageRecord, root, replay>>

Updating == pc = "init" /\ i >= 0

\* The page is in this node.
Found ==
  /\ Updating
  /\ vPageRecord[i] = node
  /\ tree' = [tree EXCEPT ![node].time = i]
  /\ Return(tree[node].time)

\* The side of this node on which the page is.
Side == IF vPageRecord[i] < node THEN "left" ELSE "right"

\* Faulty: the recursive call is made on the same node again.
Descend_stays ==
  /\ Updating
  /\ vPageRecord[i] # node
  /\ tree[node][Side] # NULL
  /\ node' = node
  /\ UNCHANGED <<pc, table, tree, root, i, replay>>

\* There is a child on that side: the recursive call.
Descend ==
  /\ Updating
  /\ vPageRecord[i] # node
  /\ tree[node][Side] # NULL
  /\ node' = tree[node][Side]
  /\ UNCHANGED <<pc, table, tree, root, i, replay>>

\* The parent r of the new node of page p: the time goes into the parent.
Linked(r, side, p, t) ==
  IF side = "left" THEN [r EXCEPT !.left = p, !.time = t]
                   ELSE [r EXCEPT !.right = p, !.time = t]

\* Faulty: the new node is not linked to its parent.
Inserted_unlinked(n, p, t) ==
  [q \in DOMAIN tree \cup {p} |->
     IF q = p THEN NewNode(0)
     ELSE IF q = n THEN [tree[q] EXCEPT !.time = t]
     ELSE tree[q]]

\* The tree after the page p, seen at time t, becomes a child of node n: the
\* new node keeps the zero of calloc.
Inserted(n, p, t) ==
  [q \in DOMAIN tree \cup {p} |->
     IF q = p THEN NewNode(0)
     ELSE IF q = n THEN Linked(tree[q], Side, p, t)
     ELSE tree[q]]

\* There is no child on that side: the page is new.
Insert ==
  /\ Updating
  /\ vPageRecord[i] # node
  /\ tree[node][Side] = NULL
  /\ tree' = Inserted(node, vPageRecord[i], i)
  /\ Return(NEVER)

\* The table is complete, the tree is destroyed and the replay begins.
StartReplay ==
  /\ pc = "init"
  /\ i < 0
  /\ pc' = "replay"
  /\ UNCHANGED <<table, search, replay>>

-----------------------------------------------------------------------------
(* The replay.                                                             *)

\* opt_ref for the reference at time, whose page is in frame f.
Ref(f) ==
  /\ coremapNext' = [coremapNext EXCEPT ![f] = nextAccessTime[time]]
  /\ time' = time + 1
  /\ pc' = IF time + 1 = traceSize THEN "done" ELSE "replay"
  /\ UNCHANGED <<table, search>>

Holds(p) == {f \in Frame : resident[f] = p}

\* The page is in memory.
Hit ==
  /\ pc = "replay"
  /\ \E f \in Holds(vPageRecord[time]) : Ref(f)
  /\ UNCHANGED resident

\* The page is not in memory and there is a free frame.
Allocate ==
  /\ pc = "replay"
  /\ Holds(vPageRecord[time]) = {}
  /\ Holds(NULL) # {}
  /\ LET f == Min(Holds(NULL)) IN
       Ref(f) /\ resident' = [resident EXCEPT ![f] = vPageRecord[time]]

\* Faulty: opt_evict does not look for pages that are never used again.
Victim_latestOnly ==
  LET latest == {f \in Frame : /\ coremapNext[f] > 0
                               /\ \A g \in Frame : coremapNext[f] >= coremapNext[g]}
  IN IF latest # {} THEN {Min(latest)} ELSE {}

\* opt_evict: the first frame that is never used again, otherwise the first
\* of those used last.  latestFrame stays uninitialised if every next access
\* time is 0; the set is then empty.
Victim ==
  LET never == {f \in Frame : coremapNext[f] = NEVER}
      latest == {f \in Frame : /\ coremapNext[f] > 0
                               /\ \A g \in Frame : coremapNext[f] >= coremapNext[g]}
  IN IF never # {} THEN {Min(never)}
     ELSE IF latest # {} THEN {Min(latest)} ELSE {}

\* The page is not in memory and no frame is free.
MustEvict ==
  /\ pc = "replay"
  /\ Holds(vPageRecord[time]) = {}
  /\ Holds(NULL) = {}

\* The page goes into the frame that opt_evict returns.  An uninitialised
\* latestFrame may be any number, and so any frame ...
Evict ==
  /\ MustEvict
  /\ \E f \in IF Victim # {} THEN Victim ELSE Frame :
       Ref(f) /\ resident' = [resident EXCEPT ![f] = vPageRecord[time]]

\* ... or none: allocate_frame then uses a coremap[latestFrame] outside the
\* coremap, and what the program does from there on is undefined.
EvictOutside ==
  /\ MustEvict
  /\ Victim = {}
  /\ pc' = "undefined"
  /\ UNCHANGED <<table, search, replay>>

Next ==
  \/ Found \/ Descend \/ Insert \/ StartReplay
  \/ Hit \/ Allocate \/ Evict \/ EvictOutside

Spec == Init /\ [][Next]_vars
FairSpec == Spec /\ WF_vars(Next)

-----------------------------------------------------------------------------
(* Properties.                                                             *)

TypeOK ==
  /\ pc \in {"init", "replay", "done", "undefined"}
  /\ nextAccessTime \in [DOMAIN vPageRecord -> -1 .. traceSize - 1]
  /\ i \in -1 .. traceSize - 2
  /\ root \in DOMAIN tree /\ node \in DOMAIN tree
  /\ \A p \in DOMAIN tree : {tree[p].left, tree[p].right} \subseteq DOMAIN tree \cup {NULL}
  /\ time \in 0 .. traceSize
  /\ resident \in [Frame -> VPage \cup {NULL}]

\* The references to the page of reference k that come after it.
Later(k) == {j \in DOMAIN vPageRecord : j > k /\ vPageRecord[j] = vPageRecord[k]}

\* The table says of a reference, other than the last of the trace, that its
\* page is never used again exactly if that is so: the search finds every
\* page that was inserted, and no other (opt.c:156-191).
NeverExact ==
  \A k \in DOMAIN vPageRecord : k > i /\ k < traceSize - 1 =>
    (nextAccessTime[k] = NEVER <=> Later(k) = {})

\* The references to page p that are still to come.
Coming(p) == {j \in DOMAIN vPageRecord : j >= time /\ vPageRecord[j] = p}

\* While memory holds a page that is not used any more, opt_evict does not
\* throw out one that is, and latestFrame is not used uninitialised
\* (opt.c:58-62).
UnneededFirst ==
  [][Evict \/ EvictOutside =>
       \/ \A f \in Frame : Coming(resident[f]) # {}
       \/ \E f \in Frame : /\ Coming(resident[f]) = {}
                           /\ resident'[f] # resident[f]]_vars

\* The search of the tree ends for every page, and the replay begins.
InitTerminates == <>(pc = "replay")

=============================================================================
