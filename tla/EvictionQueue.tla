---------------------------- MODULE EvictionQueue ----------------------------
(***************************************************************************)
(* What the FIFO and LRU replacement of Assignment3/starter promise: the   *)
(* pages in memory form a queue, a page comes in at its end, and when a    *)
(* page is asked for that does not fit the page at the head goes out.      *)
(* Under LRU every use of a page moves it to the end of the queue.         *)
(***************************************************************************)
EXTENDS Naturals, SequencesExt

CONSTANTS Page,         \* the virtual pages
          NoPage,       \* not a page
          CAPACITY      \* how many pages fit into memory

VARIABLES recency,      \* TRUE: a use moves the page to the end (LRU)
          queue,        \* the pages in memory, the next victim first
          wanted        \* the page that is being referenced, or NoPage

vars == <<recency, queue, wanted>>

TypeOK == recency \in BOOLEAN /\ queue \in Seq(Page) /\ wanted \in Page \cup {NoPage}

Resident == {queue[i] : i \in DOMAIN queue}

Init == recency \in BOOLEAN /\ queue = << >> /\ wanted = NoPage

\* The trace refers to page p.
Ask(p) ==
  /\ wanted = NoPage
  /\ wanted' = p
  /\ UNCHANGED <<recency, queue>>

\* Memory is full without the page, and the page at the head has to go.
Evict ==
  /\ wanted \in Page \ Resident
  /\ Len(queue) = CAPACITY
  /\ queue' = Tail(queue)
  /\ UNCHANGED <<recency, wanted>>

\* The page is brought into a free frame and used.
Load ==
  /\ wanted \in Page \ Resident
  /\ Len(queue) < CAPACITY
  /\ queue' = Append(queue, wanted)
  /\ wanted' = NoPage
  /\ UNCHANGED recency

\* The page is in memory and used.
Use ==
  /\ \E i \in DOMAIN queue :
       /\ queue[i] = wanted
       /\ queue' = IF recency THEN Append(RemoveAt(queue, i), wanted) ELSE queue
  /\ wanted' = NoPage
  /\ UNCHANGED recency

Next == (\E p \in Page : Ask(p)) \/ Evict \/ Load \/ Use

Spec == Init /\ [][Next]_vars
=============================================================================
