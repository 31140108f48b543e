---------------------------- MODULE VirtualMemory ----------------------------
(***************************************************************************)
(* What the paging simulator of Assignment3/starter promises to the trace  *)
(* it replays: a memory with room for every page, in which a write         *)
(* increments the version counter of the page written and nothing else     *)
(* changes any page.  Frames, swap space and replacement do not show.      *)
(***************************************************************************)
EXTENDS Naturals

CONSTANT Page       \* the virtual pages

VARIABLE mem        \* the version counter in each page

TypeOK == mem \in [Page -> Nat]

Init == mem = [p \in Page |-> 0]

\* A write reference to page p.
Write(p) == mem' = [mem EXCEPT ![p] = @ + 1]

Next == \E p \in Page : Write(p)

Spec == Init /\ [][Next]_mem
=============================================================================
