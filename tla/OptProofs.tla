------------------------------ MODULE OptProofs ------------------------------
(***************************************************************************)
(* Opt is right about what is never used again, for every trace, every set *)
(* of pages and every memory.  Search, an invariant of opt_init, says that *)
(* the search tree leads to every page that was inserted; with it the      *)
(* table is right (NeverExact), and so is the eviction of unneeded pages.  *)
(* The ordering of the tree plays no part: what counts is that the search  *)
(* for a page takes the same way each time.                                *)
(***************************************************************************)
EXTENDS Opt, FiniteSetTheorems, WellFoundedInduction, TLAPS

-----------------------------------------------------------------------------
(* The inductive invariant.                                                *)

(* The trace does not change; what Init says of it. *)
Recorded == \E n \in 1 .. MAX_TRACE : vPageRecord \in [0 .. n - 1 -> VPage]

Node == [time : Nat, left : VPage \cup {NULL}, right : VPage \cup {NULL}]

(* The tree has a node for each page of the references looked at. *)
Nodes ==
  /\ tree \in [DOMAIN tree -> Node]
  /\ \A p \in DOMAIN tree : tree[p].time < traceSize
  /\ DOMAIN tree = {vPageRecord[j] : j \in i + 1 .. traceSize - 1}

Phase ==
  /\ pc # "init" => i = -1
  /\ pc = "init" => time = 0
  /\ pc = "replay" => time < traceSize

(* Where the search for page x goes from node m. *)
Way(x, m) == IF x < m THEN "left" ELSE "right"
Child(x, m) == tree[m][Way(x, m)]

(* S contains the way of a search for page x from the root to its end. *)
Contains(S, x) ==
  /\ S \subseteq DOMAIN tree /\ root \in S
  /\ \A m \in S : m # x /\ Child(x, m) # NULL => Child(x, m) \in S

(* The search for a page that has a node comes to it. *)
Findable == \A x \in DOMAIN tree : \A S \in SUBSET DOMAIN tree : Contains(S, x) => x \in S

(* The node that update looks at is on the way of its search, and none of  *)
(* those before it is the page, or an end of the way.                      *)
OnTheWay ==
  Updating =>
    /\ \A S \in SUBSET DOMAIN tree : Contains(S, vPageRecord[i]) => node \in S
    /\ \E V \in SUBSET DOMAIN tree :
         /\ root \in V /\ node \in V /\ vPageRecord[i] \notin V \ {node}
         /\ \A m \in V \ {node} : Child(vPageRecord[i], m) \in V

Search == Recorded /\ TypeOK /\ Nodes /\ Phase /\ Findable /\ OnTheWay /\ NeverExact

-----------------------------------------------------------------------------
(* The trace, and the records of the tree.                                 *)

(* The length of the trace. *)
LEMMA TraceSize ==
    ASSUME Recorded
    PROVE  /\ traceSize \in Nat \ {0} /\ DOMAIN vPageRecord = 0 .. traceSize - 1
           /\ vPageRecord \in [0 .. traceSize - 1 -> VPage]
<1>1. PICK n \in 1 .. MAX_TRACE : vPageRecord \in [0 .. n - 1 -> VPage] BY DEF Recorded
<1>2. n \in Nat \ {0} /\ DOMAIN vPageRecord = 0 .. n - 1 BY <1>1, BoundAssumption
<1>3. Cardinality(0 .. n - 1) = n BY <1>2, FS_Interval
<1> QED BY <1>1, <1>2, <1>3 DEF traceSize

(* The children of a node are pages, or none. *)
LEMMA ChildType ==
    ASSUME NEW r \in Node, NEW w \in {"left", "right"}
    PROVE  r[w] \in VPage \cup {NULL}
<1>1. CASE w = "left" BY <1>1 DEF Node
<1>2. CASE w = "right" BY <1>2 DEF Node
<1> QED BY <1>1, <1>2

(* The new child of a node is on the way it was linked to, and the other child *)
(* stays. *)
LEMMA LinkedNode ==
    ASSUME NEW r \in Node, NEW w \in {"left", "right"}, NEW p \in VPage, NEW t \in Nat
    PROVE  /\ Linked(r, w, p, t) \in Node /\ Linked(r, w, p, t).time = t
           /\ Linked(r, w, p, t)[w] = p
           /\ \A u \in {"left", "right"} : u # w => Linked(r, w, p, t)[u] = r[u]
<1>1. CASE w = "left" BY <1>1 DEF Node, Linked
<1>2. CASE w = "right" BY <1>2 DEF Node, Linked
<1> QED BY <1>1, <1>2

(* A page that was found has a new time and the children it had. *)
LEMMA TimedNode ==
    ASSUME NEW r \in Node, NEW t \in Nat, NEW s, s = [r EXCEPT !.time = t]
    PROVE  /\ s \in Node /\ s.time = t
           /\ \A u \in {"left", "right"} : s[u] = r[u]
BY DEF Node

(* A new node has no children. *)
LEMMA FreshNode ==
    ASSUME NEW t \in Nat
    PROVE  /\ NewNode(t) \in Node /\ NewNode(t).time = t
           /\ \A u \in {"left", "right"} : NewNode(t)[u] = NULL
BY DEF Node, NewNode

(* There are two ways. *)
LEMMA TwoWays == \A x, m : Way(x, m) \in {"left", "right"}
BY DEF Way

-----------------------------------------------------------------------------
(* opt_init.                                                               *)

(* Before the loop the last reference is in the tree, and alone. *)
LEMMA SearchInit == Init => Search
<1> SUFFICES ASSUME Init PROVE Search OBVIOUS
<1>1. Recorded BY DEF Init, Recorded
<1>2. /\ traceSize \in Nat \ {0} /\ DOMAIN vPageRecord = 0 .. traceSize - 1
      /\ vPageRecord \in [0 .. traceSize - 1 -> VPage]
  BY <1>1, TraceSize
<1> HIDE DEF traceSize
<1>3. /\ pc = "init" /\ root = vPageRecord[traceSize - 1] /\ node = root
      /\ i = traceSize - 2 /\ time = 0
      /\ nextAccessTime = [k \in DOMAIN vPageRecord |-> 0]
      /\ tree = [p \in {root} |-> NewNode(traceSize - 1)]
      /\ resident = [f \in Frame |-> NULL]
  BY DEF Init
<1>4. root \in VPage /\ DOMAIN tree = {root} /\ tree[root] = NewNode(traceSize - 1)
  BY <1>2, <1>3
<1>5. Nodes
  <2>1. tree[root] \in Node /\ tree[root].time = traceSize - 1 BY <1>2, <1>4, FreshNode
  <2>2. i + 1 .. traceSize - 1 = {traceSize - 1} BY <1>2, <1>3
  <2> QED BY <1>2, <1>3, <1>4, <2>1, <2>2 DEF Nodes
<1>6. TypeOK
  <2>1. tree[root].left = NULL /\ tree[root].right = NULL BY <1>4 DEF NewNode
  <2> QED BY <1>2, <1>3, <1>4, <2>1 DEF TypeOK
<1>7. Phase BY <1>3 DEF Phase
<1>8. Findable BY <1>4 DEF Findable, Contains
<1>9. OnTheWay
  <2>1. \A S : Contains(S, vPageRecord[i]) => node \in S BY <1>3 DEF Contains
  <2>2. {root} \in SUBSET DOMAIN tree /\ root \in {root} /\ node \in {root}
        /\ {root} \ {node} = {}
    BY <1>3, <1>4
  <2> QED BY <2>1, <2>2 DEF OnTheWay
<1>10. NeverExact BY <1>2, <1>3 DEF NeverExact
<1> QED BY <1>1, <1>5, <1>6, <1>7, <1>8, <1>9, <1>10 DEF Search

(* Where opt_init has come to. *)
LEMMA SearchFacts ==
    ASSUME Search, Updating
    PROVE  /\ pc = "init" /\ i \in 0 .. traceSize - 2 /\ vPageRecord[i] \in VPage
           /\ traceSize \in Nat \ {0} /\ DOMAIN vPageRecord = 0 .. traceSize - 1
           /\ node \in DOMAIN tree /\ root \in DOMAIN tree /\ tree[node] \in Node
           /\ DOMAIN tree \subseteq VPage /\ time = 0
<1>1. /\ traceSize \in Nat \ {0} /\ DOMAIN vPageRecord = 0 .. traceSize - 1
      /\ vPageRecord \in [0 .. traceSize - 1 -> VPage]
  BY TraceSize DEF Search
<1> HIDE DEF traceSize
<1>2. pc = "init" /\ i \in 0 .. traceSize - 2 BY <1>1 DEF Search, TypeOK, Updating
<1>3. \A j \in i + 1 .. traceSize - 1 : vPageRecord[j] \in VPage BY <1>1, <1>2
<1> QED BY <1>1, <1>2, <1>3 DEF Search, TypeOK, Nodes, Phase

(* What a return of update leaves for the next reference. *)
LEMMA Returned ==
    ASSUME Search, Updating, NEW t \in -1 .. traceSize - 1, Return(t),
           t = NEVER <=> Later(i) = {},
           Nodes', TypeOK', Findable'
    PROVE  Search'
<1>1. /\ pc = "init" /\ i \in 0 .. traceSize - 2 /\ vPageRecord[i] \in VPage
      /\ traceSize \in Nat \ {0} /\ DOMAIN vPageRecord = 0 .. traceSize - 1
      /\ time = 0
  BY SearchFacts
<1>2. /\ i' = i - 1 /\ node' = root /\ root' = root /\ pc' = pc /\ time' = time
      /\ vPageRecord' = vPageRecord /\ traceSize' = traceSize
      /\ nextAccessTime' = [nextAccessTime EXCEPT ![i] = t]
  BY DEF Return, replay, traceSize
<1> HIDE DEF traceSize
<1>3. Recorded' BY <1>2 DEF Search, Recorded
<1>4. Phase' BY <1>1, <1>2 DEF Phase
<1>5. OnTheWay'
  <2>1. \A S : Contains(S, vPageRecord[i])' => node' \in S BY <1>2 DEF Contains
  <2>2. \A S : Contains(S, vPageRecord[i - 1])' => node' \in S BY <1>2 DEF Contains
  <2>3. {root'} \in SUBSET DOMAIN tree' /\ root' \in {root'} /\ node' \in {root'}
        /\ {root'} \ {node'} = {}
    BY <1>2 DEF TypeOK
  <2> QED BY <1>2, <2>2, <2>3 DEF OnTheWay, Contains
<1>6. NeverExact'
  <2>1. \A k \in DOMAIN vPageRecord : Later(k)' = Later(k) BY <1>2 DEF Later
  <2>2. nextAccessTime'[i] = t BY <1>1, <1>2 DEF Search, TypeOK
  <2>3. \A k \in DOMAIN vPageRecord : k # i => nextAccessTime'[k] = nextAccessTime[k]
    BY <1>2 DEF Search, TypeOK
  <2>4. ASSUME NEW k \in DOMAIN vPageRecord, k > i - 1, k < traceSize - 1
        PROVE  nextAccessTime'[k] = NEVER <=> Later(k) = {}
    <3>1. CASE k = i BY <2>2, <3>1
    <3>2. CASE k # i
      <4>1. k > i BY <1>1, <2>4, <3>2
      <4> QED BY <2>3, <2>4, <3>2, <4>1 DEF Search, NeverExact
    <3> QED BY <3>1, <3>2
  <2> QED BY <1>2, <2>1, <2>4 DEF NeverExact
<1> QED BY <1>3, <1>4, <1>5, <1>6 DEF Search

(* The pages looked at are one more after reference i. *)
LEMMA PagesSeen ==
    ASSUME Search, Updating
    PROVE  /\ {vPageRecord[j] : j \in i .. traceSize - 1} = DOMAIN tree \cup {vPageRecord[i]}
           /\ vPageRecord[i] \in DOMAIN tree <=> Later(i) # {}
<1>1. i \in 0 .. traceSize - 2 /\ traceSize \in Nat /\ DOMAIN vPageRecord = 0 .. traceSize - 1
  BY SearchFacts
<1>2. DOMAIN tree = {vPageRecord[j] : j \in i + 1 .. traceSize - 1} BY DEF Search, Nodes
<1> HIDE DEF traceSize
<1>3. i .. traceSize - 1 = (i + 1 .. traceSize - 1) \cup {i} BY <1>1
<1>4. \A j \in DOMAIN vPageRecord : j > i <=> j \in i + 1 .. traceSize - 1 BY <1>1
<1>5. \A j \in i + 1 .. traceSize - 1 : j \in DOMAIN vPageRecord BY <1>1
<1> QED BY <1>2, <1>3, <1>4, <1>5 DEF Later

(* The page is found: the tree keeps its shape. *)
LEMMA SearchFound == Search /\ Found => Search'
<1> SUFFICES ASSUME Search, Found PROVE Search' OBVIOUS
<1> DEFINE t == tree[node].time
           s == [tree[node] EXCEPT !.time = i]
<1>1. /\ Updating /\ vPageRecord[i] = node /\ tree' = [tree EXCEPT ![node] = s] /\ Return(t)
  BY DEF Found
<1>2. /\ i \in 0 .. traceSize - 2 /\ traceSize \in Nat /\ node \in DOMAIN tree
      /\ tree[node] \in Node /\ tree \in [DOMAIN tree -> Node] /\ t \in 0 .. traceSize - 1
      /\ DOMAIN vPageRecord = 0 .. traceSize - 1
  <2>1. t \in Nat /\ t < traceSize BY <1>1, SearchFacts DEF Search, Nodes, Node
  <2> QED BY <1>1, <2>1, SearchFacts DEF Search, Nodes
<1>3. s \in Node /\ s.time = i /\ \A u \in {"left", "right"} : s[u] = tree[node][u]
  BY <1>2, TimedNode
<1>4. /\ i' = i - 1 /\ traceSize' = traceSize /\ vPageRecord' = vPageRecord /\ root' = root
      /\ node' = root /\ pc' = pc /\ time' = time /\ resident' = resident
      /\ nextAccessTime' = [nextAccessTime EXCEPT ![i] = t]
  BY <1>1 DEF Return, replay, traceSize
<1> HIDE DEF traceSize, s, t
<1>5. /\ DOMAIN tree' = DOMAIN tree /\ tree'[node] = s
      /\ \A p \in DOMAIN tree : p # node => tree'[p] = tree[p]
  BY <1>1, <1>2
<1>6. \A p \in DOMAIN tree : \A u \in {"left", "right"} : tree'[p][u] = tree[p][u]
  BY <1>3, <1>5
<1>7. Nodes'
  <2>1. tree' \in [DOMAIN tree' -> Node] BY <1>1, <1>2, <1>3, <1>5
  <2>2. ASSUME NEW p \in DOMAIN tree' PROVE tree'[p].time < traceSize'
    <3>1. CASE p = node BY <1>2, <1>3, <1>4, <1>5, <3>1
    <3>2. CASE p # node
      <4>1. p \in DOMAIN tree /\ tree'[p] = tree[p] BY <1>5, <3>2
      <4> QED BY <1>4, <4>1 DEF Search, Nodes
    <3> QED BY <3>1, <3>2
  <2>3. DOMAIN tree' = {vPageRecord[j] : j \in i .. traceSize - 1}
    BY <1>1, <1>2, <1>5, PagesSeen
  <2>4. i' + 1 = i BY <1>2, <1>4
  <2> QED BY <1>4, <2>1, <2>2, <2>3, <2>4 DEF Nodes
<1>8. TypeOK'
  <2>1. \A p \in DOMAIN tree' : {tree'[p].left, tree'[p].right} \subseteq DOMAIN tree' \cup {NULL}
    <3>1. \A p \in DOMAIN tree : tree'[p].left = tree[p].left /\ tree'[p].right = tree[p].right
      BY <1>6
    <3> QED BY <1>5, <3>1 DEF Search, TypeOK
  <2>2. nextAccessTime' \in [DOMAIN vPageRecord -> -1 .. traceSize - 1]
    BY <1>2, <1>4 DEF Search, TypeOK
  <2> QED BY <1>2, <1>4, <1>5, <2>1, <2>2 DEF Search, TypeOK
<1>9. Findable'
  <2>1. \A x : \A m \in DOMAIN tree : Child(x, m)' = Child(x, m) BY <1>6, TwoWays DEF Child, Way
  <2>2. \A x, S : Contains(S, x)' => Contains(S, x) BY <1>4, <1>5, <2>1 DEF Contains
  <2> QED BY <1>5, <2>2 DEF Search, Findable
<1>10. Later(i) # {} BY <1>1, <1>2, PagesSeen
<1>11. t # NEVER BY <1>2 DEF NEVER
<1> QED BY <1>1, <1>2, <1>7, <1>8, <1>9, <1>10, <1>11, Returned

(* The search goes on in a child. *)
LEMMA SearchDescend == Search /\ Descend => Search'
<1> SUFFICES ASSUME Search, Descend PROVE Search' OBVIOUS
<1> DEFINE x == vPageRecord[i]
<1>1. /\ Updating /\ x # node /\ Child(x, node) # NULL /\ node' = Child(x, node)
      /\ UNCHANGED <<pc, vPageRecord, nextAccessTime, tree, root, i, time, resident>>
  BY DEF Descend, Child, Way, Side, table, replay
<1>2. node \in DOMAIN tree /\ tree[node] \in Node BY <1>1, SearchFacts
<1>3. node' \in DOMAIN tree
  BY <1>1, <1>2 DEF Child, Way, Search, TypeOK
<1>4. Recorded' /\ Nodes' /\ Phase' /\ Findable' /\ NeverExact'
  <2>1. Recorded' BY <1>1 DEF Search, Recorded
  <2>2. Nodes' BY <1>1 DEF Search, Nodes, traceSize
  <2>3. Phase' BY <1>1 DEF Search, Phase, traceSize
  <2>4. Findable' BY <1>1 DEF Search, Findable, Contains, Child
  <2>5. NeverExact' BY <1>1 DEF Search, NeverExact, Later, traceSize
  <2> QED BY <2>1, <2>2, <2>3, <2>4, <2>5
<1>5. TypeOK' BY <1>1, <1>3 DEF Search, TypeOK, traceSize
<1>6. OnTheWay'
  <2>1. \A S \in SUBSET DOMAIN tree : Contains(S, x) => node' \in S
    BY <1>1 DEF Search, OnTheWay, Contains
  <2>2. PICK V \in SUBSET DOMAIN tree :
          /\ root \in V /\ node \in V /\ x \notin V \ {node}
          /\ \A m \in V \ {node} : Child(x, m) \in V
    BY <1>1 DEF Search, OnTheWay
  <2> DEFINE W == V \cup {node'}
  <2> HIDE DEF x
  <2>3. W \in SUBSET DOMAIN tree /\ root \in W /\ node' \in W /\ x \notin W \ {node'}
    BY <1>1, <1>3, <2>2
  <2>4. \A m \in W \ {node'} : Child(x, m) \in W
    BY <1>1, <2>2
  <2> HIDE DEF W
  <2>5. \A S \in SUBSET DOMAIN tree' : Contains(S, x)' => node' \in S
    BY <1>1, <2>1 DEF Contains, Child, x
  <2>6. \E U \in SUBSET DOMAIN tree' :
          /\ root' \in U /\ node' \in U /\ x' \notin U \ {node'}
          /\ \A m \in U \ {node'} : Child(x, m)' \in U
    BY <1>1, <2>3, <2>4 DEF Child, x
  <2> QED BY <2>5, <2>6 DEF OnTheWay, x
<1> QED BY <1>4, <1>5, <1>6 DEF Search

(* The way of the search has ended: the page has no node. *)
LEMMA SearchFailed ==
    ASSUME Search, Updating, vPageRecord[i] # node, Child(vPageRecord[i], node) = NULL
    PROVE  vPageRecord[i] \notin DOMAIN tree
<1> DEFINE x == vPageRecord[i]
<1>1. PICK V \in SUBSET DOMAIN tree :
        /\ root \in V /\ node \in V /\ x \notin V \ {node}
        /\ \A m \in V \ {node} : Child(x, m) \in V
  BY DEF Search, OnTheWay
<1> HIDE DEF x
<1>2. Contains(V, x) BY <1>1 DEF Contains, x
<1>3. x \notin V BY <1>1 DEF x
<1> QED BY <1>2, <1>3 DEF Search, Findable, x

(* The page is new: its node is linked to the end of the way, so that the next *)
(* search for it gets there, and no other way changes. *)
LEMMA SearchInsert == Search /\ Insert => Search'
<1> SUFFICES ASSUME Search, Insert PROVE Search' OBVIOUS
<1> DEFINE p == vPageRecord[i]
           w == Side
           s == Linked(tree[node], w, p, i)
           grown == [q \in DOMAIN tree \cup {p} |->
                       IF q = p THEN NewNode(0) ELSE IF q = node THEN s ELSE tree[q]]
<1>1. /\ Updating /\ p # node /\ Child(p, node) = NULL /\ Return(NEVER)
      /\ tree' = Inserted(node, p, i)
  BY DEF Insert, Child, Way, Side
<1>2. tree' = grown
  BY <1>1, Zenon DEF Inserted
<1>0. w = Way(p, node) BY DEF Side, Way
<1>3. p \notin DOMAIN tree BY <1>1, SearchFailed
<1>4. /\ i \in 0 .. traceSize - 2 /\ traceSize \in Nat \ {0} /\ node \in DOMAIN tree
      /\ tree[node] \in Node /\ tree \in [DOMAIN tree -> Node] /\ p \in VPage
      /\ DOMAIN vPageRecord = 0 .. traceSize - 1 /\ w \in {"left", "right"}
  BY <1>1, <1>0, SearchFacts, TwoWays DEF Search, Nodes
<1>5. s \in Node /\ s.time = i /\ s[w] = p /\ \A u \in {"left", "right"} : u # w => s[u] = tree[node][u]
  <2>1. i \in Nat BY <1>4
  <2> HIDE DEF p, w
  <2> QED BY <1>4, <2>1, LinkedNode
<1>6. /\ i' = i - 1 /\ traceSize' = traceSize /\ vPageRecord' = vPageRecord /\ root' = root
      /\ node' = root /\ pc' = pc /\ time' = time /\ resident' = resident
      /\ nextAccessTime' = [nextAccessTime EXCEPT ![i] = NEVER]
  BY <1>1 DEF Return, replay, traceSize
<1>7. tree[node][w] = NULL BY <1>0, <1>1 DEF Child
<1>8. /\ NewNode(0) \in Node /\ NewNode(0).time = 0
      /\ \A u \in {"left", "right"} : NewNode(0)[u] = NULL
  BY FreshNode
<1> HIDE DEF traceSize, s, p, w
<1>9. /\ DOMAIN tree' = DOMAIN tree \cup {p} /\ tree'[p] = NewNode(0) /\ tree'[node] = s
      /\ \A q \in DOMAIN tree : q # node => tree'[q] = tree[q]
  BY <1>2, <1>3, <1>4
<1>10. \A q \in DOMAIN tree' : tree'[q] \in Node BY <1>4, <1>5, <1>8, <1>9
<1>11. \A q \in DOMAIN tree : \A u \in {"left", "right"} :
          \/ tree'[q][u] = tree[q][u]
          \/ tree[q][u] = NULL /\ tree'[q][u] = p
  BY <1>5, <1>7, <1>9
<1>12. Nodes'
  <2>1. tree' \in [DOMAIN tree' -> Node] BY <1>2, <1>10
  <2>2. ASSUME NEW q \in DOMAIN tree' PROVE tree'[q].time < traceSize'
    <3>1. CASE q = p BY <1>4, <1>6, <1>8, <1>9, <3>1
    <3>2. CASE q = node BY <1>4, <1>5, <1>6, <1>9, <3>2
    <3>3. CASE q # p /\ q # node BY <1>6, <1>9, <3>3 DEF Search, Nodes
    <3> QED BY <3>1, <3>2, <3>3
  <2>3. DOMAIN tree' = {vPageRecord[j] : j \in i .. traceSize - 1}
    BY <1>1, <1>9, PagesSeen DEF p
  <2>4. i' + 1 = i BY <1>4, <1>6
  <2> QED BY <1>6, <2>1, <2>2, <2>3, <2>4 DEF Nodes
<1>13. TypeOK'
  <2>1. \A q \in DOMAIN tree' : {tree'[q].left, tree'[q].right} \subseteq DOMAIN tree' \cup {NULL}
    <3>1. \A q \in DOMAIN tree : /\ tree'[q].left \in {tree[q].left, p}
                                /\ tree'[q].right \in {tree[q].right, p}
      BY <1>11
    <3>2. tree'[p].left = NULL /\ tree'[p].right = NULL BY <1>8, <1>9
    <3> QED BY <1>9, <3>1, <3>2 DEF Search, TypeOK
  <2>2. nextAccessTime' \in [DOMAIN vPageRecord -> -1 .. traceSize - 1]
    BY <1>4, <1>6 DEF Search, TypeOK, NEVER
  <2> QED BY <1>4, <1>6, <1>9, <2>1, <2>2 DEF Search, TypeOK
<1>14. Findable'
  <2>1. \A x : \A m \in DOMAIN tree : Child(x, m) # NULL => Child(x, m)' = Child(x, m)
    BY <1>11, TwoWays DEF Child, Way
  <2>2. \A x : \A m \in DOMAIN tree : Child(x, m) \in DOMAIN tree \cup {NULL}
    BY DEF Child, Way, Search, TypeOK
  <2>3. p # NULL /\ \A x, m : x = p /\ m = node => Child(x, m)' = p
    <3>1. tree'[node][Way(p, node)] = p BY <1>0, <1>5, <1>9
    <3>2. p # NULL BY <1>4, VPageAssumption DEF NULL
    <3> QED BY <3>1, <3>2 DEF Child, Way
  <2>4. ASSUME NEW x, NEW S \in SUBSET DOMAIN tree', Contains(S, x)'
        PROVE  Contains(S \cap DOMAIN tree, x)
    <3>1. root \in S /\ root \in DOMAIN tree BY <1>1, <1>6, <2>4, SearchFacts DEF Contains
    <3>2. ASSUME NEW m \in S \cap DOMAIN tree, m # x, Child(x, m) # NULL
          PROVE  Child(x, m) \in S \cap DOMAIN tree
      BY <2>1, <2>2, <2>4, <3>2 DEF Contains
    <3> QED BY <3>1, <3>2 DEF Contains
  <2>5. ASSUME NEW x \in DOMAIN tree', NEW S \in SUBSET DOMAIN tree', Contains(S, x)'
        PROVE  x \in S
    <3>1. S \cap DOMAIN tree \in SUBSET DOMAIN tree /\ Contains(S \cap DOMAIN tree, x)
      BY <2>4, <2>5
    <3>2. CASE x \in DOMAIN tree BY <3>1, <3>2 DEF Search, Findable
    <3>3. CASE x = p
      <4>1. node \in S BY <1>1, <3>1, <3>3 DEF Search, OnTheWay, p
      <4> QED BY <1>1, <2>3, <2>5, <3>3, <4>1 DEF Contains, p
    <3> QED BY <1>9, <3>2, <3>3
  <2> QED BY <2>5 DEF Findable
<1>15. Later(i) = {} BY <1>1, <1>3, PagesSeen DEF p
<1>16. NEVER \in -1 .. traceSize - 1 BY <1>4 DEF NEVER
<1> QED BY <1>1, <1>12, <1>13, <1>14, <1>15, <1>16, Returned

-----------------------------------------------------------------------------
(* The replay.                                                             *)

(* k is the last reference so far to the page in frame f. *)
LastUse(k, f) ==
  /\ vPageRecord[k] = resident[f] /\ coremapNext[f] = nextAccessTime[k]
  /\ \A j \in k + 1 .. time - 1 : vPageRecord[j] # resident[f]

(* No page is in two frames, and the coremap has the next access time of   *)
(* each page's last use.                                                   *)
Loaded ==
  /\ coremapNext \in [Frame -> Int]
  /\ pc = "init" => \A f \in Frame : resident[f] = NULL
  /\ \A f, g \in Frame : resident[f] # NULL /\ resident[f] = resident[g] => f = g
  /\ \A f \in Frame : resident[f] # NULL => \E k \in 0 .. time - 1 : LastUse(k, f)

(* A set of frames has a first one. *)
LEMMA FirstFrame ==
    ASSUME NEW S \in SUBSET Frame, S # {}
    PROVE  Min(S) \in S
<1>1. S \subseteq Nat BY DEF Frame
<1>2. PICK x \in S : \A y \in S : ~ (<<y, x>> \in OpToRel(<, Nat))
  BY <1>1, NatLessThanWellFounded, WFMin, Zenon
<1>3. ASSUME NEW y \in S, y < x PROVE FALSE
  <2>1. <<y, x>> \in Nat \X Nat /\ <<y, x>>[1] < <<y, x>>[2] BY <1>1, <1>3
  <2>2. <<y, x>> \in OpToRel(<, Nat) BY <2>1, Zenon DEF OpToRel
  <2> QED BY <1>2, <2>2, Zenon
<1>4. \A y \in S : x <= y BY <1>1, <1>3
<1> QED BY <1>4 DEF Min

(* At the start of the replay memory is empty. *)
LEMMA LoadedInit == Init => Loaded
<1> SUFFICES ASSUME Init PROVE Loaded OBVIOUS
<1>1. coremapNext \in [Frame -> Int] /\ \A f \in Frame : resident[f] = NULL
  BY DEF Init
<1> QED BY <1>1 DEF Loaded

(* opt_init does not touch the memory. *)
LEMMA LoadedSearching ==
    ASSUME Search, Loaded, Found \/ Descend \/ Insert
    PROVE  Loaded'
<1>1. /\ pc = "init" /\ resident' = resident /\ coremapNext' = coremapNext
  BY DEF Found, Descend, Insert, Updating, Return, replay
<1>2. \A f \in Frame : resident[f] = NULL BY <1>1 DEF Loaded
<1> QED BY <1>1, <1>2 DEF Loaded

(* The replay begins with the table complete. *)
LEMMA StartStep ==
    ASSUME Search, Loaded, StartReplay
    PROVE  Search' /\ Loaded'
<1>1. /\ pc = "init" /\ i < 0 /\ pc' = "replay"
      /\ UNCHANGED <<vPageRecord, nextAccessTime, tree, root, node, i, time, resident, coremapNext>>
  BY DEF StartReplay, table, search, replay
<1>2. traceSize \in Nat \ {0} /\ traceSize' = traceSize
  BY <1>1, TraceSize DEF Search, traceSize
<1> HIDE DEF traceSize
<1>3. i = -1 BY <1>1, <1>2 DEF Search, TypeOK
<1>4. Recorded' BY <1>1 DEF Search, Recorded
<1>5. TypeOK' BY <1>1, <1>2 DEF Search, TypeOK
<1>6. Nodes' BY <1>1, <1>2 DEF Search, Nodes
<1>7. Phase' BY <1>1, <1>2, <1>3 DEF Search, Phase
<1>8. Findable' BY <1>1 DEF Search, Findable, Contains, Child
<1>9. OnTheWay' BY <1>1 DEF OnTheWay, Updating
<1>10. NeverExact' BY <1>1, <1>2 DEF Search, NeverExact, Later
<1>11. Loaded' BY <1>1 DEF Loaded, LastUse
<1> QED BY <1>4, <1>5, <1>6, <1>7, <1>8, <1>9, <1>10, <1>11 DEF Search

(* A reference: its page is in frame f, and in no other. *)
LEMMA RefStep ==
    ASSUME Search, Loaded, pc = "replay", NEW f \in Frame, Ref(f),
           resident' = [resident EXCEPT ![f] = vPageRecord[time]],
           \A g \in Frame : g # f => resident[g] # vPageRecord[time]
    PROVE  Search' /\ Loaded'
<1>1. /\ coremapNext' = [coremapNext EXCEPT ![f] = nextAccessTime[time]]
      /\ time' = time + 1 /\ pc' = (IF time + 1 = traceSize THEN "done" ELSE "replay")
      /\ UNCHANGED <<vPageRecord, nextAccessTime, tree, root, node, i>>
  BY DEF Ref, table, search
<1>2. /\ traceSize \in Nat \ {0} /\ traceSize' = traceSize
      /\ DOMAIN vPageRecord = 0 .. traceSize - 1 /\ vPageRecord \in [0 .. traceSize - 1 -> VPage]
  BY <1>1, TraceSize DEF Search, traceSize
<1> HIDE DEF traceSize
<1>3. time \in 0 .. traceSize - 1 /\ i = -1 BY <1>2 DEF Search, TypeOK, Phase
<1>4. vPageRecord[time] \in VPage /\ nextAccessTime[time] \in Int
  BY <1>2, <1>3 DEF Search, TypeOK
<1>5. Recorded' BY <1>1 DEF Search, Recorded
<1>6. TypeOK'
  <2>1. resident' \in [Frame -> VPage \cup {NULL}] BY <1>4 DEF Search, TypeOK
  <2>2. time' \in 0 .. traceSize /\ pc' \in {"init", "replay", "done", "undefined"} BY <1>1, <1>2, <1>3
  <2> QED BY <1>1, <1>2, <2>1, <2>2 DEF Search, TypeOK
<1>7. Nodes' BY <1>1, <1>2 DEF Search, Nodes
<1>8. Phase' BY <1>1, <1>2, <1>3 DEF Phase
<1>9. Findable' BY <1>1 DEF Search, Findable, Contains, Child
<1>10. OnTheWay' BY <1>1 DEF OnTheWay, Updating
<1>11. NeverExact' BY <1>1, <1>2 DEF Search, NeverExact, Later
<1>12. /\ resident'[f] = vPageRecord[time] /\ coremapNext'[f] = nextAccessTime[time]
       /\ \A g \in Frame : g # f => resident'[g] = resident[g] /\ coremapNext'[g] = coremapNext[g]
       /\ coremapNext' \in [Frame -> Int]
  BY <1>1, <1>4 DEF Search, TypeOK, Loaded
<1>13. Loaded'
  <2>1. \A g, h \in Frame : resident'[g] # NULL /\ resident'[g] = resident'[h] => g = h
    BY <1>12 DEF Loaded
  <2>2. ASSUME NEW g \in Frame, resident'[g] # NULL
        PROVE  \E k \in 0 .. time' - 1 : LastUse(k, g)'
    <3>1. CASE g = f
      <4>1. time \in 0 .. time' - 1 /\ time + 1 .. time' - 1 = {} BY <1>1, <1>2, <1>3
      <4>2. \A k : k = time => LastUse(k, g)' BY <1>1, <1>12, <3>1, <4>1 DEF LastUse
      <4> QED BY <4>1, <4>2
    <3>2. CASE g # f
      <4>1. PICK k \in 0 .. time - 1 : LastUse(k, g) BY <1>12, <2>2, <3>2 DEF Loaded
      <4>2. k \in 0 .. time' - 1 /\ k + 1 .. time' - 1 = (k + 1 .. time - 1) \cup {time}
        BY <1>1, <1>2, <1>3, <4>1
      <4>3. vPageRecord[time] # resident[g] BY <3>2
      <4> QED BY <1>1, <1>12, <3>2, <4>1, <4>2, <4>3 DEF LastUse
    <3> QED BY <3>1, <3>2
  <2>3. pc' # "init" BY <1>1
  <2> QED BY <1>12, <2>1, <2>2, <2>3 DEF Loaded
<1> QED BY <1>5, <1>6, <1>7, <1>8, <1>9, <1>10, <1>11, <1>13 DEF Search

(* The frame that is filled belongs to no page that is in memory. *)
LEMMA LoadStep ==
    ASSUME Search, Loaded, pc = "replay", NEW f \in Frame, Ref(f),
           Holds(vPageRecord[time]) = {},
           resident' = [resident EXCEPT ![f] = vPageRecord[time]]
    PROVE  Search' /\ Loaded'
<1>1. \A g \in Frame : resident[g] # vPageRecord[time] BY DEF Holds
<1> QED BY <1>1, RefStep

(* The replay keeps the invariant. *)
LEMMA ReplayStep ==
    ASSUME Search, Loaded, Hit \/ Allocate \/ Evict
    PROVE  Search' /\ Loaded'
<1>1. CASE Hit
  <2>1. PICK f \in Holds(vPageRecord[time]) : Ref(f) /\ UNCHANGED resident
    BY <1>1 DEF Hit
  <2>2. pc = "replay" /\ f \in Frame /\ resident[f] = vPageRecord[time]
    BY <1>1 DEF Hit, Holds
  <2>3. resident' = [resident EXCEPT ![f] = vPageRecord[time]]
    BY <2>1, <2>2 DEF Search, TypeOK
  <2>4. vPageRecord[time] # NULL
    <3>1. vPageRecord \in [0 .. traceSize - 1 -> VPage] /\ traceSize \in Nat
      BY TraceSize DEF Search
    <3> HIDE DEF traceSize
    <3>2. time \in 0 .. traceSize - 1 BY <2>2, <3>1 DEF Search, TypeOK, Phase
    <3>3. vPageRecord[time] \in VPage BY <3>1, <3>2
    <3> QED BY <3>3, VPageAssumption DEF NULL
  <2>5. \A g \in Frame : g # f => resident[g] # vPageRecord[time]
    BY <2>2, <2>4 DEF Loaded
  <2> QED BY <2>1, <2>2, <2>3, <2>5, RefStep
<1>2. CASE Allocate
  <2> DEFINE f == Min(Holds(NULL))
  <2>1. f \in Frame BY <1>2, FirstFrame DEF Allocate, Holds
  <2>2. Ref(f) /\ resident' = [resident EXCEPT ![f] = vPageRecord[time]]
    BY <1>2 DEF Allocate
  <2> HIDE DEF f
  <2> QED BY <1>2, <2>1, <2>2, LoadStep DEF Allocate
<1>3. CASE Evict
  <2>1. PICK f \in (IF Victim # {} THEN Victim ELSE Frame) :
          Ref(f) /\ resident' = [resident EXCEPT ![f] = vPageRecord[time]]
    BY <1>3 DEF Evict
  <2>2. f \in Frame BY <2>1, FirstFrame DEF Victim
  <2> QED BY <1>3, <2>1, <2>2, LoadStep DEF Evict, MustEvict
<1> QED BY <1>1, <1>2, <1>3

(* What opt_evict returns outside the coremap ends the replay. *)
LEMMA OutsideStep ==
    ASSUME Search, Loaded, EvictOutside
    PROVE  Search' /\ Loaded'
<1>1. /\ pc = "replay" /\ pc' = "undefined"
      /\ UNCHANGED <<vPageRecord, nextAccessTime, tree, root, node, i, time, resident, coremapNext>>
  BY DEF EvictOutside, MustEvict, table, search, replay
<1>2. Recorded' BY <1>1 DEF Search, Recorded
<1>3. TypeOK' BY <1>1 DEF Search, TypeOK, traceSize
<1>4. Nodes' BY <1>1 DEF Search, Nodes, traceSize
<1>5. Phase' BY <1>1 DEF Search, Phase, traceSize
<1>6. Findable' BY <1>1 DEF Search, Findable, Contains, Child
<1>7. OnTheWay' BY <1>1 DEF OnTheWay, Updating
<1>8. NeverExact' BY <1>1 DEF Search, NeverExact, Later, traceSize
<1>9. Loaded' BY <1>1 DEF Loaded, LastUse
<1> QED BY <1>2, <1>3, <1>4, <1>5, <1>6, <1>7, <1>8, <1>9 DEF Search

(* Every step keeps the invariant. *)
LEMMA OptStep ==
    ASSUME Search, Loaded, [Next]_vars
    PROVE  Search' /\ Loaded'
<1>1. CASE Found BY <1>1, SearchFound, LoadedSearching
<1>2. CASE Descend BY <1>2, SearchDescend, LoadedSearching
<1>3. CASE Insert BY <1>3, SearchInsert, LoadedSearching
<1>4. CASE StartReplay BY <1>4, StartStep
<1>5. CASE Hit \/ Allocate \/ Evict BY <1>5, ReplayStep
<1>6. CASE EvictOutside BY <1>6, OutsideStep
<1>7. CASE UNCHANGED vars
  <2>1. UNCHANGED <<pc, vPageRecord, nextAccessTime, tree, root, node, i, time, resident, coremapNext>>
    BY <1>7 DEF vars, table, search, replay
  <2>2. Recorded' BY <2>1 DEF Search, Recorded
  <2>3. TypeOK' BY <2>1 DEF Search, TypeOK, traceSize
  <2>4. Nodes' BY <2>1 DEF Search, Nodes, traceSize
  <2>5. Phase' BY <2>1 DEF Search, Phase, traceSize
  <2>6. Findable' BY <2>1 DEF Search, Findable, Contains, Child
  <2>7. OnTheWay' BY <2>1 DEF Search, OnTheWay, Updating, Contains, Child
  <2>8. NeverExact' BY <2>1 DEF Search, NeverExact, Later, traceSize
  <2>9. Loaded' BY <2>1 DEF Loaded, LastUse
  <2> QED BY <2>2, <2>3, <2>4, <2>5, <2>6, <2>7, <2>8, <2>9 DEF Search
<1> QED BY <1>1, <1>2, <1>3, <1>4, <1>5, <1>6, <1>7 DEF Next

(* The invariant holds at all times. *)
LEMMA OptHolds == Spec => [](Search /\ Loaded)
<1>1. Init => Search /\ Loaded BY SearchInit, LoadedInit
<1>2. Search /\ Loaded /\ [Next]_vars => Search' /\ Loaded' BY OptStep
<1> QED BY <1>1, <1>2, PTL DEF Spec

(* Table, tree and memory keep their types: no index leaves the trace, and *)
(* no child of a node is a page without a node. *)
THEOREM TypeOKHolds == Spec => []TypeOK
<1>1. Search => TypeOK BY DEF Search
<1> QED BY <1>1, OptHolds, PTL

(* The table says "never again" exactly where that is so, for every trace. *)
THEOREM NeverExactHolds == Spec => []NeverExact
<1>1. Search => NeverExact BY DEF Search
<1> QED BY <1>1, OptHolds, PTL

(* The coremap says of a page in memory that it is never used again exactly *)
(* if that is so. *)
LEMMA Unneeded ==
    ASSUME Search, Loaded, pc = "replay", NEW f \in Frame, resident[f] # NULL
    PROVE  coremapNext[f] = NEVER <=> Coming(resident[f]) = {}
<1>1. traceSize \in Nat /\ DOMAIN vPageRecord = 0 .. traceSize - 1 BY TraceSize DEF Search
<1> HIDE DEF traceSize
<1>2. time \in 0 .. traceSize - 1 /\ i = -1 BY <1>1 DEF Search, TypeOK, Phase
<1>3. PICK k \in 0 .. time - 1 : LastUse(k, f) BY DEF Loaded
<1>4. k \in DOMAIN vPageRecord /\ k > i /\ k < traceSize - 1 BY <1>1, <1>2, <1>3
<1>5. coremapNext[f] = NEVER <=> Later(k) = {} BY <1>3, <1>4 DEF Search, NeverExact, LastUse
<1>6. Later(k) = Coming(resident[f])
  <2>1. ASSUME NEW j \in DOMAIN vPageRecord, vPageRecord[j] = resident[f]
        PROVE  j > k <=> j >= time
    <3>1. j \notin k + 1 .. time - 1 BY <1>3, <2>1 DEF LastUse
    <3> QED BY <1>1, <1>2, <1>3, <2>1, <3>1
  <2> QED BY <1>3, <2>1 DEF Later, Coming, LastUse
<1> QED BY <1>5, <1>6

(* opt_evict throws out a page that is not used any more if memory holds one, *)
(* for every trace and every memory: the wrong times of the table do no harm *)
(* to this part of the algorithm. *)
THEOREM UnneededFirstHolds == Spec => UnneededFirst
<1>1. ASSUME Search, Loaded, Evict \/ EvictOutside, NEW f \in Frame, Coming(resident[f]) = {}
      PROVE  \E g \in Frame : Coming(resident[g]) = {} /\ resident'[g] # resident[g]
  <2> DEFINE never == {g \in Frame : coremapNext[g] = NEVER}
             g == Min(never)
  <2>1. pc = "replay" /\ Holds(NULL) = {} /\ Holds(vPageRecord[time]) = {} BY <1>1 DEF Evict, EvictOutside, MustEvict
  <2>2. \A h \in Frame : resident[h] # NULL /\ resident[h] # vPageRecord[time]
    BY <2>1 DEF Holds
  <2>3. \A h \in Frame : coremapNext[h] = NEVER <=> Coming(resident[h]) = {}
    BY <1>1, <2>1, <2>2, Unneeded
  <2>4. never # {} /\ never \in SUBSET Frame BY <1>1, <2>3
  <2>5. Victim = {g} /\ Evict BY <1>1, <2>4 DEF Victim, EvictOutside
  <2>6. g \in never BY <2>4, FirstFrame
  <2> HIDE DEF g
  <2>7. resident' = [resident EXCEPT ![g] = vPageRecord[time]] BY <2>5 DEF Evict
  <2>8. g \in Frame /\ resident'[g] = vPageRecord[time]
    BY <1>1, <2>6, <2>7 DEF Search, TypeOK
  <2> QED BY <2>2, <2>3, <2>6, <2>8
<1>2. Search /\ Loaded /\ [Next]_vars =>
        [Evict \/ EvictOutside =>
           \/ \A f \in Frame : Coming(resident[f]) # {}
           \/ \E f \in Frame : /\ Coming(resident[f]) = {}
                               /\ resident'[f] # resident[f]]_vars
  BY <1>1
<1> QED BY <1>2, OptHolds, PTL DEF Spec, UnneededFirst

=============================================================================
