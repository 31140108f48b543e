---------------------------- MODULE Ext2TreeProofs ----------------------------
(***************************************************************************)
(* The directories of an image, of any depth, on a disk of any size.       *)
(* The inductive invariant is TreeInv: DiskSound, that the image fits      *)
(* together, and UndoSound, that after the removal of a file the image     *)
(* before it does and differs by that file alone.  NamesInv adds that      *)
(* names in a directory differ, for the tree of names.  The walks that     *)
(* the model defines by recursion (Chain, cd, Subtree, Tree) are brought   *)
(* to what the invariant speaks of by looking at the least place where     *)
(* they would part.                                                        *)
(***************************************************************************)
EXTENDS Ext2Proofs, SequenceTheorems

-----------------------------------------------------------------------------
(* The chain of a block.                                                   *)

\* Where the walk goes from slot s of headers h, if there is a header.
Leads(h, s, t) == t = s + h[s].rec_len /\ t \in Slot /\ h[t].rec_len > 0

\* A set of slots that a walk by rec_len does not leave.
Closed(h, S) == \A s \in S, t \in Slot : Leads(h, s, t) => t \in S

\* The slots a walk from slot x comes to.
LinksFrom(h, x) ==
  {s \in Slot : \A S \in SUBSET Slot :
     Closed(h, S) /\ (x \in Slot /\ h[x].rec_len > 0 => x \in S) => s \in S}

Links(h) == LinksFrom(h, 1)

(* The lengths of headers are numbers. *)
LEMMA Lengths ==
  \A h \in Headers, s \in Slot : /\ h[s].rec_len \in Nat /\ s \in Nat /\ s >= 1
                                 /\ s + h[s].rec_len <= SLOTS + 1
BY EntryLength, SizesAssumption DEF Headers, Slot

(* The walk from a slot comes to it, and goes on from every slot. *)
LEMMA LinksStep ==
  ASSUME NEW h \in Headers, NEW x \in Nat
  PROVE  /\ x \in Slot /\ h[x].rec_len > 0 => x \in LinksFrom(h, x)
         /\ Closed(h, LinksFrom(h, x))
         /\ \A s \in LinksFrom(h, x) : s \in Slot /\ h[s].rec_len > 0
<1>1. x \in Slot /\ h[x].rec_len > 0 => x \in LinksFrom(h, x) BY DEF LinksFrom
<1>2. Closed(h, LinksFrom(h, x))
  BY DEF LinksFrom, Closed
<1>3. ASSUME NEW s \in LinksFrom(h, x) PROVE s \in Slot /\ h[s].rec_len > 0
  <2> DEFINE S == {t \in Slot : h[t].rec_len > 0}
  <2>1. Closed(h, S) BY DEF Closed, Leads
  <2> QED BY <2>1 DEF LinksFrom
<1> QED BY <1>1, <1>2, <1>3

(* It comes to no slot that it need not come to. *)
LEMMA LinksLeast ==
  ASSUME NEW h, NEW x, NEW S \in SUBSET Slot, Closed(h, S),
         x \in Slot /\ h[x].rec_len > 0 => x \in S
  PROVE  LinksFrom(h, x) \subseteq S
BY DEF LinksFrom

(* The walk from a slot is that slot and the walk from the next. *)
LEMMA LinksUnfold ==
  ASSUME NEW h \in Headers, NEW x \in Nat
  PROVE  LinksFrom(h, x) = IF x \in Slot /\ h[x].rec_len > 0
                           THEN {x} \cup LinksFrom(h, x + h[x].rec_len)
                           ELSE {}
<1>1. CASE ~(x \in Slot /\ h[x].rec_len > 0)
  <2>1. Closed(h, {}) BY DEF Closed
  <2> QED BY <1>1, <2>1, LinksLeast
<1>2. CASE x \in Slot /\ h[x].rec_len > 0
  <2> DEFINE y == x + h[x].rec_len
             X == LinksFrom(h, x)
             Y == LinksFrom(h, y)
  <2>1. y \in Nat BY <1>2, Lengths
  <2>2. x \in X /\ Closed(h, X) /\ X \subseteq Slot BY <1>2, LinksStep
  <2>3. /\ y \in Slot /\ h[y].rec_len > 0 => y \in Y
        /\ Closed(h, Y) /\ Y \subseteq Slot
    BY <2>1, LinksStep
  <2>4. Y \subseteq X
    <3>1. y \in Slot /\ h[y].rec_len > 0 => y \in X
      BY <2>2 DEF Closed, Leads
    <3> HIDE DEF y, X
    <3> QED BY <2>2, <3>1, LinksLeast
  <2>5. X \subseteq {x} \cup Y
    <3>1. Closed(h, {x} \cup Y) BY <2>3 DEF Closed, Leads
    <3>2. {x} \cup Y \in SUBSET Slot BY <1>2, <2>3
    <3> HIDE DEF y, Y
    <3> QED BY <3>1, <3>2, LinksLeast
  <2> QED BY <1>2, <2>2, <2>4, <2>5
<1> QED BY <1>1, <1>2

(* The chain of a block, as the model walks it. *)
LEMMA ChainIsLinks ==
  ASSUME NEW b, dirs[b] \in Headers
  PROVE  Chain(b) = Links(dirs[b])
<1> DEFINE h == dirs[b]
           Walk(f) == [s \in Nat |-> IF s \in Slot /\ dirs[b][s].rec_len > 0
                                     THEN {s} \cup f[s + dirs[b][s].rec_len]
                                     ELSE {}]
           From == CHOOSE f : f = Walk(f)
           W == [s \in Nat |-> LinksFrom(h, s)]
<1>1. W = Walk(W)
  <2>1. \A s \in Nat : s \in Slot => s + h[s].rec_len \in Nat BY Lengths
  <2>2. ASSUME NEW s \in Nat PROVE W[s] = Walk(W)[s]
    <3>1. W[s] = LinksFrom(h, s) OBVIOUS
    <3>2. s \in Slot => W[s + h[s].rec_len] = LinksFrom(h, s + h[s].rec_len) BY <2>1
    <3> QED BY <3>1, <3>2, LinksUnfold
  <2> QED BY <2>2
<1>2. ASSUME NEW f, f = Walk(f), NEW x \in Nat PROVE f[x] = W[x]
  <2> DEFINE X == {y \in Nat : f[y] # W[y]}
             N == {SLOTS - y : y \in X}
  <2> SUFFICES ASSUME X # {} PROVE FALSE OBVIOUS
  <2>1. ASSUME NEW y \in Nat
        PROVE  f[y] = IF y \in Slot /\ h[y].rec_len > 0 THEN {y} \cup f[y + h[y].rec_len] ELSE {}
    BY <1>2
  <2>2. ASSUME NEW y \in Nat
        PROVE  W[y] = IF y \in Slot /\ h[y].rec_len > 0 THEN {y} \cup W[y + h[y].rec_len] ELSE {}
    BY <1>1
  <2> HIDE DEF W
  <2>3. X \subseteq Slot BY <2>1, <2>2
  <2>4. N \subseteq Nat /\ N # {} BY <2>3, SizesAssumption DEF Slot
  <2>5. PICK m \in N : \A n \in N : m <= n
    <3> HIDE DEF N
    <3> QED BY <2>4, LeastFound
  <2>6. PICK y \in X : m = SLOTS - y OBVIOUS
  <2>7. y \in Slot /\ h[y].rec_len > 0 BY <2>1, <2>2, <2>3
  <2> DEFINE z == y + h[y].rec_len
  <2>8. z \in Nat /\ z > y BY <2>7, Lengths
  <2>9. f[z] # W[z] BY <2>1, <2>2, <2>7
  <2>10. z \in X BY <2>8, <2>9
  <2>11. SLOTS - z \in N BY <2>10
  <2>12. m <= SLOTS - z
    <3> HIDE DEF N, X, z
    <3> QED BY <2>5, <2>11
  <2>13. y \in Nat /\ SLOTS \in Nat BY <2>7, SizesAssumption DEF Slot
  <2> HIDE DEF N, X, z
  <2> QED BY <2>6, <2>8, <2>12, <2>13
<1>3. From = Walk(From) BY <1>1
<1>4. From[1] = W[1] BY <1>2, <1>3
<1>5. Chain(b) = From[1] BY DEF Chain
<1> QED BY <1>4, <1>5 DEF Links

-----------------------------------------------------------------------------
(* The shape of a directory block.                                         *)

\* The first two headers are in the chain; no header before a slot of the chain,
\* whether in the chain or not, is without a length or leads past that slot; the
\* chain ends with the block.
Shape(h) ==
  /\ 1 \in Links(h) /\ 2 \in Links(h)
  /\ \A c \in Links(h), s \in Slot : s < c => h[s].rec_len >= 1 /\ s + h[s].rec_len <= c
  /\ \E s \in Links(h) : s + h[s].rec_len = SLOTS + 1

(* The chain of a block, in the words of its two first lemmas. *)
LEMMA LinksFacts ==
  ASSUME NEW h \in Headers
  PROVE  /\ \A s \in Links(h) : s \in Slot /\ h[s].rec_len > 0
         /\ h[1].rec_len > 0 => 1 \in Links(h)
         /\ \A s \in Links(h), t \in Slot : Leads(h, s, t) => t \in Links(h)
         /\ \A S \in SUBSET Slot : Closed(h, S) /\ 1 \in S => Links(h) \subseteq S
<1>1. 1 \in Nat /\ 1 \in Slot BY SizesAssumption DEF Slot
<1>2. \A S \in SUBSET Slot : Closed(h, S) /\ 1 \in S => Links(h) \subseteq S
  BY LinksLeast DEF Links
<1> QED BY <1>1, <1>2, LinksStep DEF Links, Closed

(* The first header with room to spare is in the chain, and all before it are:  *)
(* a search that walks by the size of the names meets no gap before it.          *)
LEMMA RoomInChain ==
  ASSUME NEW h \in Headers, Shape(h), NEW r \in Slot, h[r].rec_len >= 2,
         \A s \in Slot : h[s].rec_len >= 2 => r <= s
  PROVE  \A s \in Slot : s <= r => s \in Links(h)
<1>1. /\ \A s \in Links(h) : s \in Slot /\ h[s].rec_len > 0
      /\ \A s \in Links(h), t \in Slot : Leads(h, s, t) => t \in Links(h)
  BY LinksFacts
<1>2. PICK e \in Links(h) : e + h[e].rec_len = SLOTS + 1 BY DEF Shape
<1>3. \A s \in Slot : /\ h[s].rec_len \in Nat /\ s \in Nat /\ s >= 1
                       /\ s + h[s].rec_len <= SLOTS + 1
  BY Lengths
<1>4. e >= r
  <2>1. e < r => h[e].rec_len = 1 BY <1>1, <1>2, <1>3
  <2> QED BY <1>1, <1>2, <1>3, <2>1, SizesAssumption DEF Slot
<1>5. \A s \in Slot : s <= r => h[s].rec_len >= 1
  <2>1. \A s \in Slot : s < e => h[s].rec_len >= 1 BY <1>2 DEF Shape
  <2> QED BY <1>1, <1>2, <1>3, <1>4, <2>1
<1> DEFINE X == {s \in Slot : s <= r /\ s \notin Links(h)}
<1> SUFFICES ASSUME X # {} PROVE FALSE OBVIOUS
<1>6. PICK x \in X : \A y \in X : x <= y
  <2>1. X \subseteq Nat BY <1>3
  <2> HIDE DEF X
  <2> QED BY <2>1, LeastFound
<1>7. x # 1 BY DEF Shape
<1>8. x - 1 \in Slot /\ x - 1 < r BY <1>3, <1>6, <1>7, SizesAssumption DEF Slot
<1>9. x - 1 \in Links(h)
  <2>1. x - 1 \notin X BY <1>3, <1>6
  <2> QED BY <1>3, <1>8, <2>1
<1>10. h[x - 1].rec_len = 1 BY <1>3, <1>5, <1>8
<1>11. Leads(h, x - 1, x) BY <1>3, <1>5, <1>10 DEF Leads
<1> QED BY <1>1, <1>9, <1>11

(* An entry that is put behind the first header with room to spare, and takes   *)
(* over what is behind it, joins the chain.                                      *)
LEMMA AddedToChain ==
  ASSUME NEW h \in Headers, Shape(h), NEW r \in Slot, h[r].rec_len >= 2,
         \A s \in Slot : h[s].rec_len >= 2 => r <= s,
         NEW w \in Headers, NEW t, t = r + 1,
         w[r].rec_len = 1, w[t].rec_len = h[r].rec_len - 1,
         \A s \in Slot \ {r, t} : w[s].rec_len = h[s].rec_len
  PROVE  Shape(w) /\ Links(w) = Links(h) \cup {t} /\ t \in Slot /\ t \notin Links(h)
<1>1. /\ \A s \in Links(h) : s \in Slot /\ h[s].rec_len > 0
      /\ \A s \in Links(h), u \in Slot : Leads(h, s, u) => u \in Links(h)
      /\ \A S \in SUBSET Slot : Closed(h, S) /\ 1 \in S => Links(h) \subseteq S
  BY LinksFacts
<1>2. /\ \A s \in Links(w) : s \in Slot /\ w[s].rec_len > 0
      /\ w[1].rec_len > 0 => 1 \in Links(w)
      /\ \A s \in Links(w), u \in Slot : Leads(w, s, u) => u \in Links(w)
      /\ \A S \in SUBSET Slot : Closed(w, S) /\ 1 \in S => Links(w) \subseteq S
  BY LinksFacts
<1>3. \A s \in Slot : /\ h[s].rec_len \in Nat /\ w[s].rec_len \in Nat /\ s \in Nat /\ s >= 1
                       /\ s + h[s].rec_len <= SLOTS + 1 /\ s + w[s].rec_len <= SLOTS + 1
  BY Lengths
<1>4. r \in Links(h) BY RoomInChain, <1>3
<1>5. /\ 1 \in Links(h) /\ 2 \in Links(h)
      /\ \A c \in Links(h), s \in Slot : s < c => h[s].rec_len >= 1 /\ s + h[s].rec_len <= c
  BY DEF Shape
<1>6. t \in Slot BY <1>3, SizesAssumption DEF Slot
<1>7. t \notin Links(h) BY <1>3, <1>5, <1>6
<1>8. \A s \in Slot \ {t} : h[s].rec_len > 0 <=> w[s].rec_len > 0 BY <1>3
<1>9. \A s \in Links(h) : s # r => s + h[s].rec_len # t
  BY <1>1, <1>3, <1>4, <1>5
<1>10. Links(w) \subseteq Links(h) \cup {t}
  <2>1. Closed(w, Links(h) \cup {t})
    <3> SUFFICES ASSUME NEW s \in Links(h) \cup {t}, NEW u \in Slot, Leads(w, s, u), u # t
                 PROVE  u \in Links(h)
      BY DEF Closed
    <3>1. h[u].rec_len > 0 BY <1>8 DEF Leads
    <3>2. CASE s = t
      <4>1. u = r + h[r].rec_len BY <3>2, <1>3, <1>6 DEF Leads
      <4> QED BY <1>1, <1>4, <3>1, <4>1 DEF Leads
    <3>3. CASE s = r BY <3>3, <1>3 DEF Leads
    <3>4. CASE s \in Links(h) /\ s # r /\ s # t
      <4>1. Leads(h, s, u) BY <1>1, <3>1, <3>4 DEF Leads
      <4> QED BY <1>1, <3>4, <4>1
    <3> QED BY <3>2, <3>3, <3>4
  <2>2. Links(h) \cup {t} \in SUBSET Slot BY <1>1, <1>6
  <2> QED BY <1>2, <1>5, <2>1, <2>2
<1>11. Links(h) \subseteq Links(w) \ {t}
  <2>1. Closed(h, Links(w) \ {t})
    <3> SUFFICES ASSUME NEW s \in Links(w) \ {t}, NEW u \in Slot, Leads(h, s, u)
                 PROVE  u \in Links(w) \ {t}
      BY DEF Closed
    <3>1. s \in Links(h) BY <1>10
    <3>2. u \in Links(h) BY <1>1, <3>1
    <3>3. u # t BY <1>7, <3>2
    <3>4. w[u].rec_len > 0 BY <1>1, <1>8, <3>2, <3>3
    <3>5. CASE s # r
      <4>1. Leads(w, s, u) BY <1>1, <3>1, <3>4, <3>5 DEF Leads
      <4> QED BY <1>2, <3>3, <4>1
    <3>6. CASE s = r
      <4>1. Leads(w, r, t) BY <1>3, <1>6 DEF Leads
      <4>2. t \in Links(w) BY <1>2, <1>6, <3>6, <4>1
      <4>3. Leads(w, t, u) BY <1>3, <1>6, <3>4, <3>6 DEF Leads
      <4> QED BY <1>2, <3>3, <4>2, <4>3
    <3> QED BY <3>5, <3>6
  <2>2. 1 \in Links(w) /\ 1 # t
    <3>1. 1 \in Slot /\ h[1].rec_len > 0 /\ 1 # t BY <1>1, <1>3, <1>5
    <3> QED BY <1>2, <1>8, <3>1
  <2>3. Links(w) \ {t} \in SUBSET Slot BY <1>2
  <2> QED BY <1>1, <2>1, <2>2, <2>3
<1>12. t \in Links(w)
  <2>1. r \in Links(w) BY <1>4, <1>11
  <2>2. Leads(w, r, t) BY <1>3, <1>6 DEF Leads
  <2> QED BY <1>2, <1>6, <2>1, <2>2
<1>13. Links(w) = Links(h) \cup {t} BY <1>10, <1>11, <1>12
<1>14. \A c \in Links(w), s \in Slot : s < c => w[s].rec_len >= 1 /\ s + w[s].rec_len <= c
  <2> SUFFICES ASSUME NEW c \in Links(w), NEW s \in Slot, s < c
               PROVE  w[s].rec_len >= 1 /\ s + w[s].rec_len <= c
    OBVIOUS
  <2>1. CASE s = r BY <2>1, <1>2, <1>3
  <2>2. CASE s = t
    <3>1. c \in Links(h) BY <2>2, <1>13, <1>2, <1>3
    <3>2. r < c BY <2>2, <1>3, <1>1, <3>1
    <3>3. r + h[r].rec_len <= c BY <1>5, <3>1, <3>2
    <3> QED BY <2>2, <1>3, <1>6, <3>3
  <2>3. CASE s # r /\ s # t
    <3>1. CASE c \in Links(h) BY <1>5, <2>3, <3>1
    <3>2. CASE c = t
      <4>1. s < r BY <2>3, <3>2, <1>3
      <4>2. h[s].rec_len >= 1 /\ s + h[s].rec_len <= r BY <1>4, <1>5, <4>1
      <4> QED BY <2>3, <3>2, <4>2, <1>3
    <3> QED BY <1>13, <3>1, <3>2
  <2> QED BY <2>1, <2>2, <2>3
<1>15. \E s \in Links(w) : s + w[s].rec_len = SLOTS + 1
  <2>1. PICK e \in Links(h) : e + h[e].rec_len = SLOTS + 1 BY DEF Shape
  <2>2. CASE e = r
    <3>1. t + w[t].rec_len = SLOTS + 1 BY <2>1, <2>2, <1>3, <1>6
    <3> QED BY <1>12, <3>1
  <2>3. CASE e # r
    <3>1. e # t /\ e \in Slot BY <1>1, <1>7
    <3>2. w[e].rec_len = h[e].rec_len BY <2>3, <3>1
    <3> QED BY <1>13, <2>1, <3>2
  <2> QED BY <2>2, <2>3
<1> QED BY <1>5, <1>6, <1>7, <1>13, <1>14, <1>15 DEF Shape

(* Every entry but the first has one in the chain that leads to it. *)
LEMMA LedTo ==
  ASSUME NEW h \in Headers, Shape(h), NEW s \in Links(h), s # 1
  PROVE  \E q \in Links(h) : /\ q + h[q].rec_len = s /\ q < s
                             /\ \A p \in Links(h) : p + h[p].rec_len = s => p = q
<1>1. /\ \A x \in Links(h) : x \in Slot /\ h[x].rec_len > 0
      /\ \A x \in Links(h), u \in Slot : Leads(h, x, u) => u \in Links(h)
      /\ \A S \in SUBSET Slot : Closed(h, S) /\ 1 \in S => Links(h) \subseteq S
  BY LinksFacts
<1>2. \A x \in Slot : h[x].rec_len \in Nat /\ x \in Nat /\ x >= 1 BY Lengths
<1>3. PICK q \in Links(h) : q + h[q].rec_len = s
  <2> SUFFICES ASSUME \A q \in Links(h) : q + h[q].rec_len # s PROVE FALSE OBVIOUS
  <2>1. Closed(h, Links(h) \ {s}) BY <1>1 DEF Closed, Leads
  <2>2. 1 \in Links(h) \ {s} BY DEF Shape
  <2>3. Links(h) \ {s} \in SUBSET Slot BY <1>1
  <2> QED BY <1>1, <2>1, <2>2, <2>3
<1>4. q < s BY <1>1, <1>2, <1>3
<1>5. ASSUME NEW p \in Links(h), p + h[p].rec_len = s PROVE p = q
  <2>1. p < s BY <1>1, <1>2, <1>5
  <2>2. ~ (p < q) /\ ~ (q < p) BY <1>1, <1>2, <1>3, <1>4, <1>5, <2>1 DEF Shape
  <2> QED BY <1>1, <1>2, <2>2
<1> QED BY <1>3, <1>4, <1>5

(* An entry whose length the one before it takes over leaves the chain, and     *)
(* nothing else does.                                                            *)
LEMMA RemovedFromChain ==
  ASSUME NEW h \in Headers, Shape(h), NEW s \in Links(h), s >= 3,
         NEW q \in Links(h), q + h[q].rec_len = s,
         NEW w \in Headers, w[q].rec_len = h[q].rec_len + h[s].rec_len,
         \A x \in Slot \ {q} : w[x].rec_len = h[x].rec_len
  PROVE  Shape(w) /\ Links(w) = Links(h) \ {s}
<1>1. /\ \A x \in Links(h) : x \in Slot /\ h[x].rec_len > 0
      /\ \A x \in Links(h), u \in Slot : Leads(h, x, u) => u \in Links(h)
      /\ \A S \in SUBSET Slot : Closed(h, S) /\ 1 \in S => Links(h) \subseteq S
  BY LinksFacts
<1>2. /\ \A x \in Links(w) : x \in Slot /\ w[x].rec_len > 0
      /\ w[1].rec_len > 0 => 1 \in Links(w)
      /\ \A x \in Links(w), u \in Slot : Leads(w, x, u) => u \in Links(w)
      /\ \A S \in SUBSET Slot : Closed(w, S) /\ 1 \in S => Links(w) \subseteq S
  BY LinksFacts
<1>3. \A x \in Slot : /\ h[x].rec_len \in Nat /\ w[x].rec_len \in Nat /\ x \in Nat /\ x >= 1
                       /\ x + h[x].rec_len <= SLOTS + 1 /\ x + w[x].rec_len <= SLOTS + 1
  BY Lengths
<1>4. q \in Slot /\ s \in Slot /\ q < s BY <1>1, <1>3
<1>5. /\ 1 \in Links(h) /\ 2 \in Links(h)
      /\ \A c \in Links(h), x \in Slot : x < c => h[x].rec_len >= 1 /\ x + h[x].rec_len <= c
  BY DEF Shape
<1>6. \A x \in Slot : h[x].rec_len > 0 <=> w[x].rec_len > 0 BY <1>1, <1>3, <1>4
<1>7. \A x \in Links(h) : x + h[x].rec_len = s => x = q
  <2>1. \A x \in Links(h) : x + h[x].rec_len = s => x < s BY <1>1, <1>3
  <2> QED BY <1>1, <1>3, <1>4, <1>5, <2>1
<1>8. Links(w) \subseteq Links(h) \ {s}
  <2>1. Closed(w, Links(h) \ {s})
    <3> SUFFICES ASSUME NEW x \in Links(h) \ {s}, NEW u \in Slot, Leads(w, x, u)
                 PROVE  u \in Links(h) /\ u # s
      BY DEF Closed
    <3>1. CASE x # q
      <4>1. Leads(h, x, u) BY <1>1, <1>6, <3>1 DEF Leads
      <4> QED BY <1>1, <1>7, <3>1, <4>1 DEF Leads
    <3>2. CASE x = q
      <4>1. u = s + h[s].rec_len BY <1>3, <1>4, <3>2 DEF Leads
      <4>2. Leads(h, s, u) BY <1>6, <4>1 DEF Leads
      <4> QED BY <1>1, <1>3, <1>4, <4>1, <4>2
    <3> QED BY <3>1, <3>2
  <2>2. 1 \in Links(h) \ {s} BY <1>5
  <2>3. Links(h) \ {s} \in SUBSET Slot BY <1>1
  <2> QED BY <1>2, <2>1, <2>2, <2>3
<1>9. Links(h) \subseteq Links(w) \cup {s}
  <2> DEFINE S == Links(w) \cup (IF q \in Links(w) THEN {s} ELSE {})
  <2>1. Closed(h, S)
    <3> SUFFICES ASSUME NEW x \in S, NEW u \in Slot, Leads(h, x, u) PROVE u \in S
      BY DEF Closed
    <3>1. CASE x = s
      <4>1. q \in Links(w) BY <3>1, <1>8
      <4>2. Leads(w, q, u) BY <3>1, <1>3, <1>4, <1>6 DEF Leads
      <4> QED BY <1>2, <4>1, <4>2
    <3>2. CASE x = q
      <4>1. q \in Links(w) BY <3>2, <1>4
      <4> QED BY <3>2, <4>1 DEF Leads
    <3>3. CASE x # s /\ x # q
      <4>1. x \in Links(w) BY <3>3
      <4>2. Leads(w, x, u) BY <1>2, <1>6, <3>3, <4>1 DEF Leads
      <4> QED BY <1>2, <4>1, <4>2
    <3> QED BY <3>1, <3>2, <3>3
  <2>2. 1 \in S BY <1>1, <1>2, <1>5, <1>6
  <2>3. S \in SUBSET Slot BY <1>2, <1>4
  <2>4. Links(h) \subseteq S
    <3> HIDE DEF S
    <3> QED BY <1>1, <2>1, <2>2, <2>3
  <2> QED BY <2>4
<1>10. Links(w) = Links(h) \ {s} BY <1>8, <1>9
<1>11. \A c \in Links(w), x \in Slot : x < c => w[x].rec_len >= 1 /\ x + w[x].rec_len <= c
  <2> SUFFICES ASSUME NEW c \in Links(w), NEW x \in Slot, x < c
               PROVE  w[x].rec_len >= 1 /\ x + w[x].rec_len <= c
    OBVIOUS
  <2>1. c \in Links(h) /\ c # s /\ h[x].rec_len >= 1 /\ x + h[x].rec_len <= c BY <1>5, <1>10
  <2>2. CASE x = q
    <3>1. s < c BY <1>1, <1>3, <1>4, <2>1, <2>2
    <3>2. s + h[s].rec_len <= c BY <1>4, <1>5, <2>1, <3>1
    <3> QED BY <1>1, <1>3, <1>4, <2>2, <3>2
  <2> QED BY <2>1, <2>2
<1>12. \E x \in Links(w) : x + w[x].rec_len = SLOTS + 1
  <2>1. PICK e \in Links(h) : e + h[e].rec_len = SLOTS + 1 BY DEF Shape
  <2>2. CASE e = s
    <3>1. q + w[q].rec_len = SLOTS + 1 BY <2>1, <2>2, <1>3, <1>4
    <3>2. q \in Links(w) BY <1>3, <1>4, <1>10
    <3> QED BY <3>1, <3>2
  <2>3. CASE e # s
    <3>1. e # q /\ e \in Slot BY <1>1, <1>3, <1>4, <2>1, SizesAssumption DEF Slot
    <3> QED BY <1>10, <2>1, <2>3, <3>1
  <2> QED BY <2>2, <2>3
<1>13. 1 \in Links(w) /\ 2 \in Links(w) BY <1>5, <1>10
<1> QED BY <1>10, <1>11, <1>12, <1>13 DEF Shape

(* The chain of a new directory. *)
LEMMA NewChain ==
  ASSUME NEW h \in Headers, h[1].rec_len = 1, h[2].rec_len = SLOTS - 1,
         \A s \in Slot \ {1, 2} : h[s].rec_len = 0
  PROVE  Shape(h) /\ Links(h) = {1, 2}
<1>1. /\ \A x \in Links(h) : x \in Slot /\ h[x].rec_len > 0
      /\ h[1].rec_len > 0 => 1 \in Links(h)
      /\ \A x \in Links(h), u \in Slot : Leads(h, x, u) => u \in Links(h)
  BY LinksFacts
<1>2. 1 \in Slot /\ 2 \in Slot /\ SLOTS \in Nat /\ SLOTS >= 3 BY SizesAssumption DEF Slot
<1>3. Leads(h, 1, 2) BY <1>2 DEF Leads
<1>4. Links(h) = {1, 2} BY <1>1, <1>2, <1>3
<1>5. 2 + h[2].rec_len = SLOTS + 1 BY <1>2
<1>6. \A s \in Slot : s < 2 => s = 1 BY <1>2 DEF Slot
<1> QED BY <1>2, <1>4, <1>5, <1>6 DEF Shape, Slot

-----------------------------------------------------------------------------
(* The inductive invariant, as a predicate on inode bitmap, inode table, block *)
(* bitmap and blocks, so that it can be said of an earlier image too.          *)

\* The inode table as the walks see it: a directory without a block is not one.
kinds == [k \in Inode \cup {EXT2_ROOT_INO} |-> [i_mode |-> Kind(k), i_block |-> ind_tbl[k].i_block]]

marked_inode == [i_mode : Mode \cup {"no_block"}, i_block : SUBSET (Block \cup {NO_BLOCK})]

\* An inode as it is in kinds.
Marked(inode) ==
  [i_mode  |-> IF inode.i_mode = "EXT2_S_IFDIR" /\ inode.i_block = {NO_BLOCK}
               THEN "no_block" ELSE inode.i_mode,
   i_block |-> inode.i_block]

(* Its entries, one by one. *)
LEMMA KindsAre ==
  /\ \A k \in Inode \cup {EXT2_ROOT_INO} :
       /\ kinds[k].i_mode = Kind(k) /\ kinds[k].i_block = ind_tbl[k].i_block
       /\ IsDir(k) <=> kinds[k].i_mode = "EXT2_S_IFDIR"
       /\ ~HasDirMode(k) => kinds[k].i_mode # "EXT2_S_IFDIR"
  /\ TypeOK => kinds \in [Inode \cup {EXT2_ROOT_INO} -> marked_inode]
<1>1. ASSUME NEW k \in Inode \cup {EXT2_ROOT_INO}
      PROVE  /\ kinds[k].i_mode = Kind(k) /\ kinds[k].i_block = ind_tbl[k].i_block
             /\ IsDir(k) <=> kinds[k].i_mode = "EXT2_S_IFDIR"
             /\ ~HasDirMode(k) => kinds[k].i_mode # "EXT2_S_IFDIR"
  <2>1. kinds[k].i_mode = Kind(k) /\ kinds[k].i_block = ind_tbl[k].i_block BY DEF kinds
  <2>2. IsDir(k) <=> kinds[k].i_mode = "EXT2_S_IFDIR" BY <2>1 DEF IsDir
  <2>3. Kind(k) = "EXT2_S_IFDIR" => ind_tbl[k].i_mode = "EXT2_S_IFDIR" BY DEF Kind
  <2> QED BY <2>1, <2>2, <2>3 DEF HasDirMode
<1>2. ASSUME TypeOK, NEW k \in Inode \cup {EXT2_ROOT_INO}
      PROVE  [i_mode |-> Kind(k), i_block |-> ind_tbl[k].i_block] \in marked_inode
  <2>1. ind_tbl[k] \in ext2_inode BY <1>2 DEF TypeOK
  <2>2. ind_tbl[k].i_mode \in Mode /\ ind_tbl[k].i_block \in SUBSET (Block \cup {NO_BLOCK})
    BY <2>1 DEF ext2_inode
  <2>3. Kind(k) \in Mode \cup {"no_block"} BY <2>2 DEF Kind
  <2> QED BY <2>2, <2>3 DEF marked_inode
<1>3. TypeOK => kinds \in [Inode \cup {EXT2_ROOT_INO} -> marked_inode] BY <1>2 DEF kinds
<1> QED BY <1>1, <1>3

(* It follows the inode table. *)
LEMMA KindsWritten ==
  ASSUME TypeOK, NEW k \in Inode, NEW inode \in ext2_inode, ind_tbl' = [ind_tbl EXCEPT ![k] = inode]
  PROVE  /\ kinds' = [kinds EXCEPT ![k] = Marked(inode)] /\ Marked(inode) \in marked_inode
         /\ Marked(inode).i_block = inode.i_block
<1> DEFINE D == Inode \cup {EXT2_ROOT_INO}
           no_block == [i_mode |-> "EXT2_S_IFDIR", i_block |-> {NO_BLOCK}]
<1>1. ind_tbl \in [D -> ext2_inode] /\ k \in D BY DEF TypeOK
<1>2. ind_tbl'[k] = inode /\ \A j \in D \ {k} : ind_tbl'[j] = ind_tbl[j] BY <1>1
<1>3. inode = no_block <=> inode.i_mode = "EXT2_S_IFDIR" /\ inode.i_block = {NO_BLOCK} BY DEF ext2_inode
<1>4. Kind(k)' = IF inode = no_block THEN "no_block" ELSE inode.i_mode BY <1>2 DEF Kind
<1>5. [i_mode |-> Kind(k)', i_block |-> ind_tbl'[k].i_block] = Marked(inode) BY <1>2, <1>3, <1>4 DEF Marked
<1>6. \A j \in D \ {k} : Kind(j)' = Kind(j) BY <1>2 DEF Kind
<1>7. kinds' = [j \in D |-> [i_mode |-> Kind(j)', i_block |-> ind_tbl'[j].i_block]] BY DEF kinds
<1>8. kinds = [j \in D |-> [i_mode |-> Kind(j), i_block |-> ind_tbl[j].i_block]] BY DEF kinds
<1>9. kinds' = [kinds EXCEPT ![k] = Marked(inode)]
  <2> HIDE DEF D
  <2> QED BY <1>1, <1>2, <1>5, <1>6, <1>7, <1>8
<1>10. Marked(inode) \in marked_inode /\ Marked(inode).i_block = inode.i_block
  <2>1. inode.i_mode \in Mode /\ inode.i_block \in SUBSET (Block \cup {NO_BLOCK}) BY DEF ext2_inode
  <2> QED BY <2>1 DEF Marked, marked_inode
<1> QED BY <1>9, <1>10

(* It changes with the inode table alone. *)
LEMMA KindsKept == ind_tbl' = ind_tbl => kinds' = kinds
BY DEF kinds, Kind

DirsOf(ib, tb) == {k \in ib \cup {EXT2_ROOT_INO} : tb[k].i_mode = "EXT2_S_IFDIR"}

\* The headers of directory k, its entries, and what they name.
HeadersIn(tb, d, k) == d[Least(tb[k].i_block)]
EntriesIn(h) == {s \in Links(h) : h[s].name \in NAMES}

\* All but the first two of the chain are entries.
AllNamed(h) == Links(h) \subseteq EntriesIn(h) \cup {1, 2}

Typed(ib, tb, bb, d) ==
  /\ ib \subseteq Inode
  /\ tb \in [Inode \cup {EXT2_ROOT_INO} -> marked_inode]
  /\ bb \subseteq Block
  /\ d \in [Disk -> Headers]

\* NoSharedBlocks
Owned(ib, tb, bb) ==
  /\ \A k \in ib \cup {EXT2_ROOT_INO} : tb[k].i_block \ {NO_BLOCK} \subseteq bb
  /\ \A j, k \in ib \cup {EXT2_ROOT_INO} :
       j # k => tb[j].i_block \cap tb[k].i_block \subseteq {NO_BLOCK}

\* A directory has one block, which begins with "." and ".." and has a chain to its end.
Shaped(ib, tb, d) ==
  \A k \in DirsOf(ib, tb) :
    LET b == Least(tb[k].i_block)
    IN  /\ tb[k].i_block = {b} /\ b \in Block
        /\ Shape(d[b]) /\ AllNamed(d[b])
        /\ d[b][1].inode = k /\ d[b][1].name = "." /\ d[b][1].rec_len = 1
        /\ d[b][2].name = ".."

\* An entry names an inode in use, and no other entry does.
NamedOnce(ib, tb, d) ==
  \A k \in DirsOf(ib, tb) : \A s \in EntriesIn(HeadersIn(tb, d, k)) :
    LET i == HeadersIn(tb, d, k)[s].inode
    IN  /\ i \in ib
        /\ \A j \in DirsOf(ib, tb) : \A t \in EntriesIn(HeadersIn(tb, d, j)) :
             HeadersIn(tb, d, j)[t].inode = i => j = k /\ t = s

\* ".." of a directory is the one that has its entry.
Parented(ib, tb, d) ==
  \A k \in DirsOf(ib, tb) : \A s \in EntriesIn(HeadersIn(tb, d, k)) :
    LET i == HeadersIn(tb, d, k)[s].inode
    IN  tb[i].i_mode = "EXT2_S_IFDIR" => HeadersIn(tb, d, i)[2].inode = k

Sound(ib, tb, bb, d) ==
  /\ Typed(ib, tb, bb, d) /\ Owned(ib, tb, bb) /\ Shaped(ib, tb, d)
  /\ NamedOnce(ib, tb, d) /\ Parented(ib, tb, d)

DiskSound == Sound(ind_bmp, kinds, blk_bmp, dirs)

\* Headers h after the entry in slot s was removed.
Without(h, s) ==
  [t \in Slot |-> IF t \in Links(h) /\ t + h[t].rec_len = s
                  THEN [h[t] EXCEPT !.rec_len = @ + h[s].rec_len]
                  ELSE h[t]]

\* Image ib2, bb2, d2 is image ib, bb, d without the file that slot s of directory p
\* names n.
TakenOut(ib, tb, bb, d, p, s, n, ib2, bb2, d2) ==
  LET b == Least(tb[p].i_block)
      k == d[b][s].inode
  IN  /\ Sound(ib, tb, bb, d)
      /\ p \in DirsOf(ib, tb) /\ s \in EntriesIn(d[b]) /\ d[b][s].name = n
      /\ tb[k].i_mode # "EXT2_S_IFDIR" /\ tb[k].i_block \subseteq bb
      /\ ib2 = ib \ {k} /\ bb2 = bb \ tb[k].i_block
      /\ d2 = [d EXCEPT ![b] = Without(d[b], s)]

\* What rm left is the image before it, without the file.
UndoSound ==
  undo # NoFile =>
    \E path \in Paths : \E p \in DirsOf(undo.before[1], kinds) :
      /\ undo.path = path /\ cd(path) = p
      /\ undo.before = <<undo.before[1], undo.before[2], undo.before[3]>>
      /\ TakenOut(undo.before[1], kinds, undo.before[2], undo.before[3], p, undo.slot, undo.name,
                  ind_bmp, blk_bmp, dirs)

TreeInv == DiskSound /\ UndoSound

-----------------------------------------------------------------------------
(* What adding and removing entries does to the names.                     *)

\* A new inode k, with at most one entry, in slot t of directory p.
NameAdded(ib, tb, d, p, k, t, tb2, d2) ==
  /\ p \in DirsOf(ib, tb) /\ k \notin ib /\ k # EXT2_ROOT_INO
  /\ \A j \in ib \cup {EXT2_ROOT_INO} : tb2[j] = tb[j]
  /\ \A j \in DirsOf(ib, tb) : /\ HeadersIn(tb2, d2, j)[2].inode = HeadersIn(tb, d, j)[2].inode
                               /\ \A s \in EntriesIn(HeadersIn(tb, d, j)) :
                                    HeadersIn(tb2, d2, j)[s].inode = HeadersIn(tb, d, j)[s].inode
  /\ \A j \in DirsOf(ib, tb) : \A s \in EntriesIn(HeadersIn(tb2, d2, j)) :
       \/ s \in EntriesIn(HeadersIn(tb, d, j))
       \/ j = p /\ s = t /\ HeadersIn(tb2, d2, j)[s].inode = k
  /\ tb2[k].i_mode = "EXT2_S_IFDIR" =>
       EntriesIn(HeadersIn(tb2, d2, k)) = {} /\ HeadersIn(tb2, d2, k)[2].inode = p

(* It keeps apart what entries name. *)
LEMMA AddedNames ==
  ASSUME NEW ib, NEW tb, NEW d, NamedOnce(ib, tb, d), Parented(ib, tb, d),
         NEW p, NEW k, NEW t, NEW tb2, NEW d2, NameAdded(ib, tb, d, p, k, t, tb2, d2)
  PROVE  NamedOnce(ib \cup {k}, tb2, d2) /\ Parented(ib \cup {k}, tb2, d2)
<1> USE DEF NameAdded
<1>1. \A j \in DirsOf(ib \cup {k}, tb2) : j \in DirsOf(ib, tb) \/ EntriesIn(HeadersIn(tb2, d2, j)) = {}
  BY DEF DirsOf
<1>2. \A j \in DirsOf(ib, tb) : \A s \in EntriesIn(HeadersIn(tb, d, j)) :
        HeadersIn(tb, d, j)[s].inode \in ib /\ HeadersIn(tb, d, j)[s].inode # k
  BY DEF NamedOnce
<1>3. \A j \in DirsOf(ib, tb) : \A s \in EntriesIn(HeadersIn(tb2, d2, j)) :
        \/ /\ s \in EntriesIn(HeadersIn(tb, d, j))
           /\ HeadersIn(tb2, d2, j)[s].inode = HeadersIn(tb, d, j)[s].inode
        \/ j = p /\ s = t /\ HeadersIn(tb2, d2, j)[s].inode = k
  OBVIOUS
<1>4. NamedOnce(ib \cup {k}, tb2, d2)
  <2> SUFFICES ASSUME NEW i \in DirsOf(ib \cup {k}, tb2), NEW s \in EntriesIn(HeadersIn(tb2, d2, i))
               PROVE  /\ HeadersIn(tb2, d2, i)[s].inode \in ib \cup {k}
                      /\ \A j \in DirsOf(ib \cup {k}, tb2) : \A u \in EntriesIn(HeadersIn(tb2, d2, j)) :
                           HeadersIn(tb2, d2, j)[u].inode = HeadersIn(tb2, d2, i)[s].inode => j = i /\ u = s
    BY DEF NamedOnce
  <2>1. i \in DirsOf(ib, tb) BY <1>1
  <2>2. HeadersIn(tb2, d2, i)[s].inode \in ib \cup {k} BY <1>2, <1>3, <2>1
  <2>3. ASSUME NEW j \in DirsOf(ib \cup {k}, tb2), NEW u \in EntriesIn(HeadersIn(tb2, d2, j)),
               HeadersIn(tb2, d2, j)[u].inode = HeadersIn(tb2, d2, i)[s].inode
        PROVE  j = i /\ u = s
    <3>1. j \in DirsOf(ib, tb) BY <1>1
    <3>2. CASE s \in EntriesIn(HeadersIn(tb, d, i)) /\ u \in EntriesIn(HeadersIn(tb, d, j))
      BY <1>3, <2>1, <2>3, <3>1, <3>2 DEF NamedOnce
    <3> QED BY <1>2, <1>3, <2>1, <2>3, <3>1, <3>2
  <2> QED BY <2>2, <2>3
<1>5. Parented(ib \cup {k}, tb2, d2)
  <2> SUFFICES ASSUME NEW j \in DirsOf(ib \cup {k}, tb2), NEW s \in EntriesIn(HeadersIn(tb2, d2, j)), NEW i,
                      i = HeadersIn(tb2, d2, j)[s].inode, tb2[i].i_mode = "EXT2_S_IFDIR"
               PROVE  HeadersIn(tb2, d2, i)[2].inode = j
    BY DEF Parented
  <2>1. j \in DirsOf(ib, tb) BY <1>1
  <2>2. CASE s \in EntriesIn(HeadersIn(tb, d, j)) /\ i = HeadersIn(tb, d, j)[s].inode
    <3>1. i \in ib BY <1>2, <2>1, <2>2
    <3>2. i \in DirsOf(ib, tb) BY <3>1 DEF DirsOf
    <3>3. HeadersIn(tb, d, i)[2].inode = j BY <2>1, <2>2, <3>2 DEF Parented, DirsOf
    <3> QED BY <3>2, <3>3
  <2>3. CASE j = p /\ i = k BY <2>3
  <2> QED BY <1>3, <2>1, <2>2, <2>3
<1> QED BY <1>4, <1>5

\* The inodes ks are not named by the directories that stay.
NamesKept(ib, tb, d, ks, d2) ==
  /\ EXT2_ROOT_INO \notin ks
  /\ \A j \in DirsOf(ib, tb) : /\ HeadersIn(tb, d2, j)[2].inode = HeadersIn(tb, d, j)[2].inode
                               /\ \A s \in EntriesIn(HeadersIn(tb, d2, j)) :
                                    /\ s \in EntriesIn(HeadersIn(tb, d, j))
                                    /\ HeadersIn(tb, d2, j)[s].inode = HeadersIn(tb, d, j)[s].inode
  /\ \A j \in DirsOf(ib, tb) \ ks : \A s \in EntriesIn(HeadersIn(tb, d2, j)) :
       HeadersIn(tb, d2, j)[s].inode \notin ks

(* They can be freed. *)
LEMMA RemovedNames ==
  ASSUME NEW ib, NEW tb, NEW d, NamedOnce(ib, tb, d), Parented(ib, tb, d), NEW ks, NEW d2,
         NamesKept(ib, tb, d, ks, d2)
  PROVE  NamedOnce(ib \ ks, tb, d2) /\ Parented(ib \ ks, tb, d2)
<1> USE DEF NamesKept
<1>1. DirsOf(ib \ ks, tb) = DirsOf(ib, tb) \ ks BY DEF DirsOf
<1>2. \A j \in DirsOf(ib, tb) : \A s \in EntriesIn(HeadersIn(tb, d, j)) : HeadersIn(tb, d, j)[s].inode \in ib
  BY DEF NamedOnce
<1>3. ASSUME NEW j \in DirsOf(ib \ ks, tb), NEW s \in EntriesIn(HeadersIn(tb, d2, j))
      PROVE  /\ j \in DirsOf(ib, tb) /\ s \in EntriesIn(HeadersIn(tb, d, j))
             /\ HeadersIn(tb, d2, j)[s].inode = HeadersIn(tb, d, j)[s].inode
             /\ HeadersIn(tb, d2, j)[s].inode \in ib \ ks
  BY <1>1, <1>2
<1>4. NamedOnce(ib \ ks, tb, d2)
  <2> SUFFICES ASSUME NEW i \in DirsOf(ib \ ks, tb), NEW s \in EntriesIn(HeadersIn(tb, d2, i)),
                      NEW j \in DirsOf(ib \ ks, tb), NEW t \in EntriesIn(HeadersIn(tb, d2, j)),
                      HeadersIn(tb, d2, j)[t].inode = HeadersIn(tb, d2, i)[s].inode
               PROVE  j = i /\ t = s
    BY <1>3 DEF NamedOnce
  <2>1. /\ i \in DirsOf(ib, tb) /\ s \in EntriesIn(HeadersIn(tb, d, i))
        /\ j \in DirsOf(ib, tb) /\ t \in EntriesIn(HeadersIn(tb, d, j))
        /\ HeadersIn(tb, d, j)[t].inode = HeadersIn(tb, d, i)[s].inode
    BY <1>3
  <2> QED BY ONLY NamedOnce(ib, tb, d), <2>1 DEF NamedOnce
<1>5. Parented(ib \ ks, tb, d2)
  <2> SUFFICES ASSUME NEW j \in DirsOf(ib \ ks, tb), NEW s \in EntriesIn(HeadersIn(tb, d2, j)), NEW i,
                      i = HeadersIn(tb, d2, j)[s].inode, tb[i].i_mode = "EXT2_S_IFDIR"
               PROVE  HeadersIn(tb, d2, i)[2].inode = j
    BY DEF Parented
  <2>1. j \in DirsOf(ib, tb) /\ s \in EntriesIn(HeadersIn(tb, d, j)) /\ i = HeadersIn(tb, d, j)[s].inode
    BY <1>3
  <2>2. i \in DirsOf(ib, tb) BY <1>3 DEF DirsOf
  <2>3. HeadersIn(tb, d, i)[2].inode = j
    <3> HIDE DEF HeadersIn
    <3> QED BY ONLY Parented(ib, tb, d), <2>1, tb[i].i_mode = "EXT2_S_IFDIR" DEF Parented
  <2> QED BY <2>2, <2>3
<1> QED BY <1>4, <1>5

-----------------------------------------------------------------------------
(* Blocks of directories.                                                  *)

\* Headers w are h with an entry put behind the header r.
PutBehind(h, w, r, entry) ==
  /\ r \in Slot /\ h[r].rec_len >= 2
  /\ \A s \in Slot : h[s].rec_len >= 2 => r <= s
  /\ entry.rec_len = h[r].rec_len - 1
  /\ w[r] = [h[r] EXCEPT !.rec_len = 1] /\ w[r + 1] = entry
  /\ \A s \in Slot \ {r, r + 1} : w[s] = h[s]

(* Only the new entry is new. *)
LEMMA EntryPut ==
  ASSUME NEW h \in Headers, Shape(h), h[1].rec_len = 1,
         NEW w \in Headers, NEW r, NEW entry, PutBehind(h, w, r, entry), entry.name \in NAMES
  PROVE  /\ Shape(w) /\ (AllNamed(h) => AllNamed(w))
         /\ EntriesIn(w) = EntriesIn(h) \cup {r + 1} /\ r + 1 \notin Links(h) /\ w[r + 1] = entry
         /\ \A s \in Links(h) : w[s].inode = h[s].inode /\ w[s].name = h[s].name
         /\ w[1].rec_len = 1
<1>1. r \in Slot /\ r \in Nat /\ r # 1 /\ r >= 2 BY Lengths DEF PutBehind
<1>2. h[r] \in ext2_dir_entry BY <1>1 DEF Headers
<1> DEFINE e == h[r]
<1>3. [e EXCEPT !.rec_len = 1].rec_len = 1 /\ [e EXCEPT !.rec_len = 1].inode = e.inode
      /\ [e EXCEPT !.rec_len = 1].name = e.name
  <2> HIDE DEF e
  <2> QED BY <1>2 DEF ext2_dir_entry, e
<1>4. w[r].rec_len = 1 /\ w[r].inode = h[r].inode /\ w[r].name = h[r].name
  BY <1>3 DEF PutBehind
<1>5. w[r + 1].rec_len = h[r].rec_len - 1 /\ \A s \in Slot \ {r, r + 1} : w[s].rec_len = h[s].rec_len
  BY DEF PutBehind
<1>6. h[r].rec_len >= 2 /\ \A s \in Slot : h[s].rec_len >= 2 => r <= s BY DEF PutBehind
<1>7. Shape(w) /\ Links(w) = Links(h) \cup {r + 1} /\ r + 1 \in Slot /\ r + 1 \notin Links(h)
  <2> HIDE DEF e
  <2> QED BY <1>1, <1>4, <1>5, <1>6, AddedToChain
<1>8. \A s \in Links(h) : w[s].inode = h[s].inode /\ w[s].name = h[s].name
  <2>1. \A s \in Links(h) : s \in Slot /\ s # r + 1 BY <1>7, LinksFacts
  <2> QED BY <1>4, <2>1 DEF PutBehind
<1>9. EntriesIn(w) = EntriesIn(h) \cup {r + 1}
  BY <1>7, <1>8 DEF EntriesIn, PutBehind
<1>10. 1 \in Slot BY SizesAssumption DEF Slot
<1>11. w[1].rec_len = 1 BY <1>1, <1>10, <1>5
<1>12. AllNamed(h) => AllNamed(w) BY <1>7, <1>9 DEF AllNamed
<1> QED BY <1>7, <1>8, <1>9, <1>11, <1>12 DEF PutBehind

(* A new directory has a block of the right shape, and no entries. *)
LEMMA NewDirectoryBlock ==
  ASSUME NEW k \in Inode \cup {EXT2_ROOT_INO}, NEW p \in Inode \cup {EXT2_ROOT_INO}
  PROVE  /\ NewDirectory(k, p) \in Headers
         /\ Shape(NewDirectory(k, p)) /\ EntriesIn(NewDirectory(k, p)) = {} /\ AllNamed(NewDirectory(k, p))
         /\ NewDirectory(k, p)[1].inode = k /\ NewDirectory(k, p)[1].rec_len = 1
         /\ NewDirectory(k, p)[1].name = "."
         /\ NewDirectory(k, p)[2].inode = p /\ NewDirectory(k, p)[2].name = ".."
<1> DEFINE h == NewDirectory(k, p)
<1>1. h \in Headers BY NewBlocksFit
<1>2. 1 \in Slot /\ 2 \in Slot BY SizesAssumption DEF Slot
<1>3. Zeroed = [s \in Slot |-> Zeroed[s]] /\ \A s \in Slot : Zeroed[s].rec_len = 0 BY DEF Zeroed
<1>4. /\ h[1] = [inode |-> k, rec_len |-> 1, name |-> "."]
      /\ h[2] = [inode |-> p, rec_len |-> SLOTS - 1, name |-> ".."]
      /\ \A s \in Slot \ {1, 2} : h[s] = Zeroed[s]
  BY <1>2, <1>3 DEF NewDirectory
<1>5. /\ h[1].inode = k /\ h[1].rec_len = 1 /\ h[1].name = "."
      /\ h[2].inode = p /\ h[2].rec_len = SLOTS - 1 /\ h[2].name = ".."
      /\ \A s \in Slot \ {1, 2} : h[s].rec_len = 0
  BY <1>3, <1>4
<1> HIDE DEF h
<1>6. Shape(h) /\ Links(h) = {1, 2} BY <1>1, <1>5, NewChain
<1>7. EntriesIn(h) = {} BY <1>5, <1>6, NamesAssumption DEF EntriesIn
<1>8. AllNamed(h) BY <1>6 DEF AllNamed
<1> QED BY <1>1, <1>5, <1>6, <1>7, <1>8 DEF h

(* Directories have different blocks, none of them free or block 0. *)
LEMMA DirectoryBlocks ==
  ASSUME NEW ib, NEW tb, NEW bb, NEW d, Sound(ib, tb, bb, d)
  PROVE  /\ \A j \in DirsOf(ib, tb) :
              /\ Least(tb[j].i_block) \in Block \cap bb /\ Least(tb[j].i_block) # BOOT
              /\ Least(tb[j].i_block) \in Disk
              /\ HeadersIn(tb, d, j) \in Headers
         /\ \A i, j \in DirsOf(ib, tb) : Least(tb[i].i_block) = Least(tb[j].i_block) => i = j
<1>1. \A j \in DirsOf(ib, tb) : /\ tb[j].i_block = {Least(tb[j].i_block)}
                               /\ Least(tb[j].i_block) \in Block
  BY DEF Sound, Shaped
<1>2. BOOT \notin Block /\ NO_BLOCK \notin Block BY SizesAssumption DEF BOOT, NO_BLOCK, Block
<1>3. DirsOf(ib, tb) \subseteq ib \cup {EXT2_ROOT_INO} BY DEF DirsOf
<1>4. /\ \A k \in ib \cup {EXT2_ROOT_INO} : tb[k].i_block \ {NO_BLOCK} \subseteq bb
      /\ \A j, k \in ib \cup {EXT2_ROOT_INO} :
           j # k => tb[j].i_block \cap tb[k].i_block \subseteq {NO_BLOCK}
  BY DEF Sound, Owned
<1>5. \A j \in DirsOf(ib, tb) : Least(tb[j].i_block) \in bb BY <1>1, <1>2, <1>3, <1>4
<1>6. ASSUME NEW i \in DirsOf(ib, tb), NEW j \in DirsOf(ib, tb), Least(tb[i].i_block) = Least(tb[j].i_block)
      PROVE  i = j
  BY <1>1, <1>2, <1>3, <1>4, <1>6
<1>7. d \in [Disk -> Headers] BY DEF Sound, Typed
<1>8. Block \subseteq Disk BY DEF Disk
<1> QED BY <1>1, <1>2, <1>5, <1>6, <1>7, <1>8 DEF HeadersIn

\* ext2_mkdir and ext2_cp: a new inode with free blocks, and an entry for it in
\* directory p, or in block 0.
Added(ib, tb, bb, d, p, k, new, inode, b, w, r, entry, d2) ==
  /\ p \in DirsOf(ib, tb) /\ k \in Inode \ ib /\ new \in SUBSET (Block \ bb)
  /\ inode \in marked_inode /\ inode.i_block \ {NO_BLOCK} = new
  /\ b \in Disk /\ w \in Headers /\ entry.name \in NAMES /\ entry.inode = k
  /\ b = BOOT \/ (b = Least(tb[p].i_block) /\ PutBehind(d[b], w, r, entry))
  /\ d2 \in [Disk -> Headers] /\ d2[b] = w /\ \A c \in Disk \ (new \cup {b}) : d2[c] = d[c]
  /\ inode.i_mode = "EXT2_S_IFDIR" =>
       \E c \in new : inode.i_block = {c} /\ d2[c] = NewDirectory(k, p)

\* The inode k of the table becomes inode.
Rewritten(tb, k, inode, tb2) == tb2 = [tb EXCEPT ![k] = inode]

(* Only the block of the directory changes, and that by the new entry. *)
LEMMA AddedHeaders ==
  ASSUME NEW ib, NEW tb, NEW bb, NEW d, Sound(ib, tb, bb, d), NEW p, NEW k, NEW new, NEW inode,
         NEW b, NEW w, NEW r, NEW entry, NEW d2, Added(ib, tb, bb, d, p, k, new, inode, b, w, r, entry, d2),
         NEW tb2, Rewritten(tb, k, inode, tb2)
  PROVE  /\ k # EXT2_ROOT_INO /\ k \notin ib
         /\ tb2[k] = inode /\ \A j \in ib \cup {EXT2_ROOT_INO} : tb2[j] = tb[j]
         /\ \A j \in DirsOf(ib, tb) :
              /\ HeadersIn(tb2, d2, j) \in Headers
              /\ \/ HeadersIn(tb2, d2, j) = HeadersIn(tb, d, j)
                 \/ j = p /\ HeadersIn(tb2, d2, j) = w /\ PutBehind(HeadersIn(tb, d, j), w, r, entry)
         /\ p \in Inode \cup {EXT2_ROOT_INO}
         /\ tb2[k].i_mode = "EXT2_S_IFDIR" =>
              /\ tb2[k].i_block = {Least(tb2[k].i_block)} /\ Least(tb2[k].i_block) \in Block
              /\ HeadersIn(tb2, d2, k) = NewDirectory(k, p)
<1> USE DEF Added, Rewritten
<1>1. /\ ib \subseteq Inode /\ bb \subseteq Block /\ d \in [Disk -> Headers]
      /\ tb \in [Inode \cup {EXT2_ROOT_INO} -> marked_inode]
  BY DEF Sound, Typed
<1>2. k # EXT2_ROOT_INO /\ k \notin ib BY RootIsNoFile
<1>3. tb2[k] = inode /\ (\A j \in ib \cup {EXT2_ROOT_INO} : tb2[j] = tb[j])
  BY <1>1, <1>2
<1>6. /\ \A j \in DirsOf(ib, tb) :
           /\ Least(tb[j].i_block) \in Block \cap bb /\ Least(tb[j].i_block) # BOOT
           /\ Least(tb[j].i_block) \in Disk
           /\ HeadersIn(tb, d, j) \in Headers
      /\ \A i, j \in DirsOf(ib, tb) : Least(tb[i].i_block) = Least(tb[j].i_block) => i = j
  BY DirectoryBlocks
<1>7. \A j \in DirsOf(ib, tb) : tb2[j] = tb[j] BY <1>3 DEF DirsOf
<1>8. ASSUME NEW j \in DirsOf(ib, tb)
      PROVE  /\ HeadersIn(tb2, d2, j) \in Headers
             /\ \/ HeadersIn(tb2, d2, j) = HeadersIn(tb, d, j)
                \/ j = p /\ HeadersIn(tb2, d2, j) = w /\ PutBehind(HeadersIn(tb, d, j), w, r, entry)
  <2>1. HeadersIn(tb2, d2, j) = d2[Least(tb[j].i_block)] BY <1>7 DEF HeadersIn
  <2>2. HeadersIn(tb, d, j) = d[Least(tb[j].i_block)] BY DEF HeadersIn
  <2>3. Least(tb[j].i_block) \notin new BY <1>6
  <2>4. CASE Least(tb[j].i_block) # b BY <1>6, <2>1, <2>2, <2>3, <2>4
  <2>5. CASE Least(tb[j].i_block) = b
    <3>1. b = Least(tb[p].i_block) /\ PutBehind(d[b], w, r, entry) BY <1>6, <2>5
    <3>2. j = p BY <1>6, <2>5, <3>1
    <3> QED BY <2>1, <2>2, <2>5, <3>1, <3>2
  <2> QED BY <2>4, <2>5
<1>9. p \in Inode \cup {EXT2_ROOT_INO} BY <1>1 DEF DirsOf
<1>10. ASSUME tb2[k].i_mode = "EXT2_S_IFDIR"
       PROVE  /\ tb2[k].i_block = {Least(tb2[k].i_block)} /\ Least(tb2[k].i_block) \in Block
              /\ HeadersIn(tb2, d2, k) = NewDirectory(k, p)
  <2>1. PICK c \in new : inode.i_block = {c} /\ d2[c] = NewDirectory(k, p) BY <1>3, <1>10
  <2>2. c \in Nat BY SizesAssumption DEF Block
  <2>3. Least({c}) \in {c} BY <2>2, LeastFound
  <2>4. Least(tb2[k].i_block) = c BY <1>3, <2>1, <2>3
  <2> QED BY <1>3, <2>1, <2>4 DEF HeadersIn
<1> QED BY <1>2, <1>3, <1>8, <1>9, <1>10

(* The image stays sound. *)
LEMMA AddSound ==
  ASSUME NEW ib, NEW tb, NEW bb, NEW d, Sound(ib, tb, bb, d), NEW p, NEW k, NEW new, NEW inode,
         NEW b, NEW w, NEW r, NEW entry, NEW d2, Added(ib, tb, bb, d, p, k, new, inode, b, w, r, entry, d2)
  PROVE  Sound(ib \cup {k}, [tb EXCEPT ![k] = inode], bb \cup new, d2)
<1> DEFINE tb2 == [tb EXCEPT ![k] = inode]
           ib2 == ib \cup {k}
           bb2 == bb \cup new
<1>01. Rewritten(tb, k, inode, tb2) BY DEF Rewritten
<1> HIDE DEF tb2
<1>02. \A j \in DirsOf(ib, tb) :
         /\ HeadersIn(tb2, d2, j) \in Headers
         /\ \/ HeadersIn(tb2, d2, j) = HeadersIn(tb, d, j)
            \/ j = p /\ HeadersIn(tb2, d2, j) = w /\ PutBehind(HeadersIn(tb, d, j), w, r, entry)
  BY <1>01, AddedHeaders
<1>03. /\ p \in Inode \cup {EXT2_ROOT_INO}
       /\ tb2[k].i_mode = "EXT2_S_IFDIR" =>
            /\ tb2[k].i_block = {Least(tb2[k].i_block)} /\ Least(tb2[k].i_block) \in Block
            /\ HeadersIn(tb2, d2, k) = NewDirectory(k, p)
  BY <1>01, AddedHeaders
<1> USE DEF Added, tb2
<1>1. /\ ib \subseteq Inode /\ bb \subseteq Block /\ d \in [Disk -> Headers]
      /\ tb \in [Inode \cup {EXT2_ROOT_INO} -> marked_inode]
  BY DEF Sound, Typed
<1>2. k # EXT2_ROOT_INO /\ k \notin ib BY RootIsNoFile
<1>3. tb2[k] = inode /\ (\A j \in ib \cup {EXT2_ROOT_INO} : tb2[j] = tb[j])
  BY <1>1, <1>2
<1>4. Typed(ib2, tb2, bb2, d2) BY <1>1 DEF Typed
<1> HIDE DEF tb2
<1>5. Owned(ib2, tb2, bb2)
  <2>1. /\ \A i \in ib \cup {EXT2_ROOT_INO} : tb[i].i_block \ {NO_BLOCK} \subseteq bb
        /\ \A i, j \in ib \cup {EXT2_ROOT_INO} :
             i # j => tb[i].i_block \cap tb[j].i_block \subseteq {NO_BLOCK}
    BY DEF Sound, Owned
  <2>2. \A i \in ib2 \cup {EXT2_ROOT_INO} : tb2[i].i_block \ {NO_BLOCK} \subseteq bb2
    BY <2>1, <1>3
  <2>3. ASSUME NEW i \in ib2 \cup {EXT2_ROOT_INO}, NEW j \in ib2 \cup {EXT2_ROOT_INO}, i # j
        PROVE  tb2[i].i_block \cap tb2[j].i_block \subseteq {NO_BLOCK}
    BY <2>1, <2>3, <1>3
  <2> QED BY <2>2, <2>3 DEF Owned
<1>6. \A j \in DirsOf(ib, tb) : HeadersIn(tb, d, j) \in Headers BY DirectoryBlocks
<1>7. \A j \in DirsOf(ib, tb) : tb2[j] = tb[j] BY <1>3 DEF DirsOf
<1>8. \A j \in DirsOf(ib, tb) :
        /\ HeadersIn(tb2, d2, j) \in Headers
        /\ \/ HeadersIn(tb2, d2, j) = HeadersIn(tb, d, j)
           \/ j = p /\ HeadersIn(tb2, d2, j) = w /\ PutBehind(HeadersIn(tb, d, j), w, r, entry)
  BY <1>02
<1>9. ASSUME NEW j \in DirsOf(ib, tb)
      PROVE  /\ Shape(HeadersIn(tb, d, j)) /\ HeadersIn(tb, d, j)[1].rec_len = 1
             /\ AllNamed(HeadersIn(tb, d, j))
             /\ HeadersIn(tb, d, j)[1].inode = j /\ HeadersIn(tb, d, j)[1].name = "."
             /\ HeadersIn(tb, d, j)[2].name = ".."
             /\ 1 \in Links(HeadersIn(tb, d, j)) /\ 2 \in Links(HeadersIn(tb, d, j))
  <2>1. Shaped(ib, tb, d) BY DEF Sound
  <2> QED BY <2>1 DEF Shaped, HeadersIn, Shape
<1>10. ASSUME NEW j \in DirsOf(ib, tb)
       PROVE  /\ Shape(HeadersIn(tb2, d2, j)) /\ HeadersIn(tb2, d2, j)[1].rec_len = 1
              /\ AllNamed(HeadersIn(tb2, d2, j))
              /\ HeadersIn(tb2, d2, j)[1].inode = j /\ HeadersIn(tb2, d2, j)[1].name = "."
              /\ HeadersIn(tb2, d2, j)[2].name = ".."
              /\ HeadersIn(tb2, d2, j)[2].inode = HeadersIn(tb, d, j)[2].inode
              /\ \A s \in EntriesIn(HeadersIn(tb, d, j)) :
                    HeadersIn(tb2, d2, j)[s].inode = HeadersIn(tb, d, j)[s].inode
              /\ \A s \in EntriesIn(HeadersIn(tb2, d2, j)) :
                    \/ s \in EntriesIn(HeadersIn(tb, d, j))
                    \/ j = p /\ s = r + 1 /\ HeadersIn(tb2, d2, j)[s].inode = k
  <2> DEFINE h == HeadersIn(tb, d, j)
             h2 == HeadersIn(tb2, d2, j)
  <2>1. CASE h2 = h BY <1>9, <2>1
  <2>2. CASE j = p /\ h2 = w /\ PutBehind(h, w, r, entry)
    <3>1. h \in Headers /\ Shape(h) /\ AllNamed(h) /\ h[1].rec_len = 1 /\ 1 \in Links(h) /\ 2 \in Links(h)
          /\ h[1].inode = j /\ h[1].name = "." /\ h[2].name = ".."
      BY <1>6, <1>9
    <3> HIDE DEF h, h2
    <3>2. /\ Shape(w) /\ AllNamed(w)
          /\ EntriesIn(w) = EntriesIn(h) \cup {r + 1} /\ w[r + 1] = entry
          /\ \A s \in Links(h) : w[s].inode = h[s].inode /\ w[s].name = h[s].name
          /\ w[1].rec_len = 1
      BY <2>2, <3>1, EntryPut
    <3>3. EntriesIn(h) \subseteq Links(h) BY DEF EntriesIn
    <3>4. /\ Shape(h2) /\ AllNamed(h2) /\ h2[1].rec_len = 1 /\ h2[1].inode = j /\ h2[1].name = "."
          /\ h2[2].name = ".." /\ h2[2].inode = h[2].inode
      BY <2>2, <3>1, <3>2
    <3>5. /\ \A s \in EntriesIn(h) : h2[s].inode = h[s].inode
          /\ \A s \in EntriesIn(h2) : s \in EntriesIn(h) \/ (j = p /\ s = r + 1 /\ h2[s].inode = k)
      <4> DEFINE t == r + 1
      <4>1. EntriesIn(w) = EntriesIn(h) \cup {t} /\ w[t].inode = k BY <3>2
      <4> HIDE DEF t
      <4> QED BY <2>2, <3>2, <3>3, <4>1 DEF t
    <3> QED BY <3>4, <3>5 DEF h, h2
  <2> QED BY <1>8, <2>1, <2>2
<1>11. /\ p \in Inode \cup {EXT2_ROOT_INO}
       /\ tb2[k].i_mode = "EXT2_S_IFDIR" =>
            /\ tb2[k].i_block = {Least(tb2[k].i_block)} /\ Least(tb2[k].i_block) \in Block
            /\ HeadersIn(tb2, d2, k) = NewDirectory(k, p)
  BY <1>03
<1>12. Shaped(ib2, tb2, d2)
  <2> SUFFICES ASSUME NEW j \in DirsOf(ib2, tb2)
               PROVE  /\ tb2[j].i_block = {Least(tb2[j].i_block)} /\ Least(tb2[j].i_block) \in Block
                      /\ Shape(HeadersIn(tb2, d2, j)) /\ HeadersIn(tb2, d2, j)[1].rec_len = 1
                      /\ AllNamed(HeadersIn(tb2, d2, j))
                      /\ HeadersIn(tb2, d2, j)[1].inode = j /\ HeadersIn(tb2, d2, j)[1].name = "."
                      /\ HeadersIn(tb2, d2, j)[2].name = ".."
    BY DEF Shaped, HeadersIn
  <2>1. CASE j = k
    <3>1. tb2[k].i_mode = "EXT2_S_IFDIR" BY <2>1 DEF DirsOf
    <3>2. /\ Shape(NewDirectory(k, p)) /\ AllNamed(NewDirectory(k, p)) /\ NewDirectory(k, p)[1].inode = k
          /\ NewDirectory(k, p)[1].name = "." /\ NewDirectory(k, p)[1].rec_len = 1
          /\ NewDirectory(k, p)[2].name = ".."
      BY <1>11, NewDirectoryBlock
    <3> QED BY <1>11, <2>1, <3>1, <3>2
  <2>2. CASE j # k
    <3>1. j \in DirsOf(ib, tb) BY <1>3, <2>2 DEF DirsOf
    <3>2. tb[j].i_block = {Least(tb[j].i_block)} /\ Least(tb[j].i_block) \in Block
      BY <3>1 DEF Sound, Shaped
    <3> QED BY <1>7, <1>10, <3>1, <3>2
  <2> QED BY <2>1, <2>2
<1>13. NamedOnce(ib2, tb2, d2) /\ Parented(ib2, tb2, d2)
  <2>1. NamedOnce(ib, tb, d) /\ Parented(ib, tb, d) BY DEF Sound
  <2>2. tb2[k].i_mode = "EXT2_S_IFDIR" =>
          EntriesIn(HeadersIn(tb2, d2, k)) = {} /\ HeadersIn(tb2, d2, k)[2].inode = p
    BY <1>11, NewDirectoryBlock
  <2>3. \A j \in DirsOf(ib, tb) : /\ HeadersIn(tb2, d2, j)[2].inode = HeadersIn(tb, d, j)[2].inode
                                 /\ \A s \in EntriesIn(HeadersIn(tb, d, j)) :
                                      HeadersIn(tb2, d2, j)[s].inode = HeadersIn(tb, d, j)[s].inode
    BY <1>10
  <2>4. \A j \in DirsOf(ib, tb) : \A s \in EntriesIn(HeadersIn(tb2, d2, j)) :
          \/ s \in EntriesIn(HeadersIn(tb, d, j))
          \/ j = p /\ s = r + 1 /\ HeadersIn(tb2, d2, j)[s].inode = k
    BY <1>10
  <2> DEFINE t == r + 1
  <2>5. \A j \in DirsOf(ib, tb) : \A s \in EntriesIn(HeadersIn(tb2, d2, j)) :
          \/ s \in EntriesIn(HeadersIn(tb, d, j))
          \/ j = p /\ s = t /\ HeadersIn(tb2, d2, j)[s].inode = k
    BY <2>4
  <2> HIDE DEF t
  <2>6. NameAdded(ib, tb, d, p, k, t, tb2, d2) BY <1>2, <1>3, <2>2, <2>3, <2>5 DEF NameAdded
  <2> QED BY <2>1, <2>6, AddedNames
<1> QED BY <1>4, <1>5, <1>12, <1>13 DEF Sound, tb2

\* The entry in slot q took the length of the one in slot s over.
TookOver(h, w, q, s) ==
  /\ q + h[q].rec_len = s /\ q >= 2
  /\ w = [h EXCEPT ![q] = [h[q] EXCEPT !.rec_len = h[q].rec_len + h[s].rec_len]]

(* Only the removed entry is gone, and only the length of the one before it     *)
(* changes.                                                                      *)
LEMMA EntryTaken ==
  ASSUME NEW h \in Headers, Shape(h), h[1].rec_len = 1, h[1].name = ".", h[2].name = "..",
         NEW s \in EntriesIn(h), NEW w, w = Without(h, s)
  PROVE  /\ w \in Headers /\ Shape(w) /\ s >= 3 /\ (AllNamed(h) => AllNamed(w))
         /\ Links(w) = Links(h) \ {s} /\ EntriesIn(w) = EntriesIn(h) \ {s}
         /\ \A t \in Slot : w[t].inode = h[t].inode /\ w[t].name = h[t].name
         /\ w[1].rec_len = 1
         /\ \E q \in Links(w) : TookOver(h, w, q, s)
<1>1. \A x \in Links(h) : x \in Slot /\ h[x].rec_len > 0 BY LinksFacts
<1>2. \A x \in Slot : /\ h[x].rec_len \in Nat /\ x \in Nat /\ x >= 1 /\ x + h[x].rec_len <= SLOTS + 1
                       /\ h[x] \in ext2_dir_entry
  BY Lengths DEF Headers
<1>3. s \in Links(h) /\ s # 1 /\ s # 2 BY NamesAssumption DEF EntriesIn
<1>4. s >= 3 /\ s \in Slot BY <1>1, <1>2, <1>3
<1>5. PICK q \in Links(h) : /\ q + h[q].rec_len = s /\ q < s
                           /\ \A p \in Links(h) : p + h[p].rec_len = s => p = q
  BY <1>3, LedTo
<1>6. q \in Slot /\ q # 1 /\ q >= 2 BY <1>1, <1>2, <1>4, <1>5
<1> DEFINE e == h[q]
           n == h[q].rec_len + h[s].rec_len
           e2 == [e EXCEPT !.rec_len = n]
<1>7. w = [h EXCEPT ![q] = e2]
  <2>1. h = [t \in Slot |-> h[t]] BY DEF Headers
  <2>2. w = [t \in Slot |-> IF t = q THEN e2 ELSE h[t]] BY <1>5 DEF Without
  <2> QED BY <2>1, <2>2
<1>8. n \in 0..SLOTS /\ q + n <= SLOTS + 1 BY <1>2, <1>4, <1>5, <1>6, SizesAssumption
<1>9. e2 \in ext2_dir_entry /\ e2.rec_len = n /\ e2.inode = e.inode /\ e2.name = e.name
  <2>1. e \in ext2_dir_entry BY <1>2, <1>6
  <2> HIDE DEF e, n
  <2> QED BY <2>1, <1>8 DEF ext2_dir_entry
<1>10. /\ w[q].rec_len = n /\ w[q].inode = h[q].inode /\ w[q].name = h[q].name
       /\ \A t \in Slot \ {q} : w[t] = h[t]
  <2>1. h = [t \in Slot |-> h[t]] BY DEF Headers
  <2>2. w[q] = e2 BY <1>6, <1>7, <2>1
  <2> HIDE DEF e2, n
  <2> QED BY <1>7, <1>9, <2>1, <2>2
<1>11. w \in Headers
  <2>1. w = [t \in Slot |-> w[t]] BY DEF Without
  <2>2. \A t \in Slot : w[t] \in ext2_dir_entry /\ t + w[t].rec_len <= SLOTS + 1
    <3>1. w[q] = e2
      <4>1. h = [t \in Slot |-> h[t]] BY DEF Headers
      <4> QED BY <1>6, <1>7, <4>1
    <3>2. w[q] \in ext2_dir_entry /\ q + w[q].rec_len <= SLOTS + 1
      <4> HIDE DEF e2, n
      <4> QED BY <1>8, <1>9, <3>1
    <3> HIDE DEF e2, n
    <3> QED BY <1>2, <1>10, <3>2
  <2> QED BY <2>1, <2>2, HeadersIntro
<1>12. Shape(w) /\ Links(w) = Links(h) \ {s}
  <2>1. w[q].rec_len = h[q].rec_len + h[s].rec_len BY <1>10
  <2>2. \A t \in Slot \ {q} : w[t].rec_len = h[t].rec_len BY <1>10
  <2> QED BY <1>3, <1>4, <1>5, <1>11, <2>1, <2>2, RemovedFromChain
<1>13. \A t \in Slot : w[t].inode = h[t].inode /\ w[t].name = h[t].name BY <1>10
<1>14. EntriesIn(w) = EntriesIn(h) \ {s} BY <1>1, <1>12, <1>13 DEF EntriesIn
<1>15. w[1].rec_len = 1
  <2>1. 1 \in Slot BY SizesAssumption DEF Slot
  <2> QED BY <1>6, <1>10, <2>1
<1>16. q \in Links(w) BY <1>2, <1>5, <1>6, <1>12
<1>17. TookOver(h, w, q, s) BY <1>5, <1>6, <1>7, Zenon DEF TookOver
<1>18. AllNamed(h) => AllNamed(w) BY <1>12, <1>14 DEF AllNamed
<1> QED BY <1>4, <1>11, <1>12, <1>13, <1>14, <1>15, <1>16, <1>17, <1>18

(* What Sound says of the blocks of directories. *)
LEMMA SoundDirectory ==
  ASSUME NEW ib, NEW tb, NEW bb, NEW d, Sound(ib, tb, bb, d), NEW j \in DirsOf(ib, tb)
  PROVE  /\ HeadersIn(tb, d, j) \in Headers /\ HeadersIn(tb, d, j) = d[Least(tb[j].i_block)]
         /\ AllNamed(HeadersIn(tb, d, j))
         /\ Shape(HeadersIn(tb, d, j)) /\ HeadersIn(tb, d, j)[1].rec_len = 1
         /\ HeadersIn(tb, d, j)[1].inode = j /\ HeadersIn(tb, d, j)[1].name = "."
         /\ HeadersIn(tb, d, j)[2].name = ".."
<1>1. Shaped(ib, tb, d) BY DEF Sound
<1>2. HeadersIn(tb, d, j) \in Headers BY DirectoryBlocks
<1> QED BY <1>1, <1>2 DEF Shaped, HeadersIn

\* ext2_rm and ext2_rm_bonus: an entry is taken out, and the inodes it leads to are
\* freed with their blocks.
Removed(ib, tb, d, p, s, ks, d2) ==
  /\ p \in DirsOf(ib, tb) /\ s \in EntriesIn(HeadersIn(tb, d, p)) /\ ks \subseteq ib
  /\ \A j \in DirsOf(ib, tb) \ ks : \A x \in EntriesIn(HeadersIn(tb, d, j)) :
       (j # p \/ x # s) => HeadersIn(tb, d, j)[x].inode \notin ks
  /\ d2 = [d EXCEPT ![Least(tb[p].i_block)] = Without(d[Least(tb[p].i_block)], s)]

(* The image stays sound. *)
LEMMA RemoveSound ==
  ASSUME NEW ib, NEW tb, NEW bb, NEW d, Sound(ib, tb, bb, d), NEW p, NEW s, NEW ks, NEW d2,
         Removed(ib, tb, d, p, s, ks, d2)
  PROVE  Sound(ib \ ks, tb, bb \ UNION {tb[k].i_block : k \in ks}, d2)
<1> USE DEF Removed
<1> DEFINE bb2 == bb \ UNION {tb[k].i_block : k \in ks}
           b == Least(tb[p].i_block)
           w == Without(d[b], s)
<1>1. /\ ib \subseteq Inode /\ bb \subseteq Block /\ d \in [Disk -> Headers]
      /\ tb \in [Inode \cup {EXT2_ROOT_INO} -> marked_inode]
  BY DEF Sound, Typed
<1>2. EXT2_ROOT_INO \notin ks BY <1>1, RootIsNoFile
<1>3. DirsOf(ib \ ks, tb) = DirsOf(ib, tb) \ ks BY <1>2 DEF DirsOf
<1>4. /\ \A j \in DirsOf(ib, tb) : Least(tb[j].i_block) \in Disk
      /\ \A i, j \in DirsOf(ib, tb) : Least(tb[i].i_block) = Least(tb[j].i_block) => i = j
  BY DirectoryBlocks
<1>5. HeadersIn(tb, d, p) = d[b] BY DEF HeadersIn
<1>6. /\ w \in Headers /\ Shape(w) /\ AllNamed(w) /\ EntriesIn(w) = EntriesIn(d[b]) \ {s}
      /\ \A t \in Slot : w[t].inode = d[b][t].inode /\ w[t].name = d[b][t].name
      /\ w[1].rec_len = 1
  BY <1>5, SoundDirectory, EntryTaken
<1> HIDE DEF w
<1>7. d2 = [d EXCEPT ![b] = w] BY DEF w
<1>8. Typed(ib \ ks, tb, bb2, d2) BY <1>1, <1>6, <1>7 DEF Typed
<1>9. Owned(ib \ ks, tb, bb2)
  <2>1. /\ \A i \in ib \cup {EXT2_ROOT_INO} : tb[i].i_block \ {NO_BLOCK} \subseteq bb
        /\ \A i, j \in ib \cup {EXT2_ROOT_INO} :
             i # j => tb[i].i_block \cap tb[j].i_block \subseteq {NO_BLOCK}
    BY DEF Sound, Owned
  <2>2. ASSUME NEW i \in (ib \ ks) \cup {EXT2_ROOT_INO} PROVE tb[i].i_block \ {NO_BLOCK} \subseteq bb2
    <3>1. \A k \in ks : tb[i].i_block \cap tb[k].i_block \subseteq {NO_BLOCK} BY <1>2, <2>1
    <3> QED BY <2>1, <3>1
  <2> QED BY <2>1, <2>2 DEF Owned
<1>10. ASSUME NEW j \in DirsOf(ib, tb)
       PROVE  \/ HeadersIn(tb, d2, j) = HeadersIn(tb, d, j) /\ j # p
              \/ j = p /\ HeadersIn(tb, d2, j) = w /\ HeadersIn(tb, d, j) = d[b]
  BY <1>1, <1>4, <1>7 DEF HeadersIn
<1>11. 1 \in Slot /\ 2 \in Slot BY SizesAssumption DEF Slot
<1>12. ASSUME NEW j \in DirsOf(ib, tb)
       PROVE  /\ Shape(HeadersIn(tb, d2, j)) /\ HeadersIn(tb, d2, j)[1].rec_len = 1
              /\ AllNamed(HeadersIn(tb, d2, j))
              /\ HeadersIn(tb, d2, j)[1].inode = j /\ HeadersIn(tb, d2, j)[1].name = "."
              /\ HeadersIn(tb, d2, j)[2].name = ".."
              /\ HeadersIn(tb, d2, j)[2].inode = HeadersIn(tb, d, j)[2].inode
              /\ EntriesIn(HeadersIn(tb, d2, j)) \subseteq EntriesIn(HeadersIn(tb, d, j))
              /\ j = p => s \notin EntriesIn(HeadersIn(tb, d2, j))
              /\ \A x \in Slot : HeadersIn(tb, d2, j)[x].inode = HeadersIn(tb, d, j)[x].inode
              /\ EntriesIn(HeadersIn(tb, d, j)) \subseteq Slot
  <2>1. /\ HeadersIn(tb, d, j) \in Headers /\ AllNamed(HeadersIn(tb, d, j))
        /\ Shape(HeadersIn(tb, d, j)) /\ HeadersIn(tb, d, j)[1].rec_len = 1
        /\ HeadersIn(tb, d, j)[1].inode = j /\ HeadersIn(tb, d, j)[1].name = "."
        /\ HeadersIn(tb, d, j)[2].name = ".."
    BY SoundDirectory
  <2>2. EntriesIn(HeadersIn(tb, d, j)) \subseteq Slot BY <2>1, LinksFacts DEF EntriesIn
  <2>3. CASE HeadersIn(tb, d2, j) = HeadersIn(tb, d, j) /\ j # p BY <2>1, <2>2, <2>3
  <2>4. CASE j = p /\ HeadersIn(tb, d2, j) = w /\ HeadersIn(tb, d, j) = d[b]
    BY <2>1, <2>2, <2>4, <1>6, <1>11
  <2> QED BY <1>10, <2>3, <2>4
<1>13. Shaped(ib \ ks, tb, d2)
  <2>1. \A j \in DirsOf(ib, tb) : tb[j].i_block = {Least(tb[j].i_block)} /\ Least(tb[j].i_block) \in Block
    BY DEF Sound, Shaped
  <2> QED BY <1>3, <1>12, <2>1 DEF Shaped, HeadersIn
<1>14. NamedOnce(ib \ ks, tb, d2) /\ Parented(ib \ ks, tb, d2)
  <2>1. NamedOnce(ib, tb, d) /\ Parented(ib, tb, d) BY DEF Sound
  <2>2. ASSUME NEW j \in DirsOf(ib, tb), NEW x \in EntriesIn(HeadersIn(tb, d2, j))
        PROVE  /\ x \in EntriesIn(HeadersIn(tb, d, j)) /\ (j # p \/ x # s)
               /\ HeadersIn(tb, d2, j)[x].inode = HeadersIn(tb, d, j)[x].inode
    <3>1. /\ EntriesIn(HeadersIn(tb, d2, j)) \subseteq EntriesIn(HeadersIn(tb, d, j))
          /\ j = p => s \notin EntriesIn(HeadersIn(tb, d2, j))
          /\ \A y \in Slot : HeadersIn(tb, d2, j)[y].inode = HeadersIn(tb, d, j)[y].inode
          /\ EntriesIn(HeadersIn(tb, d, j)) \subseteq Slot
      BY <1>12
    <3> QED BY <3>1
  <2>3. NamesKept(ib, tb, d, ks, d2)
    <3>1. \A j \in DirsOf(ib, tb) : HeadersIn(tb, d2, j)[2].inode = HeadersIn(tb, d, j)[2].inode BY <1>12
    <3>2. ASSUME NEW j \in DirsOf(ib, tb) \ ks, NEW x \in EntriesIn(HeadersIn(tb, d2, j))
          PROVE  HeadersIn(tb, d2, j)[x].inode \notin ks
      BY <2>2
    <3> QED BY <1>2, <2>2, <3>1, <3>2 DEF NamesKept
  <2> QED BY <2>1, <2>3, RemovedNames
<1> QED BY <1>8, <1>9, <1>13, <1>14 DEF Sound

-----------------------------------------------------------------------------
(* Paths.                                                                  *)

(* A set of numbers has one least element. *)
LEMMA LeastIs ==
  ASSUME NEW S, S \subseteq Nat, NEW x \in S, \A y \in S : x <= y
  PROVE  Least(S) = x
<1>1. Least(S) \in S /\ \A y \in S : Least(S) <= y BY LeastFound
<1>2. Least(S) \in Nat /\ x \in Nat /\ Least(S) <= x /\ x <= Least(S) BY <1>1
<1> HIDE DEF Least
<1> QED BY <1>2

(* Paths are sequences of names. *)
LEMMA PathType ==
  ASSUME NEW path \in Paths
  PROVE  Len(path) \in Nat /\ \A i \in 1..Len(path) : path[i] \in NAMES
<1>1. PICK m \in 0..DEPTH : path \in [1..m -> NAMES] BY DEF Paths
<1>2. m \in Nat BY SizesAssumption
<1>3. path \in Seq(NAMES) BY <1>1, <1>2, SeqDef
<1> QED BY <1>3, LenProperties

\* One step of cd, from inode k.
Follow(k, n) ==
  IF IsDir(k) /\ Found(BlockOf(k), n) # {}
  THEN dirs[BlockOf(k)][search_in_dir_block(BlockOf(k), n)].inode
  ELSE ENOENT

Stepped(f, path, i) == IF i = 0 THEN EXT2_ROOT_INO ELSE Follow(f[i - 1], path[i])
IsWalk(f, path, n) == f = [i \in 0..n |-> Stepped(f, path, i)]

(* The recursive definition in cd defines something. *)
LEMMA WalksExist ==
  ASSUME NEW path
  PROVE  \A n \in Nat : \E f : IsWalk(f, path, n)
<1> DEFINE Missing == {n \in Nat : ~ \E f : IsWalk(f, path, n)}
<1> SUFFICES ASSUME Missing # {} PROVE FALSE OBVIOUS
<1>1. PICK n \in Missing : \A m \in Missing : n <= m
  <2>1. Missing \subseteq Nat OBVIOUS
  <2> HIDE DEF Missing
  <2> QED BY <2>1, LeastFound
<1>2. n \in Nat /\ ~ \E f : IsWalk(f, path, n) OBVIOUS
<1>3. n # 0
  <2> DEFINE f == [i \in 0..0 |-> EXT2_ROOT_INO]
  <2>1. ASSUME n = 0 PROVE IsWalk(f, path, n) BY <2>1 DEF IsWalk, Stepped
  <2> QED BY <1>2, <2>1
<1>4. PICK f : IsWalk(f, path, n - 1)
  <2>1. n - 1 \in Nat /\ ~ (n <= n - 1) BY <1>2, <1>3
  <2>2. n - 1 \notin Missing BY <1>1, <2>1
  <2> QED BY <2>1, <2>2
<1>5. \A i \in 0..n - 1 : f[i] = Stepped(f, path, i) BY <1>4 DEF IsWalk
<1> DEFINE g == [i \in 0..n |-> IF i = n THEN Stepped(f, path, n) ELSE f[i]]
<1>6. \A i \in 0..n - 1 : g[i] = f[i] BY <1>2
<1>7. ASSUME NEW i \in 0..n PROVE g[i] = Stepped(g, path, i)
  <2>1. i = 0 \/ i - 1 \in 0..n - 1 BY <1>2
  <2>2. i = 0 \/ g[i - 1] = f[i - 1] BY <1>6, <2>1
  <2>3. Stepped(g, path, i) = Stepped(f, path, i) BY <2>2 DEF Stepped
  <2>4. g[i] = Stepped(f, path, i)
    <3>1. CASE i = n BY <3>1
    <3>2. CASE i # n
      <4>1. i \in 0..n - 1 BY <1>2, <3>2
      <4> QED BY <1>5, <1>6, <4>1
    <3> QED BY <3>1, <3>2
  <2> QED BY <2>3, <2>4
<1>8. IsWalk(g, path, n) BY <1>7 DEF IsWalk
<1> QED BY <1>2, <1>8

(* The inodes a path leads through. *)
LEMMA CdWalk ==
  ASSUME NEW path \in Paths
  PROVE  \E f : /\ f[0] = EXT2_ROOT_INO /\ f[Len(path)] = cd(path)
                /\ \A i \in 1..Len(path) : f[i] = Follow(f[i - 1], path[i])
<1>1. Len(path) \in Nat BY PathType
<1> DEFINE f == CHOOSE g : IsWalk(g, path, Len(path))
<1>2. IsWalk(f, path, Len(path)) BY <1>1, WalksExist
<1>3. cd(path) = f[Len(path)] BY DEF cd, IsWalk, Stepped, Follow
<1> HIDE DEF f
<1>4. \A i \in 0..Len(path) : f[i] = Stepped(f, path, i) BY <1>2 DEF IsWalk
<1>5. f[0] = EXT2_ROOT_INO BY <1>1, <1>4 DEF Stepped
<1>6. \A i \in 1..Len(path) : i \in 0..Len(path) /\ i # 0 BY <1>1
<1>7. \A i \in 1..Len(path) : f[i] = Follow(f[i - 1], path[i]) BY <1>4, <1>6 DEF Stepped
<1> QED BY <1>3, <1>5, <1>7

-----------------------------------------------------------------------------
(* The operators of the model, in the words of the invariant.              *)

Hits(h, n) == {s \in Links(h) : h[s].name = n}

(* Chains, entries and searches depend on the headers of a block alone. *)
LEMMA BlocksOfModel ==
  ASSUME dirs \in [Disk -> Headers]
  PROVE  \A b \in Disk : /\ Chain(b) = Links(dirs[b]) /\ Entries(b) = EntriesIn(dirs[b])
                        /\ \A n : Found(b, n) = Hits(dirs[b], n)
<1> TAKE b \in Disk
<1>1. dirs[b] \in Headers OBVIOUS
<1>2. Chain(b) = Links(dirs[b]) BY <1>1, ChainIsLinks
<1>3. Links(dirs[b]) \subseteq Slot BY <1>1, LinksFacts
<1> QED BY <1>2, <1>3 DEF Entries, EntriesIn, Found, Hits

(* The directories of the model. *)
LEMMA DirsOfModel ==
  ASSUME DiskSound
  PROVE  /\ DirsOf(ind_bmp, kinds) = {k \in InUse : IsDir(k)}
         /\ dirs \in [Disk -> Headers]
         /\ \A k \in DirsOf(ind_bmp, kinds) :
              /\ BlockOf(k) = Least(kinds[k].i_block) /\ BlockOf(k) \in Disk
              /\ dirs[BlockOf(k)] = HeadersIn(kinds, dirs, k) /\ dirs[BlockOf(k)] \in Headers
              /\ Entries(BlockOf(k)) = EntriesIn(HeadersIn(kinds, dirs, k))
              /\ \A n : Found(BlockOf(k), n) = Hits(HeadersIn(kinds, dirs, k), n)
         /\ EXT2_ROOT_INO \notin ind_bmp /\ ~IsDir(ENOENT)
<1>1. Typed(ind_bmp, kinds, blk_bmp, dirs) BY DEF DiskSound, Sound
<1>2. ind_bmp \subseteq Inode /\ dirs \in [Disk -> Headers] BY <1>1 DEF Typed
<1>3. DirsOf(ind_bmp, kinds) = {k \in InUse : IsDir(k)}
  <2>1. InUse \subseteq Inode \cup {EXT2_ROOT_INO} BY <1>2 DEF InUse
  <2>2. \A k \in Inode \cup {EXT2_ROOT_INO} : IsDir(k) <=> kinds[k].i_mode = "EXT2_S_IFDIR" BY KindsAre
  <2>3. \A k \in InUse : IsDir(k) <=> kinds[k].i_mode = "EXT2_S_IFDIR" BY <2>1, <2>2
  <2>4. DirsOf(ind_bmp, kinds) = {k \in InUse : kinds[k].i_mode = "EXT2_S_IFDIR"} BY DEF DirsOf, InUse
  <2> QED BY <2>3, <2>4
<1>4. \A k \in DirsOf(ind_bmp, kinds) :
        /\ Least(kinds[k].i_block) \in Disk
        /\ HeadersIn(kinds, dirs, k) \in Headers
  BY DirectoryBlocks DEF DiskSound
<1>5. ASSUME NEW k \in DirsOf(ind_bmp, kinds)
      PROVE  /\ BlockOf(k) = Least(kinds[k].i_block) /\ BlockOf(k) \in Disk
             /\ dirs[BlockOf(k)] = HeadersIn(kinds, dirs, k) /\ dirs[BlockOf(k)] \in Headers
             /\ Entries(BlockOf(k)) = EntriesIn(HeadersIn(kinds, dirs, k))
             /\ \A n : Found(BlockOf(k), n) = Hits(HeadersIn(kinds, dirs, k), n)
  <2>1. BlockOf(k) = Least(kinds[k].i_block)
    <3>1. k \in Inode \cup {EXT2_ROOT_INO} BY <1>2 DEF DirsOf
    <3>2. kinds[k].i_block = ind_tbl[k].i_block BY <3>1, KindsAre
    <3> QED BY <3>2 DEF BlockOf
  <2>2. dirs[BlockOf(k)] = HeadersIn(kinds, dirs, k) BY <2>1 DEF HeadersIn
  <2> QED BY <1>2, <1>4, <2>1, <2>2, BlocksOfModel
<1>6. EXT2_ROOT_INO \notin ind_bmp BY <1>2, RootIsNoFile
<1>7. ~IsDir(ENOENT) BY DEF IsDir, ENOENT, Inode, EXT2_ROOT_INO
<1> QED BY <1>2, <1>3, <1>5, <1>6, <1>7

\* f is the way along a path through directories alone.
DirPath(ib, tb, d, path, f) ==
  /\ f[0] = EXT2_ROOT_INO
  /\ \A i \in 0..Len(path) : f[i] \in DirsOf(ib, tb)
  /\ \A i \in 1..Len(path) :
       LET h == HeadersIn(tb, d, f[i - 1])
       IN  Hits(h, path[i]) # {} /\ f[i] = h[Least(Hits(h, path[i]))].inode

(* One step of cd leads to an inode in use, or fails. *)
LEMMA FollowInUse ==
  ASSUME DiskSound, NEW k \in InUse \cup {ENOENT}, NEW n \in NAMES
  PROVE  /\ Follow(k, n) \in InUse \cup {ENOENT}
         /\ Follow(k, n) # ENOENT =>
              LET h == HeadersIn(kinds, dirs, k)
              IN  k \in DirsOf(ind_bmp, kinds) /\ Hits(h, n) # {} /\ Follow(k, n) = h[Least(Hits(h, n))].inode
<1> SUFFICES ASSUME IsDir(k), Found(BlockOf(k), n) # {}
             PROVE  LET h == HeadersIn(kinds, dirs, k)
                    IN  /\ Follow(k, n) \in InUse
                        /\ k \in DirsOf(ind_bmp, kinds) /\ Hits(h, n) # {}
                        /\ Follow(k, n) = h[Least(Hits(h, n))].inode
  BY DEF Follow
<1>1. k \in DirsOf(ind_bmp, kinds) BY DirsOfModel
<1> DEFINE h == HeadersIn(kinds, dirs, k)
<1>2. Found(BlockOf(k), n) = Hits(h, n) /\ dirs[BlockOf(k)] = h /\ h \in Headers BY <1>1, DirsOfModel
<1>3. Follow(k, n) = h[Least(Hits(h, n))].inode BY <1>2 DEF Follow, search_in_dir_block
<1>4. Least(Hits(h, n)) \in Hits(h, n)
  <2>1. Hits(h, n) \subseteq Nat BY <1>2, LinksFacts, Lengths DEF Hits
  <2>2. Hits(h, n) # {} BY <1>2
  <2> HIDE DEF h
  <2> QED BY <2>1, <2>2, LeastFound
<1>5. Least(Hits(h, n)) \in EntriesIn(h) BY <1>4 DEF Hits, EntriesIn
<1>6. h[Least(Hits(h, n))].inode \in ind_bmp BY <1>1, <1>5 DEF DiskSound, Sound, NamedOnce
<1> QED BY <1>1, <1>2, <1>3, <1>6 DEF InUse

(* cd leads to an inode in use, or fails. *)
LEMMA CdInUse ==
  ASSUME DiskSound, NEW path \in Paths
  PROVE  /\ cd(path) \in InUse \cup {ENOENT}
         /\ IsDir(cd(path)) => \E f : DirPath(ind_bmp, kinds, dirs, path, f) /\ f[Len(path)] = cd(path)
<1>1. PICK f : /\ f[0] = EXT2_ROOT_INO /\ f[Len(path)] = cd(path)
               /\ \A i \in 1..Len(path) : f[i] = Follow(f[i - 1], path[i])
  BY CdWalk
<1>2. Len(path) \in Nat /\ \A i \in 1..Len(path) : path[i] \in NAMES BY PathType
<1>3. \A i \in 0..Len(path) : f[i] \in InUse \cup {ENOENT}
  <2> DEFINE X == {i \in 0..Len(path) : f[i] \notin InUse \cup {ENOENT}}
  <2> SUFFICES ASSUME X # {} PROVE FALSE OBVIOUS
  <2>1. PICK i \in X : \A j \in X : i <= j
    <3>1. X \subseteq Nat BY <1>2
    <3> HIDE DEF X
    <3> QED BY <3>1, LeastFound
  <2>2. i \in 0..Len(path) /\ i # 0 BY <1>1 DEF InUse
  <2>3. i - 1 \in 0..Len(path) /\ i \in 1..Len(path) /\ ~(i <= i - 1) BY <1>2, <2>2
  <2>4. f[i - 1] \in InUse \cup {ENOENT} BY <2>1, <2>3
  <2>5. f[i] \in InUse \cup {ENOENT}
    <3> DEFINE k == f[i - 1]
               n == path[i]
    <3>1. k \in InUse \cup {ENOENT} /\ n \in NAMES /\ f[i] = Follow(k, n) BY <1>1, <1>2, <2>3, <2>4
    <3> HIDE DEF k, n
    <3> QED BY <3>1, FollowInUse
  <2> QED BY <2>5
<1>4. ASSUME IsDir(cd(path)) PROVE DirPath(ind_bmp, kinds, dirs, path, f)
  <2>1. \A i \in 0..Len(path) : f[i] # ENOENT
    <3> DEFINE X == {i \in 0..Len(path) : f[Len(path) - i] = ENOENT}
    <3>1. X = {}
      <4> SUFFICES ASSUME X # {} PROVE FALSE OBVIOUS
      <4>1. PICK i \in X : \A j \in X : i <= j
        <5>1. X \subseteq Nat BY <1>2
        <5> HIDE DEF X
        <5> QED BY <5>1, LeastFound
      <4>2. i \in 0..Len(path) /\ f[Len(path) - i] = ENOENT OBVIOUS
      <4>3. i # 0 BY <1>1, <1>2, <1>4, <4>2, DirsOfModel
      <4> DEFINE j == Len(path) - (i - 1)
      <4>4. j \in 1..Len(path) /\ j - 1 = Len(path) - i /\ i - 1 \in 0..Len(path) /\ ~(i <= i - 1)
        BY <1>2, <4>2, <4>3
      <4>5. f[j] = Follow(ENOENT, path[j]) BY <1>1, <4>2, <4>4
      <4>6. f[j] = ENOENT BY <4>5, DirsOfModel DEF Follow
      <4>7. i - 1 \in X BY <4>4, <4>6
      <4> QED BY <4>1, <4>4, <4>7
    <3> SUFFICES ASSUME NEW i \in 0..Len(path), f[i] = ENOENT PROVE FALSE OBVIOUS
    <3>2. Len(path) - i \in 0..Len(path) /\ Len(path) - (Len(path) - i) = i BY <1>2
    <3>3. Len(path) - i \in X BY <3>2
    <3> QED BY <3>1, <3>3
  <2>2. ASSUME NEW i \in 1..Len(path)
        PROVE  /\ f[i - 1] \in DirsOf(ind_bmp, kinds)
               /\ LET h == HeadersIn(kinds, dirs, f[i - 1])
                  IN  Hits(h, path[i]) # {} /\ f[i] = h[Least(Hits(h, path[i]))].inode
    <3>1. i \in 0..Len(path) /\ i - 1 \in 0..Len(path) BY <1>2
    <3>2. f[i] = Follow(f[i - 1], path[i]) /\ f[i] # ENOENT BY <1>1, <2>1, <3>1
    <3>3. f[i - 1] \in InUse \cup {ENOENT} /\ path[i] \in NAMES BY <1>2, <1>3, <3>1
    <3> QED BY <3>2, <3>3, FollowInUse
  <2>3. f[Len(path)] \in DirsOf(ind_bmp, kinds)
    <3>1. Len(path) \in 0..Len(path) BY <1>2
    <3>2. cd(path) \in InUse BY <1>1, <1>3, <2>1, <3>1
    <3> QED BY <1>1, <1>4, <3>2, DirsOfModel
  <2>4. ASSUME NEW i \in 0..Len(path) PROVE f[i] \in DirsOf(ind_bmp, kinds)
    <3>1. CASE i = Len(path) BY <3>1, <2>3
    <3>2. CASE i # Len(path)
      <4>1. i + 1 \in 1..Len(path) /\ (i + 1) - 1 = i BY <1>2, <3>2
      <4> QED BY <2>2, <4>1
    <3> QED BY <3>1, <3>2
  <2> QED BY <1>1, <2>2, <2>4 DEF DirPath
<1>5. cd(path) \in InUse \cup {ENOENT}
  <2>1. Len(path) \in 0..Len(path) BY <1>2
  <2> QED BY <1>1, <1>3, <2>1
<1> QED BY <1>1, <1>4, <1>5

\* cd goes the way of directories.
CdAgrees == \A path \in Paths : \A f : DirPath(ind_bmp, kinds, dirs, path, f) => cd(path) = f[Len(path)]

(* It does, when the disk is sound. *)
LEMMA CdAgreesHolds == DiskSound => CdAgrees
<1> SUFFICES ASSUME DiskSound, NEW path \in Paths, NEW f, DirPath(ind_bmp, kinds, dirs, path, f)
             PROVE  cd(path) = f[Len(path)]
  BY DEF CdAgrees
<1>1. PICK g : /\ g[0] = EXT2_ROOT_INO /\ g[Len(path)] = cd(path)
               /\ \A i \in 1..Len(path) : g[i] = Follow(g[i - 1], path[i])
  BY CdWalk
<1>2. Len(path) \in Nat BY PathType
<1>3. ASSUME NEW i \in 1..Len(path) PROVE f[i] = Follow(f[i - 1], path[i])
  <2> DEFINE k == f[i - 1]
             h == HeadersIn(kinds, dirs, k)
  <2>1. i - 1 \in 0..Len(path) BY <1>2
  <2>2. k \in DirsOf(ind_bmp, kinds) BY <2>1 DEF DirPath
  <2>3. Hits(h, path[i]) # {} /\ f[i] = h[Least(Hits(h, path[i]))].inode BY DEF DirPath
  <2>4. Found(BlockOf(k), path[i]) = Hits(h, path[i]) /\ dirs[BlockOf(k)] = h /\ IsDir(k) BY <2>2, DirsOfModel
  <2> HIDE DEF k, h
  <2>5. Follow(k, path[i]) = h[Least(Hits(h, path[i]))].inode BY <2>3, <2>4 DEF Follow, search_in_dir_block
  <2> QED BY <2>3, <2>5 DEF k
<1>4. f[0] = EXT2_ROOT_INO BY DEF DirPath
<1> DEFINE X == {i \in 0..Len(path) : f[i] # g[i]}
<1>5. X = {}
  <2> SUFFICES ASSUME X # {} PROVE FALSE OBVIOUS
  <2>1. PICK i \in X : \A j \in X : i <= j
    <3>1. X \subseteq Nat BY <1>2
    <3> HIDE DEF X
    <3> QED BY <3>1, LeastFound
  <2>2. i \in 0..Len(path) /\ i # 0 BY <1>1, <1>4
  <2>3. i - 1 \in 0..Len(path) /\ i \in 1..Len(path) /\ ~(i <= i - 1) BY <1>2, <2>2
  <2>4. f[i - 1] = g[i - 1] BY <2>1, <2>3
  <2> QED BY <1>1, <1>3, <2>3, <2>4
<1>6. Len(path) \in 0..Len(path) BY <1>2
<1> QED BY <1>1, <1>5, <1>6

-----------------------------------------------------------------------------
(* mkdir and cp.                                                           *)

(* The allocators return one block when one is wanted and one is free. *)
LEMMA OneBlock ==
  ASSUME Block \ blk_bmp # {}
  PROVE  \E c \in Block \ blk_bmp : allocate_block(1) = {c}
<1> DEFINE free == Block \ blk_bmp
           Before(x) == {y \in free : y < x}
<1>1. free \subseteq Nat /\ IsFiniteSet(free) BY FinitePieces, FS_Subset, SizesAssumption DEF Block
<1> HIDE DEF Before
<1>2. PICK c \in free : \A y \in free : c <= y
  <2>1. free # {} OBVIOUS
  <2> HIDE DEF free
  <2> QED BY <1>1, <2>1, LeastFound
<1> USE DEF Before
<1>3. ASSUME NEW x \in free PROVE Cardinality(Before(x)) < 1 <=> x = c
  <2>1. IsFiniteSet(Before(x)) BY <1>1, FS_Subset
  <2>2. Cardinality(Before(x)) \in Nat /\ (Cardinality(Before(x)) = 0 <=> Before(x) = {})
    BY <2>1, FS_CardinalityType, FS_EmptySet
  <2>3. Before(x) = {} <=> x = c BY <1>1, <1>2
  <2> HIDE DEF Before
  <2> QED BY <2>2, <2>3
<1>4. allocate_block(1) = {x \in free : Cardinality(Before(x)) < 1} BY DEF allocate_block
<1> HIDE DEF Before
<1> QED BY <1>3, <1>4

(* Where the search for room leads to, an entry can be put. *)
LEMMA RoomPut ==
  ASSUME dirs \in [Disk -> Headers], NEW b \in Block, RoomIn(b) # {}, NEW t, t = Least(RoomIn(b)),
         NEW entry, entry.rec_len = DirRecLen(b, t)
  PROVE  PutBehind(dirs[b], Written(b, t, entry), t - 1, entry)
<1> DEFINE h == dirs[b]
           w == Written(b, t, entry)
           r == t - 1
<1>1. b # BOOT /\ b \in Disk /\ h \in Headers BY SizesAssumption DEF Block, BOOT, Disk
<1>2. RoomIn(b) = {s + 1 : s \in {x \in Slot : h[x].rec_len >= 2}} BY <1>1 DEF RoomIn
<1>3. RoomIn(b) \subseteq Nat BY <1>2, SizesAssumption DEF Slot
<1>4. t \in RoomIn(b) /\ \A y \in RoomIn(b) : t <= y BY <1>3, LeastFound
<1>5. r \in Slot /\ h[r].rec_len >= 2 /\ t = r + 1 /\ t # 1 /\ r # t
  BY <1>2, <1>4, SizesAssumption DEF Slot
<1>6. ASSUME NEW s \in Slot, h[s].rec_len >= 2 PROVE r <= s
  <2>1. t <= s + 1 BY <1>2, <1>4, <1>6
  <2> QED BY <2>1, <1>5, SizesAssumption DEF Slot
<1>7. t \in Slot BY <1>1, RoomFits
<1>8. entry.rec_len = h[r].rec_len - 1 BY <1>5 DEF DirRecLen, Spare
<1>9. w[t] = entry BY <1>7 DEF Written
<1>10. w[r] = [h[r] EXCEPT !.rec_len = 1] BY <1>5 DEF Written
<1>11. ASSUME NEW s \in Slot \ {r, t} PROVE w[s] = h[s]
  <2>1. s + 1 # t BY <1>5, <1>11, SizesAssumption DEF Slot
  <2> QED BY <1>11, <2>1 DEF Written
<1> HIDE DEF w, h
<1>12. PutBehind(h, w, r, entry)
  <2>1. r + 1 = t BY <1>5
  <2> HIDE DEF r
  <2> QED BY <1>5, <1>6, <1>8, <1>9, <1>10, <1>11, <2>1 DEF PutBehind
<1> QED BY <1>12 DEF w, h

(* The block a command puts an entry into is that of the directory, or block 0. *)
LEMMA RoomFound ==
  ASSUME DiskSound, NEW path \in Paths, IsDir(cd(path)), HasRoom(cd(path)),
         NEW p, p = cd(path), NEW b, b = RoomBlock(p)
  PROVE  /\ p \in DirsOf(ind_bmp, kinds) /\ p \in Inode \cup {EXT2_ROOT_INO}
         /\ b \in Disk /\ RoomIn(b) # {} /\ (b = BOOT \/ (b = Least(kinds[p].i_block) /\ b \in Block))
         /\ RoomIn(BlockOf(p)) # {} => b # BOOT
<1>1. p \in InUse BY CdInUse, DirsOfModel
<1>2. p \in DirsOf(ind_bmp, kinds) BY <1>1, DirsOfModel
<1>3. p \in Inode \cup {EXT2_ROOT_INO} BY DEF IsDir
<1>4. RoomIn(b) # {} BY DEF HasRoom
<1>5. b = BOOT \/ b = BlockOf(p) BY DEF RoomBlock
<1>6. BlockOf(p) = Least(kinds[p].i_block) /\ BlockOf(p) \in Block
  BY <1>2, DirsOfModel, DirectoryBlocks DEF DiskSound
<1>7. RoomIn(BlockOf(p)) # {} => b # BOOT
  <2>1. BOOT \notin Block BY SizesAssumption DEF BOOT, Block
  <2> QED BY <1>6, <2>1 DEF RoomBlock
<1> QED BY <1>2, <1>3, <1>4, <1>5, <1>6, <1>7 DEF Disk

\* What mkdir and cp do: a new inode, and an entry for it in directory p, or in block 0
\* if the directory has no room.
PutsEntry(p, k, new, inode, b, w, r, entry) ==
  /\ Added(ind_bmp, kinds, blk_bmp, dirs, p, k, new, inode, b, w, r, entry, dirs')
  /\ ind_bmp' = ind_bmp \cup {k} /\ blk_bmp' = blk_bmp \cup new
  /\ kinds' = [kinds EXCEPT ![k] = inode]

MakesName(p, n) ==
  \E k, new, inode, b, w, r, entry :
    /\ PutsEntry(p, k, new, inode, b, w, r, entry) /\ entry.name = n
    /\ RoomIn(BlockOf(p)) # {} => b # BOOT
    /\ inode.i_mode = "EXT2_S_IFDIR" => succeeded'

(* The image stays sound. *)
LEMMA MakeSound ==
  ASSUME DiskSound, NEW p, NEW n, MakesName(p, n)
  PROVE  DiskSound'
<1>1. PICK k, new, inode, b, w, r, entry : PutsEntry(p, k, new, inode, b, w, r, entry) BY DEF MakesName
<1> DEFINE dirs2 == dirs'
<1>2. /\ Added(ind_bmp, kinds, blk_bmp, dirs, p, k, new, inode, b, w, r, entry, dirs2)
      /\ ind_bmp' = ind_bmp \cup {k} /\ blk_bmp' = blk_bmp \cup new
      /\ kinds' = [kinds EXCEPT ![k] = inode]
  BY <1>1 DEF PutsEntry
<1>3. Sound(ind_bmp, kinds, blk_bmp, dirs) BY DEF DiskSound
<1> HIDE DEF dirs2
<1>4. Sound(ind_bmp \cup {k}, [kinds EXCEPT ![k] = inode], blk_bmp \cup new, dirs2)
  BY <1>2, <1>3, AddSound
<1> QED BY <1>2, <1>4 DEF DiskSound, dirs2

(* ext2_mkdir does that, also under the name of a file. *)
LEMMA MkdirMakes ==
  ASSUME TypeOK, RecordsFit, DiskSound, NEW path \in Paths, NEW n \in NAMES, ext2_mkdir(path, n)
  PROVE  MakesName(cd(path), n)
<1> DEFINE p == cd(path)
           b == RoomBlock(p)
           t == Least(RoomIn(b))
           k == allocate_inode
           new == allocate_block(1)
           entry == [inode |-> k, rec_len |-> DirRecLen(b, t), name |-> n]
           w == Written(b, t, entry)
           written == [i_mode |-> "EXT2_S_IFDIR", i_block |-> IF new = {} THEN {NO_BLOCK} ELSE new]
           inode == Marked(written)
           r == t - 1
<1>1. /\ p \in DirsOf(ind_bmp, kinds) /\ p \in Inode \cup {EXT2_ROOT_INO}
      /\ b \in Disk /\ RoomIn(b) # {} /\ (b = BOOT \/ (b = Least(kinds[p].i_block) /\ b \in Block))
      /\ RoomIn(BlockOf(p)) # {} => b # BOOT
  <2>1. IsDir(cd(path)) /\ HasRoom(cd(path)) BY DEF ext2_mkdir
  <2> QED BY <2>1, RoomFound
<1>2. k \in Inode \ ind_bmp BY AllocatedInode DEF ext2_mkdir
<1>3. new \in SUBSET (Block \ blk_bmp) /\ (new = {} \/ \E c \in Block \ blk_bmp : new = {c})
  <2>1. new \in SUBSET (Block \ blk_bmp) BY AllocatedBlocks
  <2>2. CASE Block \ blk_bmp = {} BY <2>1, <2>2
  <2>3. CASE Block \ blk_bmp # {} BY <2>1, <2>3, OneBlock
  <2> QED BY <2>2, <2>3
<1>4. /\ kinds' = [kinds EXCEPT ![k] = inode] /\ inode \in marked_inode
      /\ inode.i_block = IF new = {} THEN {NO_BLOCK} ELSE new
  <2>1. written \in ext2_inode BY <1>3 DEF ext2_inode, Mode
  <2>2. ind_tbl' = [ind_tbl EXCEPT ![k] = written] BY DEF ext2_mkdir
  <2>3. written.i_block = IF new = {} THEN {NO_BLOCK} ELSE new OBVIOUS
  <2> HIDE DEF k, written
  <2> QED BY <1>2, <2>1, <2>2, <2>3, KindsWritten
<1>5. inode.i_mode = "EXT2_S_IFDIR" => new # {} BY DEF Marked
<1>6. inode.i_mode = "EXT2_S_IFDIR" => succeeded'
  <2>1. succeeded' \in IF new = {} THEN BOOLEAN ELSE {TRUE} BY DEF ext2_mkdir
  <2> HIDE DEF new, inode
  <2> QED BY <1>5, <2>1
<1>7. w \in Headers /\ entry.name = n /\ entry.inode = k /\ entry.rec_len = DirRecLen(b, t)
  BY <1>1, <1>2, EntryFits
<1>8. dirs \in [Disk -> Headers] BY HeadersOfDisk
<1>9. b = BOOT \/ (b = Least(kinds[p].i_block) /\ PutBehind(dirs[b], w, r, entry))
  <2>1. b \in Block => PutBehind(dirs[b], Written(b, t, entry), t - 1, entry)
    <3> HIDE DEF b, entry
    <3>1. t = Least(RoomIn(b)) OBVIOUS
    <3> HIDE DEF t
    <3> QED BY <1>1, <1>7, <1>8, <3>1, RoomPut
  <2> QED BY <1>1, <2>1
<1>10. dirs' = [x \in Disk |-> IF x \in new THEN NewDirectory(k, p)
                               ELSE IF x = b THEN w ELSE dirs[x]]
  BY DEF ext2_mkdir, Disk
<1>11. NewDirectory(k, p) \in Headers BY <1>1, <1>2, NewBlocksFit
<1>12. b \notin new
  <2>1. BOOT \notin Block BY SizesAssumption DEF BOOT, Block
  <2>2. Least(kinds[p].i_block) \in blk_bmp BY <1>1, DirectoryBlocks DEF DiskSound
  <2> QED BY <1>1, <1>3, <2>1, <2>2
<1>13. ind_bmp' = ind_bmp \cup {k} /\ blk_bmp' = blk_bmp \cup new BY DEF ext2_mkdir
<1> HIDE DEF p, b, t, k, new, entry, w, inode, r
<1>14. /\ dirs' \in [Disk -> Headers] /\ dirs'[b] = w /\ \A c \in new : dirs'[c] = NewDirectory(k, p)
       /\ \A x \in Disk \ (new \cup {b}) : dirs'[x] = dirs[x]
  <2>1. \A c \in new : c \in Disk BY <1>3 DEF Disk
  <2> QED BY <1>1, <1>7, <1>8, <1>10, <1>11, <1>12, <2>1
<1>15. Added(ind_bmp, kinds, blk_bmp, dirs, p, k, new, inode, b, w, r, entry, dirs')
  <2>1. inode.i_block \ {NO_BLOCK} = new BY <1>3, <1>4, RootIsNoFile
  <2>2. inode.i_mode = "EXT2_S_IFDIR" => \E c \in new : inode.i_block = {c} /\ dirs'[c] = NewDirectory(k, p)
    BY <1>3, <1>4, <1>5, <1>14
  <2> QED BY <1>1, <1>2, <1>3, <1>4, <1>7, <1>9, <1>14, <2>1, <2>2 DEF Added
<1>16. PutsEntry(p, k, new, inode, b, w, r, entry) /\ entry.name = n BY <1>4, <1>7, <1>13, <1>15 DEF PutsEntry
<1> QED BY <1>1, <1>6, <1>16 DEF MakesName, p

(* ext2_cp does it when it writes into no gap wider than an entry, also when the  *)
(* disk is full.                                                                 *)
LEMMA CpMakes ==
  ASSUME "wide_gap" \notin ALLOWED,
         TypeOK, RecordsFit, DiskSound, NEW path \in Paths, NEW n \in NAMES, ext2_cp(path, n)
  PROVE  MakesName(cd(path), n)
<1> DEFINE p == cd(path)
           b == RoomBlock(p)
           t == Least(RoomIn(b))
           k == allocate_inode
           entry == [inode |-> k, rec_len |-> FileRecLen(b, t), name |-> n]
           w == Written(b, t, entry)
           r == t - 1
<1>1. /\ p \in DirsOf(ind_bmp, kinds) /\ p \in Inode \cup {EXT2_ROOT_INO}
      /\ b \in Disk /\ RoomIn(b) # {} /\ (b = BOOT \/ (b = Least(kinds[p].i_block) /\ b \in Block))
      /\ RoomIn(BlockOf(p)) # {} => b # BOOT
  <2>1. IsDir(cd(path)) /\ HasRoom(cd(path)) BY DEF ext2_cp
  <2> QED BY <2>1, RoomFound
<1>2. k \in Inode \ ind_bmp BY AllocatedInode DEF ext2_cp
<1>3. PICK got \in SUBSET (Block \ blk_bmp), more \in SUBSET {NO_BLOCK} :
        /\ blk_bmp' = blk_bmp \cup got
        /\ ind_tbl' = [ind_tbl EXCEPT ![k] = [i_mode |-> "EXT2_S_IFREG", i_block |-> got \cup more]]
        /\ dirs' = [Cleared(got) EXCEPT ![b] = w]
  <2>1. PICK total \in SIZES :
          LET got == IF total > free_blocks THEN {} ELSE allocate_block(total)
              short == IF total > free_blocks THEN 0 ELSE total - Cardinality(got)
          IN  /\ blk_bmp' = blk_bmp \cup got
              /\ ind_tbl' = [ind_tbl EXCEPT ![k] =
                               [i_mode  |-> "EXT2_S_IFREG",
                                i_block |-> got \cup (IF short = 0 THEN {} ELSE {NO_BLOCK})]]
              /\ dirs' = [Cleared(got) EXCEPT ![b] = w]
    BY DEF ext2_cp
  <2> DEFINE got == IF total > free_blocks THEN {} ELSE allocate_block(total)
             short == IF total > free_blocks THEN 0 ELSE total - Cardinality(got)
             more == IF short = 0 THEN {} ELSE {NO_BLOCK}
  <2>2. got \in SUBSET (Block \ blk_bmp) BY AllocatedBlocks
  <2>3. more \in SUBSET {NO_BLOCK} OBVIOUS
  <2>4. /\ blk_bmp' = blk_bmp \cup got
        /\ ind_tbl' = [ind_tbl EXCEPT ![k] = [i_mode |-> "EXT2_S_IFREG", i_block |-> got \cup more]]
        /\ dirs' = [Cleared(got) EXCEPT ![b] = w]
    BY <2>1
  <2> HIDE DEF k, b, w, got, more
  <2> QED BY <2>2, <2>3, <2>4
<1> DEFINE written == [i_mode |-> "EXT2_S_IFREG", i_block |-> got \cup more]
           inode == Marked(written)
<1>4. /\ inode \in marked_inode /\ inode.i_block \ {NO_BLOCK} = got /\ inode.i_mode # "EXT2_S_IFDIR"
      /\ kinds' = [kinds EXCEPT ![k] = inode]
  <2>1. written \in ext2_inode /\ written.i_block \ {NO_BLOCK} = got BY RootIsNoFile DEF ext2_inode, Mode
  <2>2. inode.i_mode # "EXT2_S_IFDIR" BY DEF Marked
  <2> HIDE DEF k, written
  <2>3. ind_tbl' = [ind_tbl EXCEPT ![k] = written] BY <1>3 DEF written
  <2> QED BY <1>2, <2>1, <2>2, <2>3, KindsWritten
<1>5. FileRecLen(b, t) = DirRecLen(b, t) BY DEF ext2_cp, Use
<1>6. w \in Headers /\ entry.name = n /\ entry.inode = k /\ entry.rec_len = DirRecLen(b, t)
  <2>1. entry.name = n /\ entry.inode = k /\ entry.rec_len = DirRecLen(b, t) BY <1>5
  <2>2. w \in Headers BY <1>1, <1>2, EntryFits
  <2> QED BY <2>1, <2>2
<1>7. dirs \in [Disk -> Headers] BY HeadersOfDisk
<1>8. b = BOOT \/ (b = Least(kinds[p].i_block) /\ PutBehind(dirs[b], w, r, entry))
  <2>1. b \in Block => PutBehind(dirs[b], Written(b, t, entry), t - 1, entry)
    <3> HIDE DEF b, entry
    <3>1. t = Least(RoomIn(b)) OBVIOUS
    <3> HIDE DEF t
    <3> QED BY <1>1, <1>6, <1>7, <3>1, RoomPut
  <2> QED BY <1>1, <2>1
<1>9. /\ ind_bmp' = ind_bmp \cup {k} /\ blk_bmp' = blk_bmp \cup got
      /\ dirs' = [Cleared(got) EXCEPT ![b] = w]
  BY <1>3 DEF ext2_cp
<1> HIDE DEF p, b, t, k, entry, w, inode, r
<1>10. /\ dirs' \in [Disk -> Headers] /\ dirs'[b] = w
       /\ \A x \in Disk \ (got \cup {b}) : dirs'[x] = dirs[x]
  <2>1. Cleared(got) = [x \in Disk |-> IF x \in got THEN Zeroed ELSE dirs[x]] BY DEF Cleared, Disk
  <2> QED BY <1>1, <1>6, <1>7, <1>9, <2>1, NewBlocksFit
<1>11. Added(ind_bmp, kinds, blk_bmp, dirs, p, k, got, inode, b, w, r, entry, dirs')
  BY <1>1, <1>2, <1>4, <1>6, <1>8, <1>10 DEF Added
<1>12. PutsEntry(p, k, got, inode, b, w, r, entry) /\ entry.name = n
  BY <1>4, <1>6, <1>9, <1>11 DEF PutsEntry
<1> QED BY <1>1, <1>4, <1>12 DEF MakesName, p

-----------------------------------------------------------------------------
(* rm and rm_bonus.                                                        *)

(* The removal of an entry, as the model does it. *)
LEMMA UnlinkedIs ==
  ASSUME dirs \in [Disk -> Headers], NEW b \in Disk, NEW s \in Slot, s # 1
  PROVE  Unlinked(b, s) = Without(dirs[b], s)
<1>1. dirs[b] \in Headers OBVIOUS
<1>2. Chain(b) = Links(dirs[b]) BY <1>1, ChainIsLinks
<1>3. ASSUME NEW t \in Slot
      PROVE  /\ t \in Links(dirs[b]) /\ t + dirs[b][t].rec_len = s => t < s
             /\ ~(s = 1 /\ t = 1)
  <2>1. t \in Links(dirs[b]) => dirs[b][t].rec_len > 0 BY <1>1, LinksFacts
  <2>2. t \in Nat /\ dirs[b][t].rec_len \in Nat BY <1>1, Lengths
  <2> QED BY <2>1, <2>2
<1> QED BY <1>2, <1>3 DEF Unlinked, Without

(* The entry that a search finds is one of the directory. *)
LEMMA EntryFound ==
  ASSUME DiskSound, NEW path \in Paths, NEW n \in NAMES, IsDir(cd(path)),
         NEW p, p = cd(path), NEW b, b = BlockOf(p), Found(b, n) # {},
         NEW s, s = search_in_dir_block(b, n)
  PROVE  /\ p \in DirsOf(ind_bmp, kinds) /\ b = Least(kinds[p].i_block) /\ b \in Disk
         /\ HeadersIn(kinds, dirs, p) = dirs[b]
         /\ s \in EntriesIn(dirs[b]) /\ dirs[b][s].name = n /\ dirs[b][s].inode \in ind_bmp
         /\ Unlinked(b, s) = Without(dirs[b], s)
<1>1. p \in DirsOf(ind_bmp, kinds) BY CdInUse, DirsOfModel
<1>2. /\ b = Least(kinds[p].i_block) /\ b \in Disk
      /\ HeadersIn(kinds, dirs, p) = dirs[b] /\ dirs[b] \in Headers
      /\ Found(b, n) = Hits(dirs[b], n) /\ dirs \in [Disk -> Headers]
  BY <1>1, DirsOfModel
<1>3. s \in Hits(dirs[b], n)
  <2>1. Hits(dirs[b], n) \subseteq Nat BY <1>2, LinksFacts, Lengths DEF Hits
  <2>2. Least(Hits(dirs[b], n)) \in Hits(dirs[b], n) BY <1>2, <2>1, LeastFound
  <2> QED BY <1>2, <2>2 DEF search_in_dir_block
<1>4. s \in EntriesIn(dirs[b]) /\ dirs[b][s].name = n BY <1>3 DEF Hits, EntriesIn
<1>5. dirs[b][s].inode \in ind_bmp BY <1>1, <1>2, <1>4 DEF DiskSound, Sound, NamedOnce
<1>6. s \in Slot /\ s # 1
  <2>1. /\ HeadersIn(kinds, dirs, p)[1].name = "." BY <1>1, SoundDirectory DEF DiskSound
  <2> QED BY <1>2, <1>4, <2>1, LinksFacts, NamesAssumption DEF EntriesIn
<1> QED BY <1>1, <1>2, <1>4, <1>5, <1>6, UnlinkedIs

\* What rm and rm_bonus do: the entry in slot s of directory p is taken out, and the
\* inodes ks, which no other entry outside of them names, are freed.
TakesOut(p, s, ks) ==
  /\ p \in DirsOf(ind_bmp, kinds) /\ s \in EntriesIn(HeadersIn(kinds, dirs, p))
  /\ Asserted(ks) /\ free_inode(ks)
  /\ \A j \in DirsOf(ind_bmp, kinds) \ ks : \A x \in EntriesIn(HeadersIn(kinds, dirs, j)) :
       (j # p \/ x # s) => HeadersIn(kinds, dirs, j)[x].inode \notin ks
  /\ dirs' = [dirs EXCEPT ![Least(kinds[p].i_block)] = Without(dirs[Least(kinds[p].i_block)], s)]

(* The blocks that are freed, in the words of the invariant. *)
LEMMA BlocksSeen ==
  ASSUME DiskSound, NEW ks, ks \subseteq ind_bmp
  PROVE  /\ BlocksOf(ks) = UNION {kinds[k].i_block : k \in ks}
         /\ \A k \in ks : k \in Inode /\ kinds[k].i_block = ind_tbl[k].i_block
<1>1. ks \subseteq Inode BY DEF DiskSound, Sound, Typed
<1>2. \A k \in ks : kinds[k].i_block = ind_tbl[k].i_block BY <1>1, KindsAre
<1>3. {kinds[k].i_block : k \in ks} = {ind_tbl[k].i_block : k \in ks} BY <1>2
<1> QED BY <1>1, <1>2, <1>3 DEF BlocksOf

(* The image stays sound. *)
LEMMA TakeOutSound ==
  ASSUME DiskSound, NEW p, NEW s, NEW ks, TakesOut(p, s, ks)
  PROVE  Removed(ind_bmp, kinds, dirs, p, s, ks, dirs') /\ DiskSound'
<1>1. Removed(ind_bmp, kinds, dirs, p, s, ks, dirs') BY DEF TakesOut, Removed, Asserted
<1>2. Sound(ind_bmp \ ks, kinds, blk_bmp \ UNION {kinds[k].i_block : k \in ks}, dirs')
  <2> DEFINE dirs2 == dirs'
  <2>1. Removed(ind_bmp, kinds, dirs, p, s, ks, dirs2) BY <1>1
  <2>2. Sound(ind_bmp, kinds, blk_bmp, dirs) BY DEF DiskSound
  <2> HIDE DEF dirs2
  <2>3. Sound(ind_bmp \ ks, kinds, blk_bmp \ UNION {kinds[k].i_block : k \in ks}, dirs2)
    BY <2>1, <2>2, RemoveSound
  <2> QED BY <2>3 DEF dirs2
<1>3. /\ ind_bmp' = ind_bmp \ ks /\ kinds' = kinds
      /\ blk_bmp' = blk_bmp \ UNION {kinds[k].i_block : k \in ks}
  <2>1. ks \subseteq ind_bmp /\ free_inode(ks) BY DEF TakesOut, Asserted
  <2> QED BY <2>1, BlocksSeen, KindsKept DEF free_inode
<1> QED BY <1>1, <1>2, <1>3 DEF DiskSound

(* A path of directories is not touched by the removal of a file. *)
LEMMA PathKept ==
  ASSUME NEW ib, NEW tb, NEW bb, NEW d, Sound(ib, tb, bb, d), NEW p, NEW s, NEW k, NEW d2,
         Removed(ib, tb, d, p, s, {k}, d2), k = HeadersIn(tb, d, p)[s].inode,
         tb[k].i_mode # "EXT2_S_IFDIR",
         NEW path, Len(path) \in Nat, NEW f, DirPath(ib, tb, d, path, f)
  PROVE  DirPath(ib \ {k}, tb, d2, path, f)
<1>1. ib \subseteq Inode /\ d \in [Disk -> Headers] BY DEF Sound, Typed
<1>2. p \in DirsOf(ib, tb) /\ s \in EntriesIn(HeadersIn(tb, d, p)) /\ k \in ib BY DEF Removed
<1>3. DirsOf(ib \ {k}, tb) = DirsOf(ib, tb) BY <1>1, <1>2, RootIsNoFile DEF DirsOf
<1>4. /\ \A j \in DirsOf(ib, tb) : Least(tb[j].i_block) \in Disk
      /\ \A i, j \in DirsOf(ib, tb) : Least(tb[i].i_block) = Least(tb[j].i_block) => i = j
  BY DirectoryBlocks
<1>5. ASSUME NEW i \in 1..Len(path)
      PROVE  /\ Hits(HeadersIn(tb, d2, f[i - 1]), path[i]) # {}
             /\ f[i] = HeadersIn(tb, d2, f[i - 1])[Least(Hits(HeadersIn(tb, d2, f[i - 1]), path[i]))].inode
  <2> DEFINE j == f[i - 1]
             n == path[i]
             h == HeadersIn(tb, d, j)
             h2 == HeadersIn(tb, d2, j)
             m == Least(Hits(h, n))
  <2>1. i - 1 \in 0..Len(path) /\ i \in 0..Len(path) OBVIOUS
  <2>2. j \in DirsOf(ib, tb) /\ f[i] \in DirsOf(ib, tb) BY <2>1 DEF DirPath
  <2>3. Hits(h, n) # {} /\ f[i] = h[m].inode BY DEF DirPath
  <2>4. CASE j # p
    <3>1. h2 = h BY <1>1, <1>2, <1>4, <2>2, <2>4 DEF HeadersIn, Removed
    <3> QED BY <2>3, <3>1
  <2>5. CASE j = p
    <3>1. /\ h \in Headers /\ h = d[Least(tb[j].i_block)] /\ Shape(h) /\ h[1].rec_len = 1
          /\ h[1].name = "." /\ h[2].name = ".."
      BY <2>2, SoundDirectory
    <3>2. h2 = Without(h, s) BY <1>1, <1>2, <1>4, <2>2, <2>5, <3>1 DEF HeadersIn, Removed
    <3>3. s \in EntriesIn(h) /\ h[s].inode = k BY <1>2, <2>5
    <3> HIDE DEF h, h2, j, n
    <3>4. Links(h2) = Links(h) \ {s} /\ \A t \in Slot : h2[t].inode = h[t].inode /\ h2[t].name = h[t].name
      BY <3>1, <3>2, <3>3, EntryTaken
    <3>5. Links(h) \subseteq Slot /\ Slot \subseteq Nat BY <3>1, LinksFacts, Lengths
    <3>6. m \in Hits(h, n) /\ \A y \in Hits(h, n) : m <= y
      <4>1. Hits(h, n) \subseteq Nat BY <3>5 DEF Hits
      <4> QED BY <2>3, <4>1, LeastFound
    <3>7. m # s
      <4>1. tb[f[i]].i_mode = "EXT2_S_IFDIR" BY <2>2 DEF DirsOf
      <4> QED BY <2>3, <3>3, <4>1
    <3> HIDE DEF m
    <3>8. Hits(h2, n) = Hits(h, n) \ {s} BY <3>4, <3>5 DEF Hits
    <3>9. Least(Hits(h2, n)) = m
      <4>1. Hits(h2, n) \subseteq Nat BY <3>4, <3>5 DEF Hits
      <4>2. m \in Hits(h2, n) /\ \A y \in Hits(h2, n) : m <= y BY <3>6, <3>7, <3>8
      <4> QED BY <4>1, <4>2, LeastIs
    <3>10. m \in Slot BY <3>5, <3>6 DEF Hits
    <3>11. f[i] = h2[m].inode /\ Hits(h2, n) # {} BY <2>3, <3>4, <3>6, <3>7, <3>8, <3>10
    <3> QED BY <3>9, <3>11 DEF h2, j, n
  <2> QED BY <2>4, <2>5
<1>6. f[0] = EXT2_ROOT_INO /\ \A i \in 0..Len(path) : f[i] \in DirsOf(ib \ {k}, tb) BY <1>3 DEF DirPath
<1> QED BY <1>5, <1>6 DEF DirPath

(* After the removal of a file the image can be put back together. *)
LEMMA FileTakenOut ==
  ASSUME DiskSound, NEW path \in Paths, NEW n \in NAMES, NEW p, p = cd(path), NEW s, NEW k,
         TakesOut(p, s, {k}),
         k = HeadersIn(kinds, dirs, p)[s].inode, HeadersIn(kinds, dirs, p)[s].name = n,
         ~IsDir(k), undo' = [path |-> path, name |-> n, slot |-> s, before |-> image]
  PROVE  UndoSound'
<1>1. Removed(ind_bmp, kinds, dirs, p, s, {k}, dirs') /\ DiskSound' BY TakeOutSound
<1>2. p \in DirsOf(ind_bmp, kinds) BY DEF TakesOut
<1>3. IsDir(cd(path)) BY <1>2, DirsOfModel
<1>4. PICK f : DirPath(ind_bmp, kinds, dirs, path, f) /\ f[Len(path)] = cd(path) BY <1>3, CdInUse
<1>5. k \in ind_bmp /\ k \in Inode /\ kinds[k].i_block \subseteq blk_bmp /\ BlocksOf({k}) = kinds[k].i_block
  <2>1. k \in ind_bmp /\ ind_tbl[k].i_block \subseteq blk_bmp BY DEF TakesOut, Asserted
  <2>2. {k} \subseteq ind_bmp BY <2>1
  <2>3. k \in Inode /\ kinds[k].i_block = ind_tbl[k].i_block BY <2>2, BlocksSeen
  <2>4. BlocksOf({k}) = ind_tbl[k].i_block BY DEF BlocksOf
  <2> QED BY <2>1, <2>3, <2>4
<1>6. kinds[k].i_mode # "EXT2_S_IFDIR" BY <1>5, KindsAre
<1>7. Sound(ind_bmp, kinds, blk_bmp, dirs) BY DEF DiskSound
<1>8. /\ ind_bmp' = ind_bmp \ {k} /\ kinds' = kinds /\ blk_bmp' = blk_bmp \ kinds[k].i_block
  BY <1>5, KindsKept DEF TakesOut, free_inode
<1>9. DirPath(ind_bmp', kinds', dirs', path, f)
  <2> DEFINE dirs2 == dirs'
  <2>1. Removed(ind_bmp, kinds, dirs, p, s, {k}, dirs2) BY <1>1
  <2>2. Len(path) \in Nat BY PathType
  <2> HIDE DEF dirs2
  <2>3. DirPath(ind_bmp \ {k}, kinds, dirs2, path, f) BY <1>4, <1>6, <1>7, <2>1, <2>2, PathKept
  <2> QED BY <1>8, <2>3 DEF dirs2
<1>10. cd(path)' = p
  <2>1. CdAgrees' BY <1>1, CdAgreesHolds, PTL
  <2>2. cd(path)' = f[Len(path)] BY <1>9, <2>1 DEF CdAgrees
  <2> QED BY <1>4, <2>2
<1>11. /\ undo'.before = <<ind_bmp, blk_bmp, dirs>> /\ undo'.path = path /\ undo'.name = n
       /\ undo'.slot = s /\ undo'.before[1] = ind_bmp /\ undo'.before[2] = blk_bmp /\ undo'.before[3] = dirs
  BY DEF image
<1>12. TakenOut(ind_bmp, kinds, blk_bmp, dirs, p, s, n, ind_bmp', blk_bmp', dirs')
  <2>1. HeadersIn(kinds, dirs, p) = dirs[Least(kinds[p].i_block)] BY DEF HeadersIn
  <2> QED BY <1>2, <1>5, <1>6, <1>7, <1>8, <2>1 DEF TakenOut, TakesOut
<1> QED BY <1>2, <1>8, <1>10, <1>11, <1>12 DEF UndoSound

(* A file has one name. *)
LEMMA FileAlone ==
  ASSUME DiskSound, NEW p \in DirsOf(ind_bmp, kinds), NEW s \in EntriesIn(HeadersIn(kinds, dirs, p)),
         NEW k, k = HeadersIn(kinds, dirs, p)[s].inode
  PROVE  \A j \in DirsOf(ind_bmp, kinds) \ {k} : \A x \in EntriesIn(HeadersIn(kinds, dirs, j)) :
           (j # p \/ x # s) => HeadersIn(kinds, dirs, j)[x].inode \notin {k}
BY DEF DiskSound, Sound, NamedOnce

(* ext2_rm keeps the image sound, and can be undone. *)
LEMMA RmSound ==
  ASSUME DiskSound, NEW path \in Paths, NEW n \in NAMES, ext2_rm(path, n)
  PROVE  DiskSound' /\ UndoSound' /\ succeeded' /\ \E s, ks : TakesOut(cd(path), s, ks)
<1> DEFINE p == cd(path)
           b == BlockOf(p)
           s == search_in_dir_block(b, n)
           k == dirs[b][s].inode
<1>1. /\ IsDir(p) /\ Found(b, n) # {} /\ ~HasDirMode(k) /\ Asserted({k}) /\ free_inode({k})
      /\ dirs' = [dirs EXCEPT ![b] = Unlinked(b, s)]
      /\ undo' = [path |-> path, name |-> n, slot |-> s, before |-> image]
  BY DEF ext2_rm
<1>2. /\ p \in DirsOf(ind_bmp, kinds) /\ b = Least(kinds[p].i_block) /\ b \in Disk
      /\ HeadersIn(kinds, dirs, p) = dirs[b]
      /\ s \in EntriesIn(dirs[b]) /\ dirs[b][s].name = n
      /\ Unlinked(b, s) = Without(dirs[b], s)
  BY <1>1, EntryFound
<1> HIDE DEF s, b, p
<1>3. TakesOut(p, s, {k})
  <2>1. k = HeadersIn(kinds, dirs, p)[s].inode BY <1>2
  <2> HIDE DEF k
  <2> QED BY <1>1, <1>2, <2>1, FileAlone DEF TakesOut
<1>4. DiskSound' BY <1>3, TakeOutSound
<1>5. UndoSound'
  <2>1. p = cd(path) BY DEF p
  <2>2. ~IsDir(k) BY <1>1 DEF HasDirMode, IsDir, Kind
  <2> QED BY <1>1, <1>2, <1>3, <2>1, <2>2, FileTakenOut
<1>6. succeeded' BY DEF ext2_rm
<1> QED BY <1>3, <1>4, <1>5, <1>6 DEF p

\* The inodes that the directories of S name.
Below(S) ==
  UNION {{dirs[BlockOf(j)][s].inode : s \in Entries(BlockOf(j))} : j \in {i \in S : IsDir(i)}}

Leveled(f, k, d) == IF d = 0 THEN {k} ELSE Below(f[d - 1])
IsLevels(f, k, n) == f = [d \in 0..n |-> Leveled(f, k, d)]

(* The recursive definition in Subtree defines something. *)
LEMMA LevelsExist ==
  ASSUME NEW k
  PROVE  \A n \in Nat : \E f : IsLevels(f, k, n)
<1> DEFINE Missing == {n \in Nat : ~ \E f : IsLevels(f, k, n)}
<1> SUFFICES ASSUME Missing # {} PROVE FALSE OBVIOUS
<1>1. PICK n \in Missing : \A m \in Missing : n <= m
  <2>1. Missing \subseteq Nat OBVIOUS
  <2> HIDE DEF Missing
  <2> QED BY <2>1, LeastFound
<1>2. n \in Nat /\ ~ \E f : IsLevels(f, k, n) OBVIOUS
<1>3. n # 0
  <2> DEFINE f == [d \in 0..0 |-> {k}]
  <2>1. ASSUME n = 0 PROVE IsLevels(f, k, n) BY <2>1 DEF IsLevels, Leveled
  <2> QED BY <1>2, <2>1
<1>4. PICK f : IsLevels(f, k, n - 1)
  <2>1. n - 1 \in Nat /\ ~ (n <= n - 1) BY <1>2, <1>3
  <2>2. n - 1 \notin Missing BY <1>1, <2>1
  <2> QED BY <2>1, <2>2
<1>5. \A d \in 0..n - 1 : f[d] = Leveled(f, k, d) BY <1>4 DEF IsLevels
<1> DEFINE g == [d \in 0..n |-> IF d = n THEN Leveled(f, k, n) ELSE f[d]]
<1>6. \A d \in 0..n - 1 : g[d] = f[d] BY <1>2
<1>7. ASSUME NEW d \in 0..n PROVE g[d] = Leveled(g, k, d)
  <2>1. d = 0 \/ d - 1 \in 0..n - 1 BY <1>2
  <2>2. d = 0 \/ g[d - 1] = f[d - 1] BY <1>6, <2>1
  <2>3. Leveled(g, k, d) = Leveled(f, k, d) BY <2>2 DEF Leveled
  <2>4. g[d] = Leveled(f, k, d)
    <3>1. CASE d = n BY <3>1
    <3>2. CASE d # n
      <4>1. d \in 0..n - 1 BY <1>2, <3>2
      <4> QED BY <1>5, <1>6, <4>1
    <3> QED BY <3>1, <3>2
  <2> QED BY <2>3, <2>4
<1>8. IsLevels(g, k, n) BY <1>7 DEF IsLevels
<1> QED BY <1>2, <1>8

(* The inodes that rm_bonus comes to, level by level. *)
LEMMA SubtreeLevels ==
  ASSUME NEW k
  PROVE  \E f : /\ f[0] = {k} /\ \A d \in 1..DEPTH + 1 : f[d] = Below(f[d - 1])
                /\ Subtree(k) = UNION {f[d] : d \in 0..DEPTH + 1}
<1>1. DEPTH + 1 \in Nat BY SizesAssumption
<1> DEFINE f == CHOOSE g : IsLevels(g, k, DEPTH + 1)
<1>2. IsLevels(f, k, DEPTH + 1) BY <1>1, LevelsExist
<1>3. Subtree(k) = UNION {f[d] : d \in 0..DEPTH + 1} BY DEF Subtree, IsLevels, Leveled, Below
<1> HIDE DEF f
<1>4. \A d \in 0..DEPTH + 1 : f[d] = Leveled(f, k, d) BY <1>2 DEF IsLevels
<1>5. f[0] = {k} BY <1>1, <1>4 DEF Leveled
<1>6. \A d \in 1..DEPTH + 1 : d \in 0..DEPTH + 1 /\ d # 0 BY <1>1
<1>7. \A d \in 1..DEPTH + 1 : f[d] = Below(f[d - 1]) BY <1>4, <1>6 DEF Leveled
<1> QED BY <1>3, <1>5, <1>7

(* It comes to an inode by an entry of a directory it came to; and to no other when *)
(* it starts at a file.                                                           *)
LEMMA SubtreeNamed ==
  ASSUME NEW k
  PROVE  /\ \A i \in Subtree(k) \ {k} :
              \E j \in Subtree(k) : IsDir(j) /\ \E s \in Entries(BlockOf(j)) : i = dirs[BlockOf(j)][s].inode
         /\ ~IsDir(k) => Subtree(k) = {k}
<1>1. PICK f : /\ f[0] = {k} /\ \A d \in 1..DEPTH + 1 : f[d] = Below(f[d - 1])
               /\ Subtree(k) = UNION {f[d] : d \in 0..DEPTH + 1}
  BY SubtreeLevels
<1>2. DEPTH \in Nat BY SizesAssumption
<1>3. \A d \in 0..DEPTH + 1 : d \in Nat /\ (d # 0 => d \in 1..DEPTH + 1 /\ d - 1 \in 0..DEPTH + 1) BY <1>2
<1>4. ASSUME NEW i \in Subtree(k) \ {k}
      PROVE  \E j \in Subtree(k) : IsDir(j) /\ \E s \in Entries(BlockOf(j)) : i = dirs[BlockOf(j)][s].inode
  <2>1. PICK d \in 0..DEPTH + 1 : i \in f[d] BY <1>1
  <2>2. d # 0 BY <1>1, <2>1
  <2>3. i \in Below(f[d - 1]) BY <1>1, <1>3, <2>1, <2>2
  <2>4. PICK j \in f[d - 1] : IsDir(j) /\ \E s \in Entries(BlockOf(j)) : i = dirs[BlockOf(j)][s].inode
    BY <2>3 DEF Below
  <2>5. j \in Subtree(k) BY <1>1, <1>3, <2>2, <2>4
  <2> QED BY <2>4, <2>5
<1>5. ASSUME ~IsDir(k) PROVE Subtree(k) = {k}
  <2> DEFINE X == {d \in 1..DEPTH + 1 : f[d] # {}}
  <2>1. X = {}
    <3> SUFFICES ASSUME X # {} PROVE FALSE OBVIOUS
    <3>1. PICK d \in X : \A e \in X : d <= e
      <4>1. X \subseteq Nat BY <1>2
      <4> HIDE DEF X
      <4> QED BY <4>1, LeastFound
    <3>2. d \in 1..DEPTH + 1 /\ f[d] # {} OBVIOUS
    <3>3. f[d] = Below(f[d - 1]) BY <1>1, <3>2
    <3>4. CASE d = 1
      <4>1. f[d - 1] = {k} BY <1>1, <3>4
      <4> QED BY <1>5, <3>2, <3>3, <4>1 DEF Below
    <3>5. CASE d # 1
      <4>1. d - 1 \in 1..DEPTH + 1 /\ ~(d <= d - 1) BY <1>2, <3>2, <3>5
      <4>2. f[d - 1] = {} BY <3>1, <4>1
      <4> QED BY <3>2, <3>3, <4>2 DEF Below
    <3> QED BY <3>4, <3>5
  <2>2. \A d \in 0..DEPTH + 1 : f[d] \subseteq {k} BY <1>1, <1>3, <2>1
  <2>3. 0 \in 0..DEPTH + 1 BY <1>2
  <2> QED BY <1>1, <2>2, <2>3
<1> QED BY <1>4, <1>5

(* ext2_rm_bonus keeps the image sound, and can be undone when it removed a file. *)
LEMMA RmBonusSound ==
  ASSUME DiskSound, NEW path \in Paths, NEW n \in NAMES, NEW recursive \in BOOLEAN,
         ext2_rm_bonus(path, n, recursive)
  PROVE  DiskSound' /\ UndoSound' /\ succeeded' /\ \E s, ks : TakesOut(cd(path), s, ks)
<1> DEFINE p == cd(path)
           b == BlockOf(p)
           s == search_in_dir_block(b, n)
           k == dirs[b][s].inode
           ks == IF recursive THEN Subtree(k) ELSE {k}
<1>1. /\ IsDir(p) /\ Found(b, n) # {} /\ Asserted(ks) /\ free_inode(ks)
      /\ dirs' = [dirs EXCEPT ![b] = Unlinked(b, s)]
      /\ undo' = IF IsDir(k) THEN NoFile ELSE [path |-> path, name |-> n, slot |-> s, before |-> image]
  BY DEF ext2_rm_bonus
<1>2. /\ p \in DirsOf(ind_bmp, kinds) /\ b = Least(kinds[p].i_block) /\ b \in Disk
      /\ HeadersIn(kinds, dirs, p) = dirs[b]
      /\ s \in EntriesIn(dirs[b]) /\ dirs[b][s].name = n
      /\ Unlinked(b, s) = Without(dirs[b], s)
  BY <1>1, EntryFound
<1>3. ~IsDir(k) => ks = {k} BY SubtreeNamed
<1>4. k = HeadersIn(kinds, dirs, p)[s].inode BY <1>2
<1>5. ks = {k} \/ ks = Subtree(k) OBVIOUS
<1> HIDE DEF s, b, p, k, ks
<1>6. ASSUME NEW j \in DirsOf(ind_bmp, kinds) \ ks, NEW x \in EntriesIn(HeadersIn(kinds, dirs, j)),
             j # p \/ x # s
      PROVE  HeadersIn(kinds, dirs, j)[x].inode \notin ks
  <2> DEFINE i == HeadersIn(kinds, dirs, j)[x].inode
  <2>1. NamedOnce(ind_bmp, kinds, dirs) BY DEF DiskSound, Sound
  <2>2. i # k BY <1>2, <1>4, <1>6, <2>1 DEF NamedOnce
  <2>3. ASSUME ks = Subtree(k), i \in ks PROVE FALSE
    <3>1. PICK i2, s2 : i2 \in Subtree(k) /\ IsDir(i2) /\ s2 \in Entries(BlockOf(i2)) /\ i = dirs[BlockOf(i2)][s2].inode
      BY <2>2, <2>3, SubtreeNamed
    <3>2. i2 \in ind_bmp BY <1>1, <2>3, <3>1 DEF Asserted
    <3>3. i2 \in DirsOf(ind_bmp, kinds) BY <3>1, <3>2, DirsOfModel DEF InUse
    <3>4. s2 \in EntriesIn(HeadersIn(kinds, dirs, i2)) /\ i = HeadersIn(kinds, dirs, i2)[s2].inode
      BY <3>1, <3>3, DirsOfModel
    <3>5. i2 = j BY <1>6, <2>1, <3>3, <3>4 DEF NamedOnce
    <3> QED BY <1>6, <2>3, <3>1, <3>5
  <2> QED BY <1>5, <2>2, <2>3
<1>7. TakesOut(p, s, ks) BY <1>1, <1>2, <1>6 DEF TakesOut
<1>8. DiskSound' BY <1>7, TakeOutSound
<1>9. UndoSound'
  <2>1. CASE IsDir(k) BY <1>1, <2>1 DEF UndoSound
  <2>2. CASE ~IsDir(k)
    <3>1. p = cd(path) BY DEF p
    <3>2. TakesOut(p, s, {k}) /\ undo' = [path |-> path, name |-> n, slot |-> s, before |-> image]
      BY <1>1, <1>3, <1>7, <2>2
    <3> QED BY <1>2, <1>4, <2>2, <3>1, <3>2, FileTakenOut
  <2> QED BY <2>1, <2>2
<1>10. succeeded' BY DEF ext2_rm_bonus
<1> QED BY <1>7, <1>8, <1>9, <1>10 DEF p

-----------------------------------------------------------------------------
(* restore.                                                                *)

(* A length that was given up and taken back. *)
LEMMA LengthBack ==
  ASSUME NEW e \in ext2_dir_entry, NEW m, e.rec_len = 1
  PROVE  [[e EXCEPT !.rec_len = m] EXCEPT !.rec_len = 1] = e
BY DEF ext2_dir_entry

(* ext2_restore gives back the image as it was, or marks some blocks and does no *)
(* more, when it is the command after the one that removed the file and finds    *)
(* the header of that one.                                                       *)
LEMMA RestoreSound ==
  ASSUME "late_restore" \notin ALLOWED, "stale_restore" \notin ALLOWED,
         DiskSound, UndoSound, NEW path \in Paths, NEW n \in NAMES, ext2_restore(path, n)
  PROVE  /\ DiskSound' /\ UndoSound' /\ undo # NoFile /\ kinds' = kinds
         /\ succeeded' => ind_bmp' # ind_bmp /\ image' = undo.before
         /\ ~succeeded' => ind_bmp' = ind_bmp /\ dirs' = dirs
<1> DEFINE b == BlockOf(cd(path))
           s == Least(GapsWith(b, n))
           k == dirs[b][s + 1].inode
<1>1. /\ IsDir(cd(path)) /\ GapsWith(b, n) # {} /\ k \in Inode /\ restore_dir_entry(k)
      /\ undo.path = path /\ undo.name = n /\ undo.slot = s + 1
      /\ dirs' = IF Taken(k) = {} THEN [dirs EXCEPT ![b][s].rec_len = 1] ELSE dirs
      /\ undo' = NoFile /\ kinds' = kinds /\ succeeded' = (Taken(k) = {})
      /\ kinds[k].i_block = ind_tbl[k].i_block
  BY KindsKept, KindsAre DEF ext2_restore, Use
<1>2. s \in 1..SLOTS - 1 /\ dirs[b][s].rec_len # 1
  <2>1. GapsWith(b, n) \subseteq Nat BY SizesAssumption DEF GapsWith
  <2>2. s \in GapsWith(b, n)
    <3> HIDE DEF b
    <3> QED BY <1>1, <2>1, LeastFound
  <2> QED BY <2>2 DEF GapsWith
<1>3. undo # NoFile
  <2>1. NoFile.slot = 0 BY DEF NoFile
  <2>2. s + 1 # 0 BY <1>2, SizesAssumption
  <2> QED BY <1>1, <2>1, <2>2
<1> DEFINE ib == undo.before[1]
           bb == undo.before[2]
           d == undo.before[3]
<1>4. PICK p \in DirsOf(ib, kinds) :
        /\ cd(path) = p /\ undo.before = <<ib, bb, d>>
        /\ TakenOut(ib, kinds, bb, d, p, undo.slot, undo.name, ind_bmp, blk_bmp, dirs)
  BY <1>1, <1>3 DEF UndoSound
<1>5. b = Least(kinds[p].i_block) BY <1>1, <1>4, CdInUse, DirsOfModel
<1>6. /\ Sound(ib, kinds, bb, d) /\ s + 1 \in EntriesIn(d[b])
      /\ kinds[d[b][s + 1].inode].i_block \subseteq bb
      /\ ind_bmp = ib \ {d[b][s + 1].inode} /\ blk_bmp = bb \ kinds[d[b][s + 1].inode].i_block
      /\ dirs = [d EXCEPT ![b] = Without(d[b], s + 1)]
  BY <1>1, <1>4, <1>5 DEF TakenOut
<1>9. s \in Slot /\ s + 1 \in Slot BY <1>2, SizesAssumption DEF Slot
<1> HIDE DEF ib, bb, d, b, s, k
<1> DEFINE h == d[b]
           w == Without(h, s + 1)
<1>7. /\ h \in Headers /\ HeadersIn(kinds, d, p) = h /\ Shape(h) /\ h[1].rec_len = 1
      /\ h[1].name = "." /\ h[2].name = ".."
  <2>1. HeadersIn(kinds, d, p) = h BY <1>5 DEF HeadersIn
  <2> HIDE DEF h
  <2> QED BY <1>4, <1>6, <2>1, SoundDirectory
<1>8. b \in Disk /\ d \in [Disk -> Headers]
  <2>1. b \in Disk BY <1>4, <1>5, <1>6, DirectoryBlocks
  <2> QED BY <1>6, <2>1 DEF Sound, Typed
<1>10. s + 1 \in EntriesIn(h) /\ s + 1 \in Links(h) BY <1>6 DEF EntriesIn
<1> HIDE DEF h
<1> DEFINE x == s + 1
<1>11. PICK q \in Links(w) : /\ q + h[q].rec_len = s + 1 /\ q >= 2
                             /\ w = [h EXCEPT ![q] = [h[q] EXCEPT !.rec_len = h[q].rec_len + h[s + 1].rec_len]]
  <2>1. x \in EntriesIn(h) /\ w = Without(h, x) BY <1>10
  <2> HIDE DEF x, w
  <2>2. PICK q \in Links(w) : TookOver(h, w, q, x) BY <1>7, <2>1, EntryTaken
  <2> QED BY <2>2 DEF x, TookOver
<1>12. /\ Links(w) = Links(h) \ {s + 1}
       /\ \A t \in Slot : w[t].inode = h[t].inode
  <2>1. x \in EntriesIn(h) /\ w = Without(h, x) BY <1>10
  <2> HIDE DEF x, w
  <2>2. Links(w) = Links(h) \ {x} /\ \A t \in Slot : w[t].inode = h[t].inode BY <1>7, <2>1, EntryTaken
  <2> QED BY <2>2 DEF x
<1> HIDE DEF x
<1>13. q \in Slot BY <1>7, <1>11, <1>12, LinksFacts
<1>14. dirs[b] = w BY <1>6, <1>8 DEF h
<1>15. k = h[s + 1].inode BY <1>9, <1>12, <1>14 DEF k
<1>16. h \in [Slot -> ext2_dir_entry] /\ h[s].rec_len \in Nat /\ s \in Nat BY <1>7, <1>9, Lengths DEF Headers
<1>17. s = q /\ h[s].rec_len = 1
  <2>1. h[s].rec_len = 1
    <3>1. h[s].rec_len >= 1 /\ s + h[s].rec_len <= s + 1
      <4>1. s < s + 1 BY <1>16
      <4> QED BY <1>7, <1>9, <1>10, <4>1 DEF Shape
    <3> QED BY <1>16, <3>1
  <2>2. ASSUME s # q PROVE FALSE
    <3>1. w[s] = h[s] BY <1>9, <1>11, <1>16, <2>2
    <3> QED BY <1>2, <1>14, <2>1, <3>1
  <2> QED BY <2>1, <2>2
<1>18. k \in ib /\ kinds[k].i_block \subseteq bb /\ ind_bmp = ib \ {k} /\ blk_bmp = bb \ kinds[k].i_block
  <2>1. NamedOnce(ib, kinds, d) BY <1>6 DEF Sound
  <2>2. k \in ib BY <1>4, <1>7, <1>10, <1>15, <2>1 DEF NamedOnce
  <2> QED BY <1>6, <1>15, <2>2 DEF h
<1>19. UndoSound' BY <1>1 DEF UndoSound
<1>20. CASE Taken(k) = {}
  <2>1. Regained(k) = kinds[k].i_block BY <1>1, <1>20 DEF Regained
  <2>2. ind_bmp' = ib /\ blk_bmp' = bb BY <1>1, <1>18, <1>20, <2>1 DEF restore_dir_entry
  <2>3. dirs' = d
    <3> DEFINE m == h[s].rec_len + h[s + 1].rec_len
               e == h[s]
               w2 == [w EXCEPT ![s] = [w[s] EXCEPT !.rec_len = 1]]
    <3>1. dirs' = [dirs EXCEPT ![b] = w2] BY <1>1, <1>14, <1>20
    <3>2. w = [h EXCEPT ![s] = [e EXCEPT !.rec_len = m]] BY <1>11, <1>17
    <3>3. e \in ext2_dir_entry /\ e.rec_len = 1 BY <1>9, <1>16, <1>17
    <3>4. [[e EXCEPT !.rec_len = m] EXCEPT !.rec_len = 1] = e
      <4> HIDE DEF e, m
      <4> QED BY <3>3, LengthBack
    <3>5. w[s] = [e EXCEPT !.rec_len = m] BY <1>9, <1>16, <3>2
    <3>6. [w[s] EXCEPT !.rec_len = 1] = e BY <3>4, <3>5
    <3>7. w2 = h
      <4> DEFINE e1 == [e EXCEPT !.rec_len = m]
                 e2 == [w[s] EXCEPT !.rec_len = 1]
      <4>1. w = [h EXCEPT ![s] = e1] /\ w2 = [w EXCEPT ![s] = e2] /\ e2 = h[s] BY <3>2, <3>6
      <4> HIDE DEF e, m, w, e1, e2, w2
      <4> QED BY <1>9, <1>16, <4>1
    <3> HIDE DEF w2, w
    <3>8. dirs = [d EXCEPT ![b] = w] BY <1>6 DEF w, h
    <3> QED BY <1>8, <3>1, <3>7, <3>8 DEF h
  <2>4. DiskSound' BY <1>1, <1>6, <2>2, <2>3 DEF DiskSound
  <2>5. image' = undo.before BY <1>4, <2>2, <2>3 DEF image
  <2>6. k \notin ind_bmp /\ k \in ind_bmp' BY <1>1, <1>20 DEF restore_dir_entry, is_available_inode
  <2> QED BY <1>1, <1>3, <1>19, <1>20, <2>4, <2>5, <2>6
<1>21. CASE Taken(k) # {}
  <2>1. ind_bmp' = ind_bmp /\ dirs' = dirs /\ blk_bmp' = blk_bmp \cup Regained(k)
    BY <1>1, <1>21 DEF restore_dir_entry
  <2>2. Regained(k) \subseteq Block
    <3>1. bb \subseteq Block BY <1>6 DEF Sound, Typed
    <3> QED BY <1>1, <1>18, <3>1 DEF Regained
  <2>3. Sound(ind_bmp, kinds, blk_bmp \cup Regained(k), dirs)
    <3>1. Sound(ind_bmp, kinds, blk_bmp, dirs) BY DEF DiskSound
    <3>2. Typed(ind_bmp, kinds, blk_bmp \cup Regained(k), dirs) BY <2>2, <3>1 DEF Sound, Typed
    <3>3. Owned(ind_bmp, kinds, blk_bmp \cup Regained(k)) BY <3>1 DEF Sound, Owned
    <3> QED BY <3>1, <3>2, <3>3 DEF Sound
  <2>4. DiskSound' BY <1>1, <2>1, <2>3 DEF DiskSound
  <2> QED BY <1>1, <1>3, <1>19, <1>21, <2>1, <2>4
<1> QED BY <1>20, <1>21

-----------------------------------------------------------------------------
(* All commands.                                                           *)

(* The root of a new image. *)
LEMMA RootKinds ==
  Init => kinds[EXT2_ROOT_INO].i_block = {FIRST} /\ kinds[EXT2_ROOT_INO].i_mode = "EXT2_S_IFDIR"
<1> SUFFICES ASSUME Init
             PROVE  kinds[EXT2_ROOT_INO].i_block = {FIRST} /\ kinds[EXT2_ROOT_INO].i_mode = "EXT2_S_IFDIR"
  OBVIOUS
<1>1. ind_tbl[EXT2_ROOT_INO] = [i_mode |-> "EXT2_S_IFDIR", i_block |-> {FIRST}] BY DEF Init
<1>2. FIRST # NO_BLOCK BY SizesAssumption DEF NO_BLOCK
<1>3. Kind(EXT2_ROOT_INO) = "EXT2_S_IFDIR" BY <1>1, <1>2 DEF Kind
<1> QED BY <1>1, <1>3, KindsAre

(* A new image is sound. *)
LEMMA InitSound == Init => TreeInv
<1> SUFFICES ASSUME Init PROVE TreeInv OBVIOUS
<1>1. TypeOK /\ RecordsFit BY InitFits
<1>2. Typed(ind_bmp, kinds, blk_bmp, dirs) BY <1>1, HeadersOfDisk, KindsAre DEF TypeOK, Typed
<1>3. /\ ind_bmp = {} /\ blk_bmp = {FIRST} /\ undo = NoFile
      /\ kinds[EXT2_ROOT_INO].i_block = {FIRST} /\ kinds[EXT2_ROOT_INO].i_mode = "EXT2_S_IFDIR"
      /\ dirs[FIRST] = NewDirectory(EXT2_ROOT_INO, EXT2_ROOT_INO)
  BY RootKinds, RootIsNoFile DEF Init
<1>4. DirsOf(ind_bmp, kinds) = {EXT2_ROOT_INO} BY <1>3 DEF DirsOf
<1>5. Least({FIRST}) = FIRST
  <2>1. FIRST \in Nat BY SizesAssumption
  <2> QED BY <2>1, LeastIs
<1>6. HeadersIn(kinds, dirs, EXT2_ROOT_INO) = NewDirectory(EXT2_ROOT_INO, EXT2_ROOT_INO)
  BY <1>3, <1>5 DEF HeadersIn
<1> DEFINE h == NewDirectory(EXT2_ROOT_INO, EXT2_ROOT_INO)
<1>7. /\ Shape(h) /\ EntriesIn(h) = {} /\ h[1].inode = EXT2_ROOT_INO /\ h[1].rec_len = 1
      /\ h[1].name = "." /\ h[2].name = ".." /\ AllNamed(h)
  BY NewDirectoryBlock
<1> HIDE DEF h
<1>8. Shaped(ind_bmp, kinds, dirs) BY <1>3, <1>4, <1>5, <1>6, <1>7, RootIsNoFile DEF Shaped, h
<1>9. NamedOnce(ind_bmp, kinds, dirs) /\ Parented(ind_bmp, kinds, dirs)
  BY <1>4, <1>6, <1>7 DEF NamedOnce, Parented, h
<1>10. Owned(ind_bmp, kinds, blk_bmp) BY <1>3 DEF Owned
<1>11. UndoSound BY <1>3 DEF UndoSound
<1> QED BY <1>2, <1>8, <1>9, <1>10, <1>11 DEF TreeInv, DiskSound, Sound

(* Every command keeps the image sound. *)
LEMMA NextSound ==
  ASSUME ALLOWED \subseteq {"same_name"}, TypeOK, RecordsFit, TreeInv, [Next]_vars
  PROVE  TreeInv'
<1> USE DEF TreeInv
<1>1. "wide_gap" \notin ALLOWED /\ "late_restore" \notin ALLOWED /\ "stale_restore" \notin ALLOWED OBVIOUS
<1>2. ASSUME NEW path \in Paths, NEW n \in NAMES, ext2_mkdir(path, n) PROVE TreeInv'
  <2>1. DiskSound' BY <1>2, MkdirMakes, MakeSound
  <2>2. UndoSound' BY <1>2 DEF ext2_mkdir, UndoSound
  <2> QED BY <2>1, <2>2
<1>3. ASSUME NEW path \in Paths, NEW n \in NAMES, ext2_cp(path, n) PROVE TreeInv'
  <2>1. DiskSound' BY <1>1, <1>3, CpMakes, MakeSound
  <2>2. UndoSound' BY <1>3 DEF ext2_cp, UndoSound
  <2> QED BY <2>1, <2>2
<1>4. ASSUME NEW path \in Paths, NEW n \in NAMES, ext2_rm(path, n) PROVE TreeInv' BY <1>4, RmSound
<1>5. ASSUME NEW path \in Paths, NEW n \in NAMES, NEW recursive \in BOOLEAN, ext2_rm_bonus(path, n, recursive)
      PROVE  TreeInv'
  BY <1>5, RmBonusSound
<1>6. ASSUME NEW path \in Paths, NEW n \in NAMES, ext2_restore(path, n) PROVE TreeInv'
  BY <1>1, <1>6, RestoreSound
<1>7. CASE Next
  <2> PICK path \in Paths, n \in NAMES : Command(path, n) BY <1>7 DEF Next
  <2> QED BY <1>2, <1>3, <1>4, <1>5, <1>6 DEF Command
<1>8. CASE UNCHANGED vars
  <2>1. /\ ind_bmp' = ind_bmp /\ kinds' = kinds /\ blk_bmp' = blk_bmp /\ dirs' = dirs /\ undo' = undo
        /\ ind_tbl' = ind_tbl
    BY <1>8, KindsKept DEF vars
  <2>2. DiskSound' BY <2>1 DEF DiskSound
  <2>3. UndoSound'
    <3> SUFFICES ASSUME undo # NoFile PROVE UndoSound' BY <2>1 DEF UndoSound
    <3>1. PICK path \in Paths, p \in DirsOf(undo.before[1], kinds) :
            /\ undo.path = path /\ cd(path) = p
            /\ undo.before = <<undo.before[1], undo.before[2], undo.before[3]>>
            /\ TakenOut(undo.before[1], kinds, undo.before[2], undo.before[3], p, undo.slot, undo.name,
                        ind_bmp, blk_bmp, dirs)
      BY DEF UndoSound
    <3>2. cd(path)' = cd(path)
      BY <2>1 DEF cd, IsDir, Kind, Found, Chain, BlockOf, search_in_dir_block
    <3> QED BY <2>1, <3>1, <3>2 DEF UndoSound
  <2> QED BY <2>2, <2>3
<1> QED BY <1>7, <1>8

(* The inductive invariant holds in every state. *)
LEMMA TreeInvHolds ==
  ASSUME ALLOWED \subseteq {"same_name"}
  PROVE  Spec => [](TypeOK /\ RecordsFit /\ TreeInv)
<1>1. Init => TypeOK /\ RecordsFit /\ TreeInv BY InitFits, InitSound
<1>2. (TypeOK /\ RecordsFit /\ TreeInv) /\ [Next]_vars => (TypeOK /\ RecordsFit /\ TreeInv)'
  BY NextFits, NextSound
<1> QED BY <1>1, <1>2, PTL DEF Spec

-----------------------------------------------------------------------------
(* The tree of names.                                                      *)

\* Path q is path w or the path of a directory above it.
Under(q, w) == Len(q) <= Len(w) /\ SubSeq(w, 1, Len(q)) = q

(* A path is that of its directory, with a name. *)
LEMMA PathSplit ==
  \A u, w \in Seq(NAMES), m, n \in NAMES : Append(u, m) = Append(w, n) => u = w /\ m = n
BY AppendInjective

(* What is above a name in a directory is the name itself or above the directory. *)
LEMMA UnderAppend ==
  \A q, w \in Seq(NAMES), n \in NAMES : Under(q, Append(w, n)) <=> Under(q, w) \/ q = Append(w, n)
<1> SUFFICES ASSUME NEW q \in Seq(NAMES), NEW w \in Seq(NAMES), NEW n \in NAMES
             PROVE  Under(q, Append(w, n)) <=> Under(q, w) \/ q = Append(w, n)
  OBVIOUS
<1> DEFINE u == Append(w, n)
<1>1. /\ u \in Seq(NAMES) /\ Len(u) = Len(w) + 1 /\ Len(w) \in Nat /\ Len(q) \in Nat
      /\ \A i \in 1..Len(w) : u[i] = w[i]
  BY AppendProperties, LenProperties
<1> HIDE DEF u
<1>2. CASE Len(q) <= Len(w)
  <2>1. SubSeq(u, 1, Len(q)) = SubSeq(w, 1, Len(q)) BY <1>1, <1>2
  <2>2. q # u BY <1>1, <1>2
  <2> QED BY <1>1, <1>2, <2>1, <2>2 DEF Under, u
<1>3. CASE Len(q) = Len(w) + 1
  <2>1. SubSeq(u, 1, Len(q)) = u BY <1>1, <1>3, SubSeqFull
  <2> QED BY <1>1, <1>3, <2>1 DEF Under, u
<1>4. CASE Len(q) > Len(w) + 1
  <2>1. q # u BY <1>1, <1>4
  <2> QED BY <1>1, <1>4, <2>1 DEF Under, u
<1> QED BY <1>1, <1>2, <1>3, <1>4

(* The directory of a path. *)
LEMMA PathFront ==
  \A w \in Seq(NAMES), n \in NAMES : SubSeq(Append(w, n), 1, Len(Append(w, n)) - 1) = w
<1> SUFFICES ASSUME NEW w \in Seq(NAMES), NEW n \in NAMES
             PROVE  SubSeq(Append(w, n), 1, Len(Append(w, n)) - 1) = w
  OBVIOUS
<1> DEFINE u == Append(w, n)
<1>1. /\ u \in Seq(NAMES) /\ Len(u) = Len(w) + 1 /\ Len(w) \in Nat
      /\ \A i \in 1..Len(w) : u[i] = w[i]
  BY AppendProperties, LenProperties
<1> HIDE DEF u
<1>2. SubSeq(u, 1, Len(w)) = SubSeq(w, 1, Len(w)) BY <1>1
<1> QED BY <1>1, <1>2, SubSeqFull DEF u

(* The first names of a path. *)
LEMMA PathPrefix ==
  ASSUME NEW path \in Seq(NAMES), NEW i \in 1..Len(path)
  PROVE  /\ SubSeq(path, 1, i) = Append(SubSeq(path, 1, i - 1), path[i])
         /\ SubSeq(path, 1, i - 1) \in Seq(NAMES)
<1>1. Len(path) \in Nat /\ i \in Nat /\ i - 1 \in Nat /\ path[i] \in NAMES BY LenProperties, ElementOfSeq
<1>2. \A j \in 1..i : path[j] \in NAMES BY <1>1, ElementOfSeq
<1> DEFINE q == SubSeq(path, 1, i - 1)
           u == SubSeq(path, 1, i)
<1>3. q \in Seq(NAMES) /\ Len(q) = i - 1 /\ \A j \in 1..i - 1 : q[j] = path[j]
  BY <1>1, <1>2, SubSeqProperties
<1>4. u \in Seq(NAMES) /\ Len(u) = i /\ \A j \in 1..i : u[j] = path[j]
  BY <1>1, <1>2, SubSeqProperties
<1> HIDE DEF q, u
<1>5. /\ Append(q, path[i]) \in Seq(NAMES) /\ Len(Append(q, path[i])) = i
      /\ \A j \in 1..i : Append(q, path[i])[j] = path[j]
  BY <1>1, <1>3, AppendProperties
<1>6. u = Append(q, path[i]) BY <1>4, <1>5, SeqEqual
<1> QED BY <1>3, <1>6 DEF q, u

\* The root is a directory, and no directory has a name twice.
WellNamed(ib, tb, d) ==
  /\ tb[EXT2_ROOT_INO].i_mode = "EXT2_S_IFDIR"
  /\ \A k \in DirsOf(ib, tb) : \A s, t \in EntriesIn(HeadersIn(tb, d, k)) :
       HeadersIn(tb, d, k)[s].name = HeadersIn(tb, d, k)[t].name => s = t

Root == [path |-> <<>>, i_mode |-> "EXT2_S_IFDIR", inode |-> EXT2_ROOT_INO]

\* What the entry in slot s of headers h is in the tree, below x.
Named(tb, x, h, s) ==
  [path |-> Append(x.path, h[s].name), i_mode |-> tb[h[s].inode].i_mode, inode |-> h[s].inode]

\* What is in directory x.
ChildrenOf(tb, d, x) ==
  {Named(tb, x, HeadersIn(tb, d, x.inode), s) : s \in EntriesIn(HeadersIn(tb, d, x.inode))}

Children(tb, d, S) == UNION {ChildrenOf(tb, d, x) : x \in {y \in S : y.i_mode = "EXT2_S_IFDIR"}}

\* f is the levels of the tree of an image.
IsTreeOf(f, tb, d) ==
  /\ f[0] = {Root}
  /\ \A i \in 1..DEPTH + 1 : f[i] = Children(tb, d, f[i - 1])

AllOf(f) == UNION {f[i] : i \in 1..DEPTH + 1}

\* x is a record of the level i of the tree.
Placed(ib, tb, x, i) ==
  /\ x = [path |-> x.path, i_mode |-> x.i_mode, inode |-> x.inode]
  /\ x.path \in Seq(NAMES) /\ Len(x.path) = i
  /\ x.inode \in ib \cup {EXT2_ROOT_INO} /\ (x.inode = EXT2_ROOT_INO <=> i = 0)
  /\ x.i_mode = tb[x.inode].i_mode

(* A name in a directory is one level down. *)
LEMMA ChildPlaced ==
  ASSUME NEW ib, NEW tb, NEW bb, NEW d, Sound(ib, tb, bb, d), NEW i \in Nat,
         NEW x, Placed(ib, tb, x, i), x.i_mode = "EXT2_S_IFDIR", NEW c \in ChildrenOf(tb, d, x)
  PROVE  /\ x.inode \in DirsOf(ib, tb)
         /\ Placed(ib, tb, c, i + 1) /\ c.inode \in ib
         /\ \E s \in EntriesIn(HeadersIn(tb, d, x.inode)) :
              LET h == HeadersIn(tb, d, x.inode)
              IN  /\ h[s].name \in NAMES
                  /\ c.path = Append(x.path, h[s].name) /\ c.inode = h[s].inode
<1>1. x.inode \in DirsOf(ib, tb) BY DEF Placed, DirsOf
<1> DEFINE h == HeadersIn(tb, d, x.inode)
<1>2. PICK s \in EntriesIn(h) : c = Named(tb, x, h, s) BY DEF ChildrenOf
<1>3. /\ c = [path |-> c.path, i_mode |-> c.i_mode, inode |-> c.inode]
      /\ c.path = Append(x.path, h[s].name) /\ c.i_mode = tb[h[s].inode].i_mode /\ c.inode = h[s].inode
  BY <1>2 DEF Named
<1>4. h[s].inode \in ib BY <1>1 DEF Sound, NamedOnce
<1>5. EXT2_ROOT_INO \notin ib BY RootIsNoFile DEF Sound, Typed
<1>6. h[s].name \in NAMES BY DEF EntriesIn
<1> HIDE DEF h
<1>7. c.path \in Seq(NAMES) /\ Len(c.path) = i + 1
  BY <1>3, <1>6, AppendProperties DEF Placed
<1>8. Placed(ib, tb, c, i + 1) BY <1>3, <1>4, <1>5, <1>7 DEF Placed
<1> QED BY <1>1, <1>3, <1>4, <1>6, <1>8 DEF h

(* Every record of the tree is in its place. *)
LEMMA TreePlaced ==
  ASSUME NEW ib, NEW tb, NEW bb, NEW d, Sound(ib, tb, bb, d), WellNamed(ib, tb, d),
         NEW f, IsTreeOf(f, tb, d)
  PROVE  \A i \in 0..DEPTH + 1 : \A x \in f[i] : Placed(ib, tb, x, i)
<1>1. DEPTH \in Nat BY SizesAssumption
<1> DEFINE X == {i \in 0..DEPTH + 1 : \E x \in f[i] : ~Placed(ib, tb, x, i)}
<1> SUFFICES ASSUME X # {} PROVE FALSE OBVIOUS
<1>2. PICK i \in X : \A j \in X : i <= j
  <2>1. X \subseteq Nat BY <1>1
  <2> HIDE DEF X
  <2> QED BY <2>1, LeastFound
<1>3. PICK c \in f[i] : ~Placed(ib, tb, c, i) OBVIOUS
<1>4. i # 0
  <2>1. Placed(ib, tb, Root, 0) BY EmptySeq DEF Placed, Root, WellNamed
  <2> QED BY <1>3, <2>1 DEF IsTreeOf
<1>5. i \in 1..DEPTH + 1 /\ i - 1 \in 0..DEPTH + 1 /\ ~(i <= i - 1) /\ i - 1 \in Nat /\ (i - 1) + 1 = i
  BY <1>1, <1>4
<1>6. PICK x \in f[i - 1] : x.i_mode = "EXT2_S_IFDIR" /\ c \in ChildrenOf(tb, d, x)
  BY <1>3, <1>5 DEF IsTreeOf, Children
<1>7. Placed(ib, tb, x, i - 1) BY <1>2, <1>5
<1> DEFINE j == i - 1
<1>8. Placed(ib, tb, c, j + 1)
  <2>1. Placed(ib, tb, x, j) /\ j \in Nat BY <1>5, <1>7
  <2> HIDE DEF j
  <2> QED BY <1>6, <2>1, ChildPlaced
<1> QED BY <1>3, <1>5, <1>8

(* What is in the tree is in a directory of the tree. *)
LEMMA TreeChild ==
  ASSUME NEW ib, NEW tb, NEW bb, NEW d, Sound(ib, tb, bb, d), WellNamed(ib, tb, d),
         NEW f, IsTreeOf(f, tb, d), NEW i \in 1..DEPTH + 1, NEW c \in f[i]
  PROVE  \E x \in f[i - 1] : \E s \in EntriesIn(HeadersIn(tb, d, x.inode)) :
           LET h == HeadersIn(tb, d, x.inode)
           IN  /\ x.inode \in DirsOf(ib, tb) /\ x.path \in Seq(NAMES) /\ h[s].name \in NAMES
               /\ c = Named(tb, x, h, s)
               /\ c.path = Append(x.path, h[s].name) /\ c.inode = h[s].inode /\ c.inode \in ib
<1>1. PICK x \in f[i - 1] : x.i_mode = "EXT2_S_IFDIR" /\ c \in ChildrenOf(tb, d, x)
  BY DEF IsTreeOf, Children
<1>2. i - 1 \in 0..DEPTH + 1 /\ i - 1 \in Nat BY SizesAssumption
<1>3. Placed(ib, tb, x, i - 1) BY <1>2, TreePlaced
<1> DEFINE j == i - 1
           h == HeadersIn(tb, d, x.inode)
<1>4. x.inode \in DirsOf(ib, tb) /\ c.inode \in ib
  <2>1. Placed(ib, tb, x, j) /\ j \in Nat BY <1>2, <1>3
  <2> HIDE DEF j
  <2> QED BY <1>1, <2>1, ChildPlaced
<1>5. PICK s \in EntriesIn(h) : c = Named(tb, x, h, s) BY <1>1 DEF ChildrenOf
<1>6. c.path = Append(x.path, h[s].name) /\ c.inode = h[s].inode BY <1>5 DEF Named
<1>7. h[s].name \in NAMES BY DEF EntriesIn
<1>8. x.path \in Seq(NAMES) BY <1>3 DEF Placed
<1> QED BY <1>4, <1>5, <1>6, <1>7, <1>8

(* An inode has one name in the tree, and a name one inode. *)
LEMMA TreeUnique ==
  ASSUME NEW ib, NEW tb, NEW bb, NEW d, Sound(ib, tb, bb, d), WellNamed(ib, tb, d),
         NEW f, IsTreeOf(f, tb, d)
  PROVE  \A i, j \in 0..DEPTH + 1 : \A x \in f[i], y \in f[j] :
           x.inode = y.inode \/ x.path = y.path => x = y
<1>1. DEPTH \in Nat BY SizesAssumption
<1> DEFINE Twins(i, j, x, y) == /\ j \in 0..DEPTH + 1 /\ x \in f[i] /\ y \in f[j] /\ x # y
                                /\ x.inode = y.inode \/ x.path = y.path
           X == {i \in 0..DEPTH + 1 : \E j, x, y : Twins(i, j, x, y)}
<1> SUFFICES ASSUME X # {} PROVE FALSE OBVIOUS
<1>2. PICK i \in X : \A j \in X : i <= j
  <2>1. X \subseteq Nat BY <1>1
  <2> HIDE DEF X
  <2> QED BY <2>1, LeastFound
<1>3. PICK j, x, y : Twins(i, j, x, y) OBVIOUS
<1>4. i \in 0..DEPTH + 1 OBVIOUS
<1>5. Placed(ib, tb, x, i) /\ Placed(ib, tb, y, j) BY <1>3, <1>4, TreePlaced
<1>6. i = 0 <=> j = 0
  <2>1. x.inode = y.inode => (i = 0 <=> j = 0) BY <1>5 DEF Placed
  <2>2. x.path = y.path => (i = 0 <=> j = 0) BY <1>5 DEF Placed
  <2> QED BY <1>3, <2>1, <2>2
<1>7. i # 0 BY <1>3, <1>6 DEF IsTreeOf
<1>8. i \in 1..DEPTH + 1 /\ j \in 1..DEPTH + 1 /\ i - 1 \in 0..DEPTH + 1 /\ j - 1 \in 0..DEPTH + 1 /\ ~(i <= i - 1)
  BY <1>1, <1>3, <1>4, <1>6, <1>7
<1>9. PICK x2 \in f[i - 1] : \E s \in EntriesIn(HeadersIn(tb, d, x2.inode)) :
           LET h == HeadersIn(tb, d, x2.inode)
           IN  /\ x2.inode \in DirsOf(ib, tb) /\ x2.path \in Seq(NAMES) /\ h[s].name \in NAMES
               /\ x = Named(tb, x2, h, s)
               /\ x.path = Append(x2.path, h[s].name) /\ x.inode = h[s].inode /\ x.inode \in ib
  BY <1>3, <1>8, TreeChild
<1>10. PICK y2 \in f[j - 1] : \E s \in EntriesIn(HeadersIn(tb, d, y2.inode)) :
           LET h == HeadersIn(tb, d, y2.inode)
           IN  /\ y2.inode \in DirsOf(ib, tb) /\ y2.path \in Seq(NAMES) /\ h[s].name \in NAMES
               /\ y = Named(tb, y2, h, s)
               /\ y.path = Append(y2.path, h[s].name) /\ y.inode = h[s].inode /\ y.inode \in ib
  BY <1>3, <1>8, TreeChild
<1> DEFINE hx == HeadersIn(tb, d, x2.inode)
           hy == HeadersIn(tb, d, y2.inode)
<1>11. PICK s \in EntriesIn(hx) : /\ x2.inode \in DirsOf(ib, tb) /\ x2.path \in Seq(NAMES) /\ hx[s].name \in NAMES
                                  /\ x = Named(tb, x2, hx, s)
                                  /\ x.path = Append(x2.path, hx[s].name) /\ x.inode = hx[s].inode
  BY <1>9
<1>12. PICK t \in EntriesIn(hy) : /\ y2.inode \in DirsOf(ib, tb) /\ y2.path \in Seq(NAMES) /\ hy[t].name \in NAMES
                                  /\ y = Named(tb, y2, hy, t)
                                  /\ y.path = Append(y2.path, hy[t].name) /\ y.inode = hy[t].inode
  BY <1>10
<1>13. x2.inode = y2.inode \/ x2.path = y2.path => x2 = y2
  <2> DEFINE i2 == i - 1
             j2 == j - 1
  <2>1. i2 \notin X BY <1>2, <1>8
  <2>2. i2 \in 0..DEPTH + 1 /\ j2 \in 0..DEPTH + 1 /\ x2 \in f[i2] /\ y2 \in f[j2] BY <1>8
  <2> HIDE DEF i2, j2
  <2>3. ~Twins(i2, j2, x2, y2) BY <2>1, <2>2
  <2> QED BY <2>2, <2>3
<1>14. ASSUME x.inode = y.inode PROVE FALSE
  <2>1. NamedOnce(ib, tb, d) BY DEF Sound
  <2>2. x2.inode = y2.inode /\ s = t
    <3>1. HeadersIn(tb, d, y2.inode)[t].inode = HeadersIn(tb, d, x2.inode)[s].inode BY <1>11, <1>12, <1>14
    <3> QED BY <1>11, <1>12, <2>1, <3>1 DEF NamedOnce
  <2> QED BY <1>3, <1>11, <1>12, <1>13, <2>2
<1>15. ASSUME x.path = y.path PROVE FALSE
  <2> DEFINE m == hx[s].name
             n == hy[t].name
  <2>1. x2.path = y2.path /\ m = n
    <3> DEFINE q == x2.path
               r == y2.path
    <3>1. /\ m \in NAMES /\ n \in NAMES /\ q \in Seq(NAMES) /\ r \in Seq(NAMES)
          /\ Append(q, m) = Append(r, n)
      BY <1>11, <1>12, <1>15
    <3> HIDE DEF m, n, q, r
    <3>2. q = r /\ m = n BY <3>1, PathSplit
    <3> QED BY <3>2 DEF q, r
  <2>2. x2 = y2 BY <1>13, <2>1
  <2>3. s = t BY <1>11, <1>12, <2>1, <2>2 DEF WellNamed
  <2> QED BY <1>3, <1>11, <1>12, <2>2, <2>3
<1> QED BY <1>3, <1>14, <1>15

(* A way through directories is in the tree. *)
LEMMA WayInTree ==
  ASSUME NEW ib, NEW tb, NEW bb, NEW d, Sound(ib, tb, bb, d), NEW f, IsTreeOf(f, tb, d),
         NEW path \in Seq(NAMES), Len(path) <= DEPTH, NEW g, DirPath(ib, tb, d, path, g)
  PROVE  [path |-> path, i_mode |-> "EXT2_S_IFDIR", inode |-> g[Len(path)]] \in f[Len(path)]
<1>1. DEPTH \in Nat /\ Len(path) \in Nat BY SizesAssumption, LenProperties
<1> DEFINE At(i) == [path |-> SubSeq(path, 1, i), i_mode |-> "EXT2_S_IFDIR", inode |-> g[i]]
           X == {i \in 0..Len(path) : At(i) \notin f[i]}
<1>2. X = {}
  <2> SUFFICES ASSUME X # {} PROVE FALSE OBVIOUS
  <2>1. PICK i \in X : \A j \in X : i <= j
    <3>1. X \subseteq Nat BY <1>1
    <3> HIDE DEF X
    <3> QED BY <3>1, LeastFound
  <2>2. i \in 0..Len(path) /\ At(i) \notin f[i] OBVIOUS
  <2>3. i # 0
    <3>1. At(0) = Root BY SubSeqEmpty DEF DirPath, Root
    <3> HIDE DEF At
    <3> QED BY <2>2, <3>1 DEF IsTreeOf
  <2>4. i \in 1..Len(path) /\ i \in 1..DEPTH + 1 /\ i - 1 \in 0..Len(path) /\ ~(i <= i - 1)
    BY <1>1, <2>2, <2>3
  <2>5. At(i - 1) \in f[i - 1]
    <3> DEFINE j == i - 1
    <3>1. j \notin X /\ j \in 0..Len(path) BY <2>1, <2>4
    <3> HIDE DEF j
    <3> QED BY <3>1 DEF j
  <2> DEFINE x == At(i - 1)
             k == g[i - 1]
             h == HeadersIn(tb, d, k)
             s == Least(Hits(h, path[i]))
  <2>6. k \in DirsOf(ib, tb) /\ g[i] \in DirsOf(ib, tb) /\ Hits(h, path[i]) # {} /\ g[i] = h[s].inode
    <3>1. i \in 0..Len(path) BY <2>2
    <3> QED BY <2>4, <3>1 DEF DirPath
  <2>7. s \in EntriesIn(h) /\ h[s].name = path[i]
    <3>1. h \in Headers BY <2>6, SoundDirectory
    <3>2. Hits(h, path[i]) \subseteq Nat BY <3>1, LinksFacts, Lengths DEF Hits
    <3> HIDE DEF h
    <3>3. s \in Hits(h, path[i]) BY <2>6, <3>2, LeastFound
    <3>4. path[i] \in NAMES BY <2>4, ElementOfSeq
    <3> QED BY <3>3, <3>4 DEF Hits, EntriesIn
  <2>8. tb[g[i]].i_mode = "EXT2_S_IFDIR" BY <2>6 DEF DirsOf
  <2>9. SubSeq(path, 1, i) = Append(SubSeq(path, 1, i - 1), path[i]) BY <2>4, PathPrefix
  <2>10. x.inode = k /\ x.path = SubSeq(path, 1, i - 1) /\ x.i_mode = "EXT2_S_IFDIR" OBVIOUS
  <2> HIDE DEF s, h, x, k
  <2>11. At(i) = Named(tb, x, h, s) BY <2>6, <2>7, <2>8, <2>9, <2>10 DEF Named
  <2>12. At(i) \in ChildrenOf(tb, d, x) BY <2>7, <2>10, <2>11 DEF ChildrenOf, h
  <2>13. x \in f[i - 1] BY <2>5 DEF x
  <2>14. At(i) \in f[i] BY <2>4, <2>10, <2>12, <2>13 DEF IsTreeOf, Children
  <2> QED BY <2>2, <2>14
<1>3. At(Len(path)) \in f[Len(path)]
  <2> DEFINE l == Len(path)
  <2>1. l \in 0..l /\ l \notin X BY <1>1, <1>2
  <2> HIDE DEF l
  <2> QED BY <2>1 DEF l
<1>4. SubSeq(path, 1, Len(path)) = path BY SubSeqFull
<1> QED BY <1>3, <1>4

\* The entries of directory j in a second image that it has not in the first.
NewIn(tb, d, tb2, d2, j) == EntriesIn(HeadersIn(tb2, d2, j)) \ EntriesIn(HeadersIn(tb, d, j))

\* The second image has all names of the first, and others in directory p alone: of
\* files, and of directories without entries.
Grown(ib, tb, d, p, tb2, d2) ==
  /\ \A j \in ib \cup {EXT2_ROOT_INO} : tb2[j] = tb[j]
  /\ \A j \in DirsOf(ib, tb) : \A s \in EntriesIn(HeadersIn(tb, d, j)) :
       /\ s \in EntriesIn(HeadersIn(tb2, d2, j))
       /\ HeadersIn(tb2, d2, j)[s].inode = HeadersIn(tb, d, j)[s].inode
       /\ HeadersIn(tb2, d2, j)[s].name = HeadersIn(tb, d, j)[s].name
  /\ \A j \in DirsOf(ib, tb) \ {p} : NewIn(tb, d, tb2, d2, j) = {}
  /\ \A s \in NewIn(tb, d, tb2, d2, p) :
       LET k == HeadersIn(tb2, d2, p)[s].inode
       IN  tb2[k].i_mode = "EXT2_S_IFDIR" => EntriesIn(HeadersIn(tb2, d2, k)) = {}

\* What they are in the tree, with p being x.
NewNames(tb, d, tb2, d2, x) ==
  {Named(tb2, x, HeadersIn(tb2, d2, x.inode), s) : s \in NewIn(tb, d, tb2, d2, x.inode)}

(* A directory keeps what is in it. *)
LEMMA GrownChildren ==
  ASSUME NEW ib, NEW tb, NEW bb, NEW d, Sound(ib, tb, bb, d), NEW p, NEW tb2, NEW d2,
         Grown(ib, tb, d, p, tb2, d2), NEW x, x.inode \in DirsOf(ib, tb)
  PROVE  ChildrenOf(tb2, d2, x) = ChildrenOf(tb, d, x) \cup NewNames(tb, d, tb2, d2, x)
<1> DEFINE h == HeadersIn(tb, d, x.inode)
           h2 == HeadersIn(tb2, d2, x.inode)
<1>1. ASSUME NEW s \in EntriesIn(h) PROVE s \in EntriesIn(h2) /\ Named(tb2, x, h2, s) = Named(tb, x, h, s)
  <2>1. s \in EntriesIn(h2) /\ h2[s].inode = h[s].inode /\ h2[s].name = h[s].name BY DEF Grown
  <2>2. h[s].inode \in ib BY DEF Sound, NamedOnce
  <2>3. tb2[h[s].inode] = tb[h[s].inode] BY <2>2 DEF Grown
  <2> HIDE DEF h, h2
  <2> QED BY <2>1, <2>3 DEF Named
<1>2. EntriesIn(h2) = EntriesIn(h) \cup NewIn(tb, d, tb2, d2, x.inode) BY <1>1 DEF NewIn
<1>3. /\ ChildrenOf(tb2, d2, x) = {Named(tb2, x, h2, s) : s \in EntriesIn(h2)}
      /\ ChildrenOf(tb, d, x) = {Named(tb, x, h, s) : s \in EntriesIn(h)}
      /\ NewNames(tb, d, tb2, d2, x) = {Named(tb2, x, h2, s) : s \in NewIn(tb, d, tb2, d2, x.inode)}
  BY DEF ChildrenOf, NewNames
<1> HIDE DEF h, h2
<1> QED BY <1>1, <1>2, <1>3

(* The tree grows by those names. *)
LEMMA TreeGrown ==
  ASSUME NEW ib, NEW tb, NEW bb, NEW d, Sound(ib, tb, bb, d), WellNamed(ib, tb, d), NEW p, NEW tb2, NEW d2,
         Grown(ib, tb, d, p, tb2, d2), NEW f, IsTreeOf(f, tb, d), NEW f2, IsTreeOf(f2, tb2, d2),
         NEW m \in 0..DEPTH, NEW x \in f[m], x.inode = p, x.i_mode = "EXT2_S_IFDIR"
  PROVE  /\ \A i \in 0..DEPTH + 1 :
              f2[i] = f[i] \cup (IF i = m + 1 THEN NewNames(tb, d, tb2, d2, x) ELSE {})
         /\ AllOf(f2) = AllOf(f) \cup NewNames(tb, d, tb2, d2, x)
<1>1. DEPTH \in Nat /\ m \in 0..DEPTH + 1 /\ m + 1 \in 1..DEPTH + 1 BY SizesAssumption
<1> DEFINE new == NewNames(tb, d, tb2, d2, x)
           More(i) == IF i = m + 1 THEN new ELSE {}
           X == {i \in 0..DEPTH + 1 : f2[i] # f[i] \cup More(i)}
<1>2. \A e \in new : e.i_mode = "EXT2_S_IFDIR" => ChildrenOf(tb2, d2, e) = {}
  <2> SUFFICES ASSUME NEW s \in NewIn(tb, d, tb2, d2, p), NEW e, e = Named(tb2, x, HeadersIn(tb2, d2, p), s),
                      e.i_mode = "EXT2_S_IFDIR"
               PROVE  ChildrenOf(tb2, d2, e) = {}
    BY DEF NewNames
  <2>1. e.inode = HeadersIn(tb2, d2, p)[s].inode /\ e.i_mode = tb2[e.inode].i_mode BY DEF Named
  <2>2. EntriesIn(HeadersIn(tb2, d2, e.inode)) = {} BY <2>1 DEF Grown
  <2> QED BY <2>2 DEF ChildrenOf
<1>3. \A i \in 0..DEPTH + 1 : \A y \in f[i] : Placed(ib, tb, y, i) BY TreePlaced
<1>4. ASSUME NEW i \in 0..DEPTH + 1, NEW y \in f[i], y.i_mode = "EXT2_S_IFDIR"
      PROVE  /\ ChildrenOf(tb2, d2, y) = ChildrenOf(tb, d, y) \cup NewNames(tb, d, tb2, d2, y)
             /\ NewNames(tb, d, tb2, d2, y) # {} => y = x /\ i = m
  <2>1. y.inode \in DirsOf(ib, tb) BY <1>3, <1>4 DEF Placed, DirsOf
  <2>2. ChildrenOf(tb2, d2, y) = ChildrenOf(tb, d, y) \cup NewNames(tb, d, tb2, d2, y)
    BY <2>1, GrownChildren
  <2>3. y.inode # p => NewNames(tb, d, tb2, d2, y) = {} BY <2>1 DEF Grown, NewNames
  <2>4. y.inode = p => y = x BY <1>1, TreeUnique
  <2>5. y = x => i = m
    <3>1. Placed(ib, tb, y, i) /\ Placed(ib, tb, x, m) BY <1>1, <1>3
    <3> QED BY <3>1 DEF Placed
  <2> QED BY <2>2, <2>3, <2>4, <2>5
<1> HIDE DEF new
<1>5. X = {}
  <2> SUFFICES ASSUME X # {} PROVE FALSE OBVIOUS
  <2>1. PICK i \in X : \A j \in X : i <= j
    <3>1. X \subseteq Nat BY <1>1
    <3> HIDE DEF X
    <3> QED BY <3>1, LeastFound
  <2>2. i \in 0..DEPTH + 1 /\ f2[i] # f[i] \cup More(i) OBVIOUS
  <2>3. i # 0
    <3>1. More(0) = {} BY <1>1
    <3> HIDE DEF More
    <3> QED BY <2>2, <3>1 DEF IsTreeOf
  <2> DEFINE j == i - 1
  <2>4. i \in 1..DEPTH + 1 /\ j \in 0..DEPTH + 1 /\ ~(i <= j) /\ (i = m + 1 <=> j = m)
    BY <1>1, <2>2, <2>3
  <2>5. f[i] = Children(tb, d, f[j]) /\ f2[i] = Children(tb2, d2, f2[j]) BY <2>4 DEF IsTreeOf
  <2> HIDE DEF j
  <2>6. f2[j] = f[j] \cup More(j) BY <2>1, <2>4
  <2>7. More(j) \subseteq new /\ More(i) = IF j = m THEN new ELSE {} BY <2>4
  <2>8. ASSUME NEW c \in f2[i] PROVE c \in f[i] \cup More(i)
    <3>1. PICK y \in f2[j] : y.i_mode = "EXT2_S_IFDIR" /\ c \in ChildrenOf(tb2, d2, y) BY <2>5 DEF Children
    <3>2. y \in f[j] BY <1>2, <2>6, <2>7, <3>1
    <3>3. CASE c \in ChildrenOf(tb, d, y) BY <2>5, <3>1, <3>2, <3>3 DEF Children
    <3>4. CASE c \in NewNames(tb, d, tb2, d2, y) BY <1>4, <2>4, <2>7, <3>1, <3>2, <3>4 DEF new
    <3> QED BY <1>4, <2>4, <3>1, <3>2, <3>3, <3>4
  <2>9. ASSUME NEW c \in f[i] PROVE c \in f2[i]
    <3>1. PICK y \in f[j] : y.i_mode = "EXT2_S_IFDIR" /\ c \in ChildrenOf(tb, d, y) BY <2>5 DEF Children
    <3>2. y \in f2[j] /\ c \in ChildrenOf(tb2, d2, y) BY <1>4, <2>4, <2>6, <3>1
    <3> QED BY <2>5, <3>1, <3>2 DEF Children
  <2>10. ASSUME NEW c \in More(i) PROVE c \in f2[i]
    <3>1. j = m /\ c \in new BY <2>7, <2>10
    <3>2. x \in f2[j] /\ c \in ChildrenOf(tb2, d2, x) BY <1>4, <2>4, <2>6, <3>1 DEF new
    <3> QED BY <2>5, <3>2 DEF Children
  <2> HIDE DEF More
  <2> QED BY <2>2, <2>8, <2>9, <2>10
<1>6. \A i \in 0..DEPTH + 1 : f2[i] = f[i] \cup More(i) BY <1>5
<1>7. AllOf(f2) = AllOf(f) \cup new
  <2>1. \A i \in 1..DEPTH + 1 : f2[i] = f[i] \cup More(i) BY <1>1, <1>6
  <2>2. More(m + 1) = new /\ \A i : More(i) \subseteq new OBVIOUS
  <2> HIDE DEF More
  <2> QED BY <1>1, <2>1, <2>2 DEF AllOf
<1> QED BY <1>6, <1>7 DEF new

\* The second image has all names of the first but that in slot r of directory p.
Shrunk(ib, tb, d, p, r, d2) ==
  /\ r \in EntriesIn(HeadersIn(tb, d, p))
  /\ \A j \in DirsOf(ib, tb) :
       EntriesIn(HeadersIn(tb, d2, j)) = {s \in EntriesIn(HeadersIn(tb, d, j)) : j # p \/ s # r}
  /\ \A j \in DirsOf(ib, tb) : \A s \in EntriesIn(HeadersIn(tb, d, j)) :
       /\ HeadersIn(tb, d2, j)[s].inode = HeadersIn(tb, d, j)[s].inode
       /\ HeadersIn(tb, d2, j)[s].name = HeadersIn(tb, d, j)[s].name

(* The tree loses that name with all below it, and nothing else. *)
LEMMA TreeShrunk ==
  ASSUME NEW ib, NEW tb, NEW bb, NEW d, Sound(ib, tb, bb, d), WellNamed(ib, tb, d), NEW p, NEW r, NEW d2,
         Shrunk(ib, tb, d, p, r, d2), NEW f, IsTreeOf(f, tb, d), NEW f2, IsTreeOf(f2, tb, d2),
         NEW m \in 0..DEPTH, NEW x \in f[m], x.inode = p, x.i_mode = "EXT2_S_IFDIR",
         NEW e, e = Named(tb, x, HeadersIn(tb, d, p), r)
  PROVE  e \in AllOf(f) /\ AllOf(f2) = {y \in AllOf(f) : ~Under(e.path, y.path)}
<1>1. DEPTH \in Nat /\ m \in 0..DEPTH + 1 /\ m + 1 \in 1..DEPTH + 1 BY SizesAssumption
<1>2. \A i \in 0..DEPTH + 1 : \A y \in f[i] : Placed(ib, tb, y, i) BY TreePlaced
<1>3. e \in f[m + 1]
  <2>1. e \in ChildrenOf(tb, d, x) BY DEF ChildrenOf, Shrunk
  <2>2. f[m + 1] = Children(tb, d, f[m]) BY <1>1 DEF IsTreeOf
  <2> QED BY <2>1, <2>2 DEF Children
<1>4. e \in AllOf(f) BY <1>1, <1>3 DEF AllOf
<1>5. e.path \in Seq(NAMES) /\ e.path # <<>> /\ Len(e.path) \in Nat /\ Len(e.path) > 0
  <2>1. Placed(ib, tb, e, m + 1) BY <1>1, <1>2, <1>3
  <2>2. e.path \in Seq(NAMES) /\ Len(e.path) = m + 1 BY <2>1 DEF Placed
  <2> QED BY <1>1, <2>2, EmptySeq
<1>6. x.path \in Seq(NAMES) /\ HeadersIn(tb, d, p)[r].name \in NAMES
      /\ e.path = Append(x.path, HeadersIn(tb, d, p)[r].name)
  <2>1. Placed(ib, tb, x, m) BY <1>1, <1>2
  <2> QED BY <2>1 DEF Placed, Named, EntriesIn, Shrunk
<1> DEFINE Kept(S) == {y \in S : ~Under(e.path, y.path)}
           X == {i \in 0..DEPTH + 1 : f2[i] # Kept(f[i])}
(* Which names of a directory that stays go. *)
<1>7. ASSUME NEW i \in 0..DEPTH, NEW y \in f[i], y.i_mode = "EXT2_S_IFDIR", ~Under(e.path, y.path)
      PROVE  ChildrenOf(tb, d2, y) = Kept(ChildrenOf(tb, d, y))
  <2> DEFINE h == HeadersIn(tb, d, y.inode)
             h2 == HeadersIn(tb, d2, y.inode)
  <2>1. i \in 0..DEPTH + 1 /\ i + 1 \in 1..DEPTH + 1 /\ i + 1 \in 0..DEPTH + 1 BY <1>1
  <2>2. Placed(ib, tb, y, i) BY <1>2, <2>1
  <2>3. y.inode \in DirsOf(ib, tb) /\ y.path \in Seq(NAMES) BY <1>7, <2>2 DEF Placed, DirsOf
  <2>4. ASSUME NEW s \in EntriesIn(h)
        PROVE  /\ Named(tb, y, h2, s) = Named(tb, y, h, s)
               /\ Under(e.path, Named(tb, y, h, s).path) <=> (y.inode = p /\ s = r)
    <3> DEFINE c == Named(tb, y, h, s)
               n == h[s].name
    <3>1. h2[s].inode = h[s].inode /\ h2[s].name = h[s].name BY <2>3 DEF Shrunk
    <3>2. Named(tb, y, h2, s) = Named(tb, y, h, s)
      <4> HIDE DEF h, h2
      <4> QED BY <3>1 DEF Named
    <3>3. n \in NAMES BY DEF EntriesIn
    <3>4. c.path = Append(y.path, n) /\ c.inode = h[s].inode BY DEF Named
    <3>5. Under(e.path, c.path) <=> e.path = c.path
      <4> DEFINE q == e.path
                 w == y.path
      <4>1. q \in Seq(NAMES) /\ w \in Seq(NAMES) /\ c.path = Append(w, n) /\ ~Under(q, w)
        BY <1>5, <1>7, <2>3, <3>4
      <4> HIDE DEF q, w, n
      <4>2. Under(q, Append(w, n)) <=> Under(q, w) \/ q = Append(w, n) BY <3>3, <4>1, UnderAppend
      <4> HIDE DEF c
      <4> QED BY <4>1, <4>2 DEF q
    <3>6. c \in f[i + 1]
      <4>1. c \in ChildrenOf(tb, d, y) BY DEF ChildrenOf
      <4>2. f[i + 1] = Children(tb, d, f[i]) BY <1>1, <2>1 DEF IsTreeOf
      <4> HIDE DEF c
      <4> QED BY <1>7, <4>1, <4>2 DEF Children
    <3>7. e.path = c.path => e = c
      <4> HIDE DEF c
      <4>1. m + 1 \in 0..DEPTH + 1 BY <1>1
      <4> QED BY <1>3, <2>1, <3>6, <4>1, TreeUnique
    <3>8. e = c => y.inode = p /\ s = r
      <4>1. e.inode = HeadersIn(tb, d, p)[r].inode BY DEF Named
      <4>2. NamedOnce(ib, tb, d) BY DEF Sound
      <4>3. p \in DirsOf(ib, tb)
        <5>1. Placed(ib, tb, x, m) BY <1>1, <1>2
        <5> QED BY <5>1 DEF Placed, DirsOf
      <4> HIDE DEF c, n
      <4>4. e = c => HeadersIn(tb, d, p)[r].inode = h[s].inode BY <3>4, <4>1
      <4> QED BY <2>3, <4>2, <4>3, <4>4 DEF NamedOnce, Shrunk
    <3>9. y.inode = p /\ s = r => e = c
      <4>1. y.inode = p => y = x BY <1>1, <2>1, TreeUnique
      <4> QED BY <4>1
    <3> QED BY <3>2, <3>5, <3>7, <3>8, <3>9
  <2>5. EntriesIn(h2) = {s \in EntriesIn(h) : y.inode # p \/ s # r} BY <2>3 DEF Shrunk
  <2>6. /\ ChildrenOf(tb, d2, y) = {Named(tb, y, h2, s) : s \in EntriesIn(h2)}
        /\ ChildrenOf(tb, d, y) = {Named(tb, y, h, s) : s \in EntriesIn(h)}
    BY DEF ChildrenOf
  <2> HIDE DEF h, h2
  <2> QED BY <2>4, <2>5, <2>6
<1>8. X = {}
  <2> SUFFICES ASSUME X # {} PROVE FALSE OBVIOUS
  <2>1. PICK i \in X : \A j \in X : i <= j
    <3>1. X \subseteq Nat BY <1>1
    <3> HIDE DEF X
    <3> QED BY <3>1, LeastFound
  <2>2. i \in 0..DEPTH + 1 /\ f2[i] # Kept(f[i]) OBVIOUS
  <2>3. i # 0
    <3>1. Root.path = <<>> BY DEF Root
    <3>2. ~Under(e.path, Root.path) BY <1>5, <3>1 DEF Under
    <3>3. Kept({Root}) = {Root} BY <3>2
    <3> HIDE DEF Kept
    <3> QED BY <2>2, <3>3 DEF IsTreeOf
  <2> DEFINE j == i - 1
  <2>4. i \in 1..DEPTH + 1 /\ j \in 0..DEPTH /\ j \in 0..DEPTH + 1 /\ ~(i <= j) BY <1>1, <2>2, <2>3
  <2>5. f[i] = Children(tb, d, f[j]) /\ f2[i] = Children(tb, d2, f2[j]) BY <2>4 DEF IsTreeOf
  <2> HIDE DEF j
  <2>6. f2[j] = Kept(f[j]) BY <2>1, <2>4
  <2>7. ASSUME NEW c \in f2[i] PROVE c \in Kept(f[i])
    <3>1. PICK y \in f2[j] : y.i_mode = "EXT2_S_IFDIR" /\ c \in ChildrenOf(tb, d2, y) BY <2>5 DEF Children
    <3>2. y \in f[j] /\ ~Under(e.path, y.path) BY <2>6
    <3>3. c \in Kept(ChildrenOf(tb, d, y)) BY <1>7, <2>4, <3>1, <3>2
    <3> QED BY <2>5, <3>1, <3>2, <3>3 DEF Children
  <2>8. ASSUME NEW c \in f[i], ~Under(e.path, c.path) PROVE c \in f2[i]
    <3>1. PICK y \in f[j] : y.i_mode = "EXT2_S_IFDIR" /\ c \in ChildrenOf(tb, d, y) BY <2>5 DEF Children
    <3>2. ~Under(e.path, y.path)
      <4>1. Placed(ib, tb, y, j) BY <1>2, <2>4, <3>1
      <4>2. y.path \in Seq(NAMES) BY <4>1 DEF Placed
      <4> DEFINE h == HeadersIn(tb, d, y.inode)
      <4>3. PICK s \in EntriesIn(h) : c = Named(tb, y, h, s) BY <3>1 DEF ChildrenOf
      <4> DEFINE n == h[s].name
      <4>4. n \in NAMES /\ c.path = Append(y.path, n) BY <4>3 DEF Named, EntriesIn
      <4> DEFINE q == e.path
                 w == y.path
      <4>5. q \in Seq(NAMES) /\ w \in Seq(NAMES) /\ ~Under(q, Append(w, n)) BY <1>5, <2>8, <4>2, <4>4
      <4> HIDE DEF q, w, n
      <4>6. ~Under(q, w) BY <4>5, <4>4, UnderAppend
      <4> QED BY <4>6 DEF q, w
    <3>3. y \in f2[j] BY <2>6, <3>1, <3>2
    <3>4. c \in ChildrenOf(tb, d2, y) BY <1>7, <2>4, <2>8, <3>1, <3>2
    <3> QED BY <2>5, <3>1, <3>3, <3>4 DEF Children
  <2> QED BY <2>2, <2>7, <2>8
<1>9. \A i \in 1..DEPTH + 1 : f2[i] = Kept(f[i])
  <2>1. \A i \in 1..DEPTH + 1 : i \in 0..DEPTH + 1 BY <1>1
  <2> HIDE DEF Kept
  <2> QED BY <1>8, <2>1
<1>10. AllOf(f2) = Kept(AllOf(f)) BY <1>9 DEF AllOf
<1> QED BY <1>4, <1>10

\* The new entries of directory p are of inode k.
NewAre(tb, d, tb2, d2, p, k) == \A s \in NewIn(tb, d, tb2, d2, p) : HeadersIn(tb2, d2, p)[s].inode = k

(* mkdir and cp add at most one name, and it is not there yet. *)
LEMMA AddedNew ==
  ASSUME NEW ib, NEW tb, NEW bb, NEW d, Sound(ib, tb, bb, d), WellNamed(ib, tb, d), NEW p, NEW k, NEW new, NEW inode,
         NEW b, NEW w, NEW r, NEW entry, NEW d2, Added(ib, tb, bb, d, p, k, new, inode, b, w, r, entry, d2),
         NEW tb2, Rewritten(tb, k, inode, tb2), Hits(HeadersIn(tb, d, p), entry.name) = {}
  PROVE  /\ Grown(ib, tb, d, p, tb2, d2) /\ WellNamed(ib \cup {k}, tb2, d2)
         /\ NewAre(tb, d, tb2, d2, p, k) /\ (b # BOOT => NewIn(tb, d, tb2, d2, p) # {})
<1>1. k # EXT2_ROOT_INO /\ k \notin ib BY AddedHeaders
<1>2. tb2[k] = inode /\ \A j \in ib \cup {EXT2_ROOT_INO} : tb2[j] = tb[j] BY AddedHeaders
<1>3. \A j \in DirsOf(ib, tb) :
        /\ HeadersIn(tb2, d2, j) \in Headers
        /\ \/ HeadersIn(tb2, d2, j) = HeadersIn(tb, d, j)
           \/ j = p /\ HeadersIn(tb2, d2, j) = w /\ PutBehind(HeadersIn(tb, d, j), w, r, entry)
  BY AddedHeaders
<1>4. /\ p \in Inode \cup {EXT2_ROOT_INO}
      /\ tb2[k].i_mode = "EXT2_S_IFDIR" => HeadersIn(tb2, d2, k) = NewDirectory(k, p)
  BY AddedHeaders
<1>5. p \in DirsOf(ib, tb) /\ k \in Inode /\ w \in Headers /\ entry.name \in NAMES /\ entry.inode = k
  BY DEF Added
<1> DEFINE t == r + 1
<1>6. ASSUME NEW j \in DirsOf(ib, tb)
      PROVE  /\ \A s \in EntriesIn(HeadersIn(tb, d, j)) :
                  /\ s \in EntriesIn(HeadersIn(tb2, d2, j))
                  /\ HeadersIn(tb2, d2, j)[s].inode = HeadersIn(tb, d, j)[s].inode
                  /\ HeadersIn(tb2, d2, j)[s].name = HeadersIn(tb, d, j)[s].name
             /\ \A s \in NewIn(tb, d, tb2, d2, j) :
                  /\ j = p /\ s = t
                  /\ HeadersIn(tb2, d2, j)[s].inode = k /\ HeadersIn(tb2, d2, j)[s].name = entry.name
  <2> DEFINE h == HeadersIn(tb, d, j)
             h2 == HeadersIn(tb2, d2, j)
  <2>1. CASE h2 = h BY <2>1 DEF NewIn
  <2>2. CASE j = p /\ h2 = w /\ PutBehind(h, w, r, entry)
    <3>1. h \in Headers /\ Shape(h) /\ h[1].rec_len = 1 BY SoundDirectory
    <3> HIDE DEF h, h2
    <3>2. /\ EntriesIn(w) = EntriesIn(h) \cup {t} /\ w[t] = entry
          /\ \A s \in Links(h) : w[s].inode = h[s].inode /\ w[s].name = h[s].name
      BY <1>5, <2>2, <3>1, EntryPut
    <3> HIDE DEF t
    <3>3. \A s \in EntriesIn(h) : s \in EntriesIn(h2) /\ h2[s].inode = h[s].inode /\ h2[s].name = h[s].name
      BY <2>2, <3>2 DEF EntriesIn
    <3>4. \A s \in EntriesIn(h2) \ EntriesIn(h) : s = t /\ h2[s].inode = k /\ h2[s].name = entry.name
      BY <1>5, <2>2, <3>2
    <3> QED BY <2>2, <3>3, <3>4 DEF h, h2, NewIn
  <2> QED BY <1>3, <2>1, <2>2
<1> HIDE DEF t
<1>7. tb2[k].i_mode = "EXT2_S_IFDIR" => EntriesIn(HeadersIn(tb2, d2, k)) = {} BY <1>4, <1>5, NewDirectoryBlock
<1>8. NewAre(tb, d, tb2, d2, p, k) BY <1>5, <1>6 DEF NewAre
<1>9. Grown(ib, tb, d, p, tb2, d2) BY <1>2, <1>5, <1>6, <1>7 DEF Grown
<1>10. ASSUME NEW j \in DirsOf(ib \cup {k}, tb2),
              NEW s \in EntriesIn(HeadersIn(tb2, d2, j)), NEW s2 \in EntriesIn(HeadersIn(tb2, d2, j)),
              HeadersIn(tb2, d2, j)[s].name = HeadersIn(tb2, d2, j)[s2].name
       PROVE  s = s2
  <2> DEFINE h == HeadersIn(tb, d, j)
             h2 == HeadersIn(tb2, d2, j)
  <2>1. j # k BY <1>7 DEF DirsOf
  <2>2. j \in DirsOf(ib, tb) BY <1>2, <2>1 DEF DirsOf
  <2>3. \A x \in EntriesIn(h) : h2[x].name = h[x].name /\ (j = p => h[x].name # entry.name)
    BY <1>6, <2>2 DEF Hits, EntriesIn
  <2>4. \A x \in EntriesIn(h2) : x \in EntriesIn(h) \/ (j = p /\ x = t /\ h2[x].name = entry.name)
    BY <1>6, <2>2 DEF NewIn
  <2>5. \A x, y \in EntriesIn(h) : h[x].name = h[y].name => x = y BY <2>2 DEF WellNamed
  <2> HIDE DEF h
  <2> QED BY <1>10, <2>3, <2>4, <2>5
<1>11. WellNamed(ib \cup {k}, tb2, d2) BY <1>2, <1>10 DEF WellNamed
<1>12. ASSUME b # BOOT PROVE NewIn(tb, d, tb2, d2, p) # {}
  <2> DEFINE h == HeadersIn(tb, d, p)
             h2 == HeadersIn(tb2, d2, p)
  <2>1. b = Least(tb[p].i_block) /\ PutBehind(d[b], w, r, entry) /\ d2[b] = w BY <1>12 DEF Added
  <2>2. tb2[p] = tb[p] BY <1>2, <1>5 DEF DirsOf
  <2>3. h = d[b] /\ h2 = w BY <2>1, <2>2 DEF HeadersIn
  <2>4. h \in Headers /\ Shape(h) /\ h[1].rec_len = 1 BY <1>5, SoundDirectory
  <2>5. PutBehind(h, w, r, entry) BY <2>1, <2>3
  <2> HIDE DEF h, h2
  <2>6. EntriesIn(h2) = EntriesIn(h) \cup {t} /\ t \notin Links(h)
    BY <1>5, <2>3, <2>4, <2>5, EntryPut DEF t
  <2>7. t \in EntriesIn(h2) \ EntriesIn(h) BY <2>6 DEF EntriesIn
  <2> QED BY <2>7 DEF NewIn, h, h2
<1> QED BY <1>8, <1>9, <1>11, <1>12

(* What rm leaves has all names but one. *)
LEMMA RemovedShrinks ==
  ASSUME NEW ib, NEW tb, NEW bb, NEW d, Sound(ib, tb, bb, d), WellNamed(ib, tb, d), NEW p, NEW s, NEW ks, NEW d2,
         Removed(ib, tb, d, p, s, ks, d2)
  PROVE  Shrunk(ib, tb, d, p, s, d2) /\ WellNamed(ib \ ks, tb, d2)
<1> DEFINE b == Least(tb[p].i_block)
           w == Without(d[b], s)
<1>1. ib \subseteq Inode /\ d \in [Disk -> Headers] BY DEF Sound, Typed
<1>2. /\ p \in DirsOf(ib, tb) /\ s \in EntriesIn(HeadersIn(tb, d, p)) /\ ks \subseteq ib
      /\ d2 = [d EXCEPT ![b] = w]
  BY DEF Removed
<1>3. EXT2_ROOT_INO \notin ks BY <1>1, <1>2, RootIsNoFile
<1>4. DirsOf(ib \ ks, tb) \subseteq DirsOf(ib, tb) BY DEF DirsOf
<1>5. /\ \A j \in DirsOf(ib, tb) : Least(tb[j].i_block) \in Disk
      /\ \A i, j \in DirsOf(ib, tb) : Least(tb[i].i_block) = Least(tb[j].i_block) => i = j
  BY DirectoryBlocks
<1>6. HeadersIn(tb, d, p) = d[b] BY DEF HeadersIn
<1>7. /\ EntriesIn(w) = EntriesIn(d[b]) \ {s}
      /\ \A t \in Slot : w[t].inode = d[b][t].inode /\ w[t].name = d[b][t].name
  BY <1>2, <1>6, SoundDirectory, EntryTaken
<1> HIDE DEF w, b
<1>8. ASSUME NEW j \in DirsOf(ib, tb)
      PROVE  \/ HeadersIn(tb, d2, j) = HeadersIn(tb, d, j) /\ j # p
             \/ j = p /\ HeadersIn(tb, d2, j) = w /\ HeadersIn(tb, d, j) = d[b]
  BY <1>1, <1>2, <1>5 DEF HeadersIn, b
<1>9. ASSUME NEW j \in DirsOf(ib, tb)
      PROVE  /\ EntriesIn(HeadersIn(tb, d2, j)) = {x \in EntriesIn(HeadersIn(tb, d, j)) : j # p \/ x # s}
             /\ \A x \in EntriesIn(HeadersIn(tb, d, j)) :
                  /\ HeadersIn(tb, d2, j)[x].inode = HeadersIn(tb, d, j)[x].inode
                  /\ HeadersIn(tb, d2, j)[x].name = HeadersIn(tb, d, j)[x].name
  <2>1. EntriesIn(HeadersIn(tb, d, j)) \subseteq Slot BY SoundDirectory, LinksFacts DEF EntriesIn
  <2> QED BY <1>7, <1>8, <2>1
<1>10. Shrunk(ib, tb, d, p, s, d2) BY <1>2, <1>9 DEF Shrunk
<1>11. ASSUME NEW j \in DirsOf(ib \ ks, tb), NEW x \in EntriesIn(HeadersIn(tb, d2, j)),
              NEW y \in EntriesIn(HeadersIn(tb, d2, j)), HeadersIn(tb, d2, j)[x].name = HeadersIn(tb, d2, j)[y].name
       PROVE  x = y
  <2>1. j \in DirsOf(ib, tb) BY <1>4
  <2>2. /\ x \in EntriesIn(HeadersIn(tb, d, j)) /\ y \in EntriesIn(HeadersIn(tb, d, j))
        /\ HeadersIn(tb, d, j)[x].name = HeadersIn(tb, d, j)[y].name
    BY <1>9, <1>11, <2>1
  <2> QED BY <2>1, <2>2 DEF WellNamed
<1>12. WellNamed(ib \ ks, tb, d2) BY <1>11 DEF WellNamed
<1> QED BY <1>10, <1>12

(* Put back, the file is the one name more. *)
LEMMA RemovedGrows ==
  ASSUME NEW ib, NEW tb, NEW bb, NEW d, Sound(ib, tb, bb, d), WellNamed(ib, tb, d), NEW p, NEW s, NEW k, NEW d2,
         Removed(ib, tb, d, p, s, {k}, d2), k = HeadersIn(tb, d, p)[s].inode, tb[k].i_mode # "EXT2_S_IFDIR"
  PROVE  /\ Grown(ib \ {k}, tb, d2, p, tb, d) /\ NewAre(tb, d2, tb, d, p, k)
         /\ NewIn(tb, d2, tb, d, p) # {}
<1>1. Shrunk(ib, tb, d, p, s, d2) BY RemovedShrinks
<1>2. DirsOf(ib \ {k}, tb) \subseteq DirsOf(ib, tb) /\ p \in DirsOf(ib, tb) BY DEF DirsOf, Removed
<1>3. \A j \in DirsOf(ib, tb) : \A x \in NewIn(tb, d2, tb, d, j) : j = p /\ x = s BY <1>1 DEF Shrunk, NewIn
<1>4. NewAre(tb, d2, tb, d, p, k) BY <1>2, <1>3 DEF NewAre
<1>5. \A j \in DirsOf(ib, tb) : \A x \in EntriesIn(HeadersIn(tb, d2, j)) :
        /\ x \in EntriesIn(HeadersIn(tb, d, j))
        /\ HeadersIn(tb, d, j)[x].inode = HeadersIn(tb, d2, j)[x].inode
        /\ HeadersIn(tb, d, j)[x].name = HeadersIn(tb, d2, j)[x].name
  BY <1>1 DEF Shrunk
<1>6. \A x \in NewIn(tb, d2, tb, d, p) : HeadersIn(tb, d, p)[x].inode = k BY <1>4 DEF NewAre
<1>7. s \in NewIn(tb, d2, tb, d, p) BY <1>1, <1>2 DEF Shrunk, NewIn
<1> QED BY <1>2, <1>3, <1>4, <1>5, <1>6, <1>7 DEF Grown

\* Set T2 of names is T with one name more, in a directory of T.
Gains(T, T2, e) ==
  /\ T2 = T \cup {e}
  /\ LET q == SubSeq(e.path, 1, Len(e.path) - 1)
     IN  q = <<>> \/ \E y \in T : y.path = q /\ y.i_mode = "EXT2_S_IFDIR"
  /\ \A y \in T : y.path # e.path /\ y.inode # e.inode

\* Set T2 of names is T without one name, and what is below it.
Loses(T, T2, e) == e \in T /\ T2 = {y \in T : ~Under(e.path, y.path)}

(* A new name of a new inode is one name more. *)
LEMMA TreeGains ==
  ASSUME NEW ib, NEW tb, NEW bb, NEW d, Sound(ib, tb, bb, d), WellNamed(ib, tb, d),
         NEW ib2, NEW tb2, NEW bb2, NEW d2, Sound(ib2, tb2, bb2, d2), WellNamed(ib2, tb2, d2),
         NEW p, Grown(ib, tb, d, p, tb2, d2), NEW k, NewAre(tb, d, tb2, d2, p, k),
         k \notin ib, k # EXT2_ROOT_INO, ib \subseteq ib2,
         NEW f, IsTreeOf(f, tb, d), NEW f2, IsTreeOf(f2, tb2, d2),
         NEW m \in 0..DEPTH, NEW x \in f[m], x.inode = p, x.i_mode = "EXT2_S_IFDIR"
  PROVE  \/ AllOf(f2) = AllOf(f) /\ NewIn(tb, d, tb2, d2, p) = {}
         \/ \E e : Gains(AllOf(f), AllOf(f2), e) /\ e.i_mode = tb2[k].i_mode
<1> DEFINE h == HeadersIn(tb2, d2, p)
           new == NewNames(tb, d, tb2, d2, x)
<1>1. AllOf(f2) = AllOf(f) \cup new BY TreeGrown
<1>2. \A i \in 0..DEPTH + 1 : f2[i] = f[i] \cup (IF i = m + 1 THEN new ELSE {}) BY TreeGrown
<1>3. new = {Named(tb2, x, h, s) : s \in NewIn(tb, d, tb2, d2, p)} BY DEF NewNames
<1>4. CASE NewIn(tb, d, tb2, d2, p) = {}
  <2>1. new = {} BY <1>3, <1>4
  <2> HIDE DEF new
  <2> QED BY <1>1, <1>4, <2>1
<1>5. CASE NewIn(tb, d, tb2, d2, p) # {}
  <2>1. PICK s : s \in NewIn(tb, d, tb2, d2, p) BY <1>5
  <2> DEFINE e == Named(tb2, x, h, s)
             n == h[s].name
             q == x.path
  <2>2. DEPTH \in Nat /\ m \in 0..DEPTH + 1 /\ m + 1 \in 0..DEPTH + 1 /\ m + 1 \in 1..DEPTH + 1 BY SizesAssumption
  <2>3. Placed(ib, tb, x, m) BY <2>2, TreePlaced
  <2>4. p \in DirsOf(ib, tb) /\ q \in Seq(NAMES) BY <2>3 DEF Placed, DirsOf
  <2>5. p \in DirsOf(ib2, tb2) BY <2>4 DEF DirsOf, Grown
  <2>6. \A t \in NewIn(tb, d, tb2, d2, p) : t \in EntriesIn(h) /\ h[t].inode = k BY DEF NewAre, NewIn
  <2>7. \A t \in NewIn(tb, d, tb2, d2, p) : t = s BY <2>1, <2>5, <2>6 DEF Sound, NamedOnce
  <2>8. n \in NAMES BY <2>1, <2>6 DEF EntriesIn
  <2>9. e.inode = k /\ e.path = Append(q, n) /\ e.i_mode = tb2[k].i_mode BY <2>1, <2>6 DEF Named
  <2>10. new = {e} BY <1>3, <2>1, <2>7
  <2>11. e \in f2[m + 1] BY <1>2, <2>2, <2>10
  <2>12. AllOf(f2) = AllOf(f) \cup {e} BY <1>1, <2>10
  <2> HIDE DEF new, e, n, h, q
  <2>13. SubSeq(e.path, 1, Len(e.path) - 1) = q BY <2>4, <2>8, <2>9, PathFront
  <2>14. q = <<>> \/ \E y \in AllOf(f) : y.path = q /\ y.i_mode = "EXT2_S_IFDIR"
    <3>1. CASE m = 0
      <4>1. x = Root BY <3>1 DEF IsTreeOf
      <4> QED BY <4>1 DEF Root, q
    <3>2. CASE m # 0
      <4>1. m \in 1..DEPTH + 1 BY <2>2, <3>2
      <4>2. x \in AllOf(f) BY <4>1 DEF AllOf
      <4> QED BY <4>2 DEF q
    <3> QED BY <3>1, <3>2
  <2>15. ASSUME NEW y \in AllOf(f) PROVE y.path # e.path /\ y.inode # e.inode
    <3>1. PICK i \in 1..DEPTH + 1 : y \in f[i] BY DEF AllOf
    <3>2. i \in 0..DEPTH + 1 BY <2>2
    <3>3. Placed(ib, tb, y, i) BY <3>1, <3>2, TreePlaced
    <3>4. y.inode # e.inode BY <2>9, <3>3 DEF Placed
    <3>5. y \in f2[i] BY <1>2, <3>1, <3>2
    <3>6. y.path = e.path => y = e BY <2>2, <2>11, <3>2, <3>5, TreeUnique
    <3> QED BY <3>4, <3>6
  <2>16. Gains(AllOf(f), AllOf(f2), e) BY <2>12, <2>13, <2>14, <2>15 DEF Gains
  <2> QED BY <2>9, <2>16
<1> QED BY <1>4, <1>5

-----------------------------------------------------------------------------
(* The tree of the model.                                                  *)

KidsOf(x) ==
  {[path   |-> Append(x.path, dirs[BlockOf(x.inode)][s].name),
    i_mode |-> Kind(dirs[BlockOf(x.inode)][s].inode),
    inode  |-> dirs[BlockOf(x.inode)][s].inode]
     : s \in Entries(BlockOf(x.inode))}

Kids(S) == UNION {KidsOf(x) : x \in {y \in S : y.i_mode = "EXT2_S_IFDIR"}}

Treed(f, d) == IF d = 0 THEN {Root} ELSE Kids(f[d - 1])
IsTreed(f, n) == f = [d \in 0..n |-> Treed(f, d)]

(* The recursive definition in Tree defines something. *)
LEMMA TreesExist == \A n \in Nat : \E f : IsTreed(f, n)
<1> DEFINE Missing == {n \in Nat : ~ \E f : IsTreed(f, n)}
<1> SUFFICES ASSUME Missing # {} PROVE FALSE OBVIOUS
<1>1. PICK n \in Missing : \A m \in Missing : n <= m
  <2>1. Missing \subseteq Nat OBVIOUS
  <2> HIDE DEF Missing
  <2> QED BY <2>1, LeastFound
<1>2. n \in Nat /\ ~ \E f : IsTreed(f, n) OBVIOUS
<1>3. n # 0
  <2> DEFINE f == [d \in 0..0 |-> {Root}]
  <2>1. ASSUME n = 0 PROVE IsTreed(f, n) BY <2>1 DEF IsTreed, Treed
  <2> QED BY <1>2, <2>1
<1>4. PICK f : IsTreed(f, n - 1)
  <2>1. n - 1 \in Nat /\ ~ (n <= n - 1) BY <1>2, <1>3
  <2>2. n - 1 \notin Missing BY <1>1, <2>1
  <2> QED BY <2>1, <2>2
<1>5. \A d \in 0..n - 1 : f[d] = Treed(f, d) BY <1>4 DEF IsTreed
<1> DEFINE g == [d \in 0..n |-> IF d = n THEN Treed(f, n) ELSE f[d]]
<1>6. \A d \in 0..n - 1 : g[d] = f[d] BY <1>2
<1>7. ASSUME NEW d \in 0..n PROVE g[d] = Treed(g, d)
  <2>1. d = 0 \/ d - 1 \in 0..n - 1 BY <1>2
  <2>2. d = 0 \/ g[d - 1] = f[d - 1] BY <1>6, <2>1
  <2>3. Treed(g, d) = Treed(f, d) BY <2>2 DEF Treed
  <2>4. g[d] = Treed(f, d)
    <3>1. CASE d = n BY <3>1
    <3>2. CASE d # n
      <4>1. d \in 0..n - 1 BY <1>2, <3>2
      <4> QED BY <1>5, <1>6, <4>1
    <3> QED BY <3>1, <3>2
  <2> QED BY <2>3, <2>4
<1>8. IsTreed(g, n) BY <1>7 DEF IsTreed
<1> QED BY <1>2, <1>8

TreeWellNamed == WellNamed(ind_bmp, kinds, dirs)

\* The tree of the model is that of the image.
TreeAgrees == \E f : IsTreeOf(f, kinds, dirs) /\ Tree = AllOf(f)

(* It is, when the disk is sound. *)
LEMMA TreeAgreesHolds == DiskSound /\ TreeWellNamed => TreeAgrees
<1> SUFFICES ASSUME DiskSound, TreeWellNamed PROVE TreeAgrees OBVIOUS
<1>1. DEPTH \in Nat /\ DEPTH + 1 \in Nat BY SizesAssumption
<1> DEFINE f == CHOOSE g : IsTreed(g, DEPTH + 1)
<1>2. IsTreed(f, DEPTH + 1) BY <1>1, TreesExist
<1>3. Tree = AllOf(f) BY DEF Tree, IsTreed, Treed, Kids, KidsOf, Root, AllOf
<1> HIDE DEF f
<1>4. \A i \in 0..DEPTH + 1 : f[i] = Treed(f, i) BY <1>2 DEF IsTreed
<1>5. f[0] = {Root} BY <1>1, <1>4 DEF Treed
<1>6. \A i \in 1..DEPTH + 1 : i \in 0..DEPTH + 1 /\ i # 0 /\ i - 1 \in 0..DEPTH + 1 BY <1>1
<1>7. \A i \in 1..DEPTH + 1 : f[i] = Kids(f[i - 1]) BY <1>4, <1>6 DEF Treed
<1>8. ASSUME NEW x, x.inode \in DirsOf(ind_bmp, kinds) PROVE KidsOf(x) = ChildrenOf(kinds, dirs, x)
  <2> DEFINE h == dirs[BlockOf(x.inode)]
  <2>1. h = HeadersIn(kinds, dirs, x.inode) /\ Entries(BlockOf(x.inode)) = EntriesIn(h)
    BY <1>8, DirsOfModel
  <2>2. \A s \in EntriesIn(h) : kinds[h[s].inode].i_mode = Kind(h[s].inode)
    <3>1. ind_bmp \subseteq Inode /\ NamedOnce(ind_bmp, kinds, dirs) BY DEF DiskSound, Sound, Typed
    <3>2. \A s \in EntriesIn(h) : h[s].inode \in ind_bmp BY <1>8, <2>1, <3>1 DEF NamedOnce
    <3> HIDE DEF h
    <3> QED BY <3>1, <3>2, KindsAre
  <2>3. KidsOf(x) = {[path   |-> Append(x.path, h[s].name),
                      i_mode |-> Kind(h[s].inode),
                      inode  |-> h[s].inode] : s \in EntriesIn(h)}
    BY <2>1 DEF KidsOf
  <2> HIDE DEF h
  <2>4. KidsOf(x) = {Named(kinds, x, h, s) : s \in EntriesIn(h)} BY <2>2, <2>3 DEF Named
  <2>5. ChildrenOf(kinds, dirs, x) = {Named(kinds, x, h, s) : s \in EntriesIn(h)}
    BY <2>1 DEF ChildrenOf
  <2> QED BY <2>4, <2>5
<1>9. Sound(ind_bmp, kinds, blk_bmp, dirs) BY DEF DiskSound
<1> DEFINE X == {i \in 0..DEPTH + 1 : \E x \in f[i] : ~Placed(ind_bmp, kinds, x, i)}
<1>10. X = {}
  <2> SUFFICES ASSUME X # {} PROVE FALSE OBVIOUS
  <2>1. PICK i \in X : \A j \in X : i <= j
    <3>1. X \subseteq Nat BY <1>1
    <3> HIDE DEF X
    <3> QED BY <3>1, LeastFound
  <2>2. PICK c \in f[i] : ~Placed(ind_bmp, kinds, c, i) OBVIOUS
  <2>3. i # 0
    <3>1. Placed(ind_bmp, kinds, Root, 0) BY EmptySeq DEF Placed, Root, TreeWellNamed, WellNamed
    <3> QED BY <1>5, <2>2, <3>1
  <2> DEFINE j == i - 1
  <2>4. i \in 1..DEPTH + 1 /\ j \in 0..DEPTH + 1 /\ ~(i <= j) /\ j \in Nat /\ j + 1 = i
    BY <1>1, <2>3
  <2>5. f[i] = Kids(f[j]) BY <1>7, <2>4
  <2> HIDE DEF j
  <2>6. PICK x \in f[j] : x.i_mode = "EXT2_S_IFDIR" /\ c \in KidsOf(x) BY <2>2, <2>5 DEF Kids
  <2>7. Placed(ind_bmp, kinds, x, j) BY <2>1, <2>4
  <2>8. x.inode \in DirsOf(ind_bmp, kinds) BY <2>6, <2>7 DEF Placed, DirsOf
  <2>9. c \in ChildrenOf(kinds, dirs, x) BY <1>8, <2>6, <2>8
  <2>10. Placed(ind_bmp, kinds, c, j + 1) BY <1>9, <2>4, <2>6, <2>7, <2>9, ChildPlaced
  <2> QED BY <2>2, <2>4, <2>10
<1>11. ASSUME NEW i \in 1..DEPTH + 1 PROVE f[i] = Children(kinds, dirs, f[i - 1])
  <2> DEFINE S == f[i - 1]
  <2>1. ASSUME NEW x \in S, x.i_mode = "EXT2_S_IFDIR" PROVE KidsOf(x) = ChildrenOf(kinds, dirs, x)
    <3>1. Placed(ind_bmp, kinds, x, i - 1) BY <1>6, <1>10
    <3>2. x.inode \in DirsOf(ind_bmp, kinds) BY <2>1, <3>1 DEF Placed, DirsOf
    <3> QED BY <1>8, <3>2
  <2>2. f[i] = Kids(S) BY <1>7
  <2> HIDE DEF S
  <2>3. Kids(S) = Children(kinds, dirs, S) BY <2>1 DEF Kids, Children
  <2> QED BY <2>2, <2>3 DEF S
<1>12. IsTreeOf(f, kinds, dirs) BY <1>5, <1>11 DEF IsTreeOf
<1> QED BY <1>3, <1>12 DEF TreeAgrees

(* The directory of a command is in the tree. *)
LEMMA CdInTree ==
  ASSUME DiskSound, NEW path \in Paths, IsDir(cd(path)), NEW f, IsTreeOf(f, kinds, dirs)
  PROVE  \E m \in 0..DEPTH : \E x \in f[m] : x.inode = cd(path) /\ x.i_mode = "EXT2_S_IFDIR"
<1>1. PICK g : DirPath(ind_bmp, kinds, dirs, path, g) /\ g[Len(path)] = cd(path) BY CdInUse
<1>2. path \in Seq(NAMES) /\ Len(path) \in 0..DEPTH
  <2>1. PICK m \in 0..DEPTH : path \in [1..m -> NAMES] BY DEF Paths
  <2>2. m \in Nat BY SizesAssumption
  <2>3. path \in Seq(NAMES) BY <2>1, <2>2, SeqDef
  <2>4. Len(path) \in Nat /\ DOMAIN path = 1..Len(path) BY <2>3, LenProperties
  <2>5. DOMAIN path = 1..m BY <2>1
  <2> DEFINE l == Len(path)
  <2>6. l \in Nat /\ 1..l = 1..m BY <2>4, <2>5
  <2> HIDE DEF l
  <2>7. l = m
    <3>1. l # 0 => l \in 1..l BY <2>6
    <3>2. m # 0 => m \in 1..m BY <2>2
    <3>3. (l # 0 => l <= m) /\ (m # 0 => m <= l) BY <2>2, <2>6, <3>1, <3>2
    <3> QED BY <2>2, <2>6, <3>3
  <2> QED BY <2>3, <2>7 DEF l
<1> DEFINE x == [path |-> path, i_mode |-> "EXT2_S_IFDIR", inode |-> g[Len(path)]]
<1>3. x \in f[Len(path)]
  <2>1. Len(path) <= DEPTH BY <1>2, SizesAssumption
  <2> QED BY <1>1, <1>2, <2>1, WayInTree DEF DiskSound
<1>4. x.inode = cd(path) /\ x.i_mode = "EXT2_S_IFDIR" BY <1>1
<1> QED BY <1>2, <1>3, <1>4

(* An image has one tree. *)
LEMMA SameTree ==
  ASSUME DiskSound, TreeWellNamed, kinds' = kinds, dirs' = dirs, DiskSound', TreeWellNamed'
  PROVE  Tree' = Tree
<1>1. PICK f : IsTreeOf(f, kinds, dirs) /\ Tree = AllOf(f) BY TreeAgreesHolds DEF TreeAgrees
<1>2. TreeAgrees' BY TreeAgreesHolds, PTL
<1>3. PICK f2 : IsTreeOf(f2, kinds, dirs) /\ Tree' = AllOf(f2)
  <2>1. PICK f2 : IsTreeOf(f2, kinds', dirs') /\ Tree' = AllOf(f2) BY <1>2 DEF TreeAgrees
  <2> QED BY <2>1
<1>4. Sound(ind_bmp, kinds, blk_bmp, dirs) /\ WellNamed(ind_bmp, kinds, dirs) BY DEF DiskSound, TreeWellNamed
<1>5. Grown(ind_bmp, kinds, dirs, EXT2_ROOT_INO, kinds, dirs) BY DEF Grown, NewIn
<1>6. NewNames(kinds, dirs, kinds, dirs, Root) = {} BY DEF NewNames, NewIn
<1>7. 0 \in 0..DEPTH BY SizesAssumption
<1>8. Root \in f[0] /\ Root.inode = EXT2_ROOT_INO /\ Root.i_mode = "EXT2_S_IFDIR" BY <1>1 DEF IsTreeOf, Root
<1>9. AllOf(f2) = AllOf(f) \cup NewNames(kinds, dirs, kinds, dirs, Root)
  BY <1>1, <1>3, <1>4, <1>5, <1>7, <1>8, TreeGrown
<1> QED BY <1>1, <1>3, <1>6, <1>9

\* The image before a removal, too, has no directory with a name twice.
UndoWellNamed == undo # NoFile => WellNamed(undo.before[1], kinds, undo.before[3])

NamesInv == TreeWellNamed /\ UndoWellNamed

\* Some directory of the tree has no room.
FullDirectory ==
  \E p \in {<<>>} \cup {x.path : x \in Tree} : FT!IsDirectory(p) /\ FT!IsFull(p)

\* A step of the tree of names.
TreeStep ==
  \/ Tree' = Tree /\ ~succeeded'
  \/ Tree' = Tree /\ FullDirectory
  \/ \E e : Gains(Tree, Tree', e) /\ (e.i_mode = "EXT2_S_IFDIR" => succeeded')
  \/ \E e : Loses(Tree, Tree', e) /\ succeeded'

(* A block without room has an entry in every slot but the first two. *)
LEMMA FullBlock ==
  ASSUME NEW h \in Headers, Shape(h), AllNamed(h), h[1].name = ".", h[2].name = "..",
         \A s \in Slot : ~(h[s].rec_len >= 2)
  PROVE  EntriesIn(h) = 3..SLOTS
<1>1. /\ \A s \in Links(h) : s \in Slot /\ h[s].rec_len > 0
      /\ \A s \in Links(h), t \in Slot : Leads(h, s, t) => t \in Links(h)
  BY LinksFacts
<1>2. PICK e \in Links(h) : e + h[e].rec_len = SLOTS + 1 BY DEF Shape
<1>3. \A s \in Slot : h[s].rec_len \in Nat /\ s \in Nat /\ s >= 1 BY Lengths
<1>4. h[e].rec_len = 1 /\ e = SLOTS BY <1>1, <1>2, <1>3, SizesAssumption
<1>5. \A s \in Slot : h[s].rec_len = 1
  <2>1. \A s \in Slot : s < e => h[s].rec_len >= 1 BY <1>2 DEF Shape
  <2> QED BY <1>3, <1>4, <2>1, SizesAssumption DEF Slot
<1> DEFINE X == Slot \ Links(h)
<1>6. X = {}
  <2> SUFFICES ASSUME X # {} PROVE FALSE OBVIOUS
  <2>1. PICK x \in X : \A y \in X : x <= y
    <3>1. X \subseteq Nat BY <1>3
    <3> HIDE DEF X
    <3> QED BY <3>1, LeastFound
  <2>2. x # 1 BY DEF Shape
  <2>3. x - 1 \in Slot /\ ~(x <= x - 1) BY <1>3, <2>2, SizesAssumption DEF Slot
  <2>4. x - 1 \in Links(h) BY <2>1, <2>3
  <2>5. Leads(h, x - 1, x) BY <1>3, <1>5, <2>3 DEF Leads
  <2> QED BY <1>1, <2>4, <2>5
<1>7. Links(h) = Slot BY <1>1, <1>6
<1>8. 1 \notin EntriesIn(h) /\ 2 \notin EntriesIn(h) BY NamesAssumption DEF EntriesIn
<1>9. EntriesIn(h) = Slot \ {1, 2} BY <1>7, <1>8 DEF AllNamed, EntriesIn
<1> QED BY <1>9, SizesAssumption DEF Slot

(* What is in a directory of the tree is what the tree has one level below it. *)
LEMMA InDirectory ==
  ASSUME NEW ib, NEW tb, NEW bb, NEW d, Sound(ib, tb, bb, d), WellNamed(ib, tb, d),
         NEW f, IsTreeOf(f, tb, d), NEW m \in 0..DEPTH, NEW x \in f[m], x.i_mode = "EXT2_S_IFDIR"
  PROVE  {y \in AllOf(f) : FT!Parent(y.path) = x.path} = ChildrenOf(tb, d, x)
<1>1. /\ DEPTH \in Nat /\ m \in 0..DEPTH + 1 /\ m \in Nat /\ m + 1 \in 1..DEPTH + 1 /\ (m + 1) - 1 = m
  BY SizesAssumption
<1>2. Placed(ib, tb, x, m) BY <1>1, TreePlaced
<1>3. ASSUME NEW y \in ChildrenOf(tb, d, x) PROVE y \in AllOf(f) /\ FT!Parent(y.path) = x.path
  <2>1. f[m + 1] = Children(tb, d, f[m]) BY <1>1 DEF IsTreeOf
  <2>2. y \in AllOf(f) BY <1>1, <1>3, <2>1 DEF Children, AllOf
  <2>3. PICK n \in NAMES : y.path = Append(x.path, n) BY <1>1, <1>2, ChildPlaced
  <2>4. x.path \in Seq(NAMES) BY <1>2 DEF Placed
  <2> QED BY <2>2, <2>3, <2>4, PathFront DEF FT!Parent
<1>4. ASSUME NEW y \in AllOf(f), FT!Parent(y.path) = x.path PROVE y \in ChildrenOf(tb, d, x)
  <2>1. PICK i \in 1..DEPTH + 1 : y \in f[i] BY DEF AllOf
  <2>2. PICK z \in f[i - 1] : \E s \in EntriesIn(HeadersIn(tb, d, z.inode)) :
           LET h == HeadersIn(tb, d, z.inode)
           IN  /\ z.inode \in DirsOf(ib, tb) /\ z.path \in Seq(NAMES) /\ h[s].name \in NAMES
               /\ y = Named(tb, z, h, s)
               /\ y.path = Append(z.path, h[s].name) /\ y.inode = h[s].inode /\ y.inode \in ib
    BY <2>1, TreeChild
  <2>3. PICK n \in NAMES : z.path \in Seq(NAMES) /\ y.path = Append(z.path, n) BY <2>2
  <2>4. z.path = x.path BY <1>4, <2>3, PathFront DEF FT!Parent
  <2>5. i - 1 \in 0..DEPTH + 1 BY <1>1
  <2>6. z = x BY <1>1, <2>4, <2>5, TreeUnique
  <2> QED BY <2>2, <2>6 DEF ChildrenOf
<1> QED BY <1>3, <1>4

(* A directory whose block has no room holds as many names as there is room for. *)
LEMMA FullFound ==
  ASSUME DiskSound, TreeWellNamed, NEW path \in Paths, IsDir(cd(path)), RoomIn(BlockOf(cd(path))) = {}
  PROVE  FullDirectory
<1> DEFINE p == cd(path)
           h == HeadersIn(kinds, dirs, p)
<1>1. p \in DirsOf(ind_bmp, kinds) BY CdInUse, DirsOfModel
<1>2. /\ h \in Headers /\ Shape(h) /\ AllNamed(h) /\ h[1].name = "." /\ h[2].name = ".."
      /\ dirs[BlockOf(p)] = h
  BY <1>1, SoundDirectory, DirsOfModel DEF DiskSound
<1>3. \A s \in Slot : ~(h[s].rec_len >= 2)
  <2>1. BlockOf(p) \in Block BY <1>1, DirsOfModel, DirectoryBlocks DEF DiskSound
  <2>2. BlockOf(p) # BOOT BY <2>1, SizesAssumption DEF BOOT, Block
  <2> QED BY <1>2, <2>2 DEF RoomIn
<1>4. EntriesIn(h) = 3..SLOTS
  <2> HIDE DEF h
  <2> QED BY <1>2, <1>3, FullBlock
<1>5. PICK f : IsTreeOf(f, kinds, dirs) /\ Tree = AllOf(f) BY TreeAgreesHolds DEF TreeAgrees
<1>6. PICK m \in 0..DEPTH : \E x \in f[m] : x.inode = p /\ x.i_mode = "EXT2_S_IFDIR"
  BY <1>5, CdInTree
<1>7. PICK x \in f[m] : x.inode = p /\ x.i_mode = "EXT2_S_IFDIR" BY <1>6
<1>8. Sound(ind_bmp, kinds, blk_bmp, dirs) /\ WellNamed(ind_bmp, kinds, dirs)
  BY DEF DiskSound, TreeWellNamed
<1>9. m \in 0..DEPTH + 1 /\ (m # 0 => m \in 1..DEPTH + 1) BY SizesAssumption
<1>10. x.path \in Seq(NAMES)
  <2>1. Placed(ind_bmp, kinds, x, m) BY <1>5, <1>8, <1>9, TreePlaced
  <2> QED BY <2>1 DEF Placed
<1> DEFINE C == ChildrenOf(kinds, dirs, x)
           S == 3..SLOTS
           g == [s \in S |-> Named(kinds, x, h, s)]
<1>11. {y \in Tree : FT!Parent(y.path) = x.path} = C BY <1>5, <1>7, <1>8, InDirectory
<1>12. C = {g[s] : s \in S} BY <1>4, <1>7 DEF ChildrenOf
<1>13. ASSUME NEW s \in S, NEW t \in S, g[s] = g[t] PROVE s = t
  <2>1. /\ g[s].path = Append(x.path, h[s].name) /\ g[t].path = Append(x.path, h[t].name) BY DEF Named
  <2>2. s \in EntriesIn(h) /\ t \in EntriesIn(h) BY <1>4
  <2>3. h[s].name \in NAMES /\ h[t].name \in NAMES BY <2>2 DEF EntriesIn
  <2> DEFINE w == x.path
             n == h[s].name
             n2 == h[t].name
  <2>4. w \in Seq(NAMES) /\ n \in NAMES /\ n2 \in NAMES /\ Append(w, n) = Append(w, n2)
    BY <1>10, <1>13, <2>1, <2>3
  <2> HIDE DEF w, n, n2
  <2>5. n = n2 BY <2>4, PathSplit
  <2> QED BY <1>1, <1>8, <2>2, <2>5 DEF WellNamed, n, n2
<1> HIDE DEF C
<1>14. Cardinality(C) = SLOTS - 2
  <2>1. g \in Bijection(S, C)
    <3>1. g \in [S -> C] BY <1>12
    <3>2. \A c \in C : \E s \in S : g[s] = c BY <1>12
    <3> HIDE DEF g, S
    <3> QED BY <1>13, <3>1, <3>2 DEF Bijection, Injection, Surjection, IsInjective
  <2>2. IsFiniteSet(S) /\ Cardinality(S) = SLOTS - 2
    <3>1. SLOTS \in Int /\ SLOTS >= 3 BY SizesAssumption
    <3> QED BY <3>1, FS_Interval
  <2> HIDE DEF g, S
  <2>3. ExistsBijection(S, C) BY <2>1 DEF ExistsBijection
  <2> QED BY <2>2, <2>3, FS_Bijection
<1>15. FT!IsFull(x.path)
  <2>1. \A T : FT!Cardinality(T) = Cardinality(T) BY DEF FT!Cardinality, Cardinality
  <2> QED BY <1>11, <1>14, <2>1 DEF FT!IsFull
<1>16. x.path = <<>> \/ x \in Tree
  <2>1. CASE m = 0
    <3>1. x = Root BY <1>5, <2>1 DEF IsTreeOf
    <3> QED BY <3>1 DEF Root
  <2>2. CASE m # 0 BY <1>5, <1>9, <2>2 DEF AllOf
  <2> QED BY <2>1, <2>2
<1>17. FT!IsDirectory(x.path) BY <1>7, <1>16 DEF FT!IsDirectory
<1> QED BY <1>15, <1>16, <1>17 DEF FullDirectory

(* mkdir and cp make at most one name, if it is not there yet. *)
LEMMA MakesStep ==
  ASSUME DiskSound, TreeWellNamed, NEW path \in Paths, NEW n \in NAMES, IsDir(cd(path)),
         Found(BlockOf(cd(path)), n) = {}, MakesName(cd(path), n)
  PROVE  TreeWellNamed' /\ TreeStep
<1> DEFINE p == cd(path)
<1>1. PICK k, new, inode, b, w, r, entry :
        /\ PutsEntry(p, k, new, inode, b, w, r, entry) /\ entry.name = n
        /\ RoomIn(BlockOf(p)) # {} => b # BOOT
        /\ inode.i_mode = "EXT2_S_IFDIR" => succeeded'
  BY DEF MakesName
<1> DEFINE tb2 == kinds'
           ib2 == ind_bmp'
           d2 == dirs'
           bb2 == blk_bmp'
<1>2. /\ Added(ind_bmp, kinds, blk_bmp, dirs, p, k, new, inode, b, w, r, entry, d2)
      /\ Rewritten(kinds, k, inode, tb2) /\ ib2 = ind_bmp \cup {k}
  BY <1>1 DEF PutsEntry, Rewritten
<1>3. Sound(ind_bmp, kinds, blk_bmp, dirs) /\ WellNamed(ind_bmp, kinds, dirs) BY DEF DiskSound, TreeWellNamed
<1>4. Hits(HeadersIn(kinds, dirs, p), entry.name) = {}
  <2>1. p \in DirsOf(ind_bmp, kinds) BY CdInUse, DirsOfModel
  <2> HIDE DEF p
  <2>2. Found(BlockOf(p), n) = Hits(HeadersIn(kinds, dirs, p), n) BY <2>1, DirsOfModel
  <2> QED BY <1>1, <2>2 DEF p
<1> HIDE DEF tb2, ib2, d2, bb2, p
<1>5. /\ Grown(ind_bmp, kinds, dirs, p, tb2, d2) /\ WellNamed(ind_bmp \cup {k}, tb2, d2)
      /\ NewAre(kinds, dirs, tb2, d2, p, k) /\ (b # BOOT => NewIn(kinds, dirs, tb2, d2, p) # {})
  BY <1>2, <1>3, <1>4, AddedNew
<1>6. k \notin ind_bmp /\ k # EXT2_ROOT_INO /\ tb2[k] = inode BY <1>2, <1>3, AddedHeaders
<1>7. TreeWellNamed' BY <1>2, <1>5 DEF TreeWellNamed, tb2, ib2, d2
<1>8. DiskSound' BY <1>1, MakeSound DEF p, MakesName
<1>9. TreeAgrees' BY <1>7, <1>8, TreeAgreesHolds, PTL
<1>10. PICK f2 : IsTreeOf(f2, tb2, d2) /\ Tree' = AllOf(f2) BY <1>9 DEF TreeAgrees, tb2, d2
<1>11. PICK f : IsTreeOf(f, kinds, dirs) /\ Tree = AllOf(f) BY TreeAgreesHolds DEF TreeAgrees
<1>12. PICK m \in 0..DEPTH : \E x \in f[m] : x.inode = p /\ x.i_mode = "EXT2_S_IFDIR"
  BY <1>11, CdInTree DEF p
<1>13. PICK x \in f[m] : x.inode = p /\ x.i_mode = "EXT2_S_IFDIR" BY <1>12
<1>14. Sound(ib2, tb2, bb2, d2) /\ WellNamed(ib2, tb2, d2)
  BY <1>7, <1>8 DEF DiskSound, TreeWellNamed, tb2, ib2, d2, bb2
<1>15. \/ AllOf(f2) = AllOf(f) /\ NewIn(kinds, dirs, tb2, d2, p) = {}
       \/ \E e : Gains(AllOf(f), AllOf(f2), e) /\ e.i_mode = tb2[k].i_mode
  <2>1. ind_bmp \subseteq ib2 BY <1>2
  <2> QED BY <1>3, <1>5, <1>6, <1>10, <1>11, <1>13, <1>14, <2>1, TreeGains
<1>16. CASE AllOf(f2) = AllOf(f) /\ NewIn(kinds, dirs, tb2, d2, p) = {}
  <2>1. RoomIn(BlockOf(p)) = {} BY <1>1, <1>5, <1>16
  <2>2. FullDirectory BY <2>1, FullFound DEF p
  <2> QED BY <1>7, <1>10, <1>11, <1>16, <2>2 DEF TreeStep
<1>17. CASE \E e : Gains(AllOf(f), AllOf(f2), e) /\ e.i_mode = tb2[k].i_mode
  BY <1>1, <1>6, <1>7, <1>10, <1>11, <1>17 DEF TreeStep
<1> QED BY <1>15, <1>16, <1>17

(* rm and rm_bonus take away one name and what is below it. *)
LEMMA TakesStep ==
  ASSUME DiskSound, TreeWellNamed, NEW path \in Paths, NEW s, NEW ks, TakesOut(cd(path), s, ks), succeeded'
  PROVE  TreeWellNamed' /\ TreeStep
<1> DEFINE p == cd(path)
           d2 == dirs'
<1>1. Removed(ind_bmp, kinds, dirs, p, s, ks, d2) /\ DiskSound' BY TakeOutSound
<1>2. ind_bmp' = ind_bmp \ ks /\ kinds' = kinds BY KindsKept DEF TakesOut, free_inode
<1>3. Sound(ind_bmp, kinds, blk_bmp, dirs) /\ WellNamed(ind_bmp, kinds, dirs) BY DEF DiskSound, TreeWellNamed
<1>4. p \in DirsOf(ind_bmp, kinds) BY DEF TakesOut
<1>5. IsDir(p) BY <1>4, DirsOfModel
<1> HIDE DEF d2
<1>6. Shrunk(ind_bmp, kinds, dirs, p, s, d2) /\ WellNamed(ind_bmp \ ks, kinds, d2)
  <2> HIDE DEF p
  <2> QED BY <1>1, <1>3, RemovedShrinks
<1>7. TreeWellNamed' BY <1>2, <1>6 DEF TreeWellNamed, d2
<1>8. TreeAgrees' BY <1>1, <1>7, TreeAgreesHolds, PTL
<1>9. PICK f2 : IsTreeOf(f2, kinds, d2) /\ Tree' = AllOf(f2) BY <1>2, <1>8 DEF TreeAgrees, d2
<1>10. PICK f : IsTreeOf(f, kinds, dirs) /\ Tree = AllOf(f) BY TreeAgreesHolds DEF TreeAgrees
<1>11. PICK m \in 0..DEPTH : \E x \in f[m] : x.inode = p /\ x.i_mode = "EXT2_S_IFDIR"
  BY <1>5, <1>10, CdInTree
<1>12. PICK x \in f[m] : x.inode = p /\ x.i_mode = "EXT2_S_IFDIR" BY <1>11
<1> HIDE DEF p
<1> DEFINE e == Named(kinds, x, HeadersIn(kinds, dirs, p), s)
<1>13. e \in AllOf(f) /\ AllOf(f2) = {y \in AllOf(f) : ~Under(e.path, y.path)}
  <2>1. e = Named(kinds, x, HeadersIn(kinds, dirs, p), s) OBVIOUS
  <2> HIDE DEF e
  <2> QED BY <1>3, <1>6, <1>9, <1>10, <1>12, <2>1, TreeShrunk
<1> HIDE DEF e
<1>14. Loses(AllOf(f), AllOf(f2), e) BY <1>13 DEF Loses
<1> QED BY <1>7, <1>9, <1>10, <1>14 DEF TreeStep

(* restore gives back the name that was removed, or fails and changes no name. *)
LEMMA RestoresStep ==
  ASSUME "late_restore" \notin ALLOWED, "stale_restore" \notin ALLOWED,
         TreeInv, NamesInv, NEW path \in Paths, NEW n \in NAMES, ext2_restore(path, n)
  PROVE  NamesInv' /\ TreeStep
<1>1. /\ DiskSound' /\ undo # NoFile /\ kinds' = kinds
      /\ succeeded' => image' = undo.before
      /\ ~succeeded' => ind_bmp' = ind_bmp /\ dirs' = dirs
  BY RestoreSound DEF TreeInv
<1>2. undo' = NoFile BY DEF ext2_restore
<1>3. UndoWellNamed' BY <1>2 DEF UndoWellNamed
<1>4. PICK f : IsTreeOf(f, kinds, dirs) /\ Tree = AllOf(f)
  BY TreeAgreesHolds DEF TreeAgrees, TreeInv, NamesInv
<1>5. CASE ~succeeded'
  <2>1. TreeWellNamed' BY <1>1, <1>5 DEF NamesInv, TreeWellNamed
  <2>2. Tree' = Tree BY <1>1, <1>5, <2>1, SameTree DEF TreeInv, NamesInv
  <2> QED BY <1>3, <1>5, <2>1, <2>2 DEF NamesInv, TreeStep
<1>6. CASE succeeded'
  <2> DEFINE ib2 == undo.before[1]
             bb2 == undo.before[2]
             d2 == undo.before[3]
  <2>1. PICK path2 \in Paths, p \in DirsOf(ib2, kinds) :
          /\ cd(path2) = p /\ undo.before = <<ib2, bb2, d2>>
          /\ TakenOut(ib2, kinds, bb2, d2, p, undo.slot, undo.name, ind_bmp, blk_bmp, dirs)
    BY <1>1 DEF TreeInv, UndoSound
  <2>2. ind_bmp' = ib2 /\ blk_bmp' = bb2 /\ dirs' = d2 BY <1>1, <1>6, <2>1 DEF image
  <2>3. WellNamed(ib2, kinds, d2) BY <1>1 DEF NamesInv, UndoWellNamed
  <2>4. TreeWellNamed' BY <1>1, <2>2, <2>3 DEF TreeWellNamed
  <2> DEFINE s == undo.slot
             k == HeadersIn(kinds, d2, p)[s].inode
  <2> HIDE DEF ib2, bb2, d2, s
  <2>5. /\ Sound(ib2, kinds, bb2, d2) /\ s \in EntriesIn(HeadersIn(kinds, d2, p))
        /\ kinds[k].i_mode # "EXT2_S_IFDIR" /\ ind_bmp = ib2 \ {k}
        /\ dirs = [d2 EXCEPT ![Least(kinds[p].i_block)] = Without(d2[Least(kinds[p].i_block)], s)]
    BY <2>1 DEF TakenOut, HeadersIn, s
  <2>6. NamedOnce(ib2, kinds, d2) BY <2>5 DEF Sound
  <2>7. k \in ib2 BY <2>5, <2>6 DEF NamedOnce
  <2>8. Removed(ib2, kinds, d2, p, s, {k}, dirs) BY <2>5, <2>6, <2>7 DEF Removed, NamedOnce
  <2>9. k # EXT2_ROOT_INO /\ k \notin ind_bmp /\ ind_bmp \subseteq ib2
    <3>1. k \in Inode BY <2>5, <2>7 DEF Sound, Typed
    <3> QED BY <2>5, <3>1, RootIsNoFile
  <2>10. k = HeadersIn(kinds, d2, p)[s].inode OBVIOUS
  <2> HIDE DEF k
  <2>11. /\ Grown(ind_bmp, kinds, dirs, p, kinds, d2) /\ NewAre(kinds, dirs, kinds, d2, p, k)
         /\ NewIn(kinds, dirs, kinds, d2, p) # {}
    BY <2>3, <2>5, <2>8, <2>10, RemovedGrows
  <2>12. TreeAgrees' BY <1>1, <2>4, TreeAgreesHolds, PTL
  <2>13. PICK f2 : IsTreeOf(f2, kinds, d2) /\ Tree' = AllOf(f2) BY <1>1, <2>2, <2>12 DEF TreeAgrees
  <2>14. IsDir(cd(path2))
    <3>1. p \in DirsOf(ind_bmp, kinds) BY <2>5, <2>9 DEF DirsOf
    <3> QED BY <2>1, <3>1, DirsOfModel DEF TreeInv
  <2>15. PICK m \in 0..DEPTH : \E x \in f[m] : x.inode = p /\ x.i_mode = "EXT2_S_IFDIR"
    BY <1>4, <2>1, <2>14, CdInTree DEF TreeInv
  <2>16. PICK x \in f[m] : x.inode = p /\ x.i_mode = "EXT2_S_IFDIR" BY <2>15
  <2>17. Sound(ind_bmp, kinds, blk_bmp, dirs) /\ WellNamed(ind_bmp, kinds, dirs)
    BY DEF TreeInv, DiskSound, NamesInv, TreeWellNamed
  <2>18. \E e : Gains(AllOf(f), AllOf(f2), e) /\ e.i_mode = kinds[k].i_mode
    <3>1. \/ AllOf(f2) = AllOf(f) /\ NewIn(kinds, dirs, kinds, d2, p) = {}
          \/ \E e : Gains(AllOf(f), AllOf(f2), e) /\ e.i_mode = kinds[k].i_mode
      <4>1. Sound(ib2, kinds, bb2, d2) /\ WellNamed(ib2, kinds, d2) BY <2>3, <2>5
      <4>2. Grown(ind_bmp, kinds, dirs, p, kinds, d2) /\ NewAre(kinds, dirs, kinds, d2, p, k) BY <2>11
      <4>3. IsTreeOf(f, kinds, dirs) /\ IsTreeOf(f2, kinds, d2) BY <1>4, <2>13
      <4> QED BY <2>9, <2>16, <2>17, <4>1, <4>2, <4>3, TreeGains
    <3> QED BY <2>11, <3>1
  <2> QED BY <1>3, <1>4, <1>6, <2>4, <2>5, <2>13, <2>18 DEF NamesInv, TreeStep
<1> QED BY <1>5, <1>6

(* A new image has the root alone, and no names. *)
LEMMA InitNames == Init => NamesInv /\ Tree = {}
<1> SUFFICES ASSUME Init PROVE NamesInv /\ Tree = {} OBVIOUS
<1>1. DiskSound BY InitSound DEF TreeInv
<1>2. /\ ind_bmp = {} /\ undo = NoFile
      /\ kinds[EXT2_ROOT_INO].i_block = {FIRST} /\ kinds[EXT2_ROOT_INO].i_mode = "EXT2_S_IFDIR"
      /\ dirs[FIRST] = NewDirectory(EXT2_ROOT_INO, EXT2_ROOT_INO)
  BY RootKinds, RootIsNoFile DEF Init
<1>3. Least({FIRST}) = FIRST
  <2>1. FIRST \in Nat BY SizesAssumption
  <2> QED BY <2>1, LeastIs
<1>4. EntriesIn(HeadersIn(kinds, dirs, EXT2_ROOT_INO)) = {} BY <1>2, <1>3, NewDirectoryBlock DEF HeadersIn
<1>5. TreeWellNamed BY <1>2, <1>4 DEF TreeWellNamed, WellNamed, DirsOf
<1>6. UndoWellNamed BY <1>2 DEF UndoWellNamed
<1>7. PICK f : IsTreeOf(f, kinds, dirs) /\ Tree = AllOf(f) BY <1>1, <1>5, TreeAgreesHolds DEF TreeAgrees
<1> DEFINE X == {i \in 1..DEPTH + 1 : f[i] # {}}
<1>8. X = {}
  <2> SUFFICES ASSUME X # {} PROVE FALSE OBVIOUS
  <2>1. DEPTH \in Nat BY SizesAssumption
  <2>2. PICK i \in X : \A j \in X : i <= j
    <3>1. X \subseteq Nat BY <2>1
    <3> HIDE DEF X
    <3> QED BY <3>1, LeastFound
  <2> DEFINE j == i - 1
  <2>3. i \in 1..DEPTH + 1 /\ f[i] # {} OBVIOUS
  <2>4. f[i] = Children(kinds, dirs, f[j]) BY <1>7, <2>3 DEF IsTreeOf
  <2>5. j = 0 \/ (j \in 1..DEPTH + 1 /\ ~(i <= j)) BY <2>1, <2>3
  <2> HIDE DEF j
  <2>6. CASE j = 0
    <3>1. f[j] = {Root} BY <1>7, <2>6 DEF IsTreeOf
    <3>2. ChildrenOf(kinds, dirs, Root) = {} BY <1>4 DEF ChildrenOf, Root
    <3> QED BY <2>3, <2>4, <3>1, <3>2 DEF Children
  <2>7. CASE j \in 1..DEPTH + 1 /\ ~(i <= j)
    <3>1. f[j] = {} BY <2>2, <2>7
    <3> QED BY <2>3, <2>4, <3>1 DEF Children
  <2> QED BY <2>5, <2>6, <2>7
<1> QED BY <1>5, <1>6, <1>7, <1>8 DEF NamesInv, AllOf

(* Every command takes a step of the tree, and leaves directories without doubles. *)
LEMMA NextNames ==
  ASSUME ALLOWED = {}, TypeOK, RecordsFit, TreeInv, NamesInv, [Next]_vars
  PROVE  /\ NamesInv'
         /\ \/ TreeStep /\ commands' = commands + 1
            \/ Tree' = Tree /\ UNCHANGED <<commands, succeeded>>
<1>1. DiskSound /\ UndoSound /\ TreeWellNamed /\ UndoWellNamed BY DEF TreeInv, NamesInv
<1>2. /\ "wide_gap" \notin ALLOWED /\ "late_restore" \notin ALLOWED /\ "stale_restore" \notin ALLOWED
      /\ "same_name" \notin ALLOWED
  OBVIOUS
<1>3. ASSUME NEW path \in Paths, NEW n \in NAMES, ext2_mkdir(path, n) PROVE NamesInv' /\ TreeStep
  <2>1. IsDir(cd(path)) /\ Found(BlockOf(cd(path)), n) = {} /\ undo' = NoFile BY <1>2, <1>3 DEF ext2_mkdir, Use
  <2>2. TreeWellNamed' /\ TreeStep BY <1>1, <1>3, <2>1, MkdirMakes, MakesStep
  <2> QED BY <2>1, <2>2 DEF NamesInv, UndoWellNamed
<1>4. ASSUME NEW path \in Paths, NEW n \in NAMES, ext2_cp(path, n) PROVE NamesInv' /\ TreeStep
  <2>1. IsDir(cd(path)) /\ Found(BlockOf(cd(path)), n) = {} /\ undo' = NoFile BY <1>4 DEF ext2_cp
  <2>2. TreeWellNamed' /\ TreeStep BY <1>1, <1>2, <1>4, <2>1, CpMakes, MakesStep
  <2> QED BY <2>1, <2>2 DEF NamesInv, UndoWellNamed
<1>5. ASSUME undo' = NoFile \/ (kinds' = kinds /\ undo'.before = image) PROVE UndoWellNamed'
  <2>1. image[1] = ind_bmp /\ image[3] = dirs BY DEF image
  <2> QED BY <1>1, <1>5, <2>1 DEF UndoWellNamed, TreeWellNamed
<1>6. ASSUME NEW path \in Paths, NEW n \in NAMES, ext2_rm(path, n) PROVE NamesInv' /\ TreeStep
  <2>1. PICK s, ks : TakesOut(cd(path), s, ks) /\ succeeded' BY <1>1, <1>6, RmSound
  <2>2. TreeWellNamed' /\ TreeStep BY <1>1, <2>1, TakesStep
  <2>3. undo'.before = image /\ kinds' = kinds BY <1>6, KindsKept DEF ext2_rm, free_inode
  <2> QED BY <1>5, <2>2, <2>3 DEF NamesInv
<1>7. ASSUME NEW path \in Paths, NEW n \in NAMES, NEW recursive \in BOOLEAN, ext2_rm_bonus(path, n, recursive)
      PROVE  NamesInv' /\ TreeStep
  <2>1. PICK s, ks : TakesOut(cd(path), s, ks) /\ succeeded' BY <1>1, <1>7, RmBonusSound
  <2>2. TreeWellNamed' /\ TreeStep BY <1>1, <2>1, TakesStep
  <2>3. undo' = NoFile \/ (undo'.before = image /\ kinds' = kinds)
    BY <1>7, KindsKept DEF ext2_rm_bonus, free_inode
  <2> QED BY <1>5, <2>2, <2>3 DEF NamesInv
<1>8. ASSUME NEW path \in Paths, NEW n \in NAMES, ext2_restore(path, n) PROVE NamesInv' /\ TreeStep
  BY <1>2, <1>8, RestoresStep
<1>9. CASE Next
  <2>1. PICK path \in Paths, n \in NAMES : Command(path, n) BY <1>9 DEF Next
  <2>2. NamesInv' /\ TreeStep BY <1>3, <1>4, <1>6, <1>7, <1>8, <2>1 DEF Command
  <2>3. commands' = commands + 1 BY <1>9 DEF Next
  <2> QED BY <2>2, <2>3
<1>10. CASE UNCHANGED vars
  <2>1. /\ ind_bmp' = ind_bmp /\ kinds' = kinds /\ blk_bmp' = blk_bmp /\ dirs' = dirs /\ undo' = undo
        /\ UNCHANGED <<commands, succeeded>>
    BY <1>10, KindsKept DEF vars
  <2>2. DiskSound' BY <1>1, <2>1 DEF DiskSound
  <2>3. TreeWellNamed' /\ UndoWellNamed' BY <1>1, <2>1 DEF TreeWellNamed, UndoWellNamed
  <2>4. Tree' = Tree BY <1>1, <2>1, <2>2, <2>3, SameTree
  <2> QED BY <2>1, <2>3, <2>4 DEF NamesInv
<1> QED BY <1>9, <1>10

-----------------------------------------------------------------------------
(* What that says of the tools, when cp fills no gap of more than one entry and    *)
(* a restore follows the removal it undoes; directories may be made with the     *)
(* names of files.                                                               *)

(* The records of every directory that has a block lead to the end of that block, *)
(* every entry on the way names an inode in use, and no two entries of the disk   *)
(* the same one (ext2_helper.h, ext2_rm.c), also when disk or directories are full. *)
THEOREM EntriesSoundHolds ==
  ASSUME ALLOWED \subseteq {"same_name"}
  PROVE  Spec => []EntriesSound
<1>1. DiskSound => EntriesSound
  <2> SUFFICES ASSUME DiskSound PROVE EntriesSound OBVIOUS
  <2> DEFINE dirsInUse == {j \in InUse : IsDir(j)}
             all == UNION {{BlockOf(k)} \X Entries(BlockOf(k)) : k \in dirsInUse}
  <2>1. /\ dirsInUse = DirsOf(ind_bmp, kinds)
        /\ \A k \in dirsInUse : /\ dirs[BlockOf(k)] = HeadersIn(kinds, dirs, k)
                                /\ dirs[BlockOf(k)] \in Headers
                                /\ Entries(BlockOf(k)) = EntriesIn(HeadersIn(kinds, dirs, k))
    BY DirsOfModel
  <2>2. ASSUME NEW k \in InUse, IsDir(k)
        PROVE  \E s \in Chain(BlockOf(k)) : s + dirs[BlockOf(k)][s].rec_len = SLOTS + 1
    <3>1. k \in DirsOf(ind_bmp, kinds) BY <2>1, <2>2
    <3>2. Shape(dirs[BlockOf(k)]) BY <2>1, <3>1, SoundDirectory DEF DiskSound
    <3>3. Chain(BlockOf(k)) = Links(dirs[BlockOf(k)]) BY <2>1, <3>1, ChainIsLinks
    <3> QED BY <3>2, <3>3 DEF Shape
  <2>3. \A x \in all : \E k \in dirsInUse : \E s \in EntriesIn(HeadersIn(kinds, dirs, k)) :
          x = <<BlockOf(k), s>> /\ dirs[x[1]][x[2]].inode = HeadersIn(kinds, dirs, k)[s].inode
    BY <2>1
  <2>4. NamedOnce(ind_bmp, kinds, dirs) BY DEF DiskSound, Sound
  <2> HIDE DEF dirsInUse
  <2>5. \A x \in all : dirs[x[1]][x[2]].inode \in ind_bmp
    <3> HIDE DEF all
    <3> QED BY <2>1, <2>3, <2>4 DEF NamedOnce
  <2>6. \A x, y \in all : dirs[x[1]][x[2]].inode = dirs[y[1]][y[2]].inode => x = y
    <3> HIDE DEF all
    <3> QED BY <2>1, <2>3, <2>4 DEF NamedOnce
  <2> QED BY <2>2, <2>5, <2>6 DEF EntriesSound, dirsInUse
<1> QED BY <1>1, TreeInvHolds, PTL DEF TreeInv

(* In a directory that has a block ".." is the directory that has its entry, and   *)
(* "." itself (ext2_mkdir.c), whatever inode and block were used for before.       *)
THEOREM ParentsAgreeHolds ==
  ASSUME ALLOWED \subseteq {"same_name"}
  PROVE  Spec => []ParentsAgree
<1>1. DiskSound => ParentsAgree
  <2> SUFFICES ASSUME DiskSound, NEW p \in InUse, IsDir(p), NEW s \in Entries(BlockOf(p)),
                      NEW k, k = dirs[BlockOf(p)][s].inode, IsDir(k)
               PROVE  dirs[BlockOf(k)][1].inode = k /\ dirs[BlockOf(k)][2].inode = p
    BY DEF ParentsAgree
  <2>1. p \in DirsOf(ind_bmp, kinds) BY DirsOfModel
  <2>2. s \in EntriesIn(HeadersIn(kinds, dirs, p)) /\ k = HeadersIn(kinds, dirs, p)[s].inode
    BY <2>1, DirsOfModel
  <2>3. k \in ind_bmp /\ kinds[k].i_mode = "EXT2_S_IFDIR"
    <3>1. k \in ind_bmp BY <2>1, <2>2 DEF DiskSound, Sound, NamedOnce
    <3>2. k \in Inode \cup {EXT2_ROOT_INO} BY DEF IsDir
    <3> QED BY <3>1, <3>2, KindsAre
  <2>4. k \in DirsOf(ind_bmp, kinds) BY <2>3 DEF DirsOf
  <2>5. dirs[BlockOf(k)] = HeadersIn(kinds, dirs, k) BY <2>4, DirsOfModel
  <2>6. HeadersIn(kinds, dirs, k)[1].inode = k BY <2>4, SoundDirectory DEF DiskSound
  <2>7. Parented(ind_bmp, kinds, dirs) BY DEF DiskSound, Sound
  <2>8. HeadersIn(kinds, dirs, k)[2].inode = p BY <2>1, <2>2, <2>3, <2>7 DEF Parented
  <2> QED BY <2>5, <2>6, <2>8
<1> QED BY <1>1, TreeInvHolds, PTL DEF TreeInv

(* No block has two owners and no owner a free block, with ext2_restore among the *)
(* tools, although it looks at other bits than free_block cleared.                 *)
THEOREM OneOwnerHolds ==
  ASSUME ALLOWED \subseteq {"same_name"}
  PROVE  Spec => []NoSharedBlocks
<1>1. DiskSound => NoSharedBlocks
  <2> SUFFICES ASSUME DiskSound PROVE NoSharedBlocks OBVIOUS
  <2>1. Owned(ind_bmp, kinds, blk_bmp) /\ ind_bmp \subseteq Inode BY DEF DiskSound, Sound, Typed
  <2>2. InUse \subseteq Inode \cup {EXT2_ROOT_INO} BY <2>1 DEF InUse
  <2>3. \A k \in InUse : kinds[k].i_block = ind_tbl[k].i_block BY <2>2, KindsAre
  <2> QED BY <2>1, <2>3 DEF Owned, NoSharedBlocks, InUse
<1> QED BY <1>1, TreeInvHolds, PTL DEF TreeInv

(* A restore that succeeds, of the file the last command removed, and that finds   *)
(* the header of that file and no older one, gives back the image as it was before *)
(* the removal: bitmaps, inode and every record length (ext2_restore.c).           *)
THEOREM RestoreUndoesHolds ==
  ASSUME ALLOWED \subseteq {"same_name"}
  PROVE  Spec => RestoreUndoes
<1> DEFINE Found_it == Least(GapsWith(BlockOf(cd(undo.path)), undo.name)) + 1 = undo.slot
<1>1. ASSUME TreeInv, undo # NoFile, succeeded', ext2_restore(undo.path, undo.name)
      PROVE  image' = undo.before
  <2>1. PICK path, p : /\ path \in Paths /\ undo.path = path
                       /\ TakenOut(undo.before[1], kinds, undo.before[2], undo.before[3], p,
                                   undo.slot, undo.name, ind_bmp, blk_bmp, dirs)
    BY <1>1 DEF TreeInv, UndoSound
  <2>2. undo.name \in NAMES BY <2>1 DEF TakenOut, EntriesIn
  <2>3. "late_restore" \notin ALLOWED /\ "stale_restore" \notin ALLOWED OBVIOUS
  <2> DEFINE n == undo.name
  <2>4. path \in Paths /\ n \in NAMES /\ ext2_restore(path, n) BY <1>1, <2>1, <2>2
  <2> HIDE DEF n
  <2> QED BY <1>1, <2>3, <2>4, RestoreSound DEF TreeInv
<1>2. TreeInv => (undo # NoFile /\ succeeded' /\ ext2_restore(undo.path, undo.name) /\ Found_it
                    => image' = undo.before)
  BY <1>1
<1> QED BY <1>2, TreeInvHolds, PTL DEF RestoreUndoes

(* The tools are a tree of names, when they are used in none of the ways that damage *)
(* an image.  A command that reports success adds one name to a directory that     *)
(* exists or takes one away with all below it, unless a directory is full; one that  *)
(* fails adds no directory and takes no name away (ext2_helper.h, the five tools).   *)
THEOREM ImplementsFileTreeHolds ==
  ASSUME ALLOWED = {}
  PROVE  Spec => ImplementsFileTree
<1> DEFINE Inv == TypeOK /\ RecordsFit /\ TreeInv /\ NamesInv
<1>1. Init => Inv /\ FT!Init
  <2> SUFFICES ASSUME Init PROVE Inv /\ FT!Init OBVIOUS
  <2>1. commands = 0 /\ succeeded = TRUE BY DEF Init
  <2> QED BY <2>1, InitFits, InitSound, InitNames DEF FT!Init
<1>2. Inv /\ [Next]_vars => Inv' /\ [FT!Next]_<<Tree, commands, succeeded>>
  <2> SUFFICES ASSUME Inv, [Next]_vars PROVE Inv' /\ [FT!Next]_<<Tree, commands, succeeded>> OBVIOUS
  <2>1. ALLOWED \subseteq {"same_name"} OBVIOUS
  <2>2. TypeOK' /\ RecordsFit' BY NextFits
  <2>3. TreeInv' BY <2>1, NextSound
  <2>4. /\ NamesInv'
        /\ \/ TreeStep /\ commands' = commands + 1
           \/ Tree' = Tree /\ UNCHANGED <<commands, succeeded>>
    BY NextNames
  <2>5. succeeded' \in BOOLEAN BY <2>2 DEF TypeOK
  <2>6. ASSUME TreeStep, commands' = commands + 1 PROVE FT!Next
    <3>1. ASSUME NEW e, Gains(Tree, Tree', e), e.i_mode = "EXT2_S_IFDIR" => succeeded' PROVE FT!Next
      <4>1. e \in Tree' BY <3>1 DEF Gains
      <4>2. FT!Add(e) BY <3>1 DEF Gains, FT!Add, FT!IsDirectory, FT!Parent
      <4> QED BY <2>5, <2>6, <4>1, <4>2 DEF FT!Next
    <3>2. ASSUME NEW e, Loses(Tree, Tree', e), succeeded' PROVE FT!Next
      <4>1. e \in Tree BY <3>2 DEF Loses
      <4>2. FT!Remove(e) BY <3>2 DEF Loses, FT!Remove, FT!Below, Under
      <4> QED BY <2>5, <2>6, <4>1, <4>2 DEF FT!Next
    <3>3. ASSUME Tree' = Tree, FullDirectory PROVE FT!Next
      <4>1. FT!Misplace BY <3>3 DEF FullDirectory, FT!Misplace
      <4> QED BY <2>5, <2>6, <4>1 DEF FT!Next
    <3>4. ASSUME Tree' = Tree, ~succeeded' PROVE FT!Next
      <4>1. FT!Fail BY <3>4 DEF FT!Fail
      <4> QED BY <2>5, <2>6, <4>1 DEF FT!Next
    <3> QED BY <2>6, <3>1, <3>2, <3>3, <3>4 DEF TreeStep
  <2>7. [FT!Next]_<<Tree, commands, succeeded>> BY <2>4, <2>6
  <2> QED BY <2>2, <2>3, <2>4, <2>7
<1> HIDE DEF Inv
<1> QED BY <1>1, <1>2, PTL DEF Spec, ImplementsFileTree, FT!Spec, FT!treeVars

=============================================================================
