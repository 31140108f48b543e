------------------------------ MODULE Ext2Proofs ------------------------------
(***************************************************************************)
(* For every size of the disk, every set of names and every sequence of    *)
(* commands, also the damaging ones: the variables keep their types and    *)
(* record lengths stay within their block.  Without ext2_restore no block  *)
(* ever has two owners.                                                    *)
(***************************************************************************)
EXTENDS Ext2, FiniteSetTheorems, WellFoundedInduction, TLAPS

(* A loop upwards finds the least element of a set of numbers. *)
LEMMA LeastFound ==
  ASSUME NEW S, S \subseteq Nat, S # {}
  PROVE  Least(S) \in S /\ \A y \in S : Least(S) <= y
<1>1. PICK x \in S : \A y \in S : ~ (<<y, x>> \in OpToRel(<, Nat))
  BY NatLessThanWellFounded, WFMin, Zenon
<1>2. \A y \in S : y \in Nat /\ x \in Nat OBVIOUS
<1>3. ASSUME NEW y \in S, y < x PROVE FALSE
  <2>1. <<y, x>> \in Nat \X Nat BY <1>2
  <2>2. <<y, x>>[1] < <<y, x>>[2] BY <1>3
  <2>3. <<y, x>> \in OpToRel(<, Nat) BY <2>1, <2>2, Zenon DEF OpToRel
  <2> QED BY <1>1, <2>3, Zenon
<1>4. \A y \in S : x <= y BY <1>2, <1>3
<1> QED BY <1>4 DEF Least

-----------------------------------------------------------------------------
(* Directory blocks.                                                       *)

Disk == Block \cup {BOOT}

\* The contents of a block, with record lengths that stay within it.
Headers == {h \in [Slot -> ext2_dir_entry] : \A s \in Slot : s + h[s].rec_len <= SLOTS + 1}

(* The length in a header is a number. *)
LEMMA EntryLength == \A e \in ext2_dir_entry : e.rec_len \in 0..SLOTS /\ e.rec_len \in Nat
<1> TAKE e \in ext2_dir_entry
<1>1. e.rec_len \in 0..SLOTS BY DEF ext2_dir_entry
<1> QED BY <1>1, SizesAssumption

(* How to show that a block is one of headers whose lengths fit. *)
LEMMA HeadersIntro ==
  ASSUME NEW w, w = [s \in Slot |-> w[s]],
         \A s \in Slot : w[s] \in ext2_dir_entry /\ s + w[s].rec_len <= SLOTS + 1
  PROVE  w \in Headers
BY DEF Headers

(* The types and RecordsFit say so of every block of the disk. *)
LEMMA HeadersOfDisk == TypeOK /\ RecordsFit => dirs \in [Disk -> Headers]
BY DEF TypeOK, RecordsFit, Headers, Disk

(* An entry with a length that fits is put behind one that loses its spare. *)
LEMMA WrittenFits ==
  ASSUME NEW h \in Headers, NEW b \in Disk, dirs[b] = h,
         NEW t \in Slot, NEW entry \in ext2_dir_entry, t + entry.rec_len <= SLOTS + 1
  PROVE  Written(b, t, entry) \in Headers
<1> DEFINE w == Written(b, t, entry)
<1>1. ASSUME NEW s \in Slot
      PROVE  w[s] \in ext2_dir_entry /\ s + w[s].rec_len <= SLOTS + 1
  <2>1. h[s] \in ext2_dir_entry /\ s + h[s].rec_len <= SLOTS + 1 BY DEF Headers
  <2>2. CASE s = t BY <2>2 DEF Written
  <2>3. CASE s # t /\ s + 1 = t
    <3>1. w[s] = [h[s] EXCEPT !.rec_len = 1] BY <2>3 DEF Written
    <3>2. 1 \in 0..SLOTS /\ s + 1 <= SLOTS + 1 BY SizesAssumption DEF Slot
    <3> DEFINE e == h[s]
    <3>3. [e EXCEPT !.rec_len = 1] \in ext2_dir_entry /\ [e EXCEPT !.rec_len = 1].rec_len = 1
      <4>1. e \in ext2_dir_entry BY <2>1
      <4> HIDE DEF e
      <4> QED BY <4>1, <3>2 DEF ext2_dir_entry
    <3> QED BY <3>1, <3>2, <3>3
  <2>4. CASE s # t /\ s + 1 # t BY <2>4, <2>1 DEF Written
  <2> QED BY <2>2, <2>3, <2>4
<1>2. w = [s \in Slot |-> w[s]] BY DEF Written
<1>3. w \in Headers
  <2> HIDE DEF w
  <2> QED BY <1>1, <1>2, HeadersIntro
<1> QED BY <1>3

(* The entry before the removed one ends where the removed one ended. *)
LEMMA UnlinkedFits ==
  ASSUME NEW h \in Headers, NEW b \in Disk, dirs[b] = h, NEW s \in Slot
  PROVE  Unlinked(b, s) \in Headers
<1> DEFINE w == Unlinked(b, s)
<1>1. ASSUME NEW t \in Slot
      PROVE  w[t] \in ext2_dir_entry /\ t + w[t].rec_len <= SLOTS + 1
  <2>1. h[t] \in ext2_dir_entry /\ t + h[t].rec_len <= SLOTS + 1 BY DEF Headers
  <2>2. h[s] \in ext2_dir_entry /\ s + h[s].rec_len <= SLOTS + 1 BY DEF Headers
  <2>3. h[t].rec_len \in Nat /\ h[s].rec_len \in Nat /\ t \in Nat /\ s \in Nat /\ SLOTS \in Nat /\ t >= 1
    BY <2>1, <2>2, EntryLength, SizesAssumption DEF Slot
  <2> DEFINE e == h[t]
             n == h[t].rec_len + h[s].rec_len
  <2>4. CASE s = 1 /\ t = 1
    <3>1. w[t] = [e EXCEPT !.inode = 0] BY <2>4 DEF Unlinked
    <3>2. [e EXCEPT !.inode = 0] \in ext2_dir_entry /\ [e EXCEPT !.inode = 0].rec_len = e.rec_len
      <4>1. e \in ext2_dir_entry BY <2>1
      <4> HIDE DEF e
      <4> QED BY <4>1 DEF ext2_dir_entry
    <3> QED BY <3>1, <3>2, <2>1
  <2>5. CASE ~(s = 1 /\ t = 1) /\ t \in Chain(b) /\ t < s /\ t + h[t].rec_len = s
    <3>1. w[t] = [e EXCEPT !.rec_len = n] BY <2>5 DEF Unlinked
    <3>2. n \in 0..SLOTS /\ t + n <= SLOTS + 1 BY <2>2, <2>3, <2>5
    <3>3. [e EXCEPT !.rec_len = n] \in ext2_dir_entry /\ [e EXCEPT !.rec_len = n].rec_len = n
      <4>1. e \in ext2_dir_entry BY <2>1
      <4> HIDE DEF e, n
      <4> QED BY <4>1, <3>2 DEF ext2_dir_entry
    <3> QED BY <3>1, <3>2, <3>3
  <2>6. CASE ~(s = 1 /\ t = 1) /\ ~(t \in Chain(b) /\ t < s /\ t + h[t].rec_len = s)
    <3>1. w[t] = h[t] BY <2>6 DEF Unlinked
    <3> QED BY <3>1, <2>1
  <2> QED BY <2>4, <2>5, <2>6
<1>2. w = [t \in Slot |-> w[t]] BY DEF Unlinked
<1>3. w \in Headers
  <2> HIDE DEF w
  <2> QED BY <1>1, <1>2, HeadersIntro
<1> QED BY <1>3

(* New directories and cleared blocks fit. *)
LEMMA NewBlocksFit ==
  /\ Zeroed \in Headers
  /\ \A k, p \in Inode \cup {EXT2_ROOT_INO} : NewDirectory(k, p) \in Headers
<1>1. Zeroed \in Headers
  <2>1. [inode |-> 0, rec_len |-> 0, name |-> ""] \in ext2_dir_entry
    BY SizesAssumption DEF ext2_dir_entry
  <2>2. \A s \in Slot : s + 0 <= SLOTS + 1 BY SizesAssumption DEF Slot
  <2> QED BY <2>1, <2>2, HeadersIntro DEF Zeroed
<1>2. ASSUME NEW k \in Inode \cup {EXT2_ROOT_INO}, NEW p \in Inode \cup {EXT2_ROOT_INO}
      PROVE  NewDirectory(k, p) \in Headers
  <2> DEFINE d == NewDirectory(k, p)
             self == [inode |-> k, rec_len |-> 1, name |-> "."]
             parent == [inode |-> p, rec_len |-> SLOTS - 1, name |-> ".."]
  <2>1. 1 \in Slot /\ 2 \in Slot /\ 1 \in 0..SLOTS /\ SLOTS - 1 \in 0..SLOTS BY SizesAssumption DEF Slot
  <2>2. self \in ext2_dir_entry /\ parent \in ext2_dir_entry BY <2>1 DEF ext2_dir_entry
  <2>3. /\ d \in [Slot -> ext2_dir_entry] /\ d[1] = self /\ d[2] = parent
        /\ \A s \in Slot \ {1, 2} : d[s] = Zeroed[s]
    BY <1>1, <2>1, <2>2 DEF NewDirectory, Headers
  <2>4. 1 + d[1].rec_len <= SLOTS + 1 /\ 2 + d[2].rec_len <= SLOTS + 1 BY <2>3, SizesAssumption
  <2>5. \A s \in Slot \ {1, 2} : s + d[s].rec_len <= SLOTS + 1 BY <2>3, <1>1 DEF Headers
  <2>6. d \in Headers
    <3> HIDE DEF d
    <3> QED BY <2>3, <2>4, <2>5, HeadersIntro DEF Headers
  <2> QED BY <2>6
<1> QED BY <1>1, <1>2

(* The search for room finds a slot of the block, and the lengths that mkdir and cp give the entry fit. *)
LEMMA RoomFits ==
  ASSUME NEW h \in Headers, NEW b \in Disk, dirs[b] = h, RoomIn(b) # {}, NEW t, t = Least(RoomIn(b))
  PROVE  /\ t \in Slot
         /\ DirRecLen(b, t) \in 0..SLOTS /\ t + DirRecLen(b, t) <= SLOTS + 1
         /\ FileRecLen(b, t) \in 0..SLOTS /\ t + FileRecLen(b, t) <= SLOTS + 1
<1>1. \A s \in Slot : h[s].rec_len \in 0..SLOTS /\ h[s].rec_len \in Nat /\ s + h[s].rec_len <= SLOTS + 1
  BY EntryLength DEF Headers
<1>2. RoomIn(b) \subseteq Nat BY SizesAssumption DEF RoomIn, Slot
<1>3. t \in RoomIn(b) BY <1>2, LeastFound
<1>4. t \in Nat /\ (t = 1 \/ (t - 1 \in Slot /\ h[t - 1].rec_len >= 2))
  BY <1>2, <1>3, SizesAssumption DEF RoomIn, Slot
<1>5. t \in Slot BY <1>1, <1>4, SizesAssumption DEF Slot
<1>6. t # 1 => Spare(b, t) \in 0..SLOTS /\ t + Spare(b, t) <= SLOTS + 1
  BY <1>1, <1>4, <1>5, SizesAssumption DEF Spare, Slot
<1>7. DirRecLen(b, t) \in 0..SLOTS /\ t + DirRecLen(b, t) <= SLOTS + 1
  BY <1>6, SizesAssumption DEF DirRecLen
<1>8. FileRecLen(b, t) = 1 \/ FileRecLen(b, t) = SLOTS + 1 - t BY DEF FileRecLen
<1>9. FileRecLen(b, t) \in 0..SLOTS /\ t + FileRecLen(b, t) <= SLOTS + 1
  BY <1>5, <1>8, SizesAssumption DEF Slot
<1> QED BY <1>5, <1>7, <1>9

-----------------------------------------------------------------------------
(* Allocation.                                                             *)

(* allocate_inode returns an inode that was free. *)
LEMMA AllocatedInode ==
  ASSUME Inode \ ind_bmp # {}
  PROVE  allocate_inode \in Inode \ ind_bmp
<1>1. Inode \ ind_bmp \subseteq Nat BY SizesAssumption DEF Inode
<1> QED BY <1>1, LeastFound DEF allocate_inode

(* allocate_block returns blocks that were free. *)
LEMMA AllocatedBlocks ==
  \A n : allocate_block(n) \subseteq Block \ blk_bmp
BY DEF allocate_block

(* The free count stays in its width. *)
LEMMA CountedFits ==
  ASSUME TypeOK, NEW n \in Int PROVE Counted(n) \in 0..COUNTER_MOD - 1
BY SizesAssumption DEF Counted, TypeOK

(* The sets that are counted are finite. *)
LEMMA FinitePieces ==
  /\ IsFiniteSet(Block) /\ IsFiniteSet(Inode)
BY FS_Interval, SizesAssumption DEF Block, Inode

(* The root inode, block -1 and the block of the root are told apart. *)
LEMMA RootIsNoFile == EXT2_ROOT_INO \notin Inode /\ NO_BLOCK \notin Block /\ NO_BLOCK \in Int /\ FIRST \in Block
BY SizesAssumption DEF EXT2_ROOT_INO, Inode, NO_BLOCK, Block

-----------------------------------------------------------------------------
(* Types and record lengths.                                               *)

(* TypeOK and RecordsFit, part by part, for a next state. *)
LEMMA TypesAndLengths ==
  ASSUME ind_bmp' \subseteq Inode, ind_tbl' \in [Inode \cup {EXT2_ROOT_INO} -> ext2_inode],
         blk_bmp' \subseteq Block, dirs' \in [Disk -> Headers], free_blocks' \in 0..COUNTER_MOD - 1,
         succeeded' \in BOOLEAN
  PROVE  TypeOK' /\ RecordsFit'
<1>1. \A b \in Disk : dirs'[b] \in [Slot -> ext2_dir_entry] /\ \A s \in Slot : s + dirs'[b][s].rec_len <= SLOTS + 1
  BY DEF Headers
<1>2. dirs' \in [Disk -> [Slot -> ext2_dir_entry]] BY <1>1
<1> QED BY <1>1, <1>2 DEF TypeOK, RecordsFit, Disk

(* A new image has its types, and lengths that fit. *)
LEMMA InitFits == Init => TypeOK /\ RecordsFit
<1> SUFFICES ASSUME Init PROVE TypeOK /\ RecordsFit OBVIOUS
<1>1. /\ ind_bmp \subseteq Inode /\ blk_bmp \subseteq Block /\ free_blocks \in 0..COUNTER_MOD - 1
      /\ succeeded \in BOOLEAN
  <2>1. LAST - FIRST \in 0..COUNTER_MOD - 1 BY SizesAssumption
  <2> QED BY <2>1, RootIsNoFile DEF Init
<1>2. /\ [i_mode |-> "EXT2_S_IFDIR", i_block |-> {FIRST}] \in ext2_inode
      /\ [i_mode |-> "", i_block |-> {}] \in ext2_inode
  BY RootIsNoFile DEF ext2_inode, Mode
<1>3. ind_tbl \in [Inode \cup {EXT2_ROOT_INO} -> ext2_inode] BY <1>2 DEF Init
<1>4. dirs \in [Disk -> Headers] BY NewBlocksFit DEF Init, Disk
<1>5. \A b \in Disk : dirs[b] \in [Slot -> ext2_dir_entry] /\ \A s \in Slot : s + dirs[b][s].rec_len <= SLOTS + 1
  BY <1>4 DEF Headers
<1>6. dirs \in [Disk -> [Slot -> ext2_dir_entry]] BY <1>4, <1>5
<1> QED BY <1>1, <1>3, <1>5, <1>6 DEF TypeOK, RecordsFit, Disk

(* The inode table keeps its type when an inode is written. *)
LEMMA InodeWritten ==
  ASSUME TypeOK, NEW k \in Inode, NEW mode \in Mode, NEW bs \in SUBSET (Block \cup {NO_BLOCK}),
         ind_tbl' = [ind_tbl EXCEPT ![k] = [i_mode |-> mode, i_block |-> bs]]
  PROVE  ind_tbl' \in [Inode \cup {EXT2_ROOT_INO} -> ext2_inode]
<1>1. [i_mode |-> mode, i_block |-> bs] \in ext2_inode BY DEF ext2_inode
<1> QED BY <1>1 DEF TypeOK

(* What mkdir and cp write is a header, and its length fits. *)
LEMMA EntryFits ==
  ASSUME TypeOK, RecordsFit, NEW k \in Inode, NEW n \in NAMES, NEW b \in Disk, RoomIn(b) # {},
         NEW t, t = Least(RoomIn(b)), NEW len \in {DirRecLen(b, t), FileRecLen(b, t)}
  PROVE  Written(b, t, [inode |-> k, rec_len |-> len, name |-> n]) \in Headers
<1>1. dirs[b] \in Headers BY HeadersOfDisk
<1>2. t \in Slot /\ len \in 0..SLOTS /\ t + len <= SLOTS + 1 BY <1>1, RoomFits
<1> DEFINE entry == [inode |-> k, rec_len |-> len, name |-> n]
<1>3. entry \in ext2_dir_entry /\ entry.rec_len = len BY <1>2 DEF ext2_dir_entry
<1>4. Written(b, t, entry) \in Headers
  <2> HIDE DEF entry
  <2> QED BY <1>1, <1>2, <1>3, WrittenFits
<1> QED BY <1>4

(* ext2_mkdir keeps types and lengths. *)
LEMMA MkdirFits ==
  ASSUME TypeOK, RecordsFit, NEW path \in Paths, NEW n \in NAMES, ext2_mkdir(path, n)
  PROVE  TypeOK' /\ RecordsFit'
<1> DEFINE p == cd(path)
           b == RoomBlock(p)
           t == Least(RoomIn(b))
           k == allocate_inode
           new == allocate_block(1)
           entry == [inode |-> k, rec_len |-> DirRecLen(b, t), name |-> n]
<1>1. p \in Inode \cup {EXT2_ROOT_INO} BY DEF ext2_mkdir, IsDir
<1>2. RoomIn(b) # {} BY DEF ext2_mkdir, HasRoom
<1>3. k \in Inode BY AllocatedInode DEF ext2_mkdir
<1>4. new \subseteq Block BY AllocatedBlocks
<1>5. ind_tbl' \in [Inode \cup {EXT2_ROOT_INO} -> ext2_inode]
  <2> DEFINE bs == IF new = {} THEN {NO_BLOCK} ELSE new
  <2>1. ind_tbl' = [ind_tbl EXCEPT ![k] = [i_mode |-> "EXT2_S_IFDIR", i_block |-> bs]] BY DEF ext2_mkdir
  <2>2. "EXT2_S_IFDIR" \in Mode /\ bs \in SUBSET (Block \cup {NO_BLOCK}) BY <1>4 DEF Mode
  <2> HIDE DEF k, bs
  <2> QED BY <2>1, <2>2, <1>3, InodeWritten
<1>6. dirs' = [c \in Disk |-> IF c \in new THEN NewDirectory(k, p)
                              ELSE IF c = b THEN Written(b, t, entry) ELSE dirs[c]]
  BY DEF ext2_mkdir, Disk
<1>7. dirs' \in [Disk -> Headers]
  <2>1. NewDirectory(k, p) \in Headers BY <1>1, <1>3, NewBlocksFit
  <2>2. b \in Disk => Written(b, t, entry) \in Headers BY <1>2, <1>3, EntryFits
  <2>3. \A c \in Disk : dirs[c] \in Headers BY HeadersOfDisk
  <2> HIDE DEF p, b, t, k, new, entry
  <2> QED BY <1>6, <2>1, <2>2, <2>3
<1>8. ind_bmp' \subseteq Inode /\ blk_bmp' \subseteq Block
  BY <1>3, <1>4 DEF ext2_mkdir, TypeOK
<1>9. free_blocks' \in 0..COUNTER_MOD - 1 /\ succeeded' \in BOOLEAN
  <2>1. Counted(-1) \in 0..COUNTER_MOD - 1 /\ free_blocks \in 0..COUNTER_MOD - 1
    BY CountedFits DEF TypeOK
  <2>2. free_blocks' = (IF new = {} THEN Counted(-1) ELSE free_blocks)
        /\ succeeded' \in (IF new = {} THEN BOOLEAN ELSE {TRUE})
    BY DEF ext2_mkdir
  <2> HIDE DEF new
  <2> QED BY <2>1, <2>2
<1> QED BY <1>5, <1>7, <1>8, <1>9, TypesAndLengths

(* ext2_cp keeps types and lengths. *)
LEMMA CpFits ==
  ASSUME TypeOK, RecordsFit, NEW path \in Paths, NEW n \in NAMES, ext2_cp(path, n)
  PROVE  TypeOK' /\ RecordsFit'
<1> DEFINE p == cd(path)
           b == RoomBlock(p)
           t == Least(RoomIn(b))
           k == allocate_inode
           entry == [inode |-> k, rec_len |-> FileRecLen(b, t), name |-> n]
<1>1. RoomIn(b) # {} BY DEF ext2_cp, HasRoom
<1>2. k \in Inode BY AllocatedInode DEF ext2_cp
<1>3. ind_bmp' = ind_bmp \cup {k} BY DEF ext2_cp
<1>4. PICK total \in SIZES :
        LET got == IF total > free_blocks THEN {} ELSE allocate_block(total)
            short == IF total > free_blocks THEN 0 ELSE total - Cardinality(got)
        IN  /\ blk_bmp' = blk_bmp \cup got
            /\ ind_tbl' = [ind_tbl EXCEPT ![k] =
                             [i_mode  |-> "EXT2_S_IFREG",
                              i_block |-> got \cup (IF short = 0 THEN {} ELSE {NO_BLOCK})]]
            /\ \E failures \in (IF short = 0 THEN {0} ELSE 1..short) :
                 /\ free_blocks' = Counted(-failures)
                 /\ succeeded' \in Copied(total, short, failures)
            /\ dirs' = [Cleared(got) EXCEPT ![b] = Written(b, t, entry)]
  BY DEF ext2_cp
<1> DEFINE got == IF total > free_blocks THEN {} ELSE allocate_block(total)
           short == IF total > free_blocks THEN 0 ELSE total - Cardinality(got)
           bs == got \cup (IF short = 0 THEN {} ELSE {NO_BLOCK})
<1>5. got \subseteq Block BY AllocatedBlocks
<1>6. short \in Int
  <2>1. IsFiniteSet(got) BY <1>5, FinitePieces, FS_Subset
  <2>2. Cardinality(got) \in Nat BY <2>1, FS_CardinalityType
  <2> QED BY <2>2, SizesAssumption
<1>7. ind_tbl' \in [Inode \cup {EXT2_ROOT_INO} -> ext2_inode]
  <2>1. ind_tbl' = [ind_tbl EXCEPT ![k] = [i_mode |-> "EXT2_S_IFREG", i_block |-> bs]] BY <1>4
  <2>2. "EXT2_S_IFREG" \in Mode /\ bs \in SUBSET (Block \cup {NO_BLOCK}) BY <1>5 DEF Mode
  <2> HIDE DEF k, bs
  <2> QED BY <2>1, <2>2, <1>2, InodeWritten
<1>8. dirs' \in [Disk -> Headers]
  <2>1. dirs' = [Cleared(got) EXCEPT ![b] = Written(b, t, entry)] BY <1>4
  <2>2. b \in Disk => Written(b, t, entry) \in Headers BY <1>1, <1>2, EntryFits
  <2>3. Cleared(got) \in [Disk -> Headers]
    <3>1. \A c \in Disk : dirs[c] \in Headers BY HeadersOfDisk
    <3> HIDE DEF got
    <3> QED BY <3>1, NewBlocksFit DEF Cleared, Disk
  <2> HIDE DEF p, b, t, k, got, entry
  <2> QED BY <2>1, <2>2, <2>3
<1>9. free_blocks' \in 0..COUNTER_MOD - 1 /\ succeeded' \in BOOLEAN
  <2>1. PICK failures \in (IF short = 0 THEN {0} ELSE 1..short) :
          free_blocks' = Counted(-failures) /\ succeeded' \in Copied(total, short, failures)
    BY <1>4
  <2>2. -failures \in Int
    <3> HIDE DEF short
    <3> QED BY <1>6
  <2>3. Copied(total, short, failures) \subseteq BOOLEAN
    <3> HIDE DEF short
    <3>1. (total <= free_blocks) \in BOOLEAN BY SMT
    <3>2. CASE short = 0 BY <3>1, <3>2, Zenon DEF Copied
    <3>3. CASE short # 0 BY <3>3, Zenon DEF Copied
    <3> QED BY <3>2, <3>3
  <2> QED BY <2>1, <2>2, <2>3, CountedFits
<1>10. ind_bmp' \subseteq Inode /\ blk_bmp' \subseteq Block
  <2>1. blk_bmp' = blk_bmp \cup got BY <1>4
  <2> QED BY <2>1, <1>2, <1>3, <1>5 DEF TypeOK
<1> QED BY <1>7, <1>8, <1>9, <1>10, TypesAndLengths

(* The removal of an entry leaves blocks of headers that fit. *)
LEMMA UnlinkedDisk ==
  ASSUME TypeOK, RecordsFit, NEW b, NEW n, Found(b, n) # {},
         dirs' = [dirs EXCEPT ![b] = Unlinked(b, search_in_dir_block(b, n))]
  PROVE  dirs' \in [Disk -> Headers]
<1> DEFINE s == search_in_dir_block(b, n)
<1>1. Found(b, n) \subseteq Nat BY SizesAssumption DEF Found, Slot
<1>2. s \in Slot BY <1>1, LeastFound DEF search_in_dir_block, Found
<1>3. dirs \in [Disk -> Headers] BY HeadersOfDisk
<1>4. b \in Disk => Unlinked(b, s) \in Headers
  <2> HIDE DEF s
  <2> QED BY <1>2, <1>3, UnlinkedFits
<1> HIDE DEF s
<1> QED BY <1>3, <1>4 DEF s

(* ext2_rm keeps types and lengths. *)
LEMMA RmFits ==
  ASSUME TypeOK, RecordsFit, NEW path \in Paths, NEW n \in NAMES, ext2_rm(path, n)
  PROVE  TypeOK' /\ RecordsFit'
<1>1. dirs' \in [Disk -> Headers] BY UnlinkedDisk DEF ext2_rm
<1>2. /\ ind_bmp' \subseteq Inode /\ blk_bmp' \subseteq Block /\ ind_tbl' = ind_tbl
      /\ free_blocks' = free_blocks /\ succeeded' = TRUE
  BY DEF ext2_rm, free_inode, TypeOK
<1> QED BY <1>1, <1>2, TypesAndLengths DEF TypeOK

(* ext2_rm_bonus keeps types and lengths. *)
LEMMA RmBonusFits ==
  ASSUME TypeOK, RecordsFit, NEW path \in Paths, NEW n \in NAMES, NEW recursive \in BOOLEAN,
         ext2_rm_bonus(path, n, recursive)
  PROVE  TypeOK' /\ RecordsFit'
<1>1. dirs' \in [Disk -> Headers] BY UnlinkedDisk DEF ext2_rm_bonus
<1>2. PICK ks : /\ Asserted(ks) /\ free_inode(ks)
                /\ free_blocks' = Counted(Cardinality({j \in ks : IsDir(j)}))
                /\ succeeded' = TRUE
  BY DEF ext2_rm_bonus
<1>3. ind_bmp' \subseteq Inode /\ blk_bmp' \subseteq Block /\ ind_tbl' = ind_tbl
  BY <1>2 DEF free_inode, TypeOK
<1>4. free_blocks' \in 0..COUNTER_MOD - 1
  <2> DEFINE gone == {j \in ks : IsDir(j)}
  <2>1. gone \subseteq Inode BY <1>2 DEF Asserted, TypeOK
  <2>2. IsFiniteSet(gone) BY <2>1, FinitePieces, FS_Subset
  <2>3. Cardinality(gone) \in Nat BY <2>2, FS_CardinalityType
  <2> HIDE DEF gone
  <2>4. Counted(Cardinality(gone)) \in 0..COUNTER_MOD - 1 BY <2>3, CountedFits
  <2> QED BY <1>2, <2>4 DEF gone
<1> QED BY <1>1, <1>2, <1>3, <1>4, TypesAndLengths DEF TypeOK

(* ext2_restore keeps types and lengths. *)
LEMMA RestoreFits ==
  ASSUME TypeOK, RecordsFit, NEW path \in Paths, NEW n \in NAMES, ext2_restore(path, n)
  PROVE  TypeOK' /\ RecordsFit'
<1> DEFINE b == BlockOf(cd(path))
           s == Least(GapsWith(b, n))
           k == dirs[b][s + 1].inode
<1>1. k \in Inode /\ restore_dir_entry(k) /\ GapsWith(b, n) # {} /\ ind_tbl' = ind_tbl BY DEF ext2_restore
<1>2. ind_tbl[k].i_block \subseteq Block
  <2>1. ind_tbl[k] \in ext2_inode BY <1>1 DEF TypeOK
  <2>2. NO_BLOCK \notin ind_tbl[k].i_block BY <1>1 DEF restore_dir_entry
  <2> QED BY <2>1, <2>2 DEF ext2_inode
<1>3. Regained(k) \subseteq Block BY <1>2 DEF Regained
<1>4. ind_bmp' \subseteq Inode /\ blk_bmp' \subseteq Block
  BY <1>1, <1>3 DEF restore_dir_entry, TypeOK
<1>5. free_blocks' \in 0..COUNTER_MOD - 1
  <2>1. IsFiniteSet(Regained(k)) BY <1>3, FinitePieces, FS_Subset
  <2>2. -Cardinality(Regained(k)) \in Int BY <2>1, FS_CardinalityType
  <2> QED BY <1>1, <2>2, CountedFits DEF restore_dir_entry
<1>6. dirs \in [Disk -> Headers] BY HeadersOfDisk
<1>7. s \in Slot /\ s + 1 <= SLOTS + 1
  <2>1. GapsWith(b, n) \subseteq 1..SLOTS - 1 BY DEF GapsWith
  <2>2. s \in GapsWith(b, n)
    <3>1. GapsWith(b, n) \subseteq Nat BY <2>1, SizesAssumption
    <3> HIDE DEF b
    <3> QED BY <1>1, <3>1, LeastFound
  <2> QED BY <2>1, <2>2, SizesAssumption DEF Slot
<1>8. dirs' = dirs \/ dirs' = [dirs EXCEPT ![b][s].rec_len = 1] BY DEF ext2_restore
<1>9. dirs' \in [Disk -> Headers]
  <2> HIDE DEF b, s
  <2> DEFINE h == [dirs[b] EXCEPT ![s].rec_len = 1]
             e == dirs[b][s]
  <2>1. b \in Disk => h \in Headers
    <3> SUFFICES ASSUME b \in Disk PROVE h \in Headers OBVIOUS
    <3>1. dirs[b] \in Headers BY <1>6
    <3>2. /\ h = [t \in Slot |-> h[t]] /\ h[s] = [e EXCEPT !.rec_len = 1]
          /\ \A t \in Slot \ {s} : h[t] = dirs[b][t]
      BY <3>1, <1>7 DEF Headers
    <3>3. e \in ext2_dir_entry BY <3>1, <1>7 DEF Headers
    <3>4. [e EXCEPT !.rec_len = 1] \in ext2_dir_entry /\ [e EXCEPT !.rec_len = 1].rec_len = 1
      <4>1. 1 \in 0..SLOTS BY SizesAssumption
      <4> HIDE DEF e
      <4> QED BY <3>3, <4>1 DEF ext2_dir_entry
    <3>5. \A t \in Slot : dirs[b][t] \in ext2_dir_entry /\ t + dirs[b][t].rec_len <= SLOTS + 1
      BY <3>1 DEF Headers
    <3>6. h[s] \in ext2_dir_entry /\ h[s].rec_len = 1 BY <3>2, <3>4
    <3> HIDE DEF h, e
    <3>7. \A t \in Slot : h[t] \in ext2_dir_entry /\ t + h[t].rec_len <= SLOTS + 1
      BY <3>2, <3>5, <3>6, <1>7
    <3> QED BY <3>2, <3>7, HeadersIntro
  <2>2. dirs' = dirs \/ dirs' = [dirs EXCEPT ![b] = h] BY <1>8
  <2> HIDE DEF h
  <2> QED BY <1>6, <2>1, <2>2
<1>10. succeeded' \in BOOLEAN BY DEF ext2_restore
<1> QED BY <1>1, <1>4, <1>5, <1>9, <1>10, TypesAndLengths DEF TypeOK

(* Types and lengths are kept by every command. *)
LEMMA NextFits == TypeOK /\ RecordsFit /\ [Next]_vars => TypeOK' /\ RecordsFit'
<1> SUFFICES ASSUME TypeOK, RecordsFit, [Next]_vars PROVE TypeOK' /\ RecordsFit' OBVIOUS
<1>1. CASE Next
  <2> PICK path \in Paths, n \in NAMES : Command(path, n) BY <1>1 DEF Next
  <2> QED BY MkdirFits, CpFits, RmFits, RmBonusFits, RestoreFits DEF Command
<1>2. CASE UNCHANGED vars BY <1>2 DEF vars, TypeOK, RecordsFit
<1> QED BY <1>1, <1>2

(* Every variable keeps its type, whatever programs run and in what order.  *)
THEOREM TypeOKHolds == Spec => []TypeOK
<1> QED BY InitFits, NextFits, PTL DEF Spec

(* No walk by record lengths leaves its block, also in an image that a command *)
(* has damaged.                                                             *)
THEOREM RecordsFitHolds == Spec => []RecordsFit
<1> QED BY InitFits, NextFits, PTL DEF Spec

-----------------------------------------------------------------------------
(* Blocks and their owners, without ext2_restore: only the allocators set  *)
(* bits, and they return what is free.                                     *)

(* In a new image no block has two owners. *)
LEMMA InitOwned == Init => NoSharedBlocks
<1> SUFFICES ASSUME Init PROVE NoSharedBlocks OBVIOUS
<1>1. InUse = {EXT2_ROOT_INO} BY DEF Init, InUse
<1>2. ind_tbl[EXT2_ROOT_INO].i_block = {FIRST} /\ blk_bmp = {FIRST} BY DEF Init
<1> QED BY <1>1, <1>2 DEF NoSharedBlocks

(* A free inode that gets free blocks. *)
LEMMA NewOwner ==
  ASSUME TypeOK, NoSharedBlocks, NEW k \in Inode \ ind_bmp, NEW got \in SUBSET (Block \ blk_bmp),
         NEW inode, inode.i_block \ {NO_BLOCK} = got,
         ind_tbl' = [ind_tbl EXCEPT ![k] = inode],
         ind_bmp' = ind_bmp \cup {k}, blk_bmp' = blk_bmp \cup got
  PROVE  NoSharedBlocks'
<1>1. k \notin InUse BY RootIsNoFile DEF InUse
<1>2. InUse' = InUse \cup {k} BY DEF InUse
<1>3. InUse \cup {k} \subseteq DOMAIN ind_tbl BY DEF InUse, TypeOK
<1>4. ind_tbl'[k].i_block \ {NO_BLOCK} = got BY <1>3
<1>5. \A j \in InUse : ind_tbl'[j] = ind_tbl[j] BY <1>1, <1>3
<1>6. \A j \in InUse : ind_tbl[j].i_block \ {NO_BLOCK} \subseteq blk_bmp BY DEF NoSharedBlocks
<1>7. \A j \in InUse' : ind_tbl'[j].i_block \ {NO_BLOCK} \subseteq blk_bmp'
  BY <1>2, <1>4, <1>5, <1>6
<1>8. ASSUME NEW i \in InUse', NEW j \in InUse', i # j
      PROVE  ind_tbl'[i].i_block \cap ind_tbl'[j].i_block \subseteq {NO_BLOCK}
  <2>1. CASE i \in InUse /\ j \in InUse BY <2>1, <1>5, <1>8 DEF NoSharedBlocks
  <2>2. CASE i = k /\ j \in InUse BY <2>2, <1>4, <1>5, <1>6
  <2>3. CASE j = k /\ i \in InUse BY <2>3, <1>4, <1>5, <1>6
  <2> QED BY <1>2, <1>8, <2>1, <2>2, <2>3
<1> QED BY <1>7, <1>8 DEF NoSharedBlocks

(* The inodes that are freed take only blocks of their own with them. *)
LEMMA OwnersFreed ==
  ASSUME TypeOK, NoSharedBlocks, NEW ks, Asserted(ks), free_inode(ks)
  PROVE  NoSharedBlocks'
<1>1. ks \subseteq InUse /\ InUse' = InUse \ ks BY RootIsNoFile DEF Asserted, InUse, TypeOK, free_inode
<1>2. NO_BLOCK \notin BlocksOf(ks) BY RootIsNoFile DEF Asserted, BlocksOf, TypeOK
<1>3. ASSUME NEW j \in InUse' PROVE ind_tbl[j].i_block \cap BlocksOf(ks) = {}
  <2>1. \A k \in ks : ind_tbl[j].i_block \cap ind_tbl[k].i_block \subseteq {NO_BLOCK}
    BY <1>1, <1>3 DEF NoSharedBlocks
  <2> QED BY <1>2, <2>1 DEF BlocksOf
<1> QED BY <1>1, <1>3 DEF NoSharedBlocks, free_inode

(* Without restores, every command keeps the owners of blocks apart. *)
LEMMA NextOwned ==
  ASSUME "ext2_restore" \notin TOOLS, TypeOK, NoSharedBlocks, [Next]_vars
  PROVE  NoSharedBlocks'
<1>1. ASSUME NEW path \in Paths, NEW n \in NAMES, ext2_mkdir(path, n) PROVE NoSharedBlocks'
  <2> DEFINE k == allocate_inode
             new == allocate_block(1)
             inode == [i_mode  |-> "EXT2_S_IFDIR",
                       i_block |-> IF new = {} THEN {NO_BLOCK} ELSE new]
  <2>1. k \in Inode \ ind_bmp BY <1>1, AllocatedInode DEF ext2_mkdir
  <2>2. new \in SUBSET (Block \ blk_bmp) BY AllocatedBlocks
  <2>3. inode.i_block \ {NO_BLOCK} = new BY <2>2, RootIsNoFile
  <2>4. ind_tbl' = [ind_tbl EXCEPT ![k] = inode] /\ ind_bmp' = ind_bmp \cup {k} /\ blk_bmp' = blk_bmp \cup new
    BY <1>1 DEF ext2_mkdir
  <2> HIDE DEF k, new, inode
  <2> QED BY <2>1, <2>2, <2>3, <2>4, NewOwner
<1>2. ASSUME NEW path \in Paths, NEW n \in NAMES, ext2_cp(path, n) PROVE NoSharedBlocks'
  <2> DEFINE k == allocate_inode
  <2>1. k \in Inode \ ind_bmp BY <1>2, AllocatedInode DEF ext2_cp
  <2>2. PICK got \in SUBSET (Block \ blk_bmp), more \in SUBSET {NO_BLOCK} :
          /\ blk_bmp' = blk_bmp \cup got
          /\ ind_tbl' = [ind_tbl EXCEPT ![k] = [i_mode |-> "EXT2_S_IFREG", i_block |-> got \cup more]]
    <3>1. PICK total \in SIZES :
            LET got == IF total > free_blocks THEN {} ELSE allocate_block(total)
                short == IF total > free_blocks THEN 0 ELSE total - Cardinality(got)
            IN  /\ blk_bmp' = blk_bmp \cup got
                /\ ind_tbl' = [ind_tbl EXCEPT ![k] =
                                 [i_mode  |-> "EXT2_S_IFREG",
                                  i_block |-> got \cup (IF short = 0 THEN {} ELSE {NO_BLOCK})]]
      BY <1>2 DEF ext2_cp
    <3> DEFINE got == IF total > free_blocks THEN {} ELSE allocate_block(total)
               short == IF total > free_blocks THEN 0 ELSE total - Cardinality(got)
               more == IF short = 0 THEN {} ELSE {NO_BLOCK}
    <3>2. got \in SUBSET (Block \ blk_bmp) BY AllocatedBlocks
    <3>3. more \in SUBSET {NO_BLOCK} OBVIOUS
    <3>4. /\ blk_bmp' = blk_bmp \cup got
          /\ ind_tbl' = [ind_tbl EXCEPT ![k] = [i_mode |-> "EXT2_S_IFREG", i_block |-> got \cup more]]
      BY <3>1
    <3> HIDE DEF k, got, more
    <3> QED BY <3>2, <3>3, <3>4
  <2> DEFINE inode == [i_mode |-> "EXT2_S_IFREG", i_block |-> got \cup more]
  <2>3. inode.i_block \ {NO_BLOCK} = got BY <2>2, RootIsNoFile
  <2>4. ind_bmp' = ind_bmp \cup {k} BY <1>2 DEF ext2_cp
  <2>5. ind_tbl' = [ind_tbl EXCEPT ![k] = inode] BY <2>2
  <2> HIDE DEF k, inode
  <2> QED BY <2>1, <2>2, <2>3, <2>4, <2>5, NewOwner
<1>3. ASSUME NEW path \in Paths, NEW n \in NAMES, ext2_rm(path, n) PROVE NoSharedBlocks'
  <2>1. PICK ks : Asserted(ks) /\ free_inode(ks) BY <1>3 DEF ext2_rm
  <2> QED BY <2>1, OwnersFreed
<1>4. ASSUME NEW path \in Paths, NEW n \in NAMES, NEW recursive \in BOOLEAN,
             ext2_rm_bonus(path, n, recursive)
      PROVE  NoSharedBlocks'
  <2>1. PICK ks : Asserted(ks) /\ free_inode(ks) BY <1>4 DEF ext2_rm_bonus
  <2> QED BY <2>1, OwnersFreed
<1>5. CASE Next
  <2> PICK path \in Paths, n \in NAMES : Command(path, n) BY <1>5 DEF Next
  <2> QED BY <1>1, <1>2, <1>3, <1>4 DEF Command
<1>6. CASE UNCHANGED vars BY <1>6 DEF vars, NoSharedBlocks, InUse
<1> QED BY <1>5, <1>6

(* As long as nothing is restored, no block has two owners and no owner a free *)
(* block, whatever the order of mkdir, cp, rm and rm_bonus, also on a disk that *)
(* fills up, with a wrong count of free blocks, or with damaged directories.   *)
THEOREM NoSharedBlocksHolds == ASSUME "ext2_restore" \notin TOOLS PROVE Spec => []NoSharedBlocks
<1>1. Init => TypeOK /\ NoSharedBlocks BY InitFits, InitOwned
<1>2. (TypeOK /\ NoSharedBlocks) /\ TypeOK' /\ [Next]_vars => (TypeOK /\ NoSharedBlocks)'
  BY NextOwned
<1> QED BY <1>1, <1>2, TypeOKHolds, PTL DEF Spec

=============================================================================
