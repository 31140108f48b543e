--------------------------------- MODULE Ext2 ---------------------------------
(***************************************************************************)
(* The tools of src/Assignment4 that change an ext2 image: ext2_mkdir,     *)
(* ext2_cp, ext2_rm, ext2_rm_bonus and ext2_restore, over ext2_helper.h.   *)
(* A tool runs alone, from the first read of the image to its last write,  *)
(* so that a command is one step; what it leaves in the image is what the  *)
(* next one finds.  A command that fails before its first write changes    *)
(* nothing and is no step.                                                 *)
(*                                                                         *)
(* Names have one to four characters, so that every directory entry takes  *)
(* 12 bytes: one slot of its block.  A slot that is not in the chain of    *)
(* record lengths keeps the header that was there: these are the gaps of   *)
(* the code.  A directory has one block; the search for room goes on to    *)
(* block 0 of the disk, as the code's does.                                *)
(***************************************************************************)
EXTENDS Integers, Sequences, FiniteSets

CONSTANTS NAMES,        \* names of files and directories
          SLOTS,        \* entries that fit into a block
          LAST_INODE,   \* s_inodes_count
          FIRST,        \* the block of the root directory; the blocks before it are in use
          LAST,         \* the last block, s_blocks_count - 1
          SIZES,        \* blocks a file can need, at most 11: none has indirect blocks
          DEPTH,        \* directories on a path
          COUNTER_MOD,  \* where s_free_blocks_count wraps, 2^32 in the code
          TOOLS,        \* the programs that are run
          MAX_COMMANDS, \* bound of the model: commands that change the image
          ALLOWED       \* uses after which the image is damaged: see Use

EXT2_ROOT_INO == 2
BOOT == 0               \* block 0, which belongs to nothing
ENOENT == 0
NO_BLOCK == -1          \* allocate_block() - 1 when no block is free

ASSUME NamesAssumption == NAMES \cap {".", "..", ""} = {}
ASSUME SizesAssumption ==
  /\ SLOTS \in Nat /\ SLOTS >= 3
  /\ LAST_INODE \in Nat /\ FIRST \in Nat \ {0} /\ LAST \in Nat /\ FIRST <= LAST
  /\ SIZES \subseteq 1..11 /\ DEPTH \in Nat
  /\ MAX_COMMANDS \in Nat /\ COUNTER_MOD \in Nat /\ COUNTER_MOD > LAST - FIRST

VARIABLES ind_bmp,      \* inodes whose bit is set
          ind_tbl,      \* mode and blocks of each inode
          blk_bmp,      \* blocks b whose bit b - 1 is set
          dirs,         \* the headers in the slots of each block
          free_blocks,  \* s_free_blocks_count, all that the tools read of the counts
          undo,         \* history: the file removed by the last step, where, and the image before it
          commands,     \* history: commands so far
          succeeded     \* history: the last of them ended with exit status 0

image == <<ind_bmp, blk_bmp, dirs>>
vars == <<ind_bmp, ind_tbl, blk_bmp, dirs, free_blocks, undo, commands, succeeded>>

Slot == 1..SLOTS
Block == FIRST..LAST
Inode == 12..LAST_INODE
Mode == {"", "EXT2_S_IFREG", "EXT2_S_IFDIR"}

\* The pointers of an inode are a set: allocate_block hands out ascending
\* numbers, so that the order of i_block is that of the numbers.
ext2_inode == [i_mode : Mode, i_block : SUBSET (Block \cup {NO_BLOCK})]

ext2_dir_entry == [inode   : Inode \cup {0, EXT2_ROOT_INO},
                   rec_len : 0..SLOTS,
                   name    : NAMES \cup {".", "..", ""}]

NoFile == [path |-> <<>>, name |-> "", slot |-> 0, before |-> <<>>]

Paths == UNION {[1..d -> NAMES] : d \in 0..DEPTH}

Least(S) == CHOOSE x \in S : \A y \in S : x <= y

Zeroed == [s \in Slot |-> [inode |-> 0, rec_len |-> 0, name |-> ""]]

-----------------------------------------------------------------------------
(* Directories.                                                            *)

\* The mode of an inode, with a mark on a directory for which ext2_mkdir found no
\* free block.
Kind(k) == IF ind_tbl[k] = [i_mode |-> "EXT2_S_IFDIR", i_block |-> {NO_BLOCK}]
           THEN "no_block"
           ELSE ind_tbl[k].i_mode

\* get_inode_mode(k) & EXT2_S_IFDIR
HasDirMode(k) == k \in Inode \cup {EXT2_ROOT_INO} /\ ind_tbl[k].i_mode = "EXT2_S_IFDIR"

\* A directory that has a block.
IsDir(k) == k \in Inode \cup {EXT2_ROOT_INO} /\ Kind(k) = "EXT2_S_IFDIR"

\* i_block[0] of a directory
BlockOf(k) == Least(ind_tbl[k].i_block)

\* The slots of block b that a walk by rec_len comes to.
Chain(b) ==
  LET From[s \in Nat] == IF s \in Slot /\ dirs[b][s].rec_len > 0
                         THEN {s} \cup From[s + dirs[b][s].rec_len]
                         ELSE {}
  IN  From[1]

\* search_in_dir_block for a name: the first slot of that name.
Found(b, n) == {s \in Slot \cap Chain(b) : dirs[b][s].name = n}
search_in_dir_block(b, n) == Least(Found(b, n))

\* The inode of a directory.  A path through something that is not a directory
\* fails an assertion, or reads data as a directory if it is the last on the
\* path; one through a directory without a block reads what is before the image.
\* None of these is followed here.
cd(path) ==
  LET At[d \in 0..Len(path)] ==
        IF d = 0 THEN EXT2_ROOT_INO
        ELSE LET k == At[d - 1]
             IN  IF IsDir(k) /\ Found(BlockOf(k), path[d]) # {}
                 THEN dirs[BlockOf(k)][search_in_dir_block(BlockOf(k), path[d])].inode
                 ELSE ENOENT
  IN  At[Len(path)]

\* search_in_dir_block for room.  It walks by the size of the names, so through
\* the gaps as well, to the first header with a slot to spare; a block whose
\* first header has no length is taken to be new.
RoomIn(b) == IF b = BOOT /\ dirs[b][1].rec_len = 0
             THEN {1}
             ELSE {s + 1 : s \in {t \in Slot : dirs[b][t].rec_len >= 2}}

\* search_in_dir_inode for room: the block, then what the pointer 0 after it says.
RoomBlock(k) == IF RoomIn(BlockOf(k)) # {} THEN BlockOf(k) ELSE BOOT
HasRoom(k) == RoomIn(RoomBlock(k)) # {}

\* The entry before keeps its size as well.
Spare_whole(b, t) == IF t = 1 THEN 0 ELSE dirs[b][t - 1].rec_len

\* What the search leaves as the length of the new entry.
Spare(b, t) == IF t = 1 THEN 0 ELSE dirs[b][t - 1].rec_len - 1

\* Block b after the entry was written to slot t: the entry before it has its
\* own size.
Written(b, t, entry) ==
  [s \in Slot |-> IF s = t THEN entry
                  ELSE IF s + 1 = t THEN [dirs[b][s] EXCEPT !.rec_len = 1]
                  ELSE dirs[b][s]]

\* The entry is not taken out of the chain.
Unlinked_kept(b, s) == dirs[b]

\* Block b without the entry in slot s of its chain: prev_dir_entry takes the
\* length over; the first entry of a block has none, and loses its inode.
Unlinked(b, s) ==
  [t \in Slot |->
     IF s = 1 /\ t = 1 THEN [dirs[b][t] EXCEPT !.inode = 0]
     ELSE IF t \in Chain(b) /\ t < s /\ t + dirs[b][t].rec_len = s
          THEN [dirs[b][t] EXCEPT !.rec_len = @ + dirs[b][s].rec_len]
          ELSE dirs[b][t]]

\* The chain of block b without "." and "..".
Entries(b) == {s \in Slot \cap Chain(b) : dirs[b][s].name \in NAMES}

-----------------------------------------------------------------------------
(* Allocation.                                                             *)

is_available_inode(k) == k \notin ind_bmp

\* It looks at bit b, which is that of block b + 1.  The bit after the last
\* block is padding, and set.
is_available_block(b) == b # LAST /\ b + 1 \notin blk_bmp

allocate_inode == Least(Inode \ ind_bmp)

\* One block too many is looked at.
allocate_block_past(n) ==
  LET free == (FIRST..LAST + 1) \ blk_bmp
  IN  {b \in free : Cardinality({c \in free : c < b}) < n}

\* The blocks n calls of allocate_block return: the smallest free ones.
allocate_block(n) ==
  LET free == Block \ blk_bmp
  IN  {b \in free : Cardinality({c \in free : c < b}) < n}

Counted(n) == (free_blocks + n) % COUNTER_MOD

Cleared(bs) == [b \in Block \cup {BOOT} |-> IF b \in bs THEN Zeroed ELSE dirs[b]]

-----------------------------------------------------------------------------
(* Uses that damage the image.  Without them (ALLOWED = {}) the tools do   *)
(* what FileTree says; MCExt2_gap shows what the second leads to.          *)

\* "same_name": a directory is made with the name of a file.
\* "wide_gap": ext2_cp writes into a gap of more than one entry.
\* "late_restore": a file is restored, and not as the next command after the
\* one that removed it.
\* "stale_restore": it is restored as the next command, and the header that
\* ext2_restore finds is an older one of that name.
Use(kind, condition) == condition => kind \in ALLOWED

\* Every directory is made below the root.
NewDirectory_root(k, p) ==
  [Zeroed EXCEPT ![1] = [inode |-> k, rec_len |-> 1, name |-> "."],
                 ![2] = [inode |-> EXT2_ROOT_INO, rec_len |-> SLOTS - 1, name |-> ".."]]

\* The block of a new directory k in directory p, with its two entries.
NewDirectory(k, p) ==
  [Zeroed EXCEPT ![1] = [inode |-> k, rec_len |-> 1, name |-> "."],
                 ![2] = [inode |-> p, rec_len |-> SLOTS - 1, name |-> ".."]]

Init ==
  /\ ind_bmp = {}
  /\ ind_tbl = [k \in Inode \cup {EXT2_ROOT_INO} |->
                  IF k = EXT2_ROOT_INO THEN [i_mode |-> "EXT2_S_IFDIR", i_block |-> {FIRST}]
                                       ELSE [i_mode |-> "", i_block |-> {}]]
  /\ blk_bmp = {FIRST}
  /\ dirs = [b \in Block \cup {BOOT} |->
               IF b = FIRST THEN NewDirectory(EXT2_ROOT_INO, EXT2_ROOT_INO) ELSE Zeroed]
  /\ free_blocks = LAST - FIRST
  /\ undo = NoFile
  /\ commands = 0
  /\ succeeded = TRUE

-----------------------------------------------------------------------------
(* mkdir IMAGE path/name                                                   *)

\* A gap is not looked for.
DirRecLen_end(b, t) == SLOTS + 1 - t

\* The new entry keeps what the search left it; in a new block it takes all.
DirRecLen(b, t) == IF t = 1 THEN SLOTS ELSE Spare(b, t)

\* If no block is free the entry and the inode stay, the pointer is invalid, and
\* writing "." and ".." before the image may or may not stop the program.
ext2_mkdir(path, n) ==
  LET p == cd(path)
      b == RoomBlock(p)
      t == Least(RoomIn(b))
      k == allocate_inode
      new == allocate_block(1)
      entry == [inode |-> k, rec_len |-> DirRecLen(b, t), name |-> n]
  IN  /\ IsDir(p)
      /\ LET same == Found(BlockOf(p), n)
         IN  same # {} => /\ ~HasDirMode(dirs[BlockOf(p)][Least(same)].inode)
                          /\ Use("same_name", TRUE)
      /\ HasRoom(p) /\ Inode \ ind_bmp # {}
      /\ ind_bmp' = ind_bmp \cup {k}
      /\ blk_bmp' = blk_bmp \cup new
      /\ ind_tbl' = [ind_tbl EXCEPT ![k] =
                       [i_mode  |-> "EXT2_S_IFDIR",
                        i_block |-> IF new = {} THEN {NO_BLOCK} ELSE new]]
      /\ dirs' = [c \in Block \cup {BOOT} |->
                    IF c \in new THEN NewDirectory(k, p)
                    ELSE IF c = b THEN Written(b, t, entry) ELSE dirs[c]]
      /\ free_blocks' = IF new = {} THEN Counted(-1) ELSE free_blocks
      /\ succeeded' \in IF new = {} THEN BOOLEAN ELSE {TRUE}
      /\ undo' = NoFile

-----------------------------------------------------------------------------
(* cp IMAGE file path, with n the last part of the name of the file        *)

\* The rest of the block, unless an inode in use is in the header behind it.
FileRecLen(b, t) ==
  IF t < SLOTS /\ dirs[b][t + 1].inode >= 12 /\ ~is_available_inode(dirs[b][t + 1].inode)
  THEN 1
  ELSE SLOTS + 1 - t

\* Whether the copy ends with status 0, when so many of the total blocks were
\* missing and so many allocations had failed by then: not if the file is too
\* large for the count, nor if a failed allocation has brought the count to 0.
Copied(total, missing, failures) ==
  IF missing = 0 THEN {total <= free_blocks}
  ELSE IF failures = missing /\ Counted(-failures) # 0 THEN BOOLEAN
  ELSE {FALSE}

\* total blocks are wanted.  Whether the file fits is seen from the count; the
\* entry and the inode stay if it does not.  When the bitmap runs out before the
\* count, the pointer is invalid, and reading into the block before the image may
\* or may not stop the program: failures is how many allocations failed by then.
ext2_cp(path, n) ==
  LET p == cd(path)
      b == RoomBlock(p)
      t == Least(RoomIn(b))
      k == allocate_inode
      entry == [inode |-> k, rec_len |-> FileRecLen(b, t), name |-> n]
  IN  /\ IsDir(p) /\ Found(BlockOf(p), n) = {}
      /\ HasRoom(p) /\ Inode \ ind_bmp # {}
      /\ Use("wide_gap", FileRecLen(b, t) # DirRecLen(b, t))
      /\ ind_bmp' = ind_bmp \cup {k}
      /\ \E total \in SIZES :
           LET got == IF total > free_blocks THEN {} ELSE allocate_block(total)
               short == IF total > free_blocks THEN 0 ELSE total - Cardinality(got)
           IN  /\ blk_bmp' = blk_bmp \cup got
               /\ ind_tbl' = [ind_tbl EXCEPT ![k] =
                                [i_mode  |-> "EXT2_S_IFREG",
                                 i_block |-> got \cup (IF short = 0 THEN {} ELSE {NO_BLOCK})]]
               /\ \E failures \in (IF short = 0 THEN {0} ELSE 1..short) :
                    /\ free_blocks' = Counted(-failures)
                    /\ succeeded' \in Copied(total, short, failures)
               /\ dirs' = [Cleared(got) EXCEPT ![b] = Written(b, t, entry)]
      /\ undo' = NoFile

-----------------------------------------------------------------------------
(* rm IMAGE path/name                                                      *)

\* The assertions of free_inode and free_block: the bits to be cleared are set.
\* A program that fails one is killed halfway, which is not modelled.
Asserted(ks) ==
  /\ ks \subseteq ind_bmp
  /\ \A k \in ks : ind_tbl[k].i_block \subseteq blk_bmp
  /\ \A j, k \in ks : j # k => ind_tbl[j].i_block \cap ind_tbl[k].i_block = {}

\* The bits of the blocks themselves, not those before them.
BlocksOf_unshifted(ks) == {b + 1 : b \in UNION {ind_tbl[k].i_block : k \in ks}}

BlocksOf(ks) == UNION {ind_tbl[k].i_block : k \in ks}

free_inode(ks) == /\ ind_bmp' = ind_bmp \ ks
                  /\ blk_bmp' = blk_bmp \ BlocksOf(ks)
                  /\ UNCHANGED ind_tbl

ext2_rm(path, n) ==
  LET b == BlockOf(cd(path))
      s == search_in_dir_block(b, n)
      k == dirs[b][s].inode
  IN  /\ IsDir(cd(path)) /\ Found(b, n) # {} /\ ~HasDirMode(k)
      /\ Asserted({k})
      /\ free_inode({k})
      /\ dirs' = [dirs EXCEPT ![b] = Unlinked(b, s)]
      /\ undo' = [path |-> path, name |-> n, slot |-> s, before |-> image]
      /\ succeeded' = TRUE
      /\ UNCHANGED free_blocks

-----------------------------------------------------------------------------
(* rm_bonus IMAGE [-r] path/name                                           *)

\* free_inode and free_dir_block call each other: the inodes they come to.
Subtree(k) ==
  LET Level[d \in 0..DEPTH + 1] ==
        IF d = 0 THEN {k}
        ELSE UNION {{dirs[BlockOf(j)][s].inode : s \in Entries(BlockOf(j))}
                      : j \in {i \in Level[d - 1] : IsDir(i)}}
  IN  UNION {Level[d] : d \in 0..DEPTH + 1}

\* Each of them is come to once, or the assertion fails at the second time.
ReachedOnce(ks) ==
  Cardinality(UNION {{j} \X Entries(BlockOf(j)) : j \in {i \in ks : IsDir(i)}}) = Cardinality(ks) - 1

\* free_dir_block counts the blocks of directories; free_block counts nothing.
ext2_rm_bonus(path, n, recursive) ==
  LET b == BlockOf(cd(path))
      s == search_in_dir_block(b, n)
      k == dirs[b][s].inode
      ks == IF recursive THEN Subtree(k) ELSE {k}
  IN  /\ IsDir(cd(path)) /\ Found(b, n) # {} /\ (HasDirMode(k) => recursive)
      /\ Asserted(ks) /\ ReachedOnce(ks)
      /\ dirs' = [dirs EXCEPT ![b] = Unlinked(b, s)]
      /\ free_inode(ks)
      /\ free_blocks' = Counted(Cardinality({j \in ks : IsDir(j)}))
      /\ succeeded' = TRUE
      /\ undo' = IF IsDir(k) THEN NoFile
                 ELSE [path |-> path, name |-> n, slot |-> s, before |-> image]

-----------------------------------------------------------------------------
(* restore IMAGE path/name                                                 *)

\* The headers with a gap behind them that begins with that name.  The walk goes
\* by the size of the names, through what is in the gaps too.
GapsWith(b, n) == {s \in 1..SLOTS - 1 : /\ dirs[b][s].name # "."
                                        /\ dirs[b][s].rec_len # 1
                                        /\ dirs[b][s + 1].name = n}

\* The blocks of inode k that seem to be taken.
Taken(k) == {b \in ind_tbl[k].i_block : ~is_available_block(b)}

\* The bits that were looked at are set, not those before them.
Regained_unshifted(k) == {b + 1 : b \in ind_tbl[k].i_block}

\* The blocks that are marked again: all before the first that seems taken.
Regained(k) == {b \in ind_tbl[k].i_block : \A c \in Taken(k) : b < c}

restore_dir_entry(k) ==
  /\ is_available_inode(k) /\ ~HasDirMode(k) /\ NO_BLOCK \notin ind_tbl[k].i_block
  /\ blk_bmp' = blk_bmp \cup Regained(k)
  /\ free_blocks' = Counted(-Cardinality(Regained(k)))
  /\ ind_bmp' = IF Taken(k) = {} THEN ind_bmp \cup {k} ELSE ind_bmp

ext2_restore(path, n) ==
  LET b == BlockOf(cd(path))
      s == Least(GapsWith(b, n))
      k == dirs[b][s + 1].inode
  IN  /\ IsDir(cd(path)) /\ GapsWith(b, n) # {} /\ k \in Inode
      /\ Use("late_restore", <<undo.path, undo.name>> # <<path, n>>)
      /\ Use("stale_restore", <<undo.path, undo.name>> = <<path, n>> /\ undo.slot # s + 1)
      /\ Taken(k) = {} \/ Regained(k) # {}
      /\ restore_dir_entry(k)
      /\ dirs' = IF Taken(k) = {} THEN [dirs EXCEPT ![b][s].rec_len = 1] ELSE dirs
      /\ succeeded' = (Taken(k) = {})
      /\ undo' = NoFile
      /\ UNCHANGED ind_tbl

-----------------------------------------------------------------------------
Command(path, n) ==
  \/ "ext2_mkdir" \in TOOLS /\ ext2_mkdir(path, n)
  \/ "ext2_cp" \in TOOLS /\ ext2_cp(path, n)
  \/ "ext2_rm" \in TOOLS /\ ext2_rm(path, n)
  \/ "ext2_rm_bonus" \in TOOLS /\ \E recursive \in BOOLEAN : ext2_rm_bonus(path, n, recursive)
  \/ "ext2_restore" \in TOOLS /\ ext2_restore(path, n)

Next == /\ commands < MAX_COMMANDS
        /\ commands' = commands + 1
        /\ \E path \in Paths, n \in NAMES : Command(path, n)

Spec == Init /\ [][Next]_vars

-----------------------------------------------------------------------------
(* Properties.                                                             *)

\* Every variable has the type its declaration says.
TypeOK ==
  /\ ind_bmp \subseteq Inode
  /\ ind_tbl \in [Inode \cup {EXT2_ROOT_INO} -> ext2_inode]
  /\ blk_bmp \subseteq Block
  /\ dirs \in [Block \cup {BOOT} -> [Slot -> ext2_dir_entry]]
  /\ free_blocks \in 0..COUNTER_MOD - 1
  /\ succeeded \in BOOLEAN

InUse == ind_bmp \cup {EXT2_ROOT_INO}

\* A walk by record lengths ends within its block, also one that comes by the
\* header of a removed entry: a gap is split, closed and opened again by mkdir, cp,
\* rm and restore, each with arithmetic of its own.
RecordsFit == \A b \in Block \cup {BOOT} : \A s \in Slot : s + dirs[b][s].rec_len <= SLOTS + 1

\* The blocks of a file or directory (the inodes whose bit is set) are marked in
\* the bitmap, and belong to it alone: allocate_block, free_block and the restore
\* of blocks, which read and write the bitmap at different offsets, agree.
NoSharedBlocks ==
  /\ \A k \in InUse : ind_tbl[k].i_block \ {NO_BLOCK} \subseteq blk_bmp
  /\ \A j, k \in InUse : j # k => ind_tbl[j].i_block \cap ind_tbl[k].i_block \subseteq {NO_BLOCK}

\* In every directory that has a block the record lengths lead from the first
\* header to the end of the block, every entry on the way names an inode in use, and
\* no two entries of the disk name the same one: what rm, cp and restore do to
\* record lengths and bits, in different orders, fits together.
EntriesSound ==
  LET all == UNION {{BlockOf(k)} \X Entries(BlockOf(k)) : k \in {j \in InUse : IsDir(j)}}
  IN  /\ \A k \in InUse : IsDir(k) =>
           \E s \in Chain(BlockOf(k)) : s + dirs[BlockOf(k)][s].rec_len = SLOTS + 1
      /\ \A x \in all : dirs[x[1]][x[2]].inode \in ind_bmp
      /\ \A x, y \in all : dirs[x[1]][x[2]].inode = dirs[y[1]][y[2]].inode => x = y

\* The ".." of a directory is the directory that has its entry, and its "." is
\* itself, also for inodes and blocks that had another use before (ext2_mkdir).
\* A directory that was made on a full disk has neither.
ParentsAgree ==
  \A p \in InUse : IsDir(p) =>
    \A s \in Entries(BlockOf(p)) :
      LET k == dirs[BlockOf(p)][s].inode
      IN  IsDir(k) => /\ dirs[BlockOf(k)][1].inode = k
                      /\ dirs[BlockOf(k)][2].inode = p

\* All names of the disk, with the kind and the inode they lead to.
Tree ==
  LET Level[d \in 0..DEPTH + 1] ==
        IF d = 0 THEN {[path |-> <<>>, i_mode |-> "EXT2_S_IFDIR", inode |-> EXT2_ROOT_INO]}
        ELSE UNION {{[path   |-> Append(x.path, dirs[BlockOf(x.inode)][s].name),
                      i_mode |-> Kind(dirs[BlockOf(x.inode)][s].inode),
                      inode  |-> dirs[BlockOf(x.inode)][s].inode]
                        : s \in Entries(BlockOf(x.inode))}
                      : x \in {y \in Level[d - 1] : y.i_mode = "EXT2_S_IFDIR"}}
  IN  UNION {Level[d] : d \in 1..DEPTH + 1}

FT == INSTANCE FileTree WITH tree <- Tree, CAPACITY <- SLOTS - 2

\* The tools are a tree of names.  A command that ends with status 0 adds one name
\* or takes one away, with all below it; that it does neither happens only while a
\* directory holds as many names as there is room for.  No other name is lost,
\* appears or leads elsewhere, whatever is in the gaps of the directory blocks.
ImplementsFileTree == FT!Spec

\* A restore that succeeds, of the file the last command removed, and that finds the
\* header of that file and not an older one of its name, gives back the image as it
\* was before: bitmaps, inode, and every record length (ext2_restore.c:118-187).
RestoreUndoes ==
  [][undo # NoFile /\ succeeded' /\ ext2_restore(undo.path, undo.name)
       /\ Least(GapsWith(BlockOf(cd(undo.path)), undo.name)) + 1 = undo.slot
        => image' = undo.before]_vars

\* What ext2_mkdir, ext2_cp and ext2_restore report as done can be found: the name is
\* in the directory (ext2_mkdir.c:14-20, ext2_cp.c:15-21).
SuccessShows ==
  [][\A path \in Paths, n \in NAMES :
       succeeded' /\ (ext2_mkdir(path, n) \/ ext2_cp(path, n) \/ ext2_restore(path, n))
         => Found(BlockOf(cd(path)), n)' # {}]_vars

\* ext2_cp adds a name and keeps those there are: "If inserted into a gap, restore
\* new dir's rec_len" (ext2_cp.c:121).
CopyKeeps == [][\A path \in Paths, n \in NAMES : ext2_cp(path, n) => Tree \subseteq Tree']_vars

=============================================================================
