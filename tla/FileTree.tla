------------------------------- MODULE FileTree -------------------------------
(***************************************************************************)
(* What the ext2 tools of src/Assignment4 promise: a tree of names.  A     *)
(* command adds one name to a directory that exists, or takes one away     *)
(* with all that is below it; everything else stays as it was, each name   *)
(* with its kind and its inode.  An inode has one name.  Two outcomes are  *)
(* not what a user expects: a command that fails may leave the name of a   *)
(* file, or of a directory that got no block, and one that succeeds may do *)
(* nothing if its directory is full.                                       *)
(***************************************************************************)
EXTENDS Naturals, Sequences, FiniteSets

CONSTANT CAPACITY    \* names that a directory has room for, one at least

VARIABLES tree,      \* a set of records with path, i_mode and inode
          commands,  \* how many commands were given
          succeeded  \* whether the last of them reported success

treeVars == <<tree, commands, succeeded>>

IsDirectory(p) == p = <<>> \/ \E x \in tree : x.path = p /\ x.i_mode = "EXT2_S_IFDIR"

Parent(p) == SubSeq(p, 1, Len(p) - 1)

Below(p, q) == Len(p) <= Len(q) /\ SubSeq(q, 1, Len(p)) = p

\* ext2_mkdir, ext2_cp, ext2_restore
Add(e) == /\ IsDirectory(Parent(e.path))
          /\ \A x \in tree : x.path # e.path /\ x.inode # e.inode
          /\ tree' = tree \cup {e}
          /\ e.i_mode = "EXT2_S_IFDIR" => succeeded'

\* ext2_rm, ext2_rm_bonus
Remove(e) == /\ tree' = {x \in tree : ~Below(e.path, x.path)}
             /\ succeeded'

\* The directory has no room for another name.
IsFull(p) == Cardinality({x \in tree : Parent(x.path) = p}) = CAPACITY

\* ext2_mkdir and ext2_cp put the name elsewhere, where it is not found again.
Misplace == /\ \E p \in {<<>>} \cup {x.path : x \in tree} : IsDirectory(p) /\ IsFull(p)
            /\ UNCHANGED tree

\* A command that fails.
Fail == UNCHANGED tree /\ ~succeeded'

Init == tree = {} /\ commands = 0 /\ succeeded = TRUE

Next == /\ commands' = commands + 1
        /\ succeeded' \in BOOLEAN
        /\ \/ \E e \in tree' : Add(e)
           \/ \E e \in tree : Remove(e)
           \/ Misplace
           \/ Fail

Spec == Init /\ [][Next]_treeVars

=============================================================================
