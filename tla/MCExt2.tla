-------------------------------- MODULE MCExt2 --------------------------------
(***************************************************************************)
(* Instances of Ext2 for TLC.  Names are interchangeable.                  *)
(***************************************************************************)
EXTENDS Ext2, TLC

AllTools == {"ext2_mkdir", "ext2_cp", "ext2_rm", "ext2_rm_bonus", "ext2_restore"}
Symmetry == Permutations(NAMES)

=============================================================================
