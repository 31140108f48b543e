------------------------------ MODULE MCPaging ------------------------------
(***************************************************************************)
(* Instances of Paging for TLC: three or four pages, fewer frames, and     *)
(* every trace up to MAX_REFS references.                                  *)
(***************************************************************************)
EXTENDS Paging
=============================================================================
