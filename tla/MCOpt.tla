-------------------------------- MODULE MCOpt --------------------------------
(***************************************************************************)
(* Instances of Opt for TLC: every trace up to MAX_TRACE references to the *)
(* pages of VPage.                                                         *)
(***************************************************************************)
EXTENDS Opt
=============================================================================
