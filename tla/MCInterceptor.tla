--------------------------- MODULE MCInterceptor ---------------------------
(***************************************************************************)
(* Instances of Interceptor for TLC: system call 0 is that of the module,  *)
(* the last one exit_group.                                                *)
(***************************************************************************)
EXTENDS Interceptor, TLC

(* Process 1 is root's, process 2 another user's. *)
MCRootAndUser == 1 :> 0 @@ 2 :> 1

(* Both processes are root's. *)
MCTwoRoots == 1 :> 0 @@ 2 :> 0

(* Root, and two processes of one user. *)
MCRootAndTwo == 1 :> 0 @@ 2 :> 1 @@ 3 :> 1

MCBadArgs == {-1, 0, 1, 2}
MCPids == {-1, 0, 1, 2, 3}

=============================================================================
