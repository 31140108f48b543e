---------------------------- MODULE Interceptor ----------------------------
(***************************************************************************)
(* The system call interceptor of src/Assignment1/interceptor.c: the       *)
(* metadata table and its lists of monitored pids, my_syscall with its     *)
(* four commands, the interceptor, my_exit_group, and the loading and      *)
(* unloading of the module.                                                *)
(*                                                                         *)
(* Any process may be in any of them at any time, up to CPUS at once.  A   *)
(* section under my_table_lock or sys_call_table_lock is one step.  What   *)
(* the code does without a lock is split where another process can get in  *)
(* between: the checks of my_syscall (a read of a flag, a walk through a   *)
(* list), the walk of the interceptor, and in del_pid the unlinking of a   *)
(* list entry and the update of its counter.                               *)
(***************************************************************************)
EXTENDS Integers, FiniteSets

CONSTANTS
    NR_syscalls,     \* the length of both tables
    EXIT_GROUP,      \* the number of exit_group (__NR_exit_group)
    Procs,           \* the pids of the processes, positive
    Owner,           \* Owner[p]: the uid of process p, 0 for root
    Mortal,          \* the processes that may exit
    SyscallArgs,     \* the system call numbers given to my_syscall
    PidArgs,         \* the pids given to it
    CPUS,            \* how many processes can be inside the kernel at once
    MAX_ENTRIES      \* how many entries for one pid there can be memory for

MY_CUSTOM_SYSCALL == 0
Syscall == 0..(NR_syscalls - 1)
Root == {p \in Procs : Owner[p] = 0}
Nobody == 0

Command == {"INTERCEPT", "RELEASE", "START", "STOP", "UNKNOWN"}
Monitoring == {"START", "STOP"}

ASSUME NRAssumption == NR_syscalls \in Nat \ {0} /\ EXIT_GROUP \in 1..(NR_syscalls - 1)
ASSUME ProcsAssumption == Procs \subseteq Nat \ {0} /\ Owner \in [Procs -> Nat] /\ Mortal \subseteq Procs
ASSUME ArgsAssumption == SyscallArgs \subseteq Int /\ PidArgs \subseteq Int /\ {CPUS, MAX_ENTRIES} \subseteq Nat

VARIABLES
    module,           \* "unloaded", "hooking", "loaded", "unhooked", "restored", "gone"
    table,            \* table[s]: the metadata of system call s
    sys_call_table,   \* sys_call_table[s]: the handler of system call s
    orig_exit_group,  \* "original" or "NULL"
    my_table_lock,    \* the process that holds the lock, or Nobody
    at,               \* at[p]: where process p is
    req,              \* req[p]: the arguments of the system call p is in
    ret,              \* ret[p]: what my_syscall returns to p
    scan              \* scan[p]: del_pid of p: the system call s it has come to, and
                      \* how many entries of s it unlinked but did not count yet

vars == <<module, table, sys_call_table, orig_exit_group, my_table_lock,
          at, req, ret, scan>>

Handler == {"original", "my_syscall", "my_exit_group", "interceptor"}
Result  == {"none", "ok", "EINVAL", "EPERM", "EBUSY", "ENOMEM"}

(* A process runs in user space ("user"), is inside my_syscall (after the  *)
(* checks of its arguments at "context", in check_pid_monitored at "walk", *)
(* about to take my_table_lock at "lock", holding it at "update", about to *)
(* write sys_call_table at "hook", leaving at "return"), inside the        *)
(* interceptor's walk ("log"), inside del_pid ("scan", and "count" between *)
(* the unlinking and the counting), has exited ("dead"), or has called     *)
(* through a null pointer ("oops").                                        *)
Place == {"user", "context", "walk", "lock", "update", "hook", "return",
          "log", "scan", "count", "dead", "oops"}

NoRequest == [cmd |-> "none", sys |-> 0, pid |-> 0]

(* The order of a list never matters, how often a pid is on it does:       *)
(* my_list[q] is the number of list entries with the pid q.                *)
EmptyList == [q \in Procs |-> 0]
Entry == [intercepted : {0, 1}, monitored : {0, 1, 2}, listcount : Int,
          my_list : [Procs -> Nat], list_inversed : BOOLEAN]
EmptyEntry == [intercepted |-> 0, monitored |-> 0, listcount |-> 0,
               my_list |-> EmptyList, list_inversed |-> FALSE]

-----------------------------------------------------------------------------
(* Operations on the entry e of a system call *)

Listed(e, pid) == pid \in Procs /\ e.my_list[pid] > 0

add_pid_sysc(e, pid) == [e EXCEPT !.my_list[pid] = @ + 1, !.listcount = @ + 1]

Unlink_nothing(e, pid) == e

(* The list entries of a pid leave the list, and listcount is lowered by n *)
(* steps of one; when it is zero after one of them, monitored 1 becomes 0. *)
Unlink(e, pid) == [e EXCEPT !.my_list[pid] = 0]

CountDown(e, n) ==
    LET zero == 0 \in (e.listcount - n)..(e.listcount - 1)
    IN  [e EXCEPT !.listcount = @ - n,
                  !.monitored = IF zero /\ @ = 1 THEN 0 ELSE @]

(* Faulty: the pid is counted and not unlinked. *)
del_pid_sysc_kept(e, pid) == CountDown(e, 1)
del_pid_sysc(e, pid) == CountDown([e EXCEPT !.my_list[pid] = @ - 1], 1)

destroy_list_kept(e) == [e EXCEPT !.listcount = 0, !.monitored = 0]
destroy_list_uncounted(e) == [e EXCEPT !.my_list = EmptyList, !.monitored = 0]
destroy_list(e) == [e EXCEPT !.my_list = EmptyList, !.listcount = 0, !.monitored = 0]

(* The entry from which a command for one pid starts. *)
SomeMonitored_not(e) == e
SomeMonitored(e) == [e EXCEPT !.monitored = 1]

(* Whether the interceptor logs a call of p to s. *)
Logs(p, s) ==
    LET e == table[s]
    IN  /\ e.intercepted = 1
        /\ \/ e.monitored = 2
           \/ e.monitored = 1 /\ Listed(e, p) /\ ~e.list_inversed

-----------------------------------------------------------------------------
Inside == {p \in Procs : at[p] \notin {"user", "dead", "oops"}}

(* A processor is free for another process to enter the kernel. *)
CanEnter ==
    Cardinality(Inside) + (IF module \in {"hooking", "unhooked", "restored"} THEN 1 ELSE 0) < CPUS

Init ==
    /\ module = "unloaded"
    /\ table = [s \in Syscall |-> EmptyEntry]
    /\ sys_call_table = [s \in Syscall |-> "original"]
    /\ orig_exit_group = "NULL"
    /\ my_table_lock = Nobody
    /\ at = [p \in Procs |-> "user"]
    /\ req = [p \in Procs |-> NoRequest]
    /\ ret = [p \in Procs |-> "none"]
    /\ scan = [p \in Procs |-> [s |-> 0, unlinked |-> 0]]

-----------------------------------------------------------------------------
(* init_function and exit_function *)

InitTable ==
    /\ module = "unloaded"
    /\ CanEnter
    /\ my_table_lock = Nobody
    /\ table' = [s \in Syscall |-> EmptyEntry]
    /\ orig_exit_group' = sys_call_table[EXIT_GROUP]
    /\ module' = "hooking"
    /\ UNCHANGED <<sys_call_table, my_table_lock, at, req, ret, scan>>

InitHooks ==
    /\ module = "hooking"
    /\ sys_call_table' = [sys_call_table EXCEPT ![MY_CUSTOM_SYSCALL] = "my_syscall",
                                                ![EXIT_GROUP] = "my_exit_group"]
    /\ module' = "loaded"
    /\ UNCHANGED <<table, orig_exit_group, my_table_lock, at, req, ret, scan>>

ExitHooks ==
    /\ module = "loaded"
    /\ CanEnter
    /\ sys_call_table' = [sys_call_table EXCEPT ![MY_CUSTOM_SYSCALL] = "original",
                                                ![EXIT_GROUP] = orig_exit_group]
    /\ orig_exit_group' = "NULL"
    /\ module' = "unhooked"
    /\ UNCHANGED <<table, my_table_lock, at, req, ret, scan>>

(* All entries but the two of the module itself get table[i].f back.  That *)
(* of exit_group was written by ExitHooks.                                 *)
ExitRestore ==
    /\ module = "unhooked"
    /\ sys_call_table' = [s \in Syscall |->
                             IF s \in {MY_CUSTOM_SYSCALL, EXIT_GROUP}
                             THEN sys_call_table[s] ELSE "original"]
    /\ module' = "restored"
    /\ UNCHANGED <<table, orig_exit_group, my_table_lock, at, req, ret, scan>>

ExitCleanup ==
    /\ module = "restored"
    /\ my_table_lock = Nobody
    /\ table' = [s \in Syscall |-> [destroy_list(table[s]) EXCEPT !.intercepted = 0]]
    /\ module' = "gone"
    /\ UNCHANGED <<sys_call_table, orig_exit_group, my_table_lock, at, req, ret, scan>>

-----------------------------------------------------------------------------
(* my_syscall: the checks *)

(* (A) and (B): the arguments and the permissions.                         *)
SameOwner_unchecked(p, pid) == TRUE
SameOwner(p, pid) == Owner[pid] = Owner[p]

ArgsInvalid(cmd, s, pid) ==
    \/ s < 0 \/ s > NR_syscalls \/ s = MY_CUSTOM_SYSCALL
    \/ /\ cmd \in Monitoring
       /\ pid \notin {0} \cup {q \in Procs : at[q] # "dead"}

NotPermitted(p, cmd, pid) ==
    /\ p \notin Root /\ cmd # "UNKNOWN"
    /\ ~(cmd \in Monitoring /\ pid # 0 /\ SameOwner(p, pid))

Go(p, place, result) ==
    /\ at' = [at EXCEPT ![p] = place]
    /\ ret' = [ret EXCEPT ![p] = result]

(* A command that my_syscall does not know passes every check but that of  *)
(* the system call number, does nothing, and returns 0.                    *)
Call(p, cmd, s, pid) ==
    /\ at[p] = "user"
    /\ CanEnter
    /\ sys_call_table[MY_CUSTOM_SYSCALL] = "my_syscall"
    /\ req' = [req EXCEPT ![p] = [cmd |-> cmd, sys |-> s, pid |-> pid]]
    /\ \/ ArgsInvalid(cmd, s, pid) /\ Go(p, "return", "EINVAL")
       \/ /\ ~ArgsInvalid(cmd, s, pid)
          /\ \/ NotPermitted(p, cmd, pid) /\ Go(p, "return", "EPERM")
             \/ cmd = "UNKNOWN" /\ Go(p, "return", "ok")
             \/ /\ ~NotPermitted(p, cmd, pid) /\ cmd # "UNKNOWN"
                /\ Go(p, "context", "none")
    /\ UNCHANGED <<module, table, sys_call_table, orig_exit_group, my_table_lock, scan>>

(* (C) and (D), what they read of the entry itself; no lock is held. *)
CheckContext(p) ==
    LET cmd == req[p].cmd
        intercepted == table[req[p].sys].intercepted = 1
    IN  /\ at[p] = "context"
        /\ req[p].sys \in Syscall
        /\ \/ cmd = "INTERCEPT" /\ intercepted /\ Go(p, "return", "EBUSY")
           \/ cmd = "INTERCEPT" /\ ~intercepted /\ Go(p, "lock", "none")
           \/ cmd \in {"RELEASE", "STOP"} /\ ~intercepted /\ Go(p, "return", "EINVAL")
           \/ cmd = "RELEASE" /\ intercepted /\ Go(p, "lock", "none")
           \/ cmd = "STOP" /\ intercepted /\ req[p].pid = 0 /\ Go(p, "lock", "none")
           \/ cmd = "STOP" /\ intercepted /\ req[p].pid # 0 /\ Go(p, "walk", "none")
           \/ cmd = "START" /\ Go(p, "walk", "none")
        /\ UNCHANGED <<module, table, sys_call_table, orig_exit_group, my_table_lock,
                       req, scan>>

(* The result of check_pid_monitored, which walks the list without a lock. *)
CheckWalk(p) ==
    LET listed == Listed(table[req[p].sys], req[p].pid)
    IN  /\ at[p] = "walk"
        /\ \/ req[p].cmd = "START" /\ listed /\ Go(p, "return", "EBUSY")
           \/ req[p].cmd = "STOP" /\ ~listed /\ Go(p, "return", "EINVAL")
           \/ (req[p].cmd = "START" <=> ~listed) /\ Go(p, "lock", "none")
        /\ UNCHANGED <<module, table, sys_call_table, orig_exit_group, my_table_lock,
                       req, scan>>

-----------------------------------------------------------------------------
(* my_syscall: the execution *)

Lock(p) ==
    /\ at[p] = "lock"
    /\ my_table_lock = Nobody
    /\ my_table_lock' = p
    /\ at' = [at EXCEPT ![p] = "update"]
    /\ UNCHANGED <<module, table, sys_call_table, orig_exit_group, req, ret, scan>>

(* The critical section ends: the entry becomes e, the lock is released.   *)
(* (A faulty one forgets the unlock on the way out with -ENOMEM.)          *)
Commit_leaky(p, e, place, result) ==
    /\ table' = [table EXCEPT ![req[p].sys] = e]
    /\ my_table_lock' = IF result = "ENOMEM" THEN my_table_lock ELSE Nobody
    /\ Go(p, place, result)
Commit(p, e, place, result) ==
    /\ table' = [table EXCEPT ![req[p].sys] = e]
    /\ my_table_lock' = Nobody
    /\ Go(p, place, result)

Updating(p, cmd) ==
    /\ at[p] = "update"
    /\ req[p].cmd = cmd
    /\ UNCHANGED <<module, sys_call_table, orig_exit_group, req, scan>>

InterceptCall(p) ==
    /\ Updating(p, "INTERCEPT")
    /\ Commit(p, [table[req[p].sys] EXCEPT !.intercepted = 1], "hook", "none")

ReleaseCall(p) ==
    /\ Updating(p, "RELEASE")
    /\ Commit(p, [destroy_list(table[req[p].sys]) EXCEPT
                     !.intercepted = 0, !.list_inversed = FALSE], "hook", "none")

(* monitored is set to 2 before destroy_list is called, which clears it. *)
StartAll(p) ==
    /\ Updating(p, "START")
    /\ req[p].pid = 0
    /\ Commit(p, [destroy_list([table[req[p].sys] EXCEPT !.monitored = 2]) EXCEPT
                     !.list_inversed = TRUE], "return", "ok")

StopAll(p) ==
    /\ Updating(p, "STOP")
    /\ req[p].pid = 0
    /\ Commit(p, [destroy_list(table[req[p].sys]) EXCEPT !.list_inversed = FALSE],
              "return", "ok")

(* A pid is put on the list, if there is memory for it, or taken off it.   *)
PutOnList(p, e) ==
    \/ /\ e.my_list[req[p].pid] < MAX_ENTRIES
       /\ Commit(p, add_pid_sysc(e, req[p].pid), "return", "ok")
    \/ Commit(p, e, "return", "ENOMEM")

TakeOffList(p, e) ==
    \/ /\ Listed(e, req[p].pid)
       /\ Commit(p, del_pid_sysc(e, req[p].pid), "return", "ok")
    \/ /\ ~Listed(e, req[p].pid)
       /\ Commit(p, e, "return", "EINVAL")

StartPid(p) ==
    LET e == SomeMonitored(table[req[p].sys])
    IN  /\ Updating(p, "START")
        /\ req[p].pid # 0
        /\ \/ ~e.list_inversed /\ PutOnList(p, e)
           \/ e.list_inversed /\ TakeOffList(p, e)

StopPid(p) ==
    LET e == SomeMonitored(table[req[p].sys])
    IN  /\ Updating(p, "STOP")
        /\ req[p].pid # 0
        /\ \/ ~e.list_inversed /\ TakeOffList(p, e)
           \/ e.list_inversed /\ PutOnList(p, e)

(* sys_call_table follows, in a critical section of its own. *)
Hook_kept(cmd) == "interceptor"
Hook_unsaved(cmd) == IF cmd = "INTERCEPT" THEN "interceptor" ELSE "NULL"
Hook(cmd) == IF cmd = "INTERCEPT" THEN "interceptor" ELSE "original"

WriteHook(p) ==
    /\ at[p] = "hook"
    /\ sys_call_table' = [sys_call_table EXCEPT ![req[p].sys] = Hook(req[p].cmd)]
    /\ Go(p, "return", "ok")
    /\ UNCHANGED <<module, table, orig_exit_group, my_table_lock, req, scan>>

Return(p) ==
    /\ at[p] = "return"
    /\ Go(p, "user", "none")
    /\ req' = [req EXCEPT ![p] = NoRequest]
    /\ UNCHANGED <<module, table, sys_call_table, orig_exit_group, my_table_lock, scan>>

-----------------------------------------------------------------------------
(* interceptor: p makes the intercepted call s.  Only the walk through the *)
(* list takes time; whatever it finds, the original call is made.          *)
InterceptorEnter(p, s) ==
    /\ at[p] = "user"
    /\ CanEnter
    /\ sys_call_table[s] = "interceptor"
    /\ s # EXIT_GROUP
    /\ table[s].intercepted = 1 /\ table[s].monitored = 1
    /\ at' = [at EXCEPT ![p] = "log"]
    /\ req' = [req EXCEPT ![p] = [NoRequest EXCEPT !.sys = s]]
    /\ UNCHANGED <<module, table, sys_call_table, orig_exit_group, my_table_lock, ret, scan>>

InterceptorLeave(p) ==
    /\ at[p] = "log"
    /\ at' = [at EXCEPT ![p] = "user"]
    /\ req' = [req EXCEPT ![p] = NoRequest]
    /\ UNCHANGED <<module, table, sys_call_table, orig_exit_group, my_table_lock, ret, scan>>

-----------------------------------------------------------------------------
(* Process p calls exit_group. *)
Exit(p) ==
    /\ at[p] = "user"
    /\ p \in Mortal
    /\ CanEnter
    /\ \/ /\ sys_call_table[EXIT_GROUP] = "my_exit_group"
          /\ at' = [at EXCEPT ![p] = "scan"]
          /\ scan' = [scan EXCEPT ![p].s = 1]
       \/ /\ sys_call_table[EXIT_GROUP] # "my_exit_group"
          /\ at' = [at EXCEPT ![p] = "dead"]
          /\ UNCHANGED scan
    /\ UNCHANGED <<module, table, sys_call_table, orig_exit_group, my_table_lock, req, ret>>

(* del_pid takes p off every list, without my_table_lock.  An entry that   *)
(* is put at the head of a list after the loop has started on it is not    *)
(* seen.                                                                   *)
ScanUnlink(p) ==
    LET s == scan[p].s
    IN  /\ at[p] = "scan"
        /\ s < NR_syscalls
        /\ Listed(table[s], p)
        /\ table' = [table EXCEPT ![s] = Unlink(@, p)]
        /\ scan' = [scan EXCEPT ![p].unlinked = table[s].my_list[p]]
        /\ at' = [at EXCEPT ![p] = "count"]
        /\ UNCHANGED <<module, sys_call_table, orig_exit_group, my_table_lock, req, ret>>

ScanCount(p) ==
    /\ at[p] = "count"
    /\ table' = [table EXCEPT ![scan[p].s] = CountDown(@, scan[p].unlinked)]
    /\ scan' = [scan EXCEPT ![p] = [s |-> @.s + 1, unlinked |-> 0]]
    /\ at' = [at EXCEPT ![p] = "scan"]
    /\ UNCHANGED <<module, sys_call_table, orig_exit_group, my_table_lock, req, ret>>

ScanNext(p) ==
    /\ at[p] = "scan"
    /\ scan[p].s < NR_syscalls
    /\ ~Listed(table[scan[p].s], p)
    /\ scan' = [scan EXCEPT ![p].s = @ + 1]
    /\ UNCHANGED <<module, table, sys_call_table, orig_exit_group, my_table_lock,
                   at, req, ret>>

(* The original exit_group, through a pointer exit_function sets to NULL. *)
ExitDone(p) ==
    /\ at[p] = "scan"
    /\ scan[p].s = NR_syscalls
    /\ at' = [at EXCEPT ![p] = IF orig_exit_group = "NULL" THEN "oops" ELSE "dead"]
    /\ scan' = [scan EXCEPT ![p].s = 0]
    /\ UNCHANGED <<module, table, sys_call_table, orig_exit_group, my_table_lock, req, ret>>

-----------------------------------------------------------------------------
(* What a process inside the kernel does next. *)
KernelStep(p) ==
    \/ CheckContext(p) \/ CheckWalk(p) \/ Lock(p)
    \/ InterceptCall(p) \/ ReleaseCall(p) \/ StartAll(p) \/ StopAll(p)
    \/ StartPid(p) \/ StopPid(p) \/ WriteHook(p) \/ Return(p)
    \/ InterceptorLeave(p)
    \/ ScanUnlink(p) \/ ScanCount(p) \/ ScanNext(p) \/ ExitDone(p)

ModuleStep == InitTable \/ InitHooks \/ ExitHooks \/ ExitRestore \/ ExitCleanup

(* The module is unloaded and every process is done with it. *)
Idle == module = "gone" /\ Inside = {} /\ UNCHANGED vars

Next ==
    \/ ModuleStep
    \/ \E p \in Procs :
        \/ \E cmd \in Command, s \in SyscallArgs, pid \in PidArgs : Call(p, cmd, s, pid)
        \/ \E s \in Syscall : InterceptorEnter(p, s)
        \/ Exit(p)
        \/ KernelStep(p)
    \/ Idle

Spec == Init /\ [][Next]_vars

(* A process inside the kernel goes on; the spin lock is fair, as the      *)
(* ticket locks of the kernel are: nobody who waits is passed over for     *)
(* ever.                                                                   *)
Fairness ==
    \A p \in Procs : WF_vars(KernelStep(p)) /\ SF_vars(Lock(p))

FairSpec == Spec /\ Fairness

-----------------------------------------------------------------------------
(* Properties *)

(* Type correctness. *)
TypeOK ==
    /\ module \in {"unloaded", "hooking", "loaded", "unhooked", "restored", "gone"}
    /\ table \in [Syscall -> Entry]
    /\ sys_call_table \in [Syscall -> Handler]
    /\ orig_exit_group \in {"NULL", "original"}
    /\ my_table_lock \in Procs \cup {Nobody}
    /\ at \in [Procs -> Place]
    /\ req \in [Procs -> [cmd : Command \cup {"none"}, sys : Int, pid : Int]]
    /\ ret \in [Procs -> Result]
    /\ scan \in [Procs -> [s : 0..NR_syscalls, unlinked : Nat]]

(* The two tables agree: outside of the commands that change both, a call  *)
(* is handled by the interceptor exactly if it is marked as intercepted.   *)
HookedIffIntercepted ==
    module = "loaded" =>
        \A s \in Syscall \ {MY_CUSTOM_SYSCALL, EXIT_GROUP} :
            (\A p \in Procs : at[p] = "hook" => req[p].sys # s) =>
                (table[s].intercepted = 1 <=> sys_call_table[s] = "interceptor")

(* The counter and the flag of a list describe the list: each pid is on it *)
(* once, they are all counted (but for one that is just being taken off),  *)
(* and a list that is not empty is one the interceptor looks at.           *)
ListsConsistent ==
    \A s \in Syscall :
        LET e == table[s]
        IN  /\ \A q \in Procs : e.my_list[q] <= 1
            /\ (\A p \in Procs : scan[p].unlinked # 0 => scan[p].s # s) =>
                   e.listcount = Cardinality({q \in Procs : Listed(e, q)})
            /\ e.my_list # EmptyList => e.monitored = 1 /\ ~e.list_inversed

(* my_exit_group forgets the process that exits: no list names a process   *)
(* that is dead.                                                           *)
DeadPidsForgotten ==
    \A s \in Syscall, p \in Procs : Listed(table[s], p) => at[p] # "dead"

(* my_syscall returns 0 to p from a command for one pid. *)
Succeeds(p, cmd) ==
    at[p] = "return" /\ ret[p] = "ok" /\ req[p].cmd = cmd

(* A command to start or to stop monitoring a pid that succeeds has the    *)
(* effect it asked for: from then on the calls of that pid are logged, or  *)
(* are not.                                                                *)
StartStarts ==
    \A p \in Procs :
        Succeeds(p, "START") /\ req[p].pid # 0 /\ table[req[p].sys].intercepted = 1
            => Logs(req[p].pid, req[p].sys)

StopStops ==
    \A p \in Procs :
        Succeeds(p, "STOP") /\ req[p].pid # 0 => ~Logs(req[p].pid, req[p].sys)

(* Once exit_function is through, no system call leads into the module,    *)
(* and no list entry is left behind.                                       *)
UnloadRestores ==
    module = "gone" =>
        \A s \in Syscall : sys_call_table[s] = "original" /\ table[s].my_list = EmptyList

(* A command of a caller that is not root never changes what is            *)
(* intercepted nor whether a list is one of exceptions, and puts on a list *)
(* or takes off it only processes of the same owner.  (It may change the   *)
(* counter and the flag of a list.)                                        *)
NonRootConfined ==
    [][\A p \in Procs \ Root, s \in Syscall :
           at[p] = "update" /\ at'[p] # "update" =>
               /\ table'[s].intercepted = table[s].intercepted
               /\ table'[s].list_inversed = table[s].list_inversed
               /\ \A q \in Procs :
                      Listed(table'[s], q) # Listed(table[s], q) => Owner[q] = Owner[p]]_vars

(* Every call returns: no path through my_syscall keeps my_table_lock.     *)
EveryCallReturns == \A p \in Procs : at[p] = "context" ~> at[p] = "user"

=============================================================================
