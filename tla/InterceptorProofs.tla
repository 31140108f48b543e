------------------------- MODULE InterceptorProofs -------------------------
(***************************************************************************)
(* The system call interceptor, for every number of system calls and       *)
(* processes, and every choice of arguments.                               *)
(*                                                                         *)
(* With any number of processors: type correctness, and that a caller who  *)
(* is not root changes only what is its own.  With one processor, as long  *)
(* as exit_group itself is not intercepted: everything else the module     *)
(* promises.  That it needs the one processor is what the run hookrace of  *)
(* MCInterceptor shows.                                                    *)
(***************************************************************************)
EXTENDS Interceptor, FiniteSetTheorems, TLAPS

-----------------------------------------------------------------------------
(* Operations on an entry.                                                 *)

(* The fields of an entry of the table have their types. *)
LEMMA EntryFields ==
    \A e \in Entry : /\ e.intercepted \in {0, 1} /\ e.monitored \in {0, 1, 2}
                     /\ e.listcount \in Int /\ e.my_list \in [Procs -> Nat]
                     /\ e.list_inversed \in BOOLEAN
  BY DEF Entry

(* What init_function writes is an entry, with nobody on its list. *)
LEMMA EmptyEntryIsEntry == EmptyEntry \in Entry /\ EmptyEntry.my_list = EmptyList
  BY DEF EmptyEntry, Entry, EmptyList

(* add_pid_sysc puts one pid on the list and counts it, and touches no other field. *)
LEMMA AddPid ==
    ASSUME NEW e \in Entry, NEW pid \in Procs
    PROVE  /\ add_pid_sysc(e, pid) \in Entry
           /\ add_pid_sysc(e, pid).my_list = [e.my_list EXCEPT ![pid] = @ + 1]
           /\ add_pid_sysc(e, pid).listcount = e.listcount + 1
           /\ add_pid_sysc(e, pid).intercepted = e.intercepted
           /\ add_pid_sysc(e, pid).monitored = e.monitored
           /\ add_pid_sysc(e, pid).list_inversed = e.list_inversed
<1>1. e.my_list \in [Procs -> Nat] /\ e.listcount \in Int BY EntryFields
<1>2. [e.my_list EXCEPT ![pid] = @ + 1] \in [Procs -> Nat] /\ e.listcount + 1 \in Int BY <1>1
<1> QED BY <1>1, <1>2 DEF add_pid_sysc, Entry

(* Unlinking changes the list only. *)
LEMMA UnlinkPid ==
    ASSUME NEW e \in Entry, NEW pid \in Procs
    PROVE  /\ Unlink(e, pid) \in Entry
           /\ Unlink(e, pid).my_list = [e.my_list EXCEPT ![pid] = 0]
           /\ Unlink(e, pid).listcount = e.listcount
           /\ Unlink(e, pid).intercepted = e.intercepted
           /\ Unlink(e, pid).monitored = e.monitored
           /\ Unlink(e, pid).list_inversed = e.list_inversed
<1>1. e.my_list \in [Procs -> Nat] BY EntryFields
<1>2. [e.my_list EXCEPT ![pid] = 0] \in [Procs -> Nat] BY <1>1
<1> QED BY <1>1, <1>2 DEF Unlink, Entry

(* Counting down changes the counter and, at zero, the flag. *)
LEMMA CountedDown ==
    ASSUME NEW e \in Entry, NEW n \in Nat
    PROVE  /\ CountDown(e, n) \in Entry
           /\ CountDown(e, n).my_list = e.my_list
           /\ CountDown(e, n).listcount = e.listcount - n
           /\ CountDown(e, n).intercepted = e.intercepted
           /\ CountDown(e, n).monitored \in {0, e.monitored}
           /\ n = 1 /\ e.listcount # 1 => CountDown(e, n).monitored = e.monitored
           /\ CountDown(e, n).list_inversed = e.list_inversed
<1>1. e.listcount \in Int /\ e.monitored \in {0, 1, 2} BY EntryFields
<1> DEFINE zero == 0 \in (e.listcount - n)..(e.listcount - 1)
           m == IF zero /\ e.monitored = 1 THEN 0 ELSE e.monitored
<1>2. e.listcount - n \in Int /\ m \in {0, 1, 2} /\ m \in {0, e.monitored} BY <1>1
<1>3. n = 1 /\ e.listcount # 1 => m = e.monitored BY <1>1
<1>4. CountDown(e, n) = [e EXCEPT !.listcount = e.listcount - n, !.monitored = m]
  BY DEF CountDown, Entry
<1> HIDE DEF m
<1> QED BY <1>2, <1>3, <1>4 DEF Entry

(* del_pid_sysc takes a pid off the list or says that it is not there. *)
LEMMA DelPid ==
    ASSUME NEW e \in Entry, NEW pid \in Procs, e.my_list[pid] > 0
    PROVE  /\ del_pid_sysc(e, pid) \in Entry
           /\ del_pid_sysc(e, pid).my_list = [e.my_list EXCEPT ![pid] = @ - 1]
           /\ del_pid_sysc(e, pid).listcount = e.listcount - 1
           /\ del_pid_sysc(e, pid).intercepted = e.intercepted
           /\ del_pid_sysc(e, pid).monitored \in {0, e.monitored}
           /\ e.listcount # 1 => del_pid_sysc(e, pid).monitored = e.monitored
           /\ del_pid_sysc(e, pid).list_inversed = e.list_inversed
<1>1. e.my_list \in [Procs -> Nat] BY EntryFields
<1>2. [e.my_list EXCEPT ![pid] = @ - 1] \in [Procs -> Nat] BY <1>1
<1> DEFINE f == [e EXCEPT !.my_list[pid] = @ - 1]
<1>3. /\ f \in Entry /\ f.my_list = [e.my_list EXCEPT ![pid] = @ - 1]
      /\ f.listcount = e.listcount /\ f.intercepted = e.intercepted
      /\ f.monitored = e.monitored /\ f.list_inversed = e.list_inversed
  BY <1>1, <1>2 DEF Entry
<1>4. del_pid_sysc(e, pid) = CountDown(f, 1) BY DEF del_pid_sysc
<1> HIDE DEF f
<1>5. /\ CountDown(f, 1) \in Entry /\ CountDown(f, 1).my_list = f.my_list
      /\ CountDown(f, 1).listcount = f.listcount - 1
      /\ CountDown(f, 1).intercepted = f.intercepted
      /\ CountDown(f, 1).monitored \in {0, f.monitored}
      /\ f.listcount # 1 => CountDown(f, 1).monitored = f.monitored
      /\ CountDown(f, 1).list_inversed = f.list_inversed
  BY <1>3, CountedDown
<1> QED BY <1>3, <1>4, <1>5, Zenon

(* destroy_list empties the list and clears the fields that belong to it. *)
LEMMA Destroyed ==
    ASSUME NEW e \in Entry
    PROVE  /\ destroy_list(e) \in Entry
           /\ destroy_list(e).my_list = EmptyList
           /\ destroy_list(e).listcount = 0
           /\ destroy_list(e).intercepted = e.intercepted
           /\ destroy_list(e).monitored = 0
           /\ destroy_list(e).list_inversed = e.list_inversed
<1>1. EmptyList \in [Procs -> Nat] BY DEF EmptyList
<1>2. 0 \in Int /\ 0 \in {0, 1, 2} OBVIOUS
<1> DEFINE d == [e EXCEPT !.my_list = EmptyList, !.listcount = 0, !.monitored = 0]
<1>3. d \in Entry BY <1>1, <1>2 DEF Entry
<1>4. /\ d.my_list = EmptyList /\ d.listcount = 0 /\ d.intercepted = e.intercepted
      /\ d.monitored = 0 /\ d.list_inversed = e.list_inversed
  BY DEF Entry
<1> QED BY <1>3, <1>4, Zenon DEF destroy_list

(* Setting monitored to 1 changes no other field. *)
LEMMA SomeOnly ==
    ASSUME NEW e \in Entry
    PROVE  /\ SomeMonitored(e) \in Entry
           /\ SomeMonitored(e).my_list = e.my_list
           /\ SomeMonitored(e).listcount = e.listcount
           /\ SomeMonitored(e).intercepted = e.intercepted
           /\ SomeMonitored(e).monitored = 1
           /\ SomeMonitored(e).list_inversed = e.list_inversed
  BY DEF SomeMonitored, Entry

(* The entries the four commands for a whole system call write.            *)
LEMMA CommandEntries ==
    ASSUME NEW e \in Entry
    PROVE  /\ [e EXCEPT !.intercepted = 1] \in Entry
           /\ [destroy_list(e) EXCEPT !.intercepted = 0, !.list_inversed = FALSE] \in Entry
           /\ [destroy_list([e EXCEPT !.monitored = 2]) EXCEPT !.list_inversed = TRUE] \in Entry
           /\ [destroy_list(e) EXCEPT !.list_inversed = FALSE] \in Entry
           /\ [destroy_list(e) EXCEPT !.intercepted = 0] \in Entry
<1>1. [e EXCEPT !.intercepted = 1] \in Entry /\ [e EXCEPT !.monitored = 2] \in Entry BY DEF Entry
<1>2. destroy_list(e) \in Entry /\ destroy_list([e EXCEPT !.monitored = 2]) \in Entry
  BY <1>1, Destroyed
<1>3. \A f \in Entry : /\ [f EXCEPT !.intercepted = 0, !.list_inversed = FALSE] \in Entry
                       /\ [f EXCEPT !.list_inversed = TRUE] \in Entry
                       /\ [f EXCEPT !.list_inversed = FALSE] \in Entry
                       /\ [f EXCEPT !.intercepted = 0] \in Entry
  BY DEF Entry
<1> QED BY <1>1, <1>2, <1>3

-----------------------------------------------------------------------------
(* Types, and what is known of a process by the place it has come to.      *)

InCommand == {"context", "walk", "lock", "update", "hook"}

(* The arguments have passed the checks, the command is a permitted one.   *)
Request(p) ==
    /\ at[p] \in InCommand =>
           /\ req[p].cmd \in Command \ {"UNKNOWN"}
           /\ req[p].cmd \in Monitoring => req[p].pid \in Procs \cup {0}
           /\ ~NotPermitted(p, req[p].cmd, req[p].pid)
           /\ req[p].sys # 0 /\ req[p].sys \in SyscallArgs
    /\ at[p] \in InCommand \ {"context"} => req[p].sys \in Syscall
    /\ at[p] = "scan" => scan[p].s \in 1..NR_syscalls
    /\ at[p] = "count" => scan[p].s \in 1..(NR_syscalls - 1)

Requests == \A p \in Procs : Request(p)

(* The pointer to the original exit_group is there while it is needed.     *)
Pointers ==
    /\ module \in {"unloaded", "hooking"} =>
           /\ \A s \in Syscall : sys_call_table[s] = "original"
           /\ \A p \in Procs : at[p] \in {"user", "dead"}
    /\ module \in {"hooking", "loaded"} => orig_exit_group = "original"

TypeInv == TypeOK /\ Requests /\ Pointers

(* The system call of the module and exit_group are two different entries. *)
LEMMA Numbers == 0 \in Syscall /\ EXIT_GROUP \in Syscall /\ EXIT_GROUP # 0 /\ NR_syscalls \in Nat
  BY NRAssumption DEF Syscall

(* The program begins in its types. *)
LEMMA InitTypes == Init => TypeInv
<1> SUFFICES ASSUME Init PROVE TypeInv OBVIOUS
<1>1. TypeOK
  BY EmptyEntryIsEntry, NRAssumption
     DEF Init, TypeOK, Handler, Nobody, Place, NoRequest, Result
<1>2. Requests BY DEF Init, Requests, Request, InCommand
<1>3. Pointers BY DEF Init, Pointers
<1> QED BY <1>1, <1>2, <1>3 DEF TypeInv

(* A step of the module itself. *)
LEMMA ModuleTypes == TypeInv /\ ModuleStep => TypeInv'
<1> SUFFICES ASSUME TypeInv, ModuleStep PROVE TypeInv' OBVIOUS
<1> USE DEF TypeInv
<1>1. CASE InitTable
  <2>1. TypeOK' BY <1>1, EmptyEntryIsEntry, Numbers DEF InitTable, TypeOK, Pointers
  <2>2. Requests' BY <1>1 DEF InitTable, Requests, Request
  <2>3. Pointers' BY <1>1, Numbers DEF InitTable, Pointers
  <2> QED BY <2>1, <2>2, <2>3
<1>2. CASE InitHooks
  <2>1. TypeOK' BY <1>2, Numbers DEF InitHooks, TypeOK, Handler
  <2>2. Requests' BY <1>2 DEF InitHooks, Requests, Request
  <2>3. Pointers' BY <1>2 DEF InitHooks, Pointers
  <2> QED BY <2>1, <2>2, <2>3
<1>3. CASE ExitHooks
  <2>1. TypeOK' BY <1>3, Numbers DEF ExitHooks, TypeOK, Handler, Pointers
  <2>2. Requests' BY <1>3 DEF ExitHooks, Requests, Request
  <2>3. Pointers' BY <1>3 DEF ExitHooks, Pointers
  <2> QED BY <2>1, <2>2, <2>3
<1>4. CASE ExitRestore
  <2>1. TypeOK' BY <1>4 DEF ExitRestore, TypeOK, Handler
  <2>2. Requests' BY <1>4 DEF ExitRestore, Requests, Request
  <2>3. Pointers' BY <1>4 DEF ExitRestore, Pointers
  <2> QED BY <2>1, <2>2, <2>3
<1>5. CASE ExitCleanup
  <2>1. table' \in [Syscall -> Entry]
    <3>1. \A s \in Syscall : [destroy_list(table[s]) EXCEPT !.intercepted = 0] \in Entry
      BY CommandEntries DEF TypeOK
    <3> QED BY <1>5, <3>1 DEF ExitCleanup
  <2>2. TypeOK' BY <1>5, <2>1 DEF ExitCleanup, TypeOK
  <2>3. Requests' BY <1>5 DEF ExitCleanup, Requests, Request
  <2>4. Pointers' BY <1>5 DEF ExitCleanup, Pointers
  <2> QED BY <2>2, <2>3, <2>4
<1> QED BY <1>1, <1>2, <1>3, <1>4, <1>5 DEF ModuleStep

(* What is known of the other processes remains true.                      *)
LEMMA OtherRequests ==
    ASSUME TypeInv, NEW p \in Procs, NEW q \in Procs \ {p},
           at'[q] = at[q], req'[q] = req[q], scan'[q] = scan[q]
    PROVE  Request(q)'
<1>1. Request(q) BY DEF TypeInv, Requests
<1> QED BY <1>1 DEF Request

(* A process enters the kernel, goes through the checks, or leaves. *)
LEMMA CallTypes ==
    ASSUME TypeInv, NEW p \in Procs, NEW cmd \in Command, NEW s \in SyscallArgs, NEW pid \in PidArgs,
           Call(p, cmd, s, pid)
    PROVE  TypeInv'
<1> DEFINE r == [cmd |-> cmd, sys |-> s, pid |-> pid]
<1>1. s \in Int /\ pid \in Int BY ArgsAssumption
<1>2. /\ at[p] = "user" /\ req' = [req EXCEPT ![p] = r]
      /\ UNCHANGED <<module, table, sys_call_table, orig_exit_group, my_table_lock, scan>>
      /\ sys_call_table[0] = "my_syscall"
  BY DEF Call, MY_CUSTOM_SYSCALL
<1>3. PICK place \in {"return", "context"}, result \in Result : Go(p, place, result)
  BY DEF Call, Result
<1>4. at' = [at EXCEPT ![p] = place] /\ ret' = [ret EXCEPT ![p] = result] BY <1>3 DEF Go
<1>5. r \in [cmd : Command \cup {"none"}, sys : Int, pid : Int] BY <1>1
<1>6. TypeOK'
  <2> HIDE DEF r
  <2> QED BY <1>2, <1>4, <1>5 DEF TypeInv, TypeOK, Place
<1>7. place = "context" => ~ArgsInvalid(cmd, s, pid) /\ ~NotPermitted(p, cmd, pid) /\ cmd # "UNKNOWN"
  BY <1>4 DEF Call, Go, TypeInv, TypeOK
<1>8. \A q \in Procs \ {p} : Request(q)'
  <2> HIDE DEF r
  <2> QED BY <1>2, <1>4, OtherRequests DEF TypeInv, TypeOK
<1>9. Request(p)'
  <2>1. req'[p].cmd = cmd /\ req'[p].sys = s /\ req'[p].pid = pid /\ at'[p] = place
    BY <1>2, <1>4 DEF TypeInv, TypeOK
  <2>2. CASE place = "context"
    <3>1. cmd \in Monitoring => pid \in Procs \cup {0} BY <1>7, <2>2 DEF ArgsInvalid
    <3>2. s # 0 BY <1>7, <2>2 DEF ArgsInvalid, MY_CUSTOM_SYSCALL
    <3> HIDE DEF r
    <3> QED BY <1>7, <2>1, <2>2, <3>1, <3>2 DEF Request, InCommand
  <2>3. CASE place = "return"
    <3> HIDE DEF r
    <3> QED BY <2>1, <2>3 DEF Request, InCommand
  <2> QED BY <1>3, <2>2, <2>3
<1>10. Pointers' BY <1>2, Numbers DEF TypeInv, Pointers
<1> QED BY <1>6, <1>8, <1>9, <1>10 DEF TypeInv, Requests

(* What has to be shown of a step of p.                                    *)
LEMMA StepTypes ==
    ASSUME TypeInv, NEW p \in Procs, NEW place \in Place, at' = [at EXCEPT ![p] = place],
           module' = module, orig_exit_group' = orig_exit_group,
           table' \in [Syscall -> Entry], sys_call_table' \in [Syscall -> Handler],
           my_table_lock' \in Procs \cup {Nobody}, ret' \in [Procs -> Result],
           req' \in [Procs -> [cmd : Command \cup {"none"}, sys : Int, pid : Int]],
           scan' \in [Procs -> [s : 0..NR_syscalls, unlinked : Nat]],
           \A q \in Procs \ {p} : req'[q] = req[q] /\ scan'[q] = scan[q],
           \/ at[p] \notin {"user", "dead"}
           \/ place \in {"user", "dead"} /\ sys_call_table' = sys_call_table,
           Request(p)'
    PROVE  TypeInv'
<1>1. at \in [Procs -> Place] BY DEF TypeInv, TypeOK
<1>2. TypeOK' BY <1>1 DEF TypeInv, TypeOK
<1>3. \A q \in Procs \ {p} : at'[q] = at[q] BY <1>1
<1>4. Requests' BY <1>3, OtherRequests DEF Requests
<1>5. Pointers'
  <2>1. CASE at[p] \notin {"user", "dead"}
    BY <2>1 DEF TypeInv, Pointers
  <2>2. CASE place \in {"user", "dead"} /\ sys_call_table' = sys_call_table
    BY <1>1, <2>2 DEF TypeInv, Pointers
  <2> QED BY <2>1, <2>2
<1> QED BY <1>2, <1>4, <1>5 DEF TypeInv

(* The checks before the lock keep the types. *)
LEMMA CheckTypes ==
    ASSUME TypeInv, NEW p \in Procs, CheckContext(p) \/ CheckWalk(p)
    PROVE  TypeInv'
<1>1. PICK place \in {"return", "walk", "lock"}, result \in Result : Go(p, place, result)
  BY DEF CheckContext, CheckWalk, Result
<1>2. at' = [at EXCEPT ![p] = place] /\ ret' = [ret EXCEPT ![p] = result] BY <1>1 DEF Go
<1>3. UNCHANGED <<module, table, sys_call_table, orig_exit_group, my_table_lock, req, scan>>
  BY DEF CheckContext, CheckWalk
<1>4. at[p] \in {"context", "walk"} /\ req[p].sys \in Syscall
  BY DEF CheckContext, CheckWalk, TypeInv, Requests, Request, InCommand
<1>5. Request(p)'
  <2>1. at'[p] = place BY <1>2 DEF TypeInv, TypeOK
  <2> QED BY <1>1, <1>3, <1>4, <2>1 DEF Request, InCommand, TypeInv, Requests
<1>6. place \in Place BY DEF Place
<1> QED BY <1>2, <1>3, <1>4, <1>5, <1>6, StepTypes DEF TypeInv, TypeOK

(* Taking the lock keeps the types. *)
LEMMA LockTypes ==
    ASSUME TypeInv, NEW p \in Procs, Lock(p)
    PROVE  TypeInv'
<1>1. at' = [at EXCEPT ![p] = "update"] /\ at[p] = "lock" BY DEF Lock
<1>2. UNCHANGED <<module, table, sys_call_table, orig_exit_group, req, ret, scan>> /\ my_table_lock' = p
  BY DEF Lock
<1>3. Request(p)'
  <2>1. at'[p] = "update" BY <1>1 DEF TypeInv, TypeOK
  <2> QED BY <1>1, <1>2, <2>1 DEF Request, InCommand, TypeInv, Requests
<1>4. "update" \in Place BY DEF Place
<1> QED BY <1>1, <1>2, <1>3, <1>4, StepTypes DEF TypeInv, TypeOK

(* The end of a critical section, with an entry e of the right type.       *)
LEMMA CommitTypes ==
    ASSUME TypeInv, NEW p \in Procs, NEW cmd, Updating(p, cmd), NEW e \in Entry,
           NEW place \in {"hook", "return"}, NEW result \in Result, Commit(p, e, place, result)
    PROVE  TypeInv'
<1>1. /\ at' = [at EXCEPT ![p] = place] /\ ret' = [ret EXCEPT ![p] = result]
      /\ at[p] = "update" /\ my_table_lock' = Nobody
      /\ UNCHANGED <<module, sys_call_table, orig_exit_group, req, scan>>
      /\ table' = [table EXCEPT ![req[p].sys] = e]
  BY DEF Commit, Go, Updating
<1>2. Request(p)'
  <2>1. at'[p] = place BY <1>1 DEF TypeInv, TypeOK
  <2> QED BY <1>1, <2>1 DEF Request, InCommand, TypeInv, Requests
<1>3. place \in Place BY DEF Place
<1>4. table' \in [Syscall -> Entry] BY <1>1 DEF TypeInv, TypeOK
<1> QED BY <1>1, <1>2, <1>3, <1>4, StepTypes DEF TypeInv, TypeOK

(* What is in the entry of a command, and which pid it is for.             *)
LEMMA UpdateFacts ==
    ASSUME TypeInv, NEW p \in Procs, at[p] = "update"
    PROVE  /\ req[p].sys \in Syscall /\ req[p].sys # 0 /\ table[req[p].sys] \in Entry
           /\ req[p].cmd \in Monitoring /\ req[p].pid # 0 => req[p].pid \in Procs
  BY DEF TypeInv, TypeOK, Requests, Request, InCommand

(* The entry a command for one pid leaves.                                 *)
LEMMA ListStep ==
    ASSUME TypeInv, NEW p \in Procs, at[p] = "update", req[p].pid \in Procs,
           NEW e \in Entry, PutOnList(p, e) \/ TakeOffList(p, e)
    PROVE  \E f \in Entry, result \in {"ok", "ENOMEM", "EINVAL"} :
               /\ Commit(p, f, "return", result)
               /\ \/ f = e /\ result # "ok"
                  \/ f = add_pid_sysc(e, req[p].pid) /\ PutOnList(p, e) /\ result = "ok"
                  \/ f = del_pid_sysc(e, req[p].pid) /\ Listed(e, req[p].pid) /\ TakeOffList(p, e) /\ result = "ok"
<1>1. add_pid_sysc(e, req[p].pid) \in Entry BY AddPid
<1>2. Listed(e, req[p].pid) => del_pid_sysc(e, req[p].pid) \in Entry BY DelPid DEF Listed
<1> QED BY <1>1, <1>2 DEF PutOnList, TakeOffList

(* The four commands keep the types. *)
LEMMA UpdateTypes ==
    ASSUME TypeInv, NEW p \in Procs,
           \/ InterceptCall(p) \/ ReleaseCall(p) \/ StartAll(p) \/ StopAll(p)
           \/ StartPid(p) \/ StopPid(p)
    PROVE  TypeInv'
<1> DEFINE e == table[req[p].sys]
<1>1. at[p] = "update" BY DEF InterceptCall, ReleaseCall, StartAll, StopAll, StartPid, StopPid, Updating
<1>2. e \in Entry BY <1>1, UpdateFacts
<1>3. \A r \in {"none", "ok", "ENOMEM", "EINVAL"} : r \in Result BY DEF Result
<1>4. CASE InterceptCall(p)
  BY <1>2, <1>3, <1>4, CommandEntries, CommitTypes DEF InterceptCall
<1>5. CASE ReleaseCall(p)
  BY <1>2, <1>3, <1>5, CommandEntries, CommitTypes DEF ReleaseCall
<1>6. CASE StartAll(p)
  BY <1>2, <1>3, <1>6, CommandEntries, CommitTypes DEF StartAll
<1>7. CASE StopAll(p)
  BY <1>2, <1>3, <1>7, CommandEntries, CommitTypes DEF StopAll
<1>8. CASE StartPid(p) \/ StopPid(p)
  <2> DEFINE e1 == SomeMonitored(e)
  <2>1. PICK cmd \in Monitoring : Updating(p, cmd) /\ req[p].cmd = cmd /\ req[p].pid # 0
    BY <1>8 DEF StartPid, StopPid, Updating, Monitoring
  <2>2. req[p].pid \in Procs BY <1>1, <2>1, UpdateFacts
  <2>3. e1 \in Entry BY <1>2, SomeOnly
  <2>4. PutOnList(p, e1) \/ TakeOffList(p, e1) BY <1>8 DEF StartPid, StopPid
  <2> HIDE DEF e1
  <2>5. PICK f \in Entry, result \in {"ok", "ENOMEM", "EINVAL"} : Commit(p, f, "return", result)
    BY <1>1, <2>2, <2>3, <2>4, ListStep
  <2> QED BY <1>3, <2>1, <2>5, CommitTypes
<1> QED BY <1>4, <1>5, <1>6, <1>7, <1>8

(* The second critical section of INTERCEPT and RELEASE keeps the types. *)
LEMMA WriteHookTypes ==
    ASSUME TypeInv, NEW p \in Procs, WriteHook(p)
    PROVE  TypeInv'
<1>1. /\ at' = [at EXCEPT ![p] = "return"] /\ ret' = [ret EXCEPT ![p] = "ok"] /\ at[p] = "hook"
      /\ sys_call_table' = [sys_call_table EXCEPT ![req[p].sys] = Hook(req[p].cmd)]
      /\ UNCHANGED <<module, table, orig_exit_group, my_table_lock, req, scan>>
  BY DEF WriteHook, Go
<1>2. Request(p)'
  <2>1. at'[p] = "return" BY <1>1 DEF TypeInv, TypeOK
  <2> QED BY <2>1 DEF Request, InCommand
<1>3. Hook(req[p].cmd) \in Handler BY DEF Hook, Handler
<1>4. "return" \in Place /\ "ok" \in Result BY DEF Place, Result
<1> QED BY <1>1, <1>2, <1>3, <1>4, StepTypes DEF TypeInv, TypeOK

(* The return to user space keeps the types. *)
LEMMA LeaveTypes ==
    ASSUME TypeInv, NEW p \in Procs, Return(p) \/ InterceptorLeave(p)
    PROVE  TypeInv'
<1>1. /\ at' = [at EXCEPT ![p] = "user"] /\ at[p] \in {"return", "log"}
      /\ req' = [req EXCEPT ![p] = NoRequest] /\ (ret' = ret \/ ret' = [ret EXCEPT ![p] = "none"])
      /\ UNCHANGED <<module, table, sys_call_table, orig_exit_group, my_table_lock, scan>>
  BY DEF Return, InterceptorLeave, Go
<1>2. Request(p)'
  <2>1. at'[p] = "user" BY <1>1 DEF TypeInv, TypeOK
  <2> QED BY <2>1 DEF Request, InCommand
<1>3. "user" \in Place /\ "none" \in Result /\ NoRequest \in [cmd : Command \cup {"none"}, sys : Int, pid : Int]
  BY DEF Place, Result, NoRequest
<1>4. req' \in [Procs -> [cmd : Command \cup {"none"}, sys : Int, pid : Int]]
  BY <1>1, <1>3, Zenon DEF TypeInv, TypeOK
<1>6. ret' \in [Procs -> Result] BY <1>1, <1>3 DEF TypeInv, TypeOK
<1>7. at[p] \notin {"user", "dead"} BY <1>1
<1>8. /\ table' \in [Syscall -> Entry] /\ sys_call_table' \in [Syscall -> Handler]
      /\ my_table_lock' \in Procs \cup {Nobody} /\ scan' \in [Procs -> [s : 0..NR_syscalls, unlinked : Nat]]
  BY <1>1 DEF TypeInv, TypeOK
<1>5. \A q \in Procs \ {p} : req'[q] = req[q] /\ scan'[q] = scan[q] BY <1>1 DEF TypeInv, TypeOK
<1> QED BY <1>1, <1>2, <1>3, <1>4, <1>5, <1>6, <1>7, <1>8, StepTypes

(* Entering the kernel keeps the types. *)
LEMMA EnterTypes ==
    ASSUME TypeInv, NEW p \in Procs, NEW s \in Syscall, InterceptorEnter(p, s)
    PROVE  TypeInv'
<1> DEFINE r == [NoRequest EXCEPT !.sys = s]
<1>1. /\ at' = [at EXCEPT ![p] = "log"] /\ req' = [req EXCEPT ![p] = r]
      /\ UNCHANGED <<module, table, sys_call_table, orig_exit_group, my_table_lock, ret, scan>>
      /\ sys_call_table[s] = "interceptor"
  BY DEF InterceptorEnter
<1>2. r \in [cmd : Command \cup {"none"}, sys : Int, pid : Int] BY DEF NoRequest, Syscall
<1> HIDE DEF r
<1>3. TypeOK' BY <1>1, <1>2 DEF TypeInv, TypeOK, Place
<1>4. \A q \in Procs \ {p} : Request(q)' BY <1>1, OtherRequests DEF TypeInv, TypeOK
<1>5. Request(p)'
  <2>1. at'[p] = "log" BY <1>1 DEF TypeInv, TypeOK
  <2> QED BY <2>1 DEF Request, InCommand
<1>6. Pointers' BY <1>1 DEF TypeInv, Pointers
<1> QED BY <1>3, <1>4, <1>5, <1>6 DEF TypeInv, Requests

(* A process that exits. *)
LEMMA ExitTypes ==
    ASSUME TypeInv, NEW p \in Procs, Exit(p)
    PROVE  TypeInv'
<1>1. /\ at[p] = "user"
      /\ UNCHANGED <<module, table, sys_call_table, orig_exit_group, my_table_lock, req, ret>>
  BY DEF Exit
<1>2. \A q \in Procs \ {p} : Request(q)'
  BY <1>1, OtherRequests DEF Exit, TypeInv, TypeOK
<1>3. CASE sys_call_table[EXIT_GROUP] = "my_exit_group"
  <2>1. at' = [at EXCEPT ![p] = "scan"] /\ scan' = [scan EXCEPT ![p].s = 1] BY <1>3 DEF Exit
  <2>2. 1 \in 0..NR_syscalls /\ 1 \in 1..NR_syscalls BY NRAssumption
  <2> DEFINE c == scan[p]
             d == [c EXCEPT !.s = 1]
  <2>3. scan' = [scan EXCEPT ![p] = d] BY <2>1
  <2>4. d \in [s : 0..NR_syscalls, unlinked : Nat] /\ d.s = 1
    <3>1. c \in [s : 0..NR_syscalls, unlinked : Nat] BY DEF TypeInv, TypeOK
    <3> HIDE DEF c
    <3> QED BY <3>1, <2>2
  <2> HIDE DEF d
  <2>5. TypeOK' BY <1>1, <2>1, <2>3, <2>4 DEF TypeInv, TypeOK, Place
  <2>6. Request(p)'
    <3>1. at'[p] = "scan" /\ scan'[p].s = 1 BY <2>1, <2>3, <2>4 DEF TypeInv, TypeOK
    <3> QED BY <3>1, <2>2 DEF Request, InCommand
  <2>7. Pointers' BY <1>1, <1>3, Numbers DEF TypeInv, Pointers
  <2> QED BY <1>2, <2>5, <2>6, <2>7 DEF TypeInv, Requests
<1>4. CASE sys_call_table[EXIT_GROUP] # "my_exit_group"
  <2>1. at' = [at EXCEPT ![p] = "dead"] /\ scan' = scan BY <1>4 DEF Exit
  <2>2. "dead" \in Place BY DEF Place
  <2>3. Request(p)'
    <3>1. at'[p] = "dead" BY <2>1 DEF TypeInv, TypeOK
    <3> QED BY <3>1 DEF Request, InCommand
  <2> QED BY <1>1, <2>1, <2>2, <2>3, StepTypes DEF TypeInv, TypeOK
<1> QED BY <1>3, <1>4

(* The steps of del_pid keep the types. *)
LEMMA ScanTypes ==
    ASSUME TypeInv, NEW p \in Procs,
           ScanUnlink(p) \/ ScanCount(p) \/ ScanNext(p) \/ ExitDone(p)
    PROVE  TypeInv'
<1> DEFINE c == scan[p]
           C == [s : 0..NR_syscalls, unlinked : Nat]
<1>1. c \in C /\ c.s \in 0..NR_syscalls /\ c.unlinked \in Nat BY DEF TypeInv, TypeOK
<1>2. at[p] = "scan" => c.s \in 1..NR_syscalls BY DEF TypeInv, Requests, Request
<1>3. at[p] = "count" => c.s \in 1..(NR_syscalls - 1) BY DEF TypeInv, Requests, Request
<1>4. CASE ScanUnlink(p)
  <2> DEFINE n == table[c.s].my_list[p]
             d == [c EXCEPT !.unlinked = n]
  <2>1. /\ at[p] = "scan" /\ c.s < NR_syscalls
        /\ table' = [table EXCEPT ![c.s] = Unlink(@, p)]
        /\ scan' = [scan EXCEPT ![p] = d] /\ at' = [at EXCEPT ![p] = "count"]
        /\ UNCHANGED <<module, sys_call_table, orig_exit_group, my_table_lock, req, ret>>
    BY <1>4 DEF ScanUnlink
  <2>2. c.s \in Syscall /\ c.s \in 1..(NR_syscalls - 1) BY <1>2, <2>1, Numbers DEF Syscall
  <2>3. table[c.s] \in Entry BY <2>2 DEF TypeInv, TypeOK
  <2>4. n \in Nat /\ Unlink(table[c.s], p) \in Entry BY <2>3, EntryFields, UnlinkPid
  <2>5. d \in C /\ d.s = c.s
    <3> HIDE DEF c, n
    <3> QED BY <1>1, <2>4
  <2>6. table' \in [Syscall -> Entry] BY <2>1, <2>4 DEF TypeInv, TypeOK
  <2> HIDE DEF d
  <2>7. Request(p)'
    <3>1. at'[p] = "count" /\ scan'[p] = d BY <2>1 DEF TypeInv, TypeOK
    <3> QED BY <3>1, <2>2, <2>5 DEF Request, InCommand
  <2>8. "count" \in Place BY DEF Place
  <2>9. scan' \in [Procs -> C] /\ \A q \in Procs \ {p} : scan'[q] = scan[q]
    BY <2>1, <2>5 DEF TypeInv, TypeOK
  <2> QED BY <2>1, <2>6, <2>7, <2>8, <2>9, StepTypes DEF TypeInv, TypeOK
<1>5. CASE ScanCount(p)
  <2> DEFINE d == [s |-> c.s + 1, unlinked |-> 0]
  <2>1. /\ at[p] = "count" /\ table' = [table EXCEPT ![c.s] = CountDown(@, c.unlinked)]
        /\ scan' = [scan EXCEPT ![p] = d] /\ at' = [at EXCEPT ![p] = "scan"]
        /\ UNCHANGED <<module, sys_call_table, orig_exit_group, my_table_lock, req, ret>>
    BY <1>5 DEF ScanCount
  <2>2. c.s \in Syscall /\ c.s + 1 \in 1..NR_syscalls /\ c.s + 1 \in 0..NR_syscalls
    BY <1>3, <2>1, Numbers DEF Syscall
  <2>3. table[c.s] \in Entry BY <2>2 DEF TypeInv, TypeOK
  <2>4. CountDown(table[c.s], c.unlinked) \in Entry BY <1>1, <2>3, CountedDown
  <2>5. d \in C /\ d.s = c.s + 1 BY <2>2
  <2>6. table' \in [Syscall -> Entry] BY <2>1, <2>4 DEF TypeInv, TypeOK
  <2> HIDE DEF d
  <2>7. Request(p)'
    <3>1. at'[p] = "scan" /\ scan'[p] = d BY <2>1 DEF TypeInv, TypeOK
    <3> QED BY <3>1, <2>2, <2>5 DEF Request, InCommand
  <2>8. "scan" \in Place BY DEF Place
  <2>9. scan' \in [Procs -> C] /\ \A q \in Procs \ {p} : scan'[q] = scan[q]
    BY <2>1, <2>5 DEF TypeInv, TypeOK
  <2> QED BY <2>1, <2>6, <2>7, <2>8, <2>9, StepTypes DEF TypeInv, TypeOK
<1>6. CASE ScanNext(p)
  <2> DEFINE d == [c EXCEPT !.s = c.s + 1]
  <2>1. /\ at[p] = "scan" /\ c.s < NR_syscalls
        /\ scan' = [scan EXCEPT ![p] = d]
        /\ UNCHANGED <<module, table, at, sys_call_table, orig_exit_group, my_table_lock, req, ret>>
    BY <1>6 DEF ScanNext
  <2>2. c.s + 1 \in 1..NR_syscalls /\ c.s + 1 \in 0..NR_syscalls BY <1>2, <2>1, Numbers
  <2>5. d \in C /\ d.s = c.s + 1
    <3> HIDE DEF c
    <3> QED BY <1>1, <2>2
  <2> HIDE DEF d
  <2>7. Request(p)'
    <3>1. at'[p] = "scan" /\ scan'[p] = d BY <2>1 DEF TypeInv, TypeOK
    <3> QED BY <3>1, <2>2, <2>5 DEF Request, InCommand
  <2>8. "scan" \in Place /\ at' = [at EXCEPT ![p] = "scan"] BY <2>1 DEF Place, TypeInv, TypeOK
  <2>9. scan' \in [Procs -> C] /\ \A q \in Procs \ {p} : scan'[q] = scan[q]
    BY <2>1, <2>5 DEF TypeInv, TypeOK
  <2> QED BY <2>1, <2>7, <2>8, <2>9, StepTypes DEF TypeInv, TypeOK
<1>7. CASE ExitDone(p)
  <2> DEFINE d == [c EXCEPT !.s = 0]
  <2>1. PICK place \in {"oops", "dead"} : at' = [at EXCEPT ![p] = place]
    BY <1>7 DEF ExitDone
  <2>2. /\ at[p] = "scan" /\ scan' = [scan EXCEPT ![p] = d]
        /\ UNCHANGED <<module, table, sys_call_table, orig_exit_group, my_table_lock, req, ret>>
    BY <1>7 DEF ExitDone
  <2>5. d \in C
    <3>1. 0 \in 0..NR_syscalls BY Numbers
    <3> HIDE DEF c
    <3> QED BY <1>1, <3>1
  <2> HIDE DEF d
  <2>7. Request(p)'
    <3>1. at'[p] = place BY <2>1 DEF TypeInv, TypeOK
    <3> QED BY <3>1 DEF Request, InCommand
  <2>8. place \in Place BY DEF Place
  <2>9. scan' \in [Procs -> C] /\ \A q \in Procs \ {p} : scan'[q] = scan[q]
    BY <2>2, <2>5 DEF TypeInv, TypeOK
  <2> QED BY <2>1, <2>2, <2>7, <2>8, <2>9, StepTypes DEF TypeInv, TypeOK
<1> QED BY <1>4, <1>5, <1>6, <1>7

(* So does a step of something else. *)
LEMMA StuttersTypes == TypeInv /\ UNCHANGED vars => TypeInv'
  BY DEF vars, TypeInv, TypeOK, Requests, Request, Pointers

(* Types are kept by every step. *)
LEMMA NextTypes == TypeInv /\ [Next]_vars => TypeInv'
<1> SUFFICES ASSUME TypeInv, [Next]_vars PROVE TypeInv' OBVIOUS
<1>1. ASSUME NEW p \in Procs, KernelStep(p) PROVE TypeInv'
  BY <1>1, CheckTypes, LockTypes, UpdateTypes, WriteHookTypes, LeaveTypes, ScanTypes DEF KernelStep
<1> QED BY <1>1, ModuleTypes, CallTypes, EnterTypes, ExitTypes, StuttersTypes DEF Next, Idle

(* Types, requests and pointers are as TypeInv says at all times. *)
LEMMA TypesHold == Spec => []TypeInv
<1> QED BY InitTypes, NextTypes, PTL DEF Spec

(* Every variable keeps its type, also while processes are in the kernel as *)
(* the module comes and goes.                                              *)
THEOREM TypeOKHolds == Spec => []TypeOK
<1>1. TypeInv => TypeOK BY DEF TypeInv
<1> QED BY <1>1, TypesHold, PTL

-----------------------------------------------------------------------------
(* Permissions.                                                            *)

(* Only a process itself leaves its critical section. *)
LEMMA OwnStep ==
    ASSUME TypeInv, [Next]_vars, NEW p \in Procs, at[p] = "update", at'[p] # "update"
    PROVE  \/ InterceptCall(p) \/ ReleaseCall(p) \/ StartAll(p) \/ StopAll(p)
           \/ StartPid(p) \/ StopPid(p)
<1>1. CASE ModuleStep
  BY <1>1 DEF ModuleStep, InitTable, InitHooks, ExitHooks, ExitRestore, ExitCleanup
<1>2. ASSUME NEW q \in Procs,
             \/ \E cmd \in Command, s \in SyscallArgs, pid \in PidArgs : Call(q, cmd, s, pid)
             \/ \E s \in Syscall : InterceptorEnter(q, s)
             \/ Exit(q)
      PROVE  FALSE
  <2>1. at[q] = "user" BY <1>2 DEF Call, InterceptorEnter, Exit
  <2>2. \E place : at' = [at EXCEPT ![q] = place]
    BY <1>2 DEF Call, InterceptorEnter, Exit, Go
  <2> QED BY <2>1, <2>2 DEF TypeInv, TypeOK
<1>3. ASSUME NEW q \in Procs, KernelStep(q)
      PROVE  \/ InterceptCall(p) \/ ReleaseCall(p) \/ StartAll(p) \/ StopAll(p)
             \/ StartPid(p) \/ StopPid(p)
  <2>1. \E place : at' = [at EXCEPT ![q] = place]
    <3>1. at \in [Procs -> Place] BY DEF TypeInv, TypeOK
    <3>2. at = [at EXCEPT ![q] = at[q]] BY <3>1
    <3>3. CASE \/ InterceptCall(q) \/ ReleaseCall(q) \/ StartAll(q) \/ StopAll(q)
               \/ StartPid(q) \/ StopPid(q)
      BY <3>3 DEF InterceptCall, ReleaseCall, StartAll, StopAll, StartPid, StopPid,
                  PutOnList, TakeOffList, Commit, Go
    <3>4. CASE ScanUnlink(q) \/ ScanCount(q) \/ ScanNext(q) \/ ExitDone(q)
      BY <3>2, <3>4 DEF ScanUnlink, ScanCount, ScanNext, ExitDone
    <3>5. CASE \/ CheckContext(q) \/ CheckWalk(q) \/ Lock(q) \/ WriteHook(q) \/ Return(q)
               \/ InterceptorLeave(q)
      BY <3>5 DEF CheckContext, CheckWalk, Lock, WriteHook, Return, InterceptorLeave, Go
    <3> QED BY <1>3, <3>3, <3>4, <3>5 DEF KernelStep
  <2>2. q = p BY <2>1 DEF TypeInv, TypeOK
  <2> QED
    BY <1>3, <2>2 DEF KernelStep, CheckContext, CheckWalk, Lock, WriteHook, Return, InterceptorLeave,
                      ScanUnlink, ScanCount, ScanNext, ExitDone
<1>4. CASE UNCHANGED vars BY <1>4 DEF vars
<1> QED BY <1>1, <1>2, <1>3, <1>4 DEF Next, Idle

(* What one step of a caller that is not root may change. *)
LEMMA NonRootStep ==
    ASSUME TypeInv, [Next]_vars, NEW p \in Procs \ Root, NEW s \in Syscall,
           at[p] = "update", at'[p] # "update"
    PROVE  /\ table'[s].intercepted = table[s].intercepted
           /\ table'[s].list_inversed = table[s].list_inversed
           /\ \A q \in Procs : Listed(table'[s], q) # Listed(table[s], q) => Owner[q] = Owner[p]
<1> DEFINE x == req[p].sys
           e == table[x]
           e1 == SomeMonitored(e)
           pid == req[p].pid
<1>1. req[p].cmd \in Monitoring /\ pid \in Procs /\ pid # 0 /\ Owner[pid] = Owner[p]
  BY UpdateFacts, ProcsAssumption
     DEF TypeInv, Requests, Request, InCommand, NotPermitted, SameOwner
<1>2. StartPid(p) \/ StopPid(p)
  BY <1>1, OwnStep DEF InterceptCall, ReleaseCall, StartAll, StopAll, Updating, Monitoring
<1>3. e \in Entry /\ x \in Syscall BY UpdateFacts
<1>4. e1 \in Entry /\ e1.my_list = e.my_list /\ e1.intercepted = e.intercepted
      /\ e1.list_inversed = e.list_inversed
  BY <1>3, SomeOnly
<1>5. PutOnList(p, e1) \/ TakeOffList(p, e1) BY <1>2 DEF StartPid, StopPid
<1>6. PICK f \in Entry, result \in {"ok", "ENOMEM", "EINVAL"} :
        /\ Commit(p, f, "return", result)
        /\ f = e1 \/ f = add_pid_sysc(e1, pid) \/ (f = del_pid_sysc(e1, pid) /\ Listed(e1, pid))
  <2> HIDE DEF e1
  <2> QED BY <1>1, <1>4, <1>5, ListStep
<1>7. /\ f.intercepted = e.intercepted /\ f.list_inversed = e.list_inversed
      /\ \A q \in Procs \ {pid} : f.my_list[q] = e.my_list[q]
  <2>1. e1.my_list \in [Procs -> Nat] BY <1>4, EntryFields
  <2> HIDE DEF e1, pid
  <2>2. CASE f = e1 BY <2>2, <1>4
  <2>3. CASE f = add_pid_sysc(e1, pid)
    <3>1. f.my_list = [e1.my_list EXCEPT ![pid] = @ + 1] /\ f.intercepted = e1.intercepted
          /\ f.list_inversed = e1.list_inversed
      BY <2>3, <1>1, <1>4, AddPid
    <3> QED BY <3>1, <2>1, <1>1, <1>4
  <2>4. CASE f = del_pid_sysc(e1, pid) /\ Listed(e1, pid)
    <3>1. f.my_list = [e1.my_list EXCEPT ![pid] = @ - 1] /\ f.intercepted = e1.intercepted
          /\ f.list_inversed = e1.list_inversed
      BY <2>4, <1>1, <1>4, DelPid DEF Listed
    <3> QED BY <3>1, <2>1, <1>1, <1>4
  <2> QED BY <1>6, <2>2, <2>3, <2>4
<1>8. table' = [table EXCEPT ![x] = f] BY <1>6 DEF Commit
<1>9. table'[s] = IF s = x THEN f ELSE table[s] BY <1>8 DEF TypeInv, TypeOK
<1>10. \A q \in Procs : q # pid => (Listed(table'[s], q) <=> Listed(table[s], q))
  BY <1>7, <1>9 DEF Listed
<1> QED
  <2>1. table'[s].intercepted = table[s].intercepted /\ table'[s].list_inversed = table[s].list_inversed
    BY <1>7, <1>9
  <2>2. ASSUME NEW q \in Procs, Listed(table'[s], q) # Listed(table[s], q) PROVE Owner[q] = Owner[p]
    <3>1. q = pid
      <4>1. Listed(table'[s], q) \in BOOLEAN /\ Listed(table[s], q) \in BOOLEAN BY Zenon DEF Listed
      <4> QED BY <1>10, <2>2, <4>1
    <3> QED BY <3>1, <1>1
  <2> QED BY <2>1, <2>2

(* A command of whoever is not root never changes what is intercepted, nor   *)
(* the sense of a list, and puts on a list or takes off it only processes of *)
(* its own, with any number of processors: the permissions are checked       *)
(* before the lock is taken, and nothing a command of another process does   *)
(* in between makes them wrong.                                              *)
THEOREM NonRootConfinedHolds == Spec => NonRootConfined
<1>1. TypeInv /\ [Next]_vars =>
        [\A p \in Procs \ Root, s \in Syscall :
           at[p] = "update" /\ at'[p] # "update" =>
               /\ table'[s].intercepted = table[s].intercepted
               /\ table'[s].list_inversed = table[s].list_inversed
               /\ \A q \in Procs :
                      Listed(table'[s], q) # Listed(table[s], q) => Owner[q] = Owner[p]]_vars
  BY NonRootStep
<1> QED BY <1>1, TypesHold, PTL DEF Spec, NonRootConfined

-----------------------------------------------------------------------------
(* One processor, and exit_group not intercepted by command.               *)

OneProcessor == CPUS = 1 /\ EXIT_GROUP \notin SyscallArgs

(* One process in the kernel at a time, and none while the module comes or *)
(* goes.                                                                   *)
Alone ==
    /\ \A p, q \in Inside : p = q
    /\ module # "loaded" => Inside = {}

ByModule ==
    /\ module \in {"unloaded", "hooking"} => \A s \in Syscall : table[s] = EmptyEntry
    /\ module = "loaded" => sys_call_table[EXIT_GROUP] = "my_exit_group"
    /\ module \in {"unhooked", "restored", "gone"} =>
           /\ sys_call_table[MY_CUSTOM_SYSCALL] = "original"
           /\ sys_call_table[EXIT_GROUP] = "original"
    /\ module \in {"restored", "gone"} => \A s \in Syscall : sys_call_table[s] = "original"
    /\ module = "gone" => \A s \in Syscall : table[s].my_list = EmptyList

OnList(e) == {q \in Procs : Listed(e, q)}

(* The list of an entry, n of whose pids are unlinked but still counted.   *)
ListOK(e, n) ==
    /\ \A q \in Procs : e.my_list[q] \in {0, 1}
    /\ IsFiniteSet(OnList(e)) /\ e.listcount = Cardinality(OnList(e)) + n
    /\ e.my_list # EmptyList => e.monitored = 1 /\ ~e.list_inversed
    /\ e.monitored \in {0, 1}

Uncounted(s) == IF \E p \in Procs : at[p] = "count" /\ scan[p].s = s THEN 1 ELSE 0

Lists ==
    /\ \A s \in Syscall : ListOK(table[s], Uncounted(s))
    /\ table[MY_CUSTOM_SYSCALL].my_list = EmptyList

(* What the place of a process says: the checks that it made still hold    *)
(* when it acts on them.                                                   *)
Progress(p) ==
    LET cmd == req[p].cmd
        pid == req[p].pid
        listed == Listed(table[req[p].sys], pid)
    IN  /\ scan[p].unlinked = IF at[p] = "count" THEN 1 ELSE 0
        /\ at[p] \in InCommand /\ cmd \in Monitoring /\ pid # 0 => at[pid] # "dead"
        /\ at[p] \in {"lock", "update"} /\ cmd \in Monitoring /\ pid # 0 => (cmd = "START" <=> ~listed)
        /\ at[p] = "hook" => /\ cmd \in {"INTERCEPT", "RELEASE"}
                             /\ table[req[p].sys].intercepted = 1 <=> cmd = "INTERCEPT"
        /\ at[p] = "return" /\ ret[p] = "ok" /\ cmd \in Monitoring /\ pid # 0 =>
               req[p].sys \in Syscall /\ (cmd = "START" <=> listed)
        /\ at[p] \in {"scan", "count"} =>
               \A s \in Syscall : s < scan[p].s => ~Listed(table[s], p)
        /\ at[p] = "count" => ~Listed(table[scan[p].s], p)

SInv ==
    /\ TypeInv
    /\ Alone
    /\ ByModule
    /\ HookedIffIntercepted
    /\ Lists
    /\ DeadPidsForgotten
    /\ \A p \in Procs : Progress(p)

(* What the operations do to the list of an entry.                         *)

(* Who is on a list depends on the list only. *)
LEMMA OnListOfList ==
    ASSUME NEW e, NEW f, f.my_list = e.my_list
    PROVE  OnList(f) = OnList(e) /\ \A q : Listed(f, q) <=> Listed(e, q)
  BY DEF OnList, Listed

(* An empty list with counter zero is in order. *)
LEMMA EmptyListOK ==
    ASSUME NEW e, e.my_list = EmptyList, e.listcount = 0, e.monitored \in {0, 1}
    PROVE  ListOK(e, 0) /\ \A q : ~Listed(e, q)
<1>1. \A q \in Procs : e.my_list[q] = 0 BY DEF EmptyList
<1>2. OnList(e) = {} BY <1>1 DEF OnList, Listed
<1>3. IsFiniteSet(OnList(e)) /\ Cardinality(OnList(e)) = 0 BY <1>2, FS_EmptySet
<1> QED BY <1>1, <1>3 DEF ListOK, Listed

(* A list stays in order if its fields stay. *)
LEMMA SameListOK ==
    ASSUME NEW e, NEW f, NEW n, ListOK(e, n), f.my_list = e.my_list, f.listcount = e.listcount,
           f.list_inversed = e.list_inversed, f.monitored \in {1, e.monitored}
    PROVE  ListOK(f, n)
<1>1. OnList(f) = OnList(e) BY OnListOfList
<1> QED BY <1>1 DEF ListOK

(* Nobody is on an empty list. *)
LEMMA OnListEmpty ==
    ASSUME NEW e \in Entry, \A q \in Procs : e.my_list[q] \in {0, 1}
    PROVE  e.my_list = EmptyList <=> OnList(e) = {}
<1>1. e.my_list = [q \in Procs |-> e.my_list[q]] BY EntryFields
<1>2. CASE OnList(e) = {}
  <2>1. \A q \in Procs : e.my_list[q] = 0 BY <1>2 DEF OnList, Listed
  <2> QED BY <1>1, <1>2, <2>1 DEF EmptyList
<1>3. CASE e.my_list = EmptyList BY <1>3 DEF EmptyList, OnList, Listed
<1> QED BY <1>2, <1>3

(* A list is in order after a pid that was not on it was added. *)
LEMMA AddedListOK ==
    ASSUME NEW e \in Entry, NEW pid \in Procs, ListOK(e, 0), ~Listed(e, pid),
           e.monitored = 1, ~e.list_inversed
    PROVE  ListOK(add_pid_sysc(e, pid), 0) /\ Listed(add_pid_sysc(e, pid), pid)
<1> DEFINE f == add_pid_sysc(e, pid)
<1>1. /\ f \in Entry /\ f.my_list = [e.my_list EXCEPT ![pid] = @ + 1]
      /\ f.listcount = e.listcount + 1 /\ f.monitored = 1 /\ ~f.list_inversed
  BY AddPid
<1>2. e.my_list \in [Procs -> Nat] /\ e.my_list[pid] = 0
  BY EntryFields DEF ListOK, Listed
<1> HIDE DEF f
<1>3. f.my_list[pid] = 1 /\ \A q \in Procs \ {pid} : f.my_list[q] = e.my_list[q] BY <1>1, <1>2
<1>4. OnList(f) = OnList(e) \cup {pid} /\ pid \notin OnList(e) BY <1>2, <1>3 DEF OnList, Listed
<1>5. IsFiniteSet(OnList(f)) /\ Cardinality(OnList(f)) = Cardinality(OnList(e)) + 1
  BY <1>4, FS_AddElement DEF ListOK
<1>6. Cardinality(OnList(e)) \in Nat BY FS_CardinalityType DEF ListOK
<1>7. ListOK(f, 0)
  <2>1. \A q \in Procs : f.my_list[q] \in {0, 1} BY <1>3 DEF ListOK
  <2>2. f.listcount = Cardinality(OnList(f)) + 0 BY <1>1, <1>5, <1>6 DEF ListOK
  <2> QED BY <1>1, <1>5, <2>1, <2>2 DEF ListOK
<1>8. Listed(f, pid) BY <1>3 DEF Listed
<1> QED BY <1>7, <1>8 DEF f

(* One pid less on a list. *)
LEMMA Removed ==
    ASSUME NEW e \in Entry, NEW n, NEW pid \in Procs, ListOK(e, n), Listed(e, pid),
           NEW f \in Entry, f.my_list = [e.my_list EXCEPT ![pid] = 0]
    PROVE  /\ \A q \in Procs : f.my_list[q] \in {0, 1}
           /\ IsFiniteSet(OnList(f)) /\ Cardinality(OnList(f)) = Cardinality(OnList(e)) - 1
           /\ Cardinality(OnList(e)) \in Nat
           /\ ~Listed(f, pid)
           /\ \A q \in Procs : Listed(f, q) => Listed(e, q)
           /\ e.my_list # EmptyList
<1>1. e.my_list \in [Procs -> Nat] BY EntryFields
<1>2. f.my_list[pid] = 0 /\ \A q \in Procs \ {pid} : f.my_list[q] = e.my_list[q] BY <1>1
<1>3. OnList(f) = OnList(e) \ {pid} /\ pid \in OnList(e) BY <1>2 DEF OnList, Listed
<1>4. IsFiniteSet(OnList(f)) /\ Cardinality(OnList(f)) = Cardinality(OnList(e)) - 1
      /\ Cardinality(OnList(e)) \in Nat
  BY <1>3, FS_RemoveElement, FS_CardinalityType DEF ListOK
<1>5. e.my_list # EmptyList BY DEF Listed, EmptyList
<1>6. \A q \in Procs : f.my_list[q] \in {0, 1} BY <1>2 DEF ListOK
<1>7. \A q \in Procs : Listed(f, q) => Listed(e, q) BY <1>2 DEF Listed
<1>8. ~Listed(f, pid) BY <1>2 DEF Listed
<1> QED BY <1>4, <1>5, <1>6, <1>7, <1>8

(* A list is in order after del_pid_sysc. *)
LEMMA DeletedListOK ==
    ASSUME NEW e \in Entry, NEW pid \in Procs, ListOK(e, 0), Listed(e, pid)
    PROVE  ListOK(del_pid_sysc(e, pid), 0) /\ ~Listed(del_pid_sysc(e, pid), pid)
<1> DEFINE f == del_pid_sysc(e, pid)
<1>1. e.my_list[pid] = 1 BY DEF ListOK, Listed
<1>2. /\ f \in Entry /\ f.my_list = [e.my_list EXCEPT ![pid] = @ - 1]
      /\ f.listcount = e.listcount - 1 /\ f.monitored \in {0, e.monitored}
      /\ e.listcount # 1 => f.monitored = e.monitored
      /\ f.list_inversed = e.list_inversed
  BY <1>1, DelPid
<1>3. e.my_list \in [Procs -> Nat] BY EntryFields
<1>4. f.my_list = [e.my_list EXCEPT ![pid] = 0] BY <1>1, <1>2, <1>3
<1> HIDE DEF f
<1>5. /\ \A q \in Procs : f.my_list[q] \in {0, 1}
      /\ IsFiniteSet(OnList(f)) /\ Cardinality(OnList(f)) = Cardinality(OnList(e)) - 1
      /\ Cardinality(OnList(e)) \in Nat /\ ~Listed(f, pid)
      /\ e.my_list # EmptyList
  BY <1>2, <1>4, Removed
<1>6. e.listcount = Cardinality(OnList(e)) BY <1>5 DEF ListOK
<1>11. e.monitored = 1 /\ ~e.list_inversed BY <1>5 DEF ListOK
<1>7. f.my_list # EmptyList => f.monitored = 1 /\ ~f.list_inversed
  <2>1. e.listcount = 1 => Cardinality(OnList(f)) = 0 BY <1>5, <1>6
  <2>2. Cardinality(OnList(f)) = 0 => OnList(f) = {} BY <1>5, FS_EmptySet
  <2>3. OnList(f) = {} => f.my_list = EmptyList BY <1>2, <1>5, OnListEmpty
  <2> QED BY <1>2, <1>11, <2>1, <2>2, <2>3
<1>8. f.listcount = Cardinality(OnList(f)) + 0 BY <1>2, <1>5, <1>6
<1>9. f.monitored \in {0, 1} BY <1>2, <1>11
<1>10. ListOK(f, 0) BY <1>5, <1>7, <1>8, <1>9 DEF ListOK
<1> QED BY <1>5, <1>10 DEF f

(* After del_pid has unlinked a pid, one too many is counted. *)
LEMMA UnlinkedListOK ==
    ASSUME NEW e \in Entry, NEW pid \in Procs, ListOK(e, 0), Listed(e, pid)
    PROVE  ListOK(Unlink(e, pid), 1) /\ ~Listed(Unlink(e, pid), pid)
<1> DEFINE f == Unlink(e, pid)
<1>1. /\ f \in Entry /\ f.my_list = [e.my_list EXCEPT ![pid] = 0]
      /\ f.listcount = e.listcount /\ f.monitored = e.monitored
      /\ f.list_inversed = e.list_inversed
  BY UnlinkPid
<1> HIDE DEF f
<1>2. /\ \A q \in Procs : f.my_list[q] \in {0, 1}
      /\ IsFiniteSet(OnList(f)) /\ Cardinality(OnList(f)) = Cardinality(OnList(e)) - 1
      /\ Cardinality(OnList(e)) \in Nat /\ ~Listed(f, pid)
      /\ e.my_list # EmptyList
  BY <1>1, Removed
<1>3. f.listcount = Cardinality(OnList(f)) + 1 BY <1>1, <1>2 DEF ListOK
<1>4. ListOK(f, 1) BY <1>1, <1>2, <1>3 DEF ListOK
<1> QED BY <1>2, <1>4 DEF f

(* After del_pid has counted down, the list is in order. *)
LEMMA CountedListOK ==
    ASSUME NEW e \in Entry, ListOK(e, 1)
    PROVE  ListOK(CountDown(e, 1), 0)
<1> DEFINE f == CountDown(e, 1)
<1>1. /\ f \in Entry /\ f.my_list = e.my_list /\ f.listcount = e.listcount - 1
      /\ f.monitored \in {0, e.monitored} /\ f.list_inversed = e.list_inversed
      /\ e.listcount # 1 => f.monitored = e.monitored
  BY CountedDown
<1> HIDE DEF f
<1>2. OnList(f) = OnList(e) BY <1>1, OnListOfList
<1>3. Cardinality(OnList(e)) \in Nat BY FS_CardinalityType DEF ListOK
<1>4. e.listcount = 1 => f.my_list = EmptyList
  <2>1. e.listcount = 1 => Cardinality(OnList(e)) = 0 BY <1>3 DEF ListOK
  <2>2. Cardinality(OnList(e)) = 0 => OnList(e) = {} BY FS_EmptySet DEF ListOK
  <2> QED BY <1>1, <2>1, <2>2, OnListEmpty DEF ListOK
<1>5. f.listcount = Cardinality(OnList(f)) + 0 BY <1>1, <1>2, <1>3 DEF ListOK
<1>6. f.monitored \in {0, 1} BY <1>1 DEF ListOK
<1>7. f.my_list # EmptyList => f.monitored = 1 /\ ~f.list_inversed BY <1>1, <1>4 DEF ListOK
<1>8. ListOK(f, 0) BY <1>1, <1>2, <1>5, <1>6, <1>7 DEF ListOK
<1> QED BY <1>8 DEF f

-----------------------------------------------------------------------------
(* Steps with one processor.                                               *)

Outside == {"user", "dead", "oops"}

(* To be in the kernel is to be at a place that is not outside. *)
LEMMA InsideIff == \A p \in Procs : p \in Inside <=> at[p] \notin Outside
  BY DEF Inside, Outside

(* The program begins in SInv. *)
LEMMA InitSequential == Init => SInv
<1> SUFFICES ASSUME Init PROVE SInv OBVIOUS
<1>1. TypeInv BY InitTypes
<1>2. Inside = {} BY DEF Init, Inside
<1>3. Alone /\ ByModule /\ HookedIffIntercepted BY <1>2 DEF Init, Alone, ByModule, HookedIffIntercepted
<1>4. \A s \in Syscall : table[s] = EmptyEntry /\ Uncounted(s) = 0 BY DEF Init, Uncounted
<1>5. ListOK(EmptyEntry, 0) /\ \A q : ~Listed(EmptyEntry, q)
  BY EmptyListOK DEF EmptyEntry
<1>6. Lists BY <1>4, <1>5, Numbers, EmptyEntryIsEntry DEF Lists, MY_CUSTOM_SYSCALL
<1>7. DeadPidsForgotten BY <1>4, <1>5 DEF DeadPidsForgotten
<1>8. \A p \in Procs : Progress(p)
  <2> TAKE p \in Procs
  <2>1. at[p] = "user" /\ scan[p].unlinked = 0 BY DEF Init
  <2> QED BY <2>1 DEF Progress, InCommand
<1> QED BY <1>1, <1>3, <1>6, <1>7, <1>8 DEF SInv

(* Who enters the kernel finds it empty. *)
LEMMA Entering ==
    ASSUME OneProcessor, SInv, CanEnter
    PROVE  Inside = {} /\ module \notin {"hooking", "unhooked", "restored"}
<1>1. CASE Inside = {}
  <2>1. Cardinality(Inside) = 0 BY <1>1, FS_EmptySet
  <2> QED BY <1>1, <2>1 DEF CanEnter, OneProcessor
<1>2. CASE Inside # {}
  <2>1. PICK p : p \in Inside BY <1>2
  <2>2. Inside = {p} BY <2>1 DEF SInv, Alone
  <2>3. Cardinality(Inside) = 1 BY <2>2, FS_Singleton
  <2> QED BY <2>3 DEF CanEnter, OneProcessor
<1> QED BY <1>1, <1>2

(* Who is in the kernel is there alone. *)
LEMMA Sole ==
    ASSUME SInv, NEW p \in Procs, at[p] \notin Outside
    PROVE  /\ module = "loaded" /\ sys_call_table[EXIT_GROUP] = "my_exit_group"
           /\ \A q \in Procs \ {p} : at[q] \in Outside
           /\ \A s : Uncounted(s) = IF at[p] = "count" /\ scan[p].s = s THEN 1 ELSE 0
<1>1. p \in Inside BY InsideIff
<1>2. module = "loaded" BY <1>1 DEF SInv, Alone
<1>3. \A q \in Procs \ {p} : at[q] \in Outside BY <1>1, InsideIff DEF SInv, Alone
<1>4. \A s : Uncounted(s) = IF at[p] = "count" /\ scan[p].s = s THEN 1 ELSE 0
  BY <1>3 DEF Uncounted, Outside
<1> QED BY <1>2, <1>3, <1>4 DEF SInv, ByModule

(* What has to be shown of a step of the one process in the kernel. *)
LEMMA SoleStep ==
    ASSUME SInv, TypeInv', NEW p \in Procs, at[p] \notin Outside, NEW place \in Place,
           at' = [at EXCEPT ![p] = place], module' = module,
           sys_call_table'[EXIT_GROUP] = sys_call_table[EXIT_GROUP],
           \A q \in Procs \ {p} : scan'[q] = scan[q],
           HookedIffIntercepted', Lists', DeadPidsForgotten', Progress(p)'
    PROVE  SInv'
<1>1. module = "loaded" /\ sys_call_table[EXIT_GROUP] = "my_exit_group" BY Sole
<1>2. \A q \in Procs \ {p} : at'[q] = at[q] /\ at[q] \in Outside
  BY Sole DEF SInv, TypeInv, TypeOK
<1>3. Inside' \subseteq {p} BY <1>2 DEF Inside, Outside
<1>4. Alone' BY <1>1, <1>3 DEF Alone
<1>5. ByModule' BY <1>1 DEF ByModule
<1>6. ASSUME NEW q \in Procs \ {p} PROVE Progress(q)'
  <2>1. scan[q].unlinked = 0 BY <1>2, <1>6 DEF SInv, Progress, Outside
  <2> QED BY <1>2, <1>6, <2>1 DEF Progress, Outside, InCommand
<1> QED BY <1>4, <1>5, <1>6 DEF SInv

(* A step that changes neither the tables nor who counts, hooks or is dead. *)
LEMMA PassiveStep ==
    ASSUME SInv, TypeInv', NEW p \in Procs, at[p] \notin Outside \cup {"count", "hook"},
           NEW place \in Place \ {"count", "hook", "dead"},
           at' = [at EXCEPT ![p] = place], module' = module,
           UNCHANGED <<table, sys_call_table, scan>>, Progress(p)'
    PROVE  SInv'
<1>1. /\ \A q \in Procs \ {p} : at[q] \in Outside
      /\ \A s : Uncounted(s) = 0
  BY Sole
<1>2. \A q \in Procs : at'[q] = IF q = p THEN place ELSE at[q] BY DEF SInv, TypeInv, TypeOK
<1>3. \A q \in Procs : at[q] # "hook" BY <1>1 DEF Outside
<1>4. HookedIffIntercepted' BY <1>3 DEF SInv, HookedIffIntercepted
<1>5. \A s : Uncounted(s)' = 0 BY <1>1, <1>2 DEF Uncounted, Outside
<1>6. Lists'
  <2>1. \A s \in Syscall : ListOK(table[s], 0) BY <1>1 DEF SInv, Lists
  <2>2. \A s \in Syscall : ListOK(table'[s], Uncounted(s)') BY <2>1, <1>5
  <2>3. table'[MY_CUSTOM_SYSCALL].my_list = EmptyList BY DEF SInv, Lists
  <2> QED BY <2>2, <2>3 DEF Lists, ListOK, OnList, Listed, EmptyList
<1>7. DeadPidsForgotten' BY <1>2 DEF SInv, DeadPidsForgotten, Listed
<1> QED BY <1>4, <1>6, <1>7, SoleStep

(* The checks before the lock keep SInv; what they find is what Progress says. *)
LEMMA ChecksKeep ==
    ASSUME OneProcessor, SInv, TypeInv', NEW p \in Procs, CheckContext(p) \/ CheckWalk(p) \/ Lock(p)
    PROVE  SInv'
<1> DEFINE cmd == req[p].cmd
           pid == req[p].pid
           listed == Listed(table[req[p].sys], pid)
<1>1. at[p] \in {"context", "walk", "lock"} BY DEF CheckContext, CheckWalk, Lock
<1>2. UNCHANGED <<module, table, sys_call_table, req, scan>> BY DEF CheckContext, CheckWalk, Lock
<1>3. PICK place \in {"return", "walk", "lock", "update"} :
        /\ at' = [at EXCEPT ![p] = place]
        /\ place = "return" => ret' = [ret EXCEPT ![p] = "EBUSY"] \/ ret' = [ret EXCEPT ![p] = "EINVAL"]
        /\ place = "lock" /\ cmd \in Monitoring /\ pid # 0 => (cmd = "START" <=> ~listed)
        /\ place = "update" => at[p] = "lock"
  BY DEF CheckContext, CheckWalk, Lock, Go, Monitoring
<1>4. Progress(p)'
  <2>1. at'[p] = place BY <1>3 DEF SInv, TypeInv, TypeOK
  <2>2. at[p] \in InCommand BY <1>1 DEF InCommand
  <2>3. Progress(p) BY DEF SInv
  <2>4. pid # 0 /\ cmd \in Monitoring => at'[pid] # "dead"
    <3>1. pid # 0 /\ cmd \in Monitoring => at[pid] # "dead" /\ pid \in Procs
      BY <2>2, <2>3 DEF Progress, SInv, TypeInv, Requests, Request
    <3> QED BY <3>1, <1>3 DEF SInv, TypeInv, TypeOK
  <2>5. place \in {"lock", "update"} /\ cmd \in Monitoring /\ pid # 0 => (cmd = "START" <=> ~listed)
    BY <1>3, <2>3 DEF Progress
  <2>6. place = "return" => ret'[p] # "ok" BY <1>3 DEF SInv, TypeInv, TypeOK
  <2>7. scan'[p].unlinked = 0 BY <1>1, <1>2, <2>3 DEF Progress
  <2> QED BY <1>2, <2>1, <2>4, <2>5, <2>6, <2>7 DEF Progress, Listed
<1>5. place \in Place \ {"count", "hook", "dead"} BY DEF Place
<1> QED BY <1>1, <1>2, <1>3, <1>4, <1>5, PassiveStep DEF Outside

(* The return to user space keeps SInv. *)
LEMMA LeaveKeeps ==
    ASSUME OneProcessor, SInv, TypeInv', NEW p \in Procs, Return(p) \/ InterceptorLeave(p)
    PROVE  SInv'
<1>1. /\ at[p] \in {"return", "log"} /\ at' = [at EXCEPT ![p] = "user"]
      /\ UNCHANGED <<module, table, sys_call_table, scan>>
  BY DEF Return, InterceptorLeave, Go
<1>2. Progress(p)'
  <2>1. at'[p] = "user" BY <1>1 DEF SInv, TypeInv, TypeOK
  <2>2. scan'[p].unlinked = 0 BY <1>1 DEF SInv, Progress
  <2> QED BY <2>1, <2>2 DEF Progress, InCommand
<1>3. "user" \in Place \ {"count", "hook", "dead"} BY DEF Place
<1> QED BY <1>1, <1>2, <1>3, PassiveStep DEF Outside

(* The end of a critical section that leaves entry f. *)
LEMMA UpdateStep ==
    ASSUME SInv, TypeInv', NEW p \in Procs, NEW cmd, Updating(p, cmd), NEW f \in Entry,
           NEW place \in {"hook", "return"}, NEW result \in Result, Commit(p, f, place, result),
           ListOK(f, 0), \A q \in Procs : Listed(f, q) => at[q] # "dead",
           \/ place = "return" /\ f.intercepted = table[req[p].sys].intercepted
           \/ place = "hook" /\ cmd \in {"INTERCEPT", "RELEASE"} /\ (f.intercepted = 1 <=> cmd = "INTERCEPT"),
           place = "return" /\ result = "ok" /\ cmd \in Monitoring /\ req[p].pid # 0
               => (cmd = "START" <=> Listed(f, req[p].pid))
    PROVE  SInv'
<1> DEFINE x == req[p].sys
<1>1. /\ at[p] = "update" /\ req[p].cmd = cmd
      /\ UNCHANGED <<module, sys_call_table, orig_exit_group, req, scan>>
      /\ table' = [table EXCEPT ![x] = f]
      /\ at' = [at EXCEPT ![p] = place] /\ ret' = [ret EXCEPT ![p] = result]
  BY DEF Updating, Commit, Go
<1>2. x \in Syscall /\ x # 0 BY <1>1, UpdateFacts DEF SInv
<1>3. \A s \in Syscall : table'[s] = IF s = x THEN f ELSE table[s]
  BY <1>1 DEF SInv, TypeInv, TypeOK
<1>4. \A q \in Procs : at'[q] = IF q = p THEN place ELSE at[q]
  BY <1>1 DEF SInv, TypeInv, TypeOK
<1>5. /\ \A q \in Procs \ {p} : at[q] \in Outside
      /\ \A s : Uncounted(s) = 0
  BY <1>1, Sole DEF Outside
<1>6. HookedIffIntercepted'
  <2>1. \A s \in Syscall \ {x} : table'[s] = table[s] BY <1>3
  <2>2. table'[x] = f BY <1>2, <1>3
  <2>3. place = "hook" => at'[p] = "hook" /\ req'[p].sys = x BY <1>1, <1>4
  <2>4. \A q \in Procs : at[q] # "hook" BY <1>1, <1>5 DEF Outside
  <2> QED BY <1>1, <2>1, <2>2, <2>3, <2>4 DEF SInv, HookedIffIntercepted
<1>7. Lists'
  <2>1. \A s : Uncounted(s)' = 0 BY <1>4, <1>5 DEF Uncounted, Outside
  <2>2. \A s \in Syscall : ListOK(table'[s], 0) BY <1>3, <1>5 DEF SInv, Lists
  <2>3. \A s \in Syscall : ListOK(table'[s], Uncounted(s)') BY <2>1, <2>2
  <2>4. table'[0].my_list = EmptyList BY <1>2, <1>3, Numbers DEF SInv, Lists, MY_CUSTOM_SYSCALL
  <2> QED BY <2>3, <2>4 DEF Lists, ListOK, OnList, Listed, EmptyList, MY_CUSTOM_SYSCALL
<1>8. DeadPidsForgotten'
  <2>1. \A s \in Syscall, q \in Procs : Listed(table'[s], q) => at[q] # "dead"
    BY <1>3 DEF SInv, DeadPidsForgotten
  <2>2. \A s \in Syscall, q \in Procs : Listed(table'[s], q) => at'[q] # "dead"
    BY <1>4, <2>1
  <2> QED BY <2>2 DEF DeadPidsForgotten, Listed
<1>9. Progress(p)'
  <2>1. at'[p] = place /\ ret'[p] = result /\ table'[x] = f
    BY <1>1, <1>2, <1>3 DEF SInv, TypeInv, TypeOK
  <2>2. scan'[p].unlinked = 0 BY <1>1 DEF SInv, Progress
  <2>3. place = "hook" => cmd \notin Monitoring BY DEF Monitoring
  <2> HIDE DEF x
  <2> QED BY <1>1, <1>2, <2>1, <2>2, <2>3 DEF x, Progress, Listed, InCommand
<1>10. place \in Place /\ at[p] \notin Outside BY <1>1 DEF Place, Outside
<1> QED BY <1>1, <1>6, <1>7, <1>8, <1>9, <1>10, SoleStep

(* The commands for a whole system call. *)
LEMMA WholeKeeps ==
    ASSUME OneProcessor, SInv, TypeInv', NEW p \in Procs,
           InterceptCall(p) \/ ReleaseCall(p) \/ StartAll(p) \/ StopAll(p)
    PROVE  SInv'
<1> DEFINE x == req[p].sys
           e == table[x]
<1>1. at[p] = "update" BY DEF InterceptCall, ReleaseCall, StartAll, StopAll, Updating
<1>2. e \in Entry /\ x \in Syscall BY <1>1, UpdateFacts DEF SInv
<1>3. ListOK(e, 0) BY <1>1, <1>2, Sole DEF SInv, Lists, Outside
<1>4. \A q \in Procs : Listed(e, q) => at[q] # "dead" BY <1>2 DEF SInv, DeadPidsForgotten
<1>5. "none" \in Result /\ "ok" \in Result BY DEF Result
<1> HIDE DEF e
<1>6. CASE InterceptCall(p)
  <2> DEFINE f == [e EXCEPT !.intercepted = 1]
  <2>1. /\ f \in Entry /\ f.intercepted = 1 /\ f.my_list = e.my_list /\ f.listcount = e.listcount
        /\ f.monitored = e.monitored /\ f.list_inversed = e.list_inversed
    BY <1>2, CommandEntries DEF Entry
  <2>2. Updating(p, "INTERCEPT") /\ Commit(p, f, "hook", "none") BY <1>6 DEF InterceptCall, e
  <2> HIDE DEF f
  <2>3. ListOK(f, 0) BY <1>3, <2>1, SameListOK
  <2>4. \A q \in Procs : Listed(f, q) => at[q] # "dead" BY <1>4, <2>1 DEF Listed
  <2> QED BY <1>5, <2>1, <2>2, <2>3, <2>4, UpdateStep
<1>7. CASE ReleaseCall(p)
  <2> DEFINE d == destroy_list(e)
             f == [d EXCEPT !.intercepted = 0, !.list_inversed = FALSE]
  <2>1. d \in Entry /\ d.my_list = EmptyList /\ d.listcount = 0 /\ d.monitored = 0 BY <1>2, Destroyed
  <2>2. Updating(p, "RELEASE") /\ Commit(p, f, "hook", "none") BY <1>7 DEF ReleaseCall, e
  <2> HIDE DEF d
  <2>3. f \in Entry /\ f.intercepted = 0 /\ f.my_list = EmptyList /\ f.listcount = 0 /\ f.monitored = 0
    BY <2>1 DEF Entry
  <2> HIDE DEF f
  <2>4. ListOK(f, 0) /\ \A q : ~Listed(f, q) BY <2>3, EmptyListOK
  <2> QED BY <1>5, <2>2, <2>3, <2>4, UpdateStep
<1>8. CASE StartAll(p)
  <2> DEFINE c == [e EXCEPT !.monitored = 2]
             d == destroy_list(c)
             f == [d EXCEPT !.list_inversed = TRUE]
  <2>1. c \in Entry /\ c.intercepted = e.intercepted BY <1>2 DEF Entry
  <2>2. Updating(p, "START") /\ Commit(p, f, "return", "ok") /\ req[p].pid = 0 BY <1>8 DEF StartAll, e
  <2> HIDE DEF c
  <2>3. d \in Entry /\ d.my_list = EmptyList /\ d.listcount = 0 /\ d.monitored = 0 /\ d.intercepted = e.intercepted
    BY <2>1, Destroyed
  <2> HIDE DEF d
  <2>4. f \in Entry /\ f.intercepted = e.intercepted /\ f.my_list = EmptyList /\ f.listcount = 0 /\ f.monitored = 0
    BY <2>3 DEF Entry
  <2> HIDE DEF f
  <2>5. ListOK(f, 0) /\ \A q : ~Listed(f, q) BY <2>4, EmptyListOK
  <2> QED BY <1>5, <2>2, <2>4, <2>5, UpdateStep DEF e
<1>9. CASE StopAll(p)
  <2> DEFINE d == destroy_list(e)
             f == [d EXCEPT !.list_inversed = FALSE]
  <2>1. d \in Entry /\ d.my_list = EmptyList /\ d.listcount = 0 /\ d.monitored = 0 /\ d.intercepted = e.intercepted
    BY <1>2, Destroyed
  <2>2. Updating(p, "STOP") /\ Commit(p, f, "return", "ok") /\ req[p].pid = 0 BY <1>9 DEF StopAll, e
  <2> HIDE DEF d
  <2>3. f \in Entry /\ f.intercepted = e.intercepted /\ f.my_list = EmptyList /\ f.listcount = 0 /\ f.monitored = 0
    BY <2>1 DEF Entry
  <2> HIDE DEF f
  <2>4. ListOK(f, 0) /\ \A q : ~Listed(f, q) BY <2>3, EmptyListOK
  <2> QED BY <1>5, <2>2, <2>3, <2>4, UpdateStep DEF e
<1> QED BY <1>6, <1>7, <1>8, <1>9

(* The commands for one pid: what check_pid_monitored found before the lock *)
(* was taken still holds, so that the list is the right one to change.      *)
LEMMA PidKeeps ==
    ASSUME OneProcessor, SInv, TypeInv', NEW p \in Procs, StartPid(p) \/ StopPid(p)
    PROVE  SInv'
<1> DEFINE x == req[p].sys
           e == table[x]
           e1 == SomeMonitored(e)
           pid == req[p].pid
<1>1. PICK cmd \in Monitoring : Updating(p, cmd) /\ req[p].cmd = cmd /\ pid # 0 /\ at[p] = "update"
        /\ (cmd = "START" <=> StartPid(p)) /\ (cmd = "STOP" <=> StopPid(p))
  BY DEF StartPid, StopPid, Updating, Monitoring
<1>2. e \in Entry /\ x \in Syscall /\ pid \in Procs BY <1>1, UpdateFacts DEF SInv
<1>3. ListOK(e, 0) BY <1>1, <1>2, Sole DEF SInv, Lists, Outside
<1>4. \A q \in Procs : Listed(e, q) => at[q] # "dead" BY <1>2 DEF SInv, DeadPidsForgotten
<1>5. at[pid] # "dead" /\ (cmd = "START" <=> ~Listed(e, pid))
  BY <1>1 DEF SInv, Progress, InCommand
<1>6. /\ e1 \in Entry /\ e1.my_list = e.my_list /\ e1.listcount = e.listcount /\ e1.monitored = 1
      /\ e1.intercepted = e.intercepted /\ e1.list_inversed = e.list_inversed
  BY <1>2, SomeOnly
<1>7. /\ cmd = "START" => \/ ~e1.list_inversed /\ PutOnList(p, e1)
                          \/ e1.list_inversed /\ TakeOffList(p, e1)
      /\ cmd = "STOP" => \/ ~e1.list_inversed /\ TakeOffList(p, e1)
                         \/ e1.list_inversed /\ PutOnList(p, e1)
  BY <1>1 DEF StartPid, StopPid
<1> HIDE DEF e1, e
<1>8. ListOK(e1, 0) BY <1>3, <1>6, SameListOK
<1>9. \A q : Listed(e1, q) <=> Listed(e, q) BY <1>6 DEF Listed
<1>10. cmd = "STOP" => ~e1.list_inversed
  <2>1. cmd = "STOP" => Listed(e, pid) BY <1>5
  <2>2. Listed(e, pid) => e.my_list # EmptyList BY <1>2 DEF Listed, EmptyList
  <2> QED BY <1>3, <1>6, <2>1, <2>2 DEF ListOK
<1>11. PICK f \in Entry, result \in {"ok", "ENOMEM", "EINVAL"} :
         /\ Commit(p, f, "return", result)
         /\ \/ f = e1 /\ result # "ok"
            \/ f = add_pid_sysc(e1, pid) /\ PutOnList(p, e1) /\ result = "ok"
            \/ f = del_pid_sysc(e1, pid) /\ Listed(e1, pid) /\ TakeOffList(p, e1) /\ result = "ok"
  <2>1. PutOnList(p, e1) \/ TakeOffList(p, e1) BY <1>1, <1>7 DEF Monitoring
  <2> QED BY <1>1, <1>2, <1>6, <2>1, ListStep DEF SInv
<1>12. result \in Result BY DEF Result
<1>13. CASE f = e1 /\ result # "ok"
  <2>1. f.intercepted = table[x].intercepted BY <1>6, <1>13 DEF e
  <2> QED BY <1>1, <1>4, <1>8, <1>9, <1>11, <1>12, <1>13, <2>1, UpdateStep
<1>14. CASE f # e1 /\ cmd = "START"
  <2>1. ~Listed(e1, pid) BY <1>5, <1>9, <1>14
  <2>2. f = add_pid_sysc(e1, pid) /\ PutOnList(p, e1) BY <1>11, <1>14, <2>1
  <2>3. ~e1.list_inversed
    <3>1. SUFFICES ASSUME e1.list_inversed PROVE FALSE OBVIOUS
    <3>2. TakeOffList(p, e1) BY <1>7, <1>14, <3>1
    <3>3. Commit(p, e1, "return", "EINVAL") BY <2>1, <3>2 DEF TakeOffList
    <3>4. table'[x] = e1 /\ table'[x] = f
      BY <1>2, <1>11, <3>3 DEF Commit, SInv, TypeInv, TypeOK
    <3> QED BY <1>14, <3>4
  <2>4. ListOK(f, 0) /\ Listed(f, pid) BY <1>2, <1>6, <1>8, <2>1, <2>2, <2>3, AddedListOK
  <2>5. f.my_list = [e1.my_list EXCEPT ![pid] = @ + 1] /\ f.intercepted = e1.intercepted
    BY <1>2, <1>6, <2>2, AddPid
  <2>6. \A q \in Procs \ {pid} : Listed(f, q) <=> Listed(e, q)
    <3>1. e1.my_list \in [Procs -> Nat] BY <1>6, EntryFields
    <3> QED BY <1>6, <2>5, <3>1 DEF Listed
  <2>7. \A q \in Procs : Listed(f, q) => at[q] # "dead" BY <1>4, <1>5, <2>6
  <2>8. f.intercepted = table[x].intercepted BY <1>6, <2>5 DEF e
  <2> QED BY <1>1, <1>11, <1>12, <1>14, <2>4, <2>7, <2>8, UpdateStep
<1>15. CASE f # e1 /\ cmd = "STOP"
  <2>1. Listed(e1, pid) BY <1>5, <1>9, <1>15
  <2>2. TakeOffList(p, e1) BY <1>7, <1>10, <1>15
  <2>3. Commit(p, del_pid_sysc(e1, pid), "return", "ok") BY <2>1, <2>2 DEF TakeOffList
  <2>4. f = del_pid_sysc(e1, pid)
    <3>1. table'[x] = del_pid_sysc(e1, pid) /\ table'[x] = f
      BY <1>2, <1>11, <2>3 DEF Commit, SInv, TypeInv, TypeOK
    <3> QED BY <3>1
  <2>5. ListOK(f, 0) /\ ~Listed(f, pid) BY <1>2, <1>6, <1>8, <2>1, <2>4, DeletedListOK
  <2>6. f.my_list = [e1.my_list EXCEPT ![pid] = @ - 1] /\ f.intercepted = e1.intercepted
    BY <1>2, <1>6, <2>1, <2>4, DelPid DEF Listed
  <2>7. \A q \in Procs \ {pid} : Listed(f, q) <=> Listed(e, q)
    <3>1. e1.my_list \in [Procs -> Nat] BY <1>6, EntryFields
    <3> QED BY <1>6, <2>6, <3>1 DEF Listed
  <2>8. \A q \in Procs : Listed(f, q) => at[q] # "dead" BY <1>4, <2>5, <2>7
  <2>9. f.intercepted = table[x].intercepted BY <1>6, <2>6 DEF e
  <2>10. ~(cmd = "START" <=> Listed(f, pid)) => FALSE BY <1>15, <2>5
  <2> QED BY <1>1, <1>11, <1>12, <1>15, <2>5, <2>8, <2>9, <2>10, UpdateStep
<1>16. f = e1 => result # "ok"
  <2>1. add_pid_sysc(e1, pid) # e1
    <3>1. add_pid_sysc(e1, pid).listcount = e1.listcount + 1 /\ e1.listcount \in Int
      BY <1>2, <1>6, AddPid, EntryFields
    <3> QED BY <3>1
  <2>2. Listed(e1, pid) => del_pid_sysc(e1, pid) # e1
    <3>1. Listed(e1, pid) => del_pid_sysc(e1, pid).listcount = e1.listcount - 1
      BY <1>2, <1>6, DelPid DEF Listed
    <3>2. e1.listcount \in Int BY <1>6, EntryFields
    <3> QED BY <3>1, <3>2
  <2> QED BY <1>11, <2>1, <2>2
<1> QED BY <1>1, <1>13, <1>14, <1>15, <1>16 DEF Monitoring

(* The second critical section of a command to intercept or to release.    *)
LEMMA WriteHookKeeps ==
    ASSUME OneProcessor, SInv, TypeInv', NEW p \in Procs, WriteHook(p)
    PROVE  SInv'
<1> DEFINE x == req[p].sys
           h == Hook(req[p].cmd)
<1>1. /\ at[p] = "hook" /\ at' = [at EXCEPT ![p] = "return"] /\ ret' = [ret EXCEPT ![p] = "ok"]
      /\ sys_call_table' = [sys_call_table EXCEPT ![x] = h]
      /\ UNCHANGED <<module, table, req, scan>>
  BY DEF WriteHook, Go
<1>2. x \in Syscall /\ x # EXIT_GROUP /\ x # 0
  BY <1>1 DEF SInv, TypeInv, Requests, Request, InCommand, OneProcessor
<1>3. /\ req[p].cmd \in {"INTERCEPT", "RELEASE"}
      /\ table[x].intercepted = 1 <=> req[p].cmd = "INTERCEPT"
  BY <1>1 DEF SInv, Progress
<1>4. h = "interceptor" <=> table[x].intercepted = 1 BY <1>3 DEF Hook
<1>5. \A s \in Syscall : sys_call_table'[s] = IF s = x THEN h ELSE sys_call_table[s]
  BY <1>1 DEF SInv, TypeInv, TypeOK
<1>6. \A q \in Procs : at'[q] = IF q = p THEN "return" ELSE at[q]
  BY <1>1 DEF SInv, TypeInv, TypeOK
<1>7. /\ \A q \in Procs \ {p} : at[q] \in Outside
      /\ \A s : Uncounted(s) = 0
  BY <1>1, Sole DEF Outside
<1> HIDE DEF h
<1>8. HookedIffIntercepted'
  <2>1. \A q \in Procs \ {p} : at[q] # "hook" BY <1>7 DEF Outside
  <2>2. module = "loaded" => \A s \in Syscall \ {MY_CUSTOM_SYSCALL, EXIT_GROUP, x} :
           table[s].intercepted = 1 <=> sys_call_table[s] = "interceptor"
    BY <2>1 DEF SInv, HookedIffIntercepted
  <2> QED BY <1>1, <1>4, <1>5, <2>2 DEF HookedIffIntercepted
<1>9. Lists'
  <2>1. \A s : Uncounted(s)' = 0 BY <1>6, <1>7 DEF Uncounted, Outside
  <2>2. \A s \in Syscall : ListOK(table[s], 0) BY <1>7 DEF SInv, Lists
  <2>3. \A s \in Syscall : ListOK(table'[s], Uncounted(s)') BY <1>1, <2>1, <2>2
  <2>4. table'[0].my_list = EmptyList BY <1>1 DEF SInv, Lists, MY_CUSTOM_SYSCALL
  <2> QED BY <2>3, <2>4 DEF Lists, ListOK, OnList, Listed, EmptyList, MY_CUSTOM_SYSCALL
<1>10. DeadPidsForgotten' BY <1>1, <1>6 DEF SInv, DeadPidsForgotten, Listed
<1>11. Progress(p)'
  <2>1. at'[p] = "return" BY <1>6
  <2>2. scan'[p].unlinked = 0 BY <1>1 DEF SInv, Progress
  <2>3. req'[p].cmd \notin Monitoring BY <1>1, <1>3 DEF Monitoring
  <2> QED BY <2>1, <2>2, <2>3 DEF Progress, InCommand
<1>12. sys_call_table'[EXIT_GROUP] = sys_call_table[EXIT_GROUP] BY <1>2, <1>5, Numbers
<1>13. "return" \in Place /\ at[p] \notin Outside BY <1>1 DEF Place, Outside
<1> QED BY <1>1, <1>8, <1>9, <1>10, <1>11, <1>12, <1>13, SoleStep

(* A step of del_pid that changes the list of one system call. *)
LEMMA ScanStep ==
    ASSUME SInv, TypeInv', NEW p \in Procs, at[p] \in {"scan", "count"},
           NEW place \in {"scan", "count"}, at' = [at EXCEPT ![p] = place],
           UNCHANGED <<module, sys_call_table, req>>, NEW x \in Syscall, x # 0, NEW f \in Entry,
           table' = [table EXCEPT ![x] = f], f.intercepted = table[x].intercepted,
           NEW n \in {0, 1}, ListOK(f, n), n = 1 <=> place = "count" /\ scan'[p].s = x,
           place = "count" => scan'[p].s = x, at[p] = "count" => scan[p].s = x,
           \A q \in Procs \ {p} : scan'[q] = scan[q],
           \A q \in Procs : Listed(f, q) => Listed(table[x], q),
           ~Listed(f, p), scan'[p].s \in Int,
           scan'[p].unlinked = IF place = "count" THEN 1 ELSE 0,
           \A s \in Syscall : s < scan'[p].s => s = x \/ s < scan[p].s
    PROVE  SInv'
<1>1. \A s \in Syscall : table'[s] = IF s = x THEN f ELSE table[s] BY DEF SInv, TypeInv, TypeOK
<1>2. \A q \in Procs : at'[q] = IF q = p THEN place ELSE at[q] BY DEF SInv, TypeInv, TypeOK
<1>3. at[p] \notin Outside /\ place \in Place BY DEF Outside, Place
<1>4. /\ \A q \in Procs \ {p} : at[q] \in Outside
      /\ \A s : Uncounted(s) = IF at[p] = "count" /\ scan[p].s = s THEN 1 ELSE 0
  BY <1>3, Sole
<1>5. HookedIffIntercepted'
  <2>1. \A q \in Procs : at[q] # "hook" BY <1>4 DEF Outside
  <2>2. module = "loaded" => \A s \in Syscall \ {MY_CUSTOM_SYSCALL, EXIT_GROUP} :
           table[s].intercepted = 1 <=> sys_call_table[s] = "interceptor"
    BY <2>1 DEF SInv, HookedIffIntercepted
  <2>3. \A s \in Syscall : table'[s].intercepted = table[s].intercepted BY <1>1
  <2> QED BY <2>2, <2>3 DEF HookedIffIntercepted
<1>6. Lists'
  <2>1. \A s \in Syscall : Uncounted(s)' = IF s = x THEN n ELSE 0
    BY <1>2, <1>4 DEF Uncounted, Outside
  <2>2. \A s \in Syscall \ {x} : ListOK(table[s], 0)
    BY <1>4 DEF SInv, Lists
  <2>3. \A s \in Syscall : ListOK(table'[s], Uncounted(s)') BY <1>1, <2>1, <2>2
  <2>4. table'[0].my_list = EmptyList BY <1>1, Numbers DEF SInv, Lists, MY_CUSTOM_SYSCALL
  <2> QED BY <2>3, <2>4 DEF Lists, ListOK, OnList, Listed, EmptyList, MY_CUSTOM_SYSCALL
<1>7. DeadPidsForgotten'
  <2>1. \A s \in Syscall, q \in Procs : Listed(table'[s], q) => at[q] # "dead"
    BY <1>1 DEF SInv, DeadPidsForgotten
  <2>2. \A s \in Syscall, q \in Procs : Listed(table'[s], q) => at'[q] # "dead"
    BY <1>2, <2>1
  <2> QED BY <2>2 DEF DeadPidsForgotten, Listed
<1>8. Progress(p)'
  <2>1. at'[p] = place BY <1>2
  <2>2. \A s \in Syscall : s < scan[p].s => ~Listed(table[s], p) BY DEF SInv, Progress
  <2>3. \A s \in Syscall : s < scan'[p].s => ~Listed(table'[s], p) BY <1>1, <2>2
  <2>4. place = "count" => ~Listed(table'[scan'[p].s], p) BY <1>1
  <2> QED BY <2>1, <2>3, <2>4 DEF Progress, Listed, InCommand
<1> QED BY <1>3, <1>5, <1>6, <1>7, <1>8, SoleStep

(* The steps of del_pid through the table keep SInv. *)
LEMMA ScanKeeps ==
    ASSUME OneProcessor, SInv, TypeInv', NEW p \in Procs, ScanUnlink(p) \/ ScanCount(p)
    PROVE  SInv'
<1> DEFINE x == scan[p].s
           e == table[x]
<1>1. at[p] \in {"scan", "count"} BY DEF ScanUnlink, ScanCount
<1>2. x \in 1..(NR_syscalls - 1)
  BY <1>1, Numbers DEF ScanUnlink, ScanCount, SInv, TypeInv, Requests, Request
<1>3. x \in Syscall /\ x # 0 /\ x \in Int BY <1>2, Numbers DEF Syscall
<1>4. e \in Entry BY <1>3 DEF SInv, TypeInv, TypeOK
<1>5. ListOK(e, IF at[p] = "count" THEN 1 ELSE 0) BY <1>1, <1>3, Sole DEF SInv, Lists, Outside
<1>6. CASE ScanUnlink(p)
  <2> DEFINE f == Unlink(e, p)
  <2>1. /\ at[p] = "scan" /\ Listed(e, p) /\ table' = [table EXCEPT ![x] = f]
        /\ at' = [at EXCEPT ![p] = "count"] /\ scan' = [scan EXCEPT ![p].unlinked = e.my_list[p]]
        /\ UNCHANGED <<module, sys_call_table, req>>
    BY <1>3, <1>6 DEF ScanUnlink, SInv, TypeInv, TypeOK
  <2>2. ListOK(e, 0) BY <1>5, <2>1
  <2>3. e.my_list[p] = 1 BY <2>1, <2>2 DEF ListOK, Listed
  <2>4. /\ f \in Entry /\ f.intercepted = e.intercepted /\ f.my_list = [e.my_list EXCEPT ![p] = 0]
    BY <1>4, UnlinkPid
  <2>5. ListOK(f, 1) /\ ~Listed(f, p) BY <1>4, <2>1, <2>2, UnlinkedListOK
  <2>6. \A q \in Procs : Listed(f, q) => Listed(e, q) BY <1>4, <2>4, EntryFields DEF Listed
  <2>7. scan'[p].unlinked = 1 /\ scan'[p].s = x /\ \A q \in Procs \ {p} : scan'[q] = scan[q]
    <3>1. scan \in [Procs -> [s : 0..NR_syscalls, unlinked : Nat]] BY DEF SInv, TypeInv, TypeOK
    <3> QED BY <2>1, <2>3, <3>1
  <2> HIDE DEF f, e, x
  <2>8. f.intercepted = table[x].intercepted BY <2>4 DEF e
  <2>9. \A q \in Procs : Listed(f, q) => Listed(table[x], q) BY <2>6 DEF e
  <2>10. \A s \in Syscall : s < scan'[p].s => s = x \/ s < scan[p].s BY <2>7 DEF x
  <2>11. /\ 1 = 1 <=> "count" = "count" /\ scan'[p].s = x
         /\ scan'[p].unlinked = IF "count" = "count" THEN 1 ELSE 0
    BY <2>7
  <2> QED BY <1>3, <2>1, <2>4, <2>5, <2>7, <2>8, <2>9, <2>10, <2>11, ScanStep
<1>7. CASE ScanCount(p)
  <2> DEFINE f == CountDown(e, 1)
  <2>1. scan[p].unlinked = 1 /\ ~Listed(e, p) BY <1>7 DEF SInv, Progress, ScanCount
  <2>2. /\ at[p] = "count" /\ table' = [table EXCEPT ![x] = f]
        /\ at' = [at EXCEPT ![p] = "scan"] /\ scan' = [scan EXCEPT ![p] = [s |-> x + 1, unlinked |-> 0]]
        /\ UNCHANGED <<module, sys_call_table, req>>
    BY <1>3, <1>7, <2>1 DEF ScanCount, SInv, TypeInv, TypeOK
  <2>3. ListOK(e, 1) BY <1>5, <2>2
  <2>4. f \in Entry /\ f.intercepted = e.intercepted /\ f.my_list = e.my_list BY <1>4, CountedDown
  <2>5. ListOK(f, 0) BY <1>4, <2>3, CountedListOK
  <2>6. scan'[p].unlinked = 0 /\ scan'[p].s = x + 1 /\ \A q \in Procs \ {p} : scan'[q] = scan[q]
    BY <2>2 DEF SInv, TypeInv, TypeOK
  <2> HIDE DEF f
  <2>7. ~Listed(f, p) /\ \A q \in Procs : Listed(f, q) => Listed(table[x], q)
    BY <2>1, <2>4 DEF Listed
  <2>8. \A s \in Syscall : s < x + 1 => s = x \/ s < x BY <1>3 DEF Syscall
  <2> HIDE DEF x
  <2>9. \A s \in Syscall : s < scan'[p].s => s = x \/ s < scan[p].s BY <2>6, <2>8 DEF x
  <2>10. scan[p].s = x BY DEF x
  <2>11. f.intercepted = table[x].intercepted BY <2>4 DEF x
  <2>12. /\ 0 = 1 <=> "scan" = "count" /\ scan'[p].s = x
         /\ scan'[p].unlinked = IF "scan" = "count" THEN 1 ELSE 0
         /\ "scan" = "count" => scan'[p].s = x
         /\ scan'[p].s \in Int
    BY <1>3, <2>6
  <2> HIDE DEF e
  <2> QED BY <1>1, <1>3, <2>2, <2>4, <2>5, <2>6, <2>7, <2>9, <2>10, <2>11, <2>12, ScanStep
<1> QED BY <1>6, <1>7

(* del_pid goes on to the next list, or comes to the end: no list names p. *)
LEMMA ScanEndKeeps ==
    ASSUME OneProcessor, SInv, TypeInv', NEW p \in Procs, ScanNext(p) \/ ExitDone(p)
    PROVE  SInv'
<1>1. /\ at[p] = "scan" /\ UNCHANGED <<module, table, sys_call_table, req, ret>>
      /\ scan[p].unlinked = 0 /\ scan[p].s \in 1..NR_syscalls
      /\ \A s \in Syscall : s < scan[p].s => ~Listed(table[s], p)
  BY DEF ScanNext, ExitDone, SInv, Progress, TypeInv, Requests, Request
<1>2. scan \in [Procs -> [s : 0..NR_syscalls, unlinked : Nat]] BY DEF SInv, TypeInv, TypeOK
<1>3. /\ module = "loaded"
      /\ \A q \in Procs \ {p} : at[q] \in Outside
      /\ \A s : Uncounted(s) = 0
  BY <1>1, Sole DEF Outside
<1>4. PICK place \in {"scan", "dead"} :
        /\ at' = [at EXCEPT ![p] = place]
        /\ place = "dead" => scan[p].s = NR_syscalls
        /\ place = "scan" => ~Listed(table[scan[p].s], p) /\ scan' = [scan EXCEPT ![p].s = scan[p].s + 1]
        /\ \A q \in Procs \ {p} : scan'[q] = scan[q]
        /\ scan'[p].unlinked = 0
  <2>1. CASE ScanNext(p)
    <3>1. at' = [at EXCEPT ![p] = "scan"] BY <2>1 DEF ScanNext, SInv, TypeInv, TypeOK
    <3> QED BY <1>1, <1>2, <2>1, <3>1 DEF ScanNext
  <2>2. CASE ExitDone(p)
    <3>1. orig_exit_group = "original" BY <1>3 DEF SInv, TypeInv, Pointers
    <3> QED BY <1>1, <1>2, <2>2, <3>1 DEF ExitDone
  <2> QED BY <2>1, <2>2
<1>5. \A q \in Procs : at'[q] = IF q = p THEN place ELSE at[q]
  BY <1>4 DEF SInv, TypeInv, TypeOK
<1>6. HookedIffIntercepted'
  <2>1. \A q \in Procs : at[q] # "hook" BY <1>1, <1>3 DEF Outside
  <2> QED BY <1>1, <2>1 DEF SInv, HookedIffIntercepted
<1>7. Lists'
  <2>1. \A s : Uncounted(s)' = 0 BY <1>3, <1>5 DEF Uncounted, Outside
  <2>2. \A s \in Syscall : ListOK(table'[s], Uncounted(s)') BY <1>1, <1>3, <2>1 DEF SInv, Lists
  <2>3. table'[0].my_list = EmptyList BY <1>1 DEF SInv, Lists, MY_CUSTOM_SYSCALL
  <2> QED BY <2>2, <2>3 DEF Lists, ListOK, OnList, Listed, EmptyList, MY_CUSTOM_SYSCALL
<1>8. DeadPidsForgotten'
  <2>1. place = "dead" => \A s \in Syscall : ~Listed(table[s], p) BY <1>1, <1>4, Numbers DEF Syscall
  <2>2. \A s \in Syscall, q \in Procs : Listed(table[s], q) => at'[q] # "dead"
    BY <1>4, <1>5, <2>1 DEF SInv, DeadPidsForgotten
  <2> QED BY <1>1, <2>2 DEF DeadPidsForgotten, Listed
<1>9. Progress(p)'
  <2>1. at'[p] = place BY <1>5
  <2>2. place = "scan" => scan'[p].s = scan[p].s + 1 BY <1>2, <1>4
  <2>3. place = "scan" => \A s \in Syscall : s < scan'[p].s => ~Listed(table[s], p)
    BY <1>1, <1>4, <2>2, Numbers DEF Syscall
  <2> QED BY <1>1, <1>4, <2>1, <2>3 DEF Progress, Listed, InCommand
<1>10. at[p] \notin Outside /\ place \in Place BY <1>1 DEF Outside, Place
<1> QED BY <1>1, <1>4, <1>6, <1>7, <1>8, <1>9, <1>10, SoleStep

(* A process enters the kernel, or exits while the module is not loaded.   *)
LEMMA EnterKeeps ==
    ASSUME OneProcessor, SInv, TypeInv', NEW p \in Procs, at[p] = "user", CanEnter,
           NEW place \in Place \ {"user", "oops", "dead", "lock", "update", "hook", "count"},
           at' = [at EXCEPT ![p] = place], module = "loaded",
           UNCHANGED <<module, table, sys_call_table>>, Progress(p)',
           \A q \in Procs \ {p} : scan'[q] = scan[q]
    PROVE  SInv'
<1>1. \A q \in Procs : at[q] \in Outside BY Entering, InsideIff
<1>2. \A q \in Procs : at'[q] = IF q = p THEN place ELSE at[q] BY DEF SInv, TypeInv, TypeOK
<1>3. Inside' \subseteq {p} BY <1>1, <1>2 DEF Inside, Outside
<1>4. Alone' BY <1>3 DEF Alone
<1>5. ByModule' BY DEF SInv, ByModule
<1>6. HookedIffIntercepted'
  <2>1. \A q \in Procs : at[q] # "hook" BY <1>1 DEF Outside
  <2> QED BY <2>1 DEF SInv, HookedIffIntercepted
<1>7. Lists'
  <2>1. \A s : Uncounted(s) = 0 /\ Uncounted(s)' = 0 BY <1>1, <1>2 DEF Uncounted, Outside
  <2>2. \A s \in Syscall : ListOK(table'[s], Uncounted(s)') BY <2>1 DEF SInv, Lists
  <2>3. table'[0].my_list = EmptyList BY DEF SInv, Lists, MY_CUSTOM_SYSCALL
  <2> QED BY <2>2, <2>3 DEF Lists, ListOK, OnList, Listed, EmptyList, MY_CUSTOM_SYSCALL
<1>8. DeadPidsForgotten' BY <1>2 DEF SInv, DeadPidsForgotten, Listed
<1>9. ASSUME NEW q \in Procs \ {p} PROVE Progress(q)'
  <2>1. scan[q].unlinked = 0 BY <1>1, <1>9 DEF SInv, Progress, Outside
  <2> QED BY <1>1, <1>2, <1>9, <2>1 DEF Progress, Outside, InCommand
<1> QED BY <1>4, <1>5, <1>6, <1>7, <1>8, <1>9 DEF SInv

(* A call that enters the kernel keeps SInv. *)
LEMMA CallKeeps ==
    ASSUME OneProcessor, SInv, TypeInv', NEW p \in Procs, NEW cmd \in Command, NEW s \in SyscallArgs,
           NEW pid \in PidArgs, Call(p, cmd, s, pid)
    PROVE  SInv'
<1>1. /\ at[p] = "user" /\ CanEnter /\ sys_call_table[0] = "my_syscall"
      /\ UNCHANGED <<module, table, sys_call_table, scan>>
      /\ req' = [req EXCEPT ![p] = [cmd |-> cmd, sys |-> s, pid |-> pid]]
  BY DEF Call, MY_CUSTOM_SYSCALL
<1>2. module = "loaded"
  <2>1. module \in {"unloaded", "hooking", "loaded", "unhooked", "restored", "gone"}
    BY DEF SInv, TypeInv, TypeOK
  <2>2. module # "unloaded" BY <1>1, Numbers DEF SInv, TypeInv, Pointers
  <2>3. module # "gone" BY <1>1 DEF SInv, ByModule, MY_CUSTOM_SYSCALL
  <2> QED BY <1>1, <2>1, <2>2, <2>3, Entering
<1>3. PICK place \in {"return", "context"} :
        /\ at' = [at EXCEPT ![p] = place]
        /\ place = "return" =>
               cmd = "UNKNOWN" \/ \E r \in {"EINVAL", "EPERM"} : ret' = [ret EXCEPT ![p] = r]
        /\ place = "context" => ~ArgsInvalid(cmd, s, pid)
  BY DEF Call, Go
<1>4. Progress(p)'
  <2>1. at'[p] = place /\ req'[p].cmd = cmd /\ req'[p].pid = pid
    BY <1>1, <1>3 DEF SInv, TypeInv, TypeOK
  <2>2. place = "return" => ret'[p] # "ok" \/ cmd \notin Monitoring
    BY <1>3 DEF SInv, TypeInv, TypeOK, Monitoring
  <2>3. scan'[p].unlinked = 0 BY <1>1 DEF SInv, Progress
  <2>4. place = "context" /\ cmd \in Monitoring /\ pid # 0 => at'[pid] # "dead"
    <3>1. place = "context" /\ cmd \in Monitoring /\ pid # 0 => pid \in Procs /\ at[pid] # "dead"
      BY <1>3 DEF ArgsInvalid
    <3> QED BY <3>1, <1>3 DEF SInv, TypeInv, TypeOK
  <2> QED BY <2>1, <2>2, <2>3, <2>4 DEF Progress, InCommand
<1>5. place \in Place \ {"user", "oops", "dead", "lock", "update", "hook", "count"} BY DEF Place
<1> QED BY <1>1, <1>2, <1>3, <1>4, <1>5, EnterKeeps

(* An intercepted call keeps SInv. *)
LEMMA InterceptorKeeps ==
    ASSUME OneProcessor, SInv, TypeInv', NEW p \in Procs, NEW s \in Syscall, InterceptorEnter(p, s)
    PROVE  SInv'
<1>1. /\ at[p] = "user" /\ CanEnter /\ sys_call_table[s] = "interceptor" /\ s # EXIT_GROUP
      /\ UNCHANGED <<module, table, sys_call_table, scan>> /\ at' = [at EXCEPT ![p] = "log"]
  BY DEF InterceptorEnter
<1>2. module = "loaded"
  <2>1. module \in {"unloaded", "hooking", "loaded", "unhooked", "restored", "gone"}
    BY DEF SInv, TypeInv, TypeOK
  <2>2. module # "unloaded" BY <1>1 DEF SInv, TypeInv, Pointers
  <2>3. module # "gone" BY <1>1 DEF SInv, ByModule
  <2> QED BY <1>1, <2>1, <2>2, <2>3, Entering
<1>3. Progress(p)'
  <2>1. at'[p] = "log" BY <1>1 DEF SInv, TypeInv, TypeOK
  <2>2. scan'[p].unlinked = 0 BY <1>1 DEF SInv, Progress
  <2> QED BY <2>1, <2>2 DEF Progress, InCommand
<1>4. "log" \in Place \ {"user", "oops", "dead", "lock", "update", "hook", "count"} BY DEF Place
<1> QED BY <1>1, <1>2, <1>3, <1>4, EnterKeeps

(* A process that begins to exit keeps SInv. *)
LEMMA ExitKeeps ==
    ASSUME OneProcessor, SInv, TypeInv', NEW p \in Procs, Exit(p)
    PROVE  SInv'
<1>1. at[p] = "user" /\ CanEnter /\ UNCHANGED <<module, table, sys_call_table, req>> BY DEF Exit
<1>2. module \in {"unloaded", "loaded", "gone"}
  BY <1>1, Entering DEF SInv, TypeInv, TypeOK
<1>3. scan[p].unlinked = 0 /\ scan \in [Procs -> [s : 0..NR_syscalls, unlinked : Nat]]
  BY <1>1 DEF SInv, Progress, TypeInv, TypeOK
<1>4. CASE module = "loaded"
  <2>1. at' = [at EXCEPT ![p] = "scan"] /\ scan' = [scan EXCEPT ![p].s = 1]
    BY <1>4 DEF Exit, SInv, ByModule
  <2>2. /\ scan'[p].unlinked = 0 /\ scan'[p].s = 1 /\ at'[p] = "scan"
        /\ \A q \in Procs \ {p} : scan'[q] = scan[q]
    BY <1>3, <2>1 DEF SInv, TypeInv, TypeOK
  <2>3. \A s \in Syscall : s < 1 => ~Listed(table[s], p)
    <3>1. ~Listed(table[0], p) BY DEF SInv, Lists, EmptyList, Listed, MY_CUSTOM_SYSCALL
    <3>2. \A s \in Syscall : s < 1 => s = 0 BY DEF Syscall
    <3> QED BY <3>1, <3>2
  <2>4. Progress(p)' BY <1>1, <2>2, <2>3 DEF Progress, Listed, InCommand
  <2>5. "scan" \in Place \ {"user", "oops", "dead", "lock", "update", "hook", "count"} BY DEF Place
  <2> QED BY <1>1, <1>4, <2>1, <2>2, <2>4, <2>5, EnterKeeps
<1>5. CASE module \in {"unloaded", "gone"}
  <2>1. sys_call_table[EXIT_GROUP] # "my_exit_group"
    BY <1>5, Numbers DEF SInv, TypeInv, Pointers, ByModule
  <2>2. at' = [at EXCEPT ![p] = "dead"] /\ scan' = scan BY <2>1 DEF Exit
  <2>3. \A q \in Procs : at'[q] = IF q = p THEN "dead" ELSE at[q] BY <2>2 DEF SInv, TypeInv, TypeOK
  <2>4. \A q \in Procs : at[q] \in Outside BY <1>1, Entering, InsideIff
  <2>5. Inside' = {} BY <2>3, <2>4 DEF Inside, Outside
  <2>6. Alone' BY <2>5 DEF Alone
  <2>7. ByModule' BY <1>1 DEF SInv, ByModule
  <2>8. HookedIffIntercepted' BY <1>1, <1>5 DEF HookedIffIntercepted
  <2>9. Lists'
    <3>1. \A s : Uncounted(s) = 0 /\ Uncounted(s)' = 0 BY <2>3, <2>4 DEF Uncounted, Outside
    <3>2. \A s \in Syscall : ListOK(table'[s], Uncounted(s)') BY <1>1, <3>1 DEF SInv, Lists
    <3>3. table'[0].my_list = EmptyList BY <1>1 DEF SInv, Lists, MY_CUSTOM_SYSCALL
    <3> QED BY <3>2, <3>3 DEF Lists, ListOK, OnList, Listed, EmptyList, MY_CUSTOM_SYSCALL
  <2>10. DeadPidsForgotten'
    <3>1. \A s \in Syscall : table[s].my_list = EmptyList
      BY <1>5, EmptyEntryIsEntry DEF SInv, ByModule
    <3>2. \A s \in Syscall, q \in Procs : ~Listed(table'[s], q) BY <1>1, <3>1 DEF Listed, EmptyList
    <3> QED BY <3>2 DEF DeadPidsForgotten, Listed
  <2>11. ASSUME NEW q \in Procs PROVE Progress(q)'
    <3>1. scan[q].unlinked = 0 BY <2>4 DEF SInv, Progress, Outside
    <3> QED BY <2>2, <2>3, <2>4, <3>1 DEF Progress, Outside, InCommand
  <2> QED BY <2>6, <2>7, <2>8, <2>9, <2>10, <2>11 DEF SInv
<1> QED BY <1>2, <1>4, <1>5

(* The module comes and goes while nobody is in the kernel. *)
LEMMA ModuleKeeps ==
    ASSUME OneProcessor, SInv, TypeInv', ModuleStep
    PROVE  SInv'
<1>1. Inside = {} BY Entering DEF ModuleStep, InitTable, InitHooks, ExitHooks, ExitRestore, ExitCleanup,
                                  SInv, Alone
<1>2. UNCHANGED <<at, req, ret, scan>>
  BY DEF ModuleStep, InitTable, InitHooks, ExitHooks, ExitRestore, ExitCleanup
<1>3. \A q \in Procs : at[q] \in Outside BY <1>1, InsideIff
<1>4. Alone'
  <2>1. Inside' = {} BY <1>1, <1>2 DEF Inside
  <2> QED BY <2>1 DEF Alone
<1>5. \A s : Uncounted(s) = 0 /\ Uncounted(s)' = 0 BY <1>2, <1>3 DEF Uncounted, Outside
<1>6. ASSUME NEW q \in Procs PROVE Progress(q)'
  <2>1. scan[q].unlinked = 0 BY <1>3 DEF SInv, Progress, Outside
  <2> QED BY <1>2, <1>3, <2>1 DEF Progress, Outside, InCommand
<1>7. table \in [Syscall -> Entry] BY DEF SInv, TypeInv, TypeOK
<1>8. table' = table \/ \A s \in Syscall : /\ table'[s] \in Entry /\ table'[s].my_list = EmptyList
                                           /\ table'[s].listcount = 0 /\ table'[s].monitored = 0
  <2>1. CASE InitTable
    BY <2>1, EmptyEntryIsEntry DEF InitTable, EmptyEntry
  <2>2. CASE ExitCleanup
    <3>1. \A e \in Entry : LET f == [e EXCEPT !.intercepted = 0]
                           IN  f \in Entry /\ f.my_list = e.my_list /\ f.listcount = e.listcount /\ f.monitored = e.monitored
      BY DEF Entry
    <3>2. \A s \in Syscall : table'[s] = [destroy_list(table[s]) EXCEPT !.intercepted = 0]
      BY <2>2 DEF ExitCleanup
    <3>3. \A s \in Syscall : /\ destroy_list(table[s]) \in Entry
                             /\ destroy_list(table[s]).my_list = EmptyList
                             /\ destroy_list(table[s]).listcount = 0
                             /\ destroy_list(table[s]).monitored = 0
      BY <1>7, Destroyed
    <3>4. ASSUME NEW s \in Syscall
          PROVE  /\ table'[s] \in Entry /\ table'[s].my_list = EmptyList
                 /\ table'[s].listcount = 0 /\ table'[s].monitored = 0
      <4> DEFINE d == destroy_list(table[s])
                 f == [d EXCEPT !.intercepted = 0]
      <4>1. d \in Entry /\ d.my_list = EmptyList /\ d.listcount = 0 /\ d.monitored = 0 BY <3>3
      <4>2. table'[s] = f BY <3>2
      <4> HIDE DEF d
      <4>3. f \in Entry /\ f.my_list = d.my_list /\ f.listcount = d.listcount /\ f.monitored = d.monitored
        BY <3>1, <4>1
      <4> HIDE DEF f
      <4> QED BY <4>1, <4>2, <4>3
    <3> QED BY <3>4
  <2> QED BY <2>1, <2>2 DEF ModuleStep, InitHooks, ExitHooks, ExitRestore
<1>9. Lists'
  <2>1. CASE table' = table
    <3>1. \A s \in Syscall : ListOK(table'[s], Uncounted(s)') BY <1>5, <2>1 DEF SInv, Lists
    <3>2. table'[0].my_list = EmptyList BY <2>1 DEF SInv, Lists, MY_CUSTOM_SYSCALL
    <3> QED BY <3>1, <3>2 DEF Lists, ListOK, OnList, Listed, EmptyList, MY_CUSTOM_SYSCALL
  <2>2. CASE \A s \in Syscall : /\ table'[s].my_list = EmptyList
                                /\ table'[s].listcount = 0 /\ table'[s].monitored = 0
    <3>1. \A s \in Syscall : ListOK(table'[s], Uncounted(s)') BY <1>5, <2>2, EmptyListOK
    <3>2. table'[0].my_list = EmptyList BY <2>2, Numbers
    <3> QED BY <3>1, <3>2 DEF Lists, ListOK, OnList, Listed, EmptyList, MY_CUSTOM_SYSCALL
  <2> QED BY <1>8, <2>1, <2>2
<1>10. DeadPidsForgotten'
  <2>1. \A s \in Syscall, q \in Procs : Listed(table'[s], q) => Listed(table[s], q)
    BY <1>8 DEF Listed, EmptyList
  <2> QED BY <1>2, <2>1 DEF SInv, DeadPidsForgotten, Listed
<1>11. ByModule' /\ HookedIffIntercepted'
  <2>1. CASE InitTable
    BY <2>1 DEF InitTable, ByModule, HookedIffIntercepted, EmptyEntry, EmptyList
  <2>2. CASE InitHooks
    <3>1. \A s \in Syscall : table[s].intercepted = 0 /\ sys_call_table[s] = "original"
      BY <2>2 DEF InitHooks, SInv, ByModule, TypeInv, Pointers, EmptyEntry
    <3>2. \A s \in Syscall \ {MY_CUSTOM_SYSCALL, EXIT_GROUP} : sys_call_table'[s] = "original"
      BY <2>2, <3>1 DEF InitHooks, SInv, TypeInv, TypeOK
    <3>3. sys_call_table'[EXIT_GROUP] = "my_exit_group"
      BY <2>2, Numbers DEF InitHooks, SInv, TypeInv, TypeOK
    <3>4. module' = "loaded" /\ table' = table BY <2>2 DEF InitHooks
    <3>5. ByModule' BY <3>3, <3>4 DEF ByModule
    <3>6. HookedIffIntercepted' BY <3>1, <3>2, <3>4 DEF HookedIffIntercepted
    <3> QED BY <3>5, <3>6
  <2>3. CASE ExitHooks
    <3>1. orig_exit_group = "original" BY <2>3 DEF ExitHooks, SInv, TypeInv, Pointers
    <3> QED BY <2>3, <3>1, Numbers
            DEF ExitHooks, ByModule, HookedIffIntercepted, SInv, TypeInv, TypeOK, MY_CUSTOM_SYSCALL
  <2>4. CASE ExitRestore
    BY <2>4, Numbers DEF ExitRestore, SInv, ByModule, HookedIffIntercepted, MY_CUSTOM_SYSCALL
  <2>5. CASE ExitCleanup
    <3>1. \A s \in Syscall : table'[s].my_list = EmptyList
      <4>1. \A e \in Entry : [e EXCEPT !.intercepted = 0].my_list = e.my_list BY DEF Entry
      <4>2. \A s \in Syscall : destroy_list(table[s]) \in Entry /\ destroy_list(table[s]).my_list = EmptyList
        BY <1>7, Destroyed
      <4>3. \A s \in Syscall : table'[s] = [destroy_list(table[s]) EXCEPT !.intercepted = 0]
        BY <2>5 DEF ExitCleanup
      <4> QED BY <4>1, <4>2, <4>3
    <3> QED BY <2>5, <3>1 DEF ExitCleanup, SInv, ByModule, HookedIffIntercepted, EmptyList
  <2> QED BY <2>1, <2>2, <2>3, <2>4, <2>5 DEF ModuleStep
<1> QED BY <1>4, <1>6, <1>9, <1>10, <1>11 DEF SInv

(* A step of something else keeps SInv. *)
LEMMA StutterKeeps == SInv /\ TypeInv' /\ UNCHANGED vars => SInv'
<1> SUFFICES ASSUME SInv, TypeInv', UNCHANGED vars PROVE SInv' OBVIOUS
<1> USE DEF vars
<1>1. Alone' BY DEF SInv, Alone, Inside
<1>4. ByModule' BY DEF SInv, ByModule, EmptyEntry, EmptyList
<1>5. HookedIffIntercepted' BY DEF SInv, HookedIffIntercepted
<1>6. DeadPidsForgotten' BY DEF SInv, DeadPidsForgotten, Listed
<1>2. Lists'
  <2>1. \A s : Uncounted(s)' = Uncounted(s) BY DEF Uncounted
  <2>2. \A s \in Syscall : ListOK(table'[s], Uncounted(s)') BY <2>1 DEF SInv, Lists
  <2>3. table'[0].my_list = EmptyList BY DEF SInv, Lists, MY_CUSTOM_SYSCALL
  <2> QED BY <2>2, <2>3 DEF Lists, ListOK, OnList, Listed, EmptyList, MY_CUSTOM_SYSCALL
<1>3. \A p \in Procs : Progress(p)' BY DEF SInv, Progress, InCommand, Listed
<1> QED BY <1>1, <1>2, <1>3, <1>4, <1>5, <1>6 DEF SInv

(* SInv is inductive with one process in the kernel at a time. *)
LEMMA NextSequential ==
    ASSUME OneProcessor, SInv, [Next]_vars
    PROVE  SInv'
<1>1. TypeInv' BY NextTypes DEF SInv
<1>2. ASSUME NEW p \in Procs, KernelStep(p) PROVE SInv'
  BY <1>1, <1>2, ChecksKeep, WholeKeeps, PidKeeps, WriteHookKeeps, LeaveKeeps, ScanKeeps, ScanEndKeeps
     DEF KernelStep
<1> QED BY <1>1, <1>2, ModuleKeeps, CallKeeps, InterceptorKeeps, ExitKeeps, StutterKeeps DEF Next, Idle

(* SInv holds at all times with one process in the kernel at a time. *)
LEMMA SequentialHolds == ASSUME OneProcessor PROVE Spec => []SInv
<1>1. SInv /\ [Next]_vars => SInv' BY NextSequential
<1> QED BY <1>1, InitSequential, PTL DEF Spec

(* With one processor the two tables agree, whatever commands fail on the way. *)
THEOREM HookedHolds == ASSUME OneProcessor PROVE Spec => []HookedIffIntercepted
<1>1. SInv => HookedIffIntercepted BY DEF SInv
<1> QED BY <1>1, SequentialHolds, PTL

(* With one processor every list is counted and is one the interceptor looks at, *)
(* also when del_pid is halfway through it.                                      *)
THEOREM ListsHold == ASSUME OneProcessor PROVE Spec => []ListsConsistent
<1>1. SInv => ListsConsistent
  <2> SUFFICES ASSUME SInv, NEW s \in Syscall
               PROVE  LET e == table[s]
                      IN  /\ \A q \in Procs : e.my_list[q] <= 1
                          /\ (\A p \in Procs : scan[p].unlinked # 0 => scan[p].s # s) =>
                                 e.listcount = Cardinality({q \in Procs : Listed(e, q)})
                          /\ e.my_list # EmptyList => e.monitored = 1 /\ ~e.list_inversed
    BY DEF ListsConsistent
  <2>1. ListOK(table[s], Uncounted(s)) BY DEF SInv, Lists
  <2>2. (\A p \in Procs : scan[p].unlinked # 0 => scan[p].s # s) => Uncounted(s) = 0
    BY DEF Uncounted, SInv, Progress
  <2>3. Cardinality(OnList(table[s])) \in Nat BY <2>1, FS_CardinalityType DEF ListOK
  <2> QED BY <2>1, <2>2, <2>3 DEF ListOK, OnList
<1> QED BY <1>1, SequentialHolds, PTL

(* With one processor no list names a process that has exited. *)
THEOREM DeadPidsHold == ASSUME OneProcessor PROVE Spec => []DeadPidsForgotten
<1>1. SInv => DeadPidsForgotten BY DEF SInv
<1> QED BY <1>1, SequentialHolds, PTL

(* SInv says that a command that returned 0 has its effect. *)
LEMMA EffectHolds == SInv => StartStarts /\ StopStops
<1> SUFFICES ASSUME SInv, NEW p \in Procs, at[p] = "return", ret[p] = "ok",
                    req[p].cmd \in Monitoring, req[p].pid # 0
             PROVE  /\ req[p].cmd = "START" /\ table[req[p].sys].intercepted = 1
                           => Logs(req[p].pid, req[p].sys)
                    /\ req[p].cmd = "STOP" => ~Logs(req[p].pid, req[p].sys)
  BY DEF StartStarts, StopStops, Succeeds, Monitoring
<1> DEFINE e == table[req[p].sys]
<1>1. req[p].sys \in Syscall /\ (req[p].cmd = "START" <=> Listed(e, req[p].pid)) BY DEF SInv, Progress
<1>2. ListOK(e, Uncounted(req[p].sys)) BY <1>1 DEF SInv, Lists
<1>3. Listed(e, req[p].pid) => e.my_list # EmptyList BY DEF Listed, EmptyList
<1> QED BY <1>1, <1>2, <1>3 DEF Logs, ListOK

(* With one processor a command to start monitoring a pid that succeeds makes *)
(* the calls of the pid logged.                                               *)
THEOREM StartHolds == ASSUME OneProcessor PROVE Spec => []StartStarts
<1> QED BY EffectHolds, SequentialHolds, PTL

(* And one to stop makes them not logged. *)
THEOREM StopHolds == ASSUME OneProcessor PROVE Spec => []StopStops
<1> QED BY EffectHolds, SequentialHolds, PTL

(* With one processor nothing of the module is left once it is unloaded. *)
THEOREM UnloadHolds == ASSUME OneProcessor PROVE Spec => []UnloadRestores
<1>1. SInv => UnloadRestores BY DEF SInv, ByModule, UnloadRestores
<1> QED BY <1>1, SequentialHolds, PTL

=============================================================================
