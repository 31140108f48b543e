\* One process in the kernel at a time; exit_group is not intercepted by command.
CONSTANTS
    NR_syscalls = 4
    EXIT_GROUP = 3
    Procs = {1, 2, 3}
    Owner <- MCRootAndTwo
    Mortal = {2, 3}
    SyscallArgs <- MCBadArgs
    PidArgs <- MCPids
    CPUS = 1
    MAX_ENTRIES = 2
SPECIFICATION Spec
INVARIANTS
    TypeOK
    HookedIffIntercepted
    ListsConsistent
    DeadPidsForgotten
    StartStarts
    StopStops
    UnloadRestores
