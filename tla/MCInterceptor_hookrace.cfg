\* Two root processes in the kernel at a time.
CONSTANTS
    NR_syscalls = 3
    EXIT_GROUP = 2
    Procs = {1, 2}
    Owner <- MCTwoRoots
    Mortal = {}
    SyscallArgs = {1}
    PidArgs = {1}
    CPUS = 2
    MAX_ENTRIES = 2
SPECIFICATION Spec
INVARIANTS
    HookedIffIntercepted
