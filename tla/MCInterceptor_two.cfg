\* Two processes in the kernel at a time, one of them not root; one may exit.
CONSTANTS
    NR_syscalls = 3
    EXIT_GROUP = 2
    Procs = {1, 2}
    Owner <- MCRootAndUser
    Mortal = {2}
    SyscallArgs = {1}
    PidArgs = {0, 1, 2}
    CPUS = 2
    MAX_ENTRIES = 2
SPECIFICATION FairSpec
PROPERTIES
    NonRootConfined
    EveryCallReturns
