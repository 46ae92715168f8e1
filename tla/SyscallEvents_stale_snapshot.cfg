\* prctl(PR_SET_NAME) can take a thread out of the should_trace scope and
\* back: sys_exit then returns before consuming the snapshot.
CONSTANTS
    t1 = t1  t2 = t2  t3 = t3
    write = write  read = read  getpid = getpid  prctl = prctl
    exit_group = exit_group  mmap = mmap
    NoFilter = NoFilter  NoSnap = NoSnap  NoRec = NoRec
    Signal = 19
    Values = {0, 1}
    Threads <- OneThread
    Syscalls <- ScopeSyscalls
    Desc <- ScopeDesc
    Filter <- AllButBlacklist
    SysWhitelist = {}
    Reconfigurable = {}
    AddsInFlight = FALSE
    SysBlacklist = {}
    NoReturn = {}
    ScopeChanging <- PrctlOnly
    MaxReg = 1
    ArgsMapCap = 2
SPECIFICATION Spec
INVARIANT ExitReportsEntryArguments
