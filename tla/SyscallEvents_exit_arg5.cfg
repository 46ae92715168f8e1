\* A six-argument syscall: x5 is read from the snapshot at exit.
CONSTANTS
    t1 = t1  t2 = t2  t3 = t3
    write = write  read = read  getpid = getpid  prctl = prctl
    exit_group = exit_group  mmap = mmap
    NoFilter = NoFilter  NoSnap = NoSnap  NoRec = NoRec
    Signal = 19
    Values = {0, 1}
    Threads <- OneThread
    Syscalls <- MmapOnly
    Desc <- MmapDesc
    Filter <- AllButBlacklist
    SysWhitelist = {}
    Reconfigurable = {}
    AddsInFlight = FALSE
    SysBlacklist = {}
    NoReturn = {}
    ScopeChanging = {}
    MaxReg = 5
    ArgsMapCap = 2
SPECIFICATION Spec
INVARIANT ExitReportsEntryArguments
