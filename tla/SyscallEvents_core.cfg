\* Two threads; exit_group kills the calling thread in the kernel and its tid
\* is reused; whitelist and blacklist both apply.
CONSTANTS
    t1 = t1  t2 = t2  t3 = t3
    write = write  read = read  getpid = getpid  prctl = prctl
    exit_group = exit_group  mmap = mmap
    NoFilter = NoFilter  NoSnap = NoSnap  NoRec = NoRec
    Threads <- TwoThreads
    Syscalls <- CoreSyscalls
    Desc <- CoreDesc
    Filter <- WhiteAndBlacklist
    SysWhitelist <- CoreWhitelist
    Reconfigurable <- ReadOnly
    AddsInFlight = FALSE
    SysBlacklist <- PrctlOnly
    Signal = 19
    NoReturn <- ExitGroupOnly
    ScopeChanging = {}
    Values = {0, 1}
    MaxReg = 1
    ArgsMapCap = 2
SPECIFICATION Spec
INVARIANT TypeOK SnapshotOnlyInFlight ExitReportsEntryArguments EntryExitSameSlots
PROPERTY CallLogRefinement
