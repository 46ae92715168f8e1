\* A thread dies in exit_group with its snapshot in args_map; its tid is
\* reused, and the control plane whitelists read while the new thread is
\* inside an uncaptured read.
CONSTANTS
    t1 = t1  t2 = t2  t3 = t3
    write = write  read = read  getpid = getpid  prctl = prctl
    exit_group = exit_group  mmap = mmap
    NoFilter = NoFilter  NoSnap = NoSnap  NoRec = NoRec
    Threads <- OneThread
    Syscalls <- CoreSyscalls
    Desc <- CoreDesc
    Filter <- WhiteAndBlacklist
    SysWhitelist <- CoreWhitelist
    Reconfigurable <- ReadOnly
    AddsInFlight = TRUE
    SysBlacklist <- PrctlOnly
    Signal = 19
    NoReturn <- ExitGroupOnly
    ScopeChanging = {}
    Values = {0, 1}
    MaxReg = 1
    ArgsMapCap = 2
SPECIFICATION Spec
PROPERTY CallLogRefinement
