\* Two tids, args_map holding one entry (1024 in maps.h), exit_group
\* leaking one entry per exiting thread; one thread in a syscall at a time.
CONSTANTS
    t1 = t1  t2 = t2  t3 = t3
    write = write  read = read  getpid = getpid  prctl = prctl
    exit_group = exit_group  mmap = mmap
    NoFilter = NoFilter  NoSnap = NoSnap  NoRec = NoRec
    Signal = 19
    Values = {0, 1}
    Threads <- TwoThreads
    Syscalls <- ExitSyscallsAndRead
    Desc <- ExitDesc
    Filter <- AllButBlacklist
    SysWhitelist = {}
    Reconfigurable = {}
    AddsInFlight = FALSE
    SysBlacklist = {}
    NoReturn <- ExitGroupOnly
    ScopeChanging = {}
    MaxReg = 0
    ArgsMapCap = 1
SPECIFICATION SpecOneInKernel
INVARIANT CapturedCallsComplete
