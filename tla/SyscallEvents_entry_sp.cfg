\* A descriptor whose second slot reads the caller's sp explicitly.
CONSTANTS
    t1 = t1  t2 = t2  t3 = t3
    write = write  read = read  getpid = getpid  prctl = prctl
    exit_group = exit_group  mmap = mmap
    NoFilter = NoFilter  NoSnap = NoSnap  NoRec = NoRec
    Signal = 19
    Values = {0, 1}
    Threads <- OneThread
    Syscalls <- WriteOnly
    Desc <- SpDesc
    Filter <- AllButBlacklist
    SysWhitelist = {}
    Reconfigurable = {}
    AddsInFlight = FALSE
    SysBlacklist = {}
    NoReturn = {}
    ScopeChanging = {}
    MaxReg = 0
    ArgsMapCap = 2
SPECIFICATION Spec
INVARIANT EntryExitSameSlots
