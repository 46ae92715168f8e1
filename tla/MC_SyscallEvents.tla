-------------------------- MODULE MC_SyscallEvents --------------------------
(* Instances of SyscallEvents for TLC.  Syscall numbers and tids are model *)
(* values; descriptors, filter flags and map capacity are given here.      *)
EXTENDS SyscallEvents, TLC

CONSTANTS t1, t2, t3, write, read, getpid, prctl, exit_group, mmap

TwoThreads == {t1, t2}
ThreeThreads == {t1, t2, t3}
PrctlOnly == {prctl}
\* Behaviours in which at most one thread is inside a syscall at a time.
OneInKernel == Cardinality({t \in Threads : tstate'[t] = "kernel"}) <= 1
SpecOneInKernel == Init /\ [][Next /\ OneInKernel]_vars
ReadOnly == {read}
OneThread == {t1}
ExitGroupOnly == {exit_group}
MmapOnly == {mmap}
WriteOnly == {write}
ExitSyscallsAndRead == {write, exit_group, read}

REG == READ_INDEX_REG
SKIP == READ_INDEX_SKIP

\* write(fd, buf, count), read(fd, buf, count): three register arguments.
\* getpid has no descriptor (unsupported nr, handler returns early).
\* write's descriptor skips its second slot; read is not whitelisted;
\* prctl is whitelisted and blacklisted; exit_group never returns.
CoreSyscalls == {write, read, getpid, prctl, exit_group}
CoreDesc == (write :> [count |-> 3, args |-> <<REG, SKIP, REG>>])
         @@ (read :> [count |-> 3, args |-> <<REG, REG, REG>>])
         @@ (prctl :> [count |-> 1, args |-> <<REG>>])
         @@ (exit_group :> [count |-> 1, args |-> <<REG>>])
CoreWhitelist == {write, prctl, exit_group}

\* Trace every syscall except those in the blacklist.
AllButBlacklist ==
    [is_32bit |-> 0, syscall_all |-> 1, whitelist_mode |-> 0, blacklist_mode |-> 1]
\* Whitelist and blacklist both in force.
WhiteAndBlacklist ==
    [is_32bit |-> 0, syscall_all |-> 0, whitelist_mode |-> 1, blacklist_mode |-> 1]
\* Trace only whitelisted syscalls.
WhitelistOnly ==
    [is_32bit |-> 0, syscall_all |-> 0, whitelist_mode |-> 1, blacklist_mode |-> 0]

\* exit_group never returns; prctl(PR_SET_NAME) may change the thread name
\* the external should_trace filter matches on.
ExitSyscalls == {write, exit_group}
ExitDesc == [s \in {write, exit_group, read} |-> [count |-> 2, args |-> <<REG, REG>>]]
ScopeSyscalls == {write, prctl}
ScopeDesc == [s \in ScopeSyscalls |-> [count |-> 2, args |-> <<REG, REG>>]]

\* mmap(addr, len, prot, flags, fd, off): six register arguments.
MmapDesc == [s \in {mmap} |-> [count |-> 6, args |-> <<REG, REG, REG, REG, REG, REG>>]]
\* A descriptor that also reads the caller's sp explicitly.
SpDesc == [s \in {write} |-> [count |-> 2, args |-> <<REG, REG_ARM64_SP>>]]
=============================================================================
