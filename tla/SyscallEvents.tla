---------------------------- MODULE SyscallEvents ----------------------------
(***************************************************************************)
(* The sys_enter / sys_exit handlers of src/src/syscall.c and the per-     *)
(* thread register snapshot they share through args_map.                   *)
(*                                                                         *)
(* A thread enters a syscall (the sys_enter tracepoint fires and its       *)
(* handler runs to completion), the kernel executes the call (it writes    *)
(* the return value into x0, and a call such as prctl/execve may change    *)
(* whether the thread is in scope), then the sys_exit handler runs.  A     *)
(* call in NoReturn (exit, exit_group) never reaches sys_exit: the thread  *)
(* dies, and its tid may later be reused by a new thread.                  *)
(*                                                                         *)
(* The records are abstracted to the raw argument values they carry:       *)
(* field index -> value, for the descriptor's argument slots.  Payload     *)
(* decoding (read_arg) is the subject of ArgDecoder; the lr/pc/sp header   *)
(* fields and the return-value field carry no correlation state and are    *)
(* left out.                                                               *)
(***************************************************************************)
EXTENDS Integers, Sequences, FiniteSets

CONSTANTS
    Threads,        \* host tids (the args_map key)
    Syscalls,       \* syscall numbers
    Desc,           \* syscall_point_args_map: nr -> [count, args: Seq(read_index)]
    Filter,         \* syscall_filter[0], or NoFilter when the entry is absent
    SysWhitelist,   \* keys of sys_whitelist when tracing starts
    Reconfigurable, \* syscalls the control plane may add to/remove from it
    AddsInFlight,   \* whether it may add one while a thread is in a syscall
    SysBlacklist,   \* keys of sys_blacklist
    Signal,         \* common_filter[0].signal (0: none)
    NoReturn,       \* syscalls that never reach sys_exit
    ScopeChanging,  \* syscalls whose execution may flip should_trace
    Values,         \* register values
    MaxReg,         \* highest general register a descriptor reads
    ArgsMapCap,     \* max_entries of args_map (1024 in maps.h)
    NoFilter, NoSnap, NoRec

(* struct syscall_filter_t (syscall.c 11-17).                             *)
SyscallFilterT ==
    [is_32bit : {0, 1}, syscall_all : {0, 1}, whitelist_mode : {0, 1}, blacklist_mode : {0, 1}]

ASSUME DOMAIN Desc \subseteq Syscalls
ASSUME Filter \in SyscallFilterT \cup {NoFilter}
ASSUME Reconfigurable \subseteq Syscalls /\ AddsInFlight \in BOOLEAN
ASSUME 0 \in Values /\ MaxReg \in 0..29 /\ ArgsMapCap \in Nat \ {0}

\* Constants of utils.h and common/consts.h (arm64 register numbering).
MAX_POINT_ARG_COUNT == 10
READ_INDEX_SKIP == 100
READ_INDEX_REG == 101
REG_ARM64_X6 == 6
REG_ARM64_LR == 30
REG_ARM64_SP == 31
REG_ARM64_PC == 32

\* The live register file: x0..xMaxReg, and sp/pc where a descriptor reads
\* them; the registers no descriptor reads hold 0.
ExplicitSources == UNION {{Desc[s].args[i] : i \in DOMAIN Desc[s].args} : s \in DOMAIN Desc}
RegFile == (0..MaxReg) \cup ({REG_ARM64_SP, REG_ARM64_PC} \cap ExplicitSources)
Reg(r, k) == IF k \in DOMAIN r THEN r[k] ELSE 0

\* args_t holds six slots; sys_enter fills the first five (args_t args = {}).
ArgSlots == 0..5
Snapshot == [ArgSlots -> Values]
\* Mutant: an args_t of five slots.
SaveArgsFiveSlots(r) == [k \in 0..4 |-> Reg(r, k)]
SaveArgs(r) == [k \in ArgSlots |-> IF k <= 4 THEN Reg(r, k) ELSE 0]

VARIABLES
    tstate,        \* "user" | "kernel" | "dead"
    cur,           \* the syscall the thread is in (or last made)
    regs,          \* live pt_regs
    inScope,       \* should_trace verdict for the thread (external filter)
    argsMap,       \* args_map: tid -> snapshot | NoSnap
    pendingSignal, \* bpf_send_signal issued, delivered on return to user
    call,          \* history: the current/last invocation of each thread
    sysWhitelist   \* the keys of sys_whitelist now

vars == <<tstate, cur, regs, inScope, argsMap, pendingSignal, call, sysWhitelist>>

NoCall == [regs |-> [k \in RegFile |-> 0], scope |-> FALSE,
           entry |-> NoRec, exit |-> NoRec]

-----------------------------------------------------------------------------
(* Filter pipeline: syscall.c 128-144 (entry) and 281-297 (exit).          *)
SyscallFilterPasses(s) ==
    /\ (Filter.syscall_all = 0 /\ Filter.whitelist_mode = 1) => s \in sysWhitelist
    /\ Filter.blacklist_mode = 1 => s \notin SysBlacklist

(* point_arg_count = min(count, MAX_POINT_ARG_COUNT).                      *)
ArgCount(s) ==
    IF Desc[s].count <= MAX_POINT_ARG_COUNT THEN Desc[s].count ELSE MAX_POINT_ARG_COUNT
Source(s, i) == Desc[s].args[i + 1]

(* sys_enter: which read_index values yield a raw field for slot i.        *)
\* Mutant: the READ_INDEX_SKIP test is missing and SKIP falls into REG.
EntryEmitsNoSkip(src, i) ==
    src \in {READ_INDEX_SKIP, READ_INDEX_REG} /\ ~(i > REG_ARM64_PC)
EntryEmits(src, i) ==
    \/ src = READ_INDEX_REG /\ ~(i > REG_ARM64_PC)
    \/ /\ src > READ_INDEX_SKIP /\ src # READ_INDEX_REG
       /\ (src <= REG_ARM64_LR \/ src \in {REG_ARM64_SP, REG_ARM64_PC})

\* Mutant: the READ_INDEX_REG case is not special-cased at entry.
EntryRawIndexOnly(src, i, r) == Reg(r, src)
EntryRaw(src, i, r) == IF src = READ_INDEX_REG THEN Reg(r, i) ELSE Reg(r, src)

(* sys_exit: the same, preferring the snapshot for x0..x5.                 *)
ExitEmits(src, i) ==
    /\ src # READ_INDEX_SKIP
    /\ src = READ_INDEX_REG => ~(i > REG_ARM64_LR)
    /\ src \in {READ_INDEX_REG, REG_ARM64_SP, REG_ARM64_PC} \/ src <= REG_ARM64_LR

\* Mutant: the exit handler reads the live registers instead of the snapshot.
ExitRawLive(src, i, saved, r) ==
    IF src = READ_INDEX_REG THEN Reg(r, i) ELSE Reg(r, src)
ExitRaw(src, i, saved, r) ==
    IF src = READ_INDEX_REG /\ i < REG_ARM64_X6 THEN saved[i]
    ELSE IF src = READ_INDEX_REG THEN Reg(r, i)
    ELSE Reg(r, src)

EntryFields(s, r) ==
    LET emitted == {i \in 0..ArgCount(s) - 1 : EntryEmits(Source(s, i), i)}
    IN [i \in emitted |-> EntryRaw(Source(s, i), i, r)]

ExitFields(s, saved, r) ==
    LET emitted == {i \in 0..ArgCount(s) - 1 : ExitEmits(Source(s, i), i)}
    IN [i \in emitted |-> ExitRaw(Source(s, i), i, saved, r)]

(* args_map is a BPF_HASH: an update of an absent key fails when full;     *)
(* save_args ignores the failure.                                          *)
Stored == {k \in Threads : argsMap[k] # NoSnap}
save_args(t, snap) ==
    IF t \in Stored \/ Cardinality(Stored) < ArgsMapCap
    THEN [argsMap EXCEPT ![t] = snap]
    ELSE argsMap

\* Mutant: the snapshot is read but never deleted.
del_args_missing(t) == argsMap
del_args(t) == [argsMap EXCEPT ![t] = NoSnap]

(* load_args at exit (syscall.c 275-279): once the exit passed scope,      *)
(* descriptor and filter-entry checks, the snapshot is looked up before    *)
(* the white/blacklist is consulted.                                       *)
\* Mutant: the white/blacklist is consulted before the snapshot is loaded.
LoadsSnapshotAfterFilters(t, s, reaches) ==
    reaches /\ SyscallFilterPasses(s) /\ argsMap[t] # NoSnap
LoadsSnapshot(t, s, reaches) == reaches /\ argsMap[t] # NoSnap

-----------------------------------------------------------------------------
Init ==
    /\ tstate = [t \in Threads |-> "user"]
    /\ cur \in [Threads -> Syscalls]
    /\ regs = [t \in Threads |-> [k \in RegFile |-> 0]]
    /\ inScope \in [Threads -> BOOLEAN]
    /\ argsMap = [t \in Threads |-> NoSnap]
    /\ pendingSignal = [t \in Threads |-> FALSE]
    /\ call = [t \in Threads |-> NoCall]
    /\ sysWhitelist = SysWhitelist

(* raw_syscalls_sys_enter, run on the thread's entry into syscall s with   *)
(* registers r.                                                            *)
sys_enter(t, s, r) ==
    LET captured == /\ inScope[t]
                    /\ s \in DOMAIN Desc
                    /\ Filter # NoFilter
                    /\ SyscallFilterPasses(s)
    IN
    /\ tstate[t] = "user"
    /\ tstate' = [tstate EXCEPT ![t] = "kernel"]
    /\ cur' = [cur EXCEPT ![t] = s]
    /\ regs' = [regs EXCEPT ![t] = r]
    /\ argsMap' = IF captured THEN save_args(t, SaveArgs(r)) ELSE argsMap
    /\ pendingSignal' = [pendingSignal EXCEPT ![t] = captured /\ Signal > 0]
    /\ call' = [call EXCEPT ![t] =
                  [regs |-> r, scope |-> inScope[t], exit |-> NoRec,
                   entry |-> IF captured THEN EntryFields(s, r) ELSE NoRec]]
    /\ UNCHANGED <<inScope, sysWhitelist>>

(* The kernel completes syscall cur[t] with return value ret, the thread's *)
(* scope becomes sc, and raw_syscalls_sys_exit runs.                       *)
sys_exit(t, ret, sc) ==
    LET s == cur[t]
        live == [regs[t] EXCEPT ![0] = ret]
        reaches == sc /\ s \in DOMAIN Desc /\ Filter # NoFilter
        loaded == LoadsSnapshot(t, s, reaches)
        emits == loaded /\ SyscallFilterPasses(s)
    IN
    /\ tstate[t] = "kernel"
    /\ s \notin NoReturn
    /\ sc \in IF s \in ScopeChanging THEN BOOLEAN ELSE {inScope[t]}
    /\ tstate' = [tstate EXCEPT ![t] = "user"]
    /\ regs' = [regs EXCEPT ![t] = live]
    /\ inScope' = [inScope EXCEPT ![t] = sc]
    /\ argsMap' = IF loaded THEN del_args(t) ELSE argsMap
    /\ pendingSignal' = [pendingSignal EXCEPT ![t] = FALSE]
    /\ call' = [call EXCEPT ![t].exit =
                  IF emits THEN ExitFields(s, argsMap[t], live) ELSE NoRec]
    /\ UNCHANGED <<cur, sysWhitelist>>

(* A call in NoReturn ends the thread inside the kernel.                   *)
ThreadExit(t) ==
    /\ tstate[t] = "kernel"
    /\ cur[t] \in NoReturn
    /\ tstate' = [tstate EXCEPT ![t] = "dead"]
    /\ pendingSignal' = [pendingSignal EXCEPT ![t] = FALSE]
    /\ UNCHANGED <<cur, regs, inScope, argsMap, call, sysWhitelist>>

(* A new thread is created with a tid that was freed.                      *)
ThreadStart(t, sc) ==
    /\ tstate[t] = "dead"
    /\ tstate' = [tstate EXCEPT ![t] = "user"]
    /\ inScope' = [inScope EXCEPT ![t] = sc]
    /\ regs' = [regs EXCEPT ![t] = [k \in RegFile |-> 0]]
    /\ call' = [call EXCEPT ![t] = NoCall]
    /\ UNCHANGED <<cur, argsMap, pendingSignal, sysWhitelist>>

(* The control plane adds or removes syscall s in sys_whitelist while      *)
(* threads run (spec 4.2: the configuration may differ between a call's    *)
(* entry and its exit).                                                    *)
UpdateWhitelist(s) ==
    /\ s \in Reconfigurable
    /\ s \notin sysWhitelist => AddsInFlight \/ \A t \in Threads : tstate[t] # "kernel"
    /\ sysWhitelist' = IF s \in sysWhitelist THEN sysWhitelist \ {s} ELSE sysWhitelist \cup {s}
    /\ UNCHANGED <<tstate, cur, regs, inScope, argsMap, pendingSignal, call>>

Next ==
    \/ \E s \in Reconfigurable : UpdateWhitelist(s)
    \/ \E t \in Threads :
        \/ \E s \in Syscalls, r \in [RegFile -> Values] : sys_enter(t, s, r)
        \/ \E ret \in Values, sc \in BOOLEAN : sys_exit(t, ret, sc)
        \/ ThreadExit(t)
        \/ \E sc \in BOOLEAN : ThreadStart(t, sc)

Spec == Init /\ [][Next]_vars

-----------------------------------------------------------------------------
Record == {NoRec} \cup UNION {[D -> Values] : D \in SUBSET (0..MAX_POINT_ARG_COUNT - 1)}

TypeOK ==
    /\ tstate \in [Threads -> {"user", "kernel", "dead"}]
    /\ cur \in [Threads -> Syscalls]
    /\ regs \in [Threads -> [RegFile -> Values]]
    /\ inScope \in [Threads -> BOOLEAN]
    /\ argsMap \in [Threads -> Snapshot \cup {NoSnap}]
    /\ pendingSignal \in [Threads -> BOOLEAN]
    /\ sysWhitelist \subseteq Syscalls
    /\ \A t \in Threads : call[t].entry \in Record /\ call[t].exit \in Record

(* At-most-once consumption (syscall.c 147-153, 275-279): once a thread   *)
(* is back in user mode after a captured call, no snapshot of it is left   *)
(* in args_map for its next call to pick up.  (A thread that dies inside   *)
(* exit_group does leave one, until its tid's next captured entry.)       *)
SnapshotOnlyInFlight ==
    \A t \in Threads :
        tstate[t] = "user" /\ call[t].entry # NoRec => argsMap[t] = NoSnap

(* Entry/exit correlation (syscall.c 320-325): every argument slot that    *)
(* the exit record takes from the argument registers (READ_INDEX_REG)      *)
(* carries the value that register had when this syscall was entered,     *)
(* although x0 has since been overwritten by the return value.            *)
ExitReportsEntryArguments ==
    \A t \in Threads :
        call[t].exit # NoRec =>
            \A i \in DOMAIN call[t].exit :
                Source(cur[t], i) = READ_INDEX_REG =>
                    call[t].exit[i] = Reg(call[t].regs, i)

(* No lost exits: a syscall whose entry record was emitted, which returned *)
(* and left the thread's scope as it was, also has an exit record          *)
(* (sys_exit returns early at syscall.c 276-277 when no snapshot is found).*)
(* Syscalls the control plane reconfigures are left out: the exit re-runs  *)
(* the white/blacklist (spec 4.2) and may rightly drop their exit.         *)
CapturedCallsComplete ==
    \A t \in Threads :
        (/\ tstate[t] = "user"
         /\ call[t].entry # NoRec
         /\ inScope[t] = call[t].scope
         /\ cur[t] \notin Reconfigurable) => call[t].exit # NoRec

(* Framing: the exit record of a call carries a raw field for exactly the  *)
(* argument slots its entry record does, so a consumer can decode both     *)
(* with the same descriptor.                                               *)
EntryExitSameSlots ==
    \A t \in Threads :
        call[t].exit # NoRec /\ call[t].entry # NoRec =>
            DOMAIN call[t].exit = DOMAIN call[t].entry
-----------------------------------------------------------------------------
(* Refinement of CallLog.  The arguments of a record are its fields taken  *)
(* from the argument registers (READ_INDEX_REG); a call is in flight from  *)
(* its captured entry until the thread leaves the kernel.                  *)
RegArgs(t, rec) ==
    IF rec = NoRec THEN NoRec
    ELSE [i \in {j \in DOMAIN rec : Source(cur[t], j) = READ_INDEX_REG} |-> rec[i]]

Log == INSTANCE CallLog WITH
    Slots <- 0..MAX_POINT_ARG_COUNT - 1,
    None <- NoRec,
    inflight <- [t \in Threads |->
                   IF tstate[t] = "kernel" THEN RegArgs(t, call[t].entry) ELSE NoRec],
    exits <- [t \in Threads |-> RegArgs(t, call[t].exit)]

(* The correlation promise as a whole (syscall.c 147-153, 275-279,        *)
(* 320-325): each thread's exit record belongs to its current captured     *)
(* entry and repeats that entry's register arguments, and no exit record  *)
(* appears for a call whose entry was not captured.                        *)
CallLogRefinement == Log!Spec
=============================================================================
