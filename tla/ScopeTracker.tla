---------------------------- MODULE ScopeTracker ----------------------------
(***************************************************************************)
(* The sched_process_fork handler of src/src/syscall.c and the             *)
(* child_parent_map it maintains (maps.h: BPF_HASH, 512 entries).          *)
(*                                                                         *)
(* Tasks are identified by their namespace pid (a thread id: every thread  *)
(* has its own).  The control plane seeds child_parent_map with {R: R} for *)
(* each root.  The tracepoint fires for every new task, process or thread, *)
(* with the forking thread as parent.  No handler ever removes an entry.   *)
(***************************************************************************)
EXTENDS Naturals, FiniteSets

CONSTANTS
    Tasks,      \* namespace pids
    Roots,      \* pids seeded as {R: R}
    MapCap,     \* max_entries of child_parent_map (512)
    PidReuse,   \* whether the pid of an exited task may be given to a new one
    NoEntry, NoTask

ASSUME Roots \subseteq Tasks /\ MapCap \in Nat /\ PidReuse \in BOOLEAN

VARIABLES
    alive,          \* live tasks
    used,           \* pids ever given to a task
    tgid,           \* thread-group (process) id of each task
    forker,         \* history: the task whose fork created each task
    childParentMap  \* child_parent_map: pid -> pid | NoEntry

vars == <<alive, used, tgid, forker, childParentMap>>

Keys == {k \in Tasks : childParentMap[k] # NoEntry}

\* bpf_map_update_elem(BPF_ANY): fails for a new key when the map is full;
\* the handler ignores the result.
\* Mutant: no capacity check.
MapUpdateUnbounded(k, v) == [childParentMap EXCEPT ![k] = v]
MapUpdate(k, v) ==
    IF k \in Keys \/ Cardinality(Keys) < MapCap
    THEN [childParentMap EXCEPT ![k] = v]
    ELSE childParentMap

(* tracepoint__sched__sched_process_fork(parent, child): the map after the *)
(* handler has run.                                                        *)
\* Mutant: the value test is dropped and every tracked parent is recorded.
OnForkAnyTracked(parent, child) ==
    IF childParentMap[parent] = NoEntry THEN childParentMap
    ELSE MapUpdate(child, parent)
\* Mutant: the value test is dropped and the parent's root is propagated.
OnForkPropagateRoot(parent, child) ==
    IF childParentMap[parent] = NoEntry THEN childParentMap
    ELSE MapUpdate(child, childParentMap[parent])
\* Mutant: the child is stored as a root of its own.
OnForkChildAsRoot(parent, child) ==
    IF childParentMap[parent] = NoEntry THEN childParentMap
    ELSE IF childParentMap[parent] = parent THEN MapUpdate(child, child)
    ELSE childParentMap
OnFork(parent, child) ==
    IF childParentMap[parent] = NoEntry THEN childParentMap
    ELSE IF childParentMap[parent] = parent THEN MapUpdate(child, parent)
    ELSE childParentMap

Init ==
    /\ alive = Roots
    /\ used = Roots
    /\ tgid = [t \in Tasks |-> t]
    /\ forker = [t \in Tasks |-> NoTask]
    /\ childParentMap = [t \in Tasks |-> IF t \in Roots THEN t ELSE NoEntry]

(* Task p creates task c: a new process (fork/clone) or, when thread, a    *)
(* new thread of p's process (clone(CLONE_THREAD)); the fork tracepoint    *)
(* handler runs.                                                           *)
Fork(p, c, thread) ==
    /\ p \in alive
    /\ c \notin (IF PidReuse THEN alive ELSE used)
    /\ alive' = alive \cup {c}
    /\ used' = used \cup {c}
    /\ tgid' = [tgid EXCEPT ![c] = IF thread THEN tgid[p] ELSE c]
    /\ forker' = [forker EXCEPT ![c] = p]
    /\ childParentMap' = OnFork(p, c)

(* A task exits; nothing removes its child_parent_map entry.               *)
Exit(t) ==
    /\ t \in alive
    /\ alive' = alive \ {t}
    /\ UNCHANGED <<used, tgid, forker, childParentMap>>

Next ==
    \/ \E p, c \in Tasks, thread \in BOOLEAN : Fork(p, c, thread)
    \/ \E t \in Tasks : Exit(t)

Spec == Init /\ [][Next]_vars

-----------------------------------------------------------------------------
TypeOK ==
    /\ alive \subseteq used /\ used \subseteq Tasks
    /\ tgid \in [Tasks -> Tasks]
    /\ forker \in [Tasks -> Tasks \cup {NoTask}]
    /\ childParentMap \in [Tasks -> Tasks \cup {NoEntry}]
    /\ Cardinality(Keys) <= MapCap

(* Every entry points at a root entry {R: R}: a linked task is never       *)
(* recorded against an intermediate descendant (syscall.c 84-94).          *)
AncestryValuesAreRoots ==
    \A k \in Keys : childParentMap[childParentMap[k]] = childParentMap[k]

(* Every task created by a root's own (main) thread is linked to that root *)
(* and stays linked for as long as it lives.                               *)
MainThreadChildrenLinked ==
    \A c \in alive \ Roots :
        forker[c] \in Roots => childParentMap[c] = forker[c]

(* The only way a child of a root's main thread goes unlinked is a full   *)
(* map: the update at syscall.c 88 fails only for a new key when           *)
(* max_entries keys are in use, and as no entry is ever removed the map    *)
(* then stays full.                                                        *)
UnlinkedOnlyWhenFull ==
    \A c \in alive \ Roots :
        (forker[c] \in Roots /\ childParentMap[c] # forker[c])
            => Cardinality(Keys) = MapCap

(* A live task is linked only if it was created by the root it is linked  *)
(* to: nothing unrelated to a watched process is ever in its scope.        *)
LinkedTasksAreRootChildren ==
    \A c \in (alive \cap Keys) \ Roots : childParentMap[c] = forker[c]

(* Every child process created by any thread of a root process is linked   *)
(* to that root: the first-generation descendants of a watched process.    *)
RootProcessChildrenLinked ==
    \A c \in alive \ Roots :
        (tgid[c] = c /\ forker[c] # NoTask /\ tgid[forker[c]] \in Roots)
            => childParentMap[c] = tgid[forker[c]]
=============================================================================
