------------------------------ MODULE CallLog ------------------------------
(***************************************************************************)
(* What the entry/exit correlation promises the consumer, per thread:     *)
(* an exit record is emitted only for the thread's current captured call   *)
(* and carries the arguments its entry record carried; a captured call     *)
(* may end without an exit record (the thread dies, or the exit is not     *)
(* captured), but never gets two.                                          *)
(***************************************************************************)
CONSTANTS
    Threads,
    Slots,      \* argument slot numbers
    Values,     \* raw register values
    None

VARIABLES
    inflight,   \* thread -> arguments of its captured call in progress | None
    exits       \* thread -> arguments of the exit record of its last call | None

Init ==
    /\ inflight = [t \in Threads |-> None]
    /\ exits = [t \in Threads |-> None]

\* The arguments a record carries: a value for some of the slots.
IsArgs(a) == a # None /\ DOMAIN a \subseteq Slots /\ \A i \in DOMAIN a : a[i] \in Values

\* The thread enters a syscall; the new in-flight value is the entry
\* record's arguments, or None when the entry is not captured.
Enter(t) ==
    /\ inflight[t] = None
    /\ inflight'[t] = None \/ IsArgs(inflight'[t])
    /\ inflight' = [inflight EXCEPT ![t] = inflight'[t]]
    /\ exits' = [exits EXCEPT ![t] = None]

\* The exit record of the captured call, with the entry's arguments.
Complete(t) ==
    /\ inflight[t] # None
    /\ exits' = [exits EXCEPT ![t] = inflight[t]]
    /\ inflight' = [inflight EXCEPT ![t] = None]

\* The captured call ends without an exit record.
Abandon(t) ==
    /\ inflight[t] # None
    /\ inflight' = [inflight EXCEPT ![t] = None]
    /\ UNCHANGED exits

Next ==
    \E t \in Threads :
        \/ Enter(t)
        \/ Complete(t)
        \/ Abandon(t)

Spec == Init /\ [][Next]_<<inflight, exits>>
=============================================================================
