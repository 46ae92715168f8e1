-------------------------- MODULE MC_ScopeTracker --------------------------
(* Instances of ScopeTracker for TLC: one watched root and three more pids. *)
EXTENDS ScopeTracker

CONSTANTS r, a, b, c

FourTasks == {r, a, b, c}
RootR == {r}

\* Behaviours in which at most one descendant is alive at a time.
OneLiveChild == Cardinality(alive' \ Roots) <= 1
SpecOneLiveChild == Init /\ [][Next /\ OneLiveChild]_vars
=============================================================================
