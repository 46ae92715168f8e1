\* One root, four pids, child_parent_map with room for three entries: forks
\* by processes and threads, with and without room in the map.  Pids are
\* not reused, so a behaviour ends once every pid has been used and has
\* exited.
CONSTANTS
    r = r  a = a  b = b  c = c
    NoEntry = NoEntry  NoTask = NoTask
    Tasks <- FourTasks
    Roots <- RootR
    MapCap = 3
    PidReuse = FALSE
SPECIFICATION Spec
INVARIANT TypeOK AncestryValuesAreRoots UnlinkedOnlyWhenFull LinkedTasksAreRootChildren
CHECK_DEADLOCK FALSE
