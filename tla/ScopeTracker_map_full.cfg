\* child_parent_map with room for two entries (512 in maps.h); exited
\* descendants keep theirs; at most one descendant is alive at a time.
CONSTANTS
    r = r  a = a  b = b  c = c
    NoEntry = NoEntry  NoTask = NoTask
    Tasks <- FourTasks
    Roots <- RootR
    MapCap = 2
    PidReuse = FALSE
SPECIFICATION SpecOneLiveChild
INVARIANT MainThreadChildrenLinked
CHECK_DEADLOCK FALSE
