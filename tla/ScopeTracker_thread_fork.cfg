\* A thread of the root process forks a child process.
CONSTANTS
    r = r  a = a  b = b  c = c
    NoEntry = NoEntry  NoTask = NoTask
    Tasks <- FourTasks
    Roots <- RootR
    MapCap = 4
    PidReuse = FALSE
SPECIFICATION Spec
INVARIANT RootProcessChildrenLinked
CHECK_DEADLOCK FALSE
