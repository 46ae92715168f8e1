\* A pid freed by an exited linked task is given to an unrelated new task.
CONSTANTS
    r = r  a = a  b = b  c = c
    NoEntry = NoEntry  NoTask = NoTask
    Tasks <- FourTasks
    Roots <- RootR
    MapCap = 4
    PidReuse = TRUE
SPECIFICATION Spec
INVARIANT LinkedTasksAreRootChildren
\* Every task may exit, which ends the behaviour.
CHECK_DEADLOCK FALSE
