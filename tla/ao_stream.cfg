CONSTANTS
    Controller = {t1}
    Observer = {t2}
    ControlOps = {"stream_config", "start", "write"}
    ObserveOps = {"stop", "reset"}
    Task <- MCTask
    Op <- MCOp
    Board = "me4600"
    FifoSize = 4
    BufSize = 8
    Mode = {"continuous", "sw_wrap", "hw_wrap"}
    Stop <- AnyLimit
    Trigger = {TRUE}
    Chunk = {2, 5}
    StopHow = {"immediate", "last"}
    Keep = {TRUE, FALSE}
    Timed = {TRUE}
    MaxCount = 1
    MaxData = 2
    MaxValues = 9
CHECK_DEADLOCK FALSE
SPECIFICATION Spec
INVARIANTS NothingLost IdleIsStopped OutputIsWatched StartNeverFails
PROPERTIES LoopInOrder
