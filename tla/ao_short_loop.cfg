CONSTANTS
    Controller = {t1}
    Observer = {t2}
    ControlOps = {"stream_config", "start", "write"}
    ObserveOps = {"stop"}
    Task <- MCTask
    Op <- MCOp
    Board = "me4600"
    FifoSize = 8
    BufSize = 4
    Mode = {"sw_wrap"}
    Stop <- LongLimit
    Trigger = {TRUE}
    Chunk = {1, 3}
    StopHow = {"immediate"}
    Keep = {TRUE, FALSE}
    Timed = {TRUE}
    MaxCount = 1
    MaxData = 2
    MaxValues = 6
CHECK_DEADLOCK FALSE
SPECIFICATION Spec
INVARIANTS ShortLoopFits
