CONSTANTS
    Controller = {t1}
    Observer = {t2}
    ControlOps = {"stream_config", "start", "write"}
    ObserveOps = {"stop"}
    Task <- MCTask
    Op <- MCOp
    Board = "me4600"
    FifoSize = 2
    BufSize = 4
    Mode = {"continuous"}
    Stop <- NoLimit
    Trigger = {TRUE}
    Chunk = {1, 3}
    StopHow = {"immediate", "last"}
    Keep = {TRUE, FALSE}
    Timed = {TRUE}
    MaxCount = 1
    MaxData = 2
    MaxValues = 6
CHECK_DEADLOCK FALSE
SPECIFICATION Spec
PROPERTIES WriterUnblocks
