CONSTANTS
    Controller = {t1}
    Observer = {t2}
    ControlOps = {"stream_config", "start", "write", "single_config", "single_write", "single_read", "new_values"}
    ObserveOps = {"status", "stop", "reset"}
    Task <- MCTask
    Op <- MCOp
    Board = "me6000"
    FifoSize = 2
    BufSize = 2
    Mode = {"continuous"}
    Stop <- NoLimit
    Trigger = {TRUE}
    Chunk = {1}
    StopHow = {"immediate", "last"}
    Keep = {FALSE}
    Timed = {FALSE}
    MaxCount = 1
    MaxData = 1
    MaxValues = 2
CHECK_DEADLOCK FALSE
SPECIFICATION FairSpec6000
PROPERTIES WaitersReturn EndIsNoticed
