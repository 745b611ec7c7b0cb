CONSTANTS
    Controller = {t1}
    Observer = {t2}
    ControlOps = {"start", "stop", "stream_config"}
    ObserveOps = {"status", "read", "new_values"}
    Task <- MCTask
    Op <- MCOp
    FifoSize = 1
    BufSize = 2
    ErrorLimit = 1
    Trigger = {"software"}
    Timed = {FALSE}
    Signals = FALSE
    MaxCount = 1
    MaxSamples = 2
CHECK_DEADLOCK FALSE
SPECIFICATION FairSpec
INVARIANTS ReaderFindsValues
PROPERTIES WaitersReturn
