CONSTANTS
    Controller = {t1, t2}
    Observer = {}
    ControlOps = {"start", "start_nonblocking", "stop", "reset", "stream_config", "single_config", "single_read"}
    ObserveOps = {}
    Task <- MCTask
    Op <- MCOp
    FifoSize = 1
    BufSize = 1
    ErrorLimit = 1
    Trigger = {"software", "external"}
    Timed = {TRUE, FALSE}
    Signals = TRUE
    MaxCount = 1
    MaxSamples = 2
SPECIFICATION Spec
SYMMETRY Symmetric
INVARIANTS IdleIsStopped StreamIsWatched
PROPERTIES StreamNotReconfigured
