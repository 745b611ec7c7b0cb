CONSTANTS
    Task = {t1, t2}
    Filep = {p1, p2}
    Device = {d1}
    NSub = 2
    NULL = NULL
    Op = {"io", "reset_device", "lock_subdevice"}
    LockFlags <- NoFlags
    ResetFlags <- NoFlags
    MaxList = 1
    MaxCount = 2
SPECIFICATION Spec
INVARIANTS DeviceCountExact
