CONSTANTS
    Task = {t1, t2}
    Filep = {p1, p2}
    Device = {d1}
    NSub = 2
    NULL = NULL
    Op = {"io", "irq_test", "lock_driver", "lock_device", "lock_subdevice"}
    LockFlags <- AllLockFlags
    ResetFlags <- NoFlags
    MaxList = 1
    MaxCount = 2
SPECIFICATION Spec
SYMMETRY Symmetric
INVARIANTS TypeOK Exclusion CountsInside
PROPERTIES LockNotStolen ImplementsResourceLocks
