CONSTANTS
    Task = {t1, t2}
    Filep = {p1, p2}
    Device = {d1}
    NSub = 1
    NULL = NULL
    Op = {"io", "irq_test", "reset_device", "lock_driver", "lock_subdevice", "lock_device", "me_release"}
    LockFlags <- NoFlags
    ResetFlags <- AnyReset
    MaxList = 2
    MaxCount = 2
INVARIANTS LowerLevelsAgree
SPECIFICATION Spec
PROPERTIES IoctlReturns
