----------------------------- MODULE DriverLock -----------------------------
(***************************************************************************)
(* The lock hierarchy of the MEiDS kernel driver.                          *)
(*                                                                         *)
(* A process is known to the driver by its `struct file` (filep).  Access  *)
(* is controlled on three levels: the driver (me_filep, me_count under the *)
(* spin lock me_lock, memain_common.c), each device (me_dlock_t, medlock.c)*)
(* and each subdevice (me_slock_t, meslock.c).  Every level counts the     *)
(* tasks inside it and may be held by one filep.  Several tasks may share  *)
(* a filep (threads of a process), and each step below is what one task    *)
(* does between two points where another task can be scheduled.            *)
(***************************************************************************)
EXTENDS Integers, FiniteSets

CONSTANTS
    Task,       \* kernel contexts executing ioctls
    Filep,      \* open file structures of the character device
    Device,     \* devices on me_device_list
    NSub,       \* number of subdevices of each device
    NULL,       \* the C null pointer; also "nobody holds this spin lock"
    Op,         \* the ioctls tasks issue
    LockFlags,  \* flag words passed to the lock ioctls
    ResetFlags, \* flag words passed to me_io_reset_device
    MaxList,    \* bound: entries of one me_io_stream_start list
    MaxCount    \* bound: tasks counted in a device when a reset is started

DataOps   == {"io", "irq_test", "reset_device"}
DriverOps == {"lock_driver", "me_release"}
LockOps   == DriverOps \cup {"lock_device", "lock_subdevice"}
AllOps    == DataOps \cup LockOps

ASSUME NullAssumption   == NULL \notin Task \cup Filep \cup Device
ASSUME SubAssumption    == NSub \in Nat \ {0}
ASSUME BoundAssumption  == MaxList \in Nat \ {0} /\ MaxCount \in Nat \ {0}
ASSUME OpAssumption     == Op \subseteq AllOps
ASSUME FlagsAssumption  == /\ LockFlags \subseteq SUBSET {"FORCE", "PRESERVE"}
                           /\ ResetFlags \subseteq SUBSET {"UNPROTECTED"}
ASSUME FiniteAssumption == IsFiniteSet(Task)

VARIABLES
    open,       \* the file structures that are open
    me_lock,    \* the task that holds the spin lock me_lock
    me_filep,   \* the filep that holds the driver
    me_count,   \* tasks inside the driver
    dlock,      \* me_dlock_t of each device; spin is the holder of its spin lock
    slock,      \* me_slock_t of each subdevice
    pc,         \* where each task is
    call        \* the arguments and locals of the ioctl each task executes

vars == <<open, me_lock, me_filep, me_count, dlock, slock, pc, call>>

-----------------------------------------------------------------------------
Sub  == 0 .. NSub - 1
Lock == {"SET", "RELEASE", "CHECK"}
Err  == {"SUCCESS", "LOCKED", "USED"}

Location == {"idle", "dlock_enter", "slock_enter", "inside", "dlock_exit", "dlock_exited",
             "next_item", "driver_exit", "dlock_lock", "dlock_check",
             "dlock_apply", "dlock_free", "dlock_done", "slock_lock",
             "driver_check", "driver_apply", "driver_free", "driver_done"}

CallType == [op    : AllOps \cup {"none"},
             filep : Filep \cup {NULL},
             dev   : Device \cup {NULL},
             sub   : 0 .. NSub,
             goal  : Lock \cup {"none"},    \* what the ioctl asks for
             lock  : Lock \cup {"none"},    \* what is passed to the lower level
             flags : SUBSET {"FORCE", "PRESERVE", "UNPROTECTED"},
             devs  : SUBSET Device,         \* devices a loop has still to visit
             items : Nat,                   \* list entries still to execute
             err   : Err]                  \* result of me_dlock_lock()

NoCall == [op |-> "none", filep |-> NULL, dev |-> NULL, sub |-> 0,
           goal |-> "none", lock |-> "none", flags |-> {}, devs |-> {}, items |-> 0,
           err |-> "SUCCESS"]

\* The type invariant: the counters of all three levels never go below zero.
TypeOK ==
    /\ open \subseteq Filep
    /\ me_lock \in Task \cup {NULL}
    /\ me_filep \in Filep \cup {NULL}
    /\ me_count \in Nat
    /\ dlock \in [Device -> [filep : Filep \cup {NULL}, count : Nat,
                             spin : Task \cup {NULL}]]
    /\ slock \in [Device \X Sub -> [filep : Filep \cup {NULL}, count : Nat]]
    /\ pc \in [Task -> Location]
    /\ call \in [Task -> CallType]

\* me_filep / dlock->filep / slock->filep refuses the caller f.
Refuses(owner, f) == owner \notin {NULL, f}

Here(t) == <<call[t].dev, call[t].sub>>

\* Task t moves to l with locals c.
Goto(t, l, c) ==
    /\ pc' = [pc EXCEPT ![t] = l]
    /\ call' = [call EXCEPT ![t] = c]

Init ==
    /\ open = {}
    /\ me_lock = NULL
    /\ me_filep = NULL
    /\ me_count = 0
    /\ dlock = [d \in Device |-> [filep |-> NULL, count |-> 0, spin |-> NULL]]
    /\ slock = [r \in Device \X Sub |-> [filep |-> NULL, count |-> 0]]
    /\ pc = [t \in Task |-> "idle"]
    /\ call = [t \in Task |-> NoCall]

-----------------------------------------------------------------------------
(* Entry points: open, ioctl and release of the character device.          *)

me_open(f) ==
    /\ f \notin open
    /\ open' = open \cup {f}
    /\ UNCHANGED <<me_lock, me_filep, me_count, dlock, slock, pc, call>>

\* Mutant: the task is not counted on entry.
NoCountUp == UNCHANGED me_count

CountUp == me_count' = me_count + 1

\* ME_IO_MULTIPLEX_TEMPLATE and me_io_stream_start: refused when the driver is
\* locked by another process, else counted in me_count while me_lock is held.
me_io(t, f, op, d, s, flags, items) ==
    /\ pc[t] = "idle" /\ me_lock = NULL
    /\ op = "reset_device" => dlock[d].count < MaxCount
    /\ ~ Refuses(me_filep, f)
    /\ CountUp
    /\ Goto(t, IF op = "irq_test" THEN "slock_enter" ELSE "dlock_enter",
            [NoCall EXCEPT !.op = op, !.filep = f, !.dev = d, !.sub = s,
                           !.flags = flags, !.items = items])
    /\ UNCHANGED <<open, me_lock, me_filep, dlock, slock>>

\* lock_device() and lock_subdevice(): me_lock is held until the end.
lock_lower(t, f, op, d, s, lock, flags) ==
    /\ pc[t] = "idle" /\ me_lock = NULL
    /\ ~ Refuses(me_filep, f)
    /\ me_lock' = t
    /\ Goto(t, IF op = "lock_device" THEN "dlock_lock" ELSE "dlock_enter",
            [NoCall EXCEPT !.op = op, !.filep = f, !.dev = d, !.sub = s,
                           !.goal = lock, !.lock = lock, !.flags = flags])
    /\ UNCHANGED <<open, me_filep, me_count, dlock, slock>>

\* lock_driver(): unless forced, every device is checked first.
lock_driver(t, f, op, lock, flags) ==
    /\ pc[t] = "idle" /\ me_lock = NULL
    /\ Refuses(me_filep, f) => "FORCE" \in flags /\ lock # "CHECK"
    /\ me_lock' = t
    /\ Goto(t, IF "FORCE" \in flags THEN "driver_apply" ELSE "driver_check",
            [NoCall EXCEPT !.op = op, !.filep = f, !.goal = lock,
                           !.lock = "CHECK", !.flags = flags, !.devs = Device])
    /\ UNCHANGED <<open, me_filep, me_count, dlock, slock>>

\* me_release(): the kernel calls it when the last reference to f is gone.
Unreferenced(f) == \A u \in Task : call[u].filep # f

me_release(t, f) ==
    /\ Unreferenced(f)
    /\ lock_driver(t, f, "me_release", "RELEASE", {})

me_release_refused(t, f) ==
    /\ pc[t] = "idle" /\ me_lock = NULL
    /\ Unreferenced(f)
    /\ Refuses(me_filep, f)
    /\ open' = open \ {f}
    /\ UNCHANGED <<me_lock, me_filep, me_count, dlock, slock, pc, call>>

-----------------------------------------------------------------------------
(* The data path: device, subdevice, and back.                             *)

\* Mutant: does not take the spin lock around the owner check and the count.
SpinIgnored(d) == TRUE

SpinFree(d) == dlock[d].spin = NULL

dlock_enter(t) ==
    LET c == call[t]  d == c.dev IN
    /\ pc[t] = "dlock_enter" /\ SpinFree(d)
    /\ \/ /\ Refuses(dlock[d].filep, c.filep)
          /\ Goto(t, IF c.op = "lock_subdevice" THEN "driver_done" ELSE "next_item", c)
          /\ UNCHANGED dlock
       \/ /\ ~ Refuses(dlock[d].filep, c.filep)
          /\ dlock' = [dlock EXCEPT ![d].count = @ + 1]
          /\ Goto(t, CASE c.op = "lock_subdevice" -> "slock_lock"
                       [] c.op = "reset_device" /\ "UNPROTECTED" \notin c.flags
                                                  -> "dlock_lock"
                       [] OTHER                   -> "slock_enter",
                  IF c.op = "reset_device" THEN [c EXCEPT !.lock = "CHECK"] ELSE c)
    /\ UNCHANGED <<open, me_lock, me_filep, me_count, slock>>

\* Mutant: irq_test exits the device as well, which it has not entered.
AfterSubdevice_exits(t) ==
    LET c == call[t] IN
    IF c.op = "reset_device" /\ c.sub + 1 < NSub
    THEN Goto(t, "slock_enter", [c EXCEPT !.sub = @ + 1])
    ELSE Goto(t, "dlock_exit", c)

\* What follows a subdevice method: me_device_io_reset_device goes on with the
\* next subdevice, irq_test has no device to exit, the others exit the device.
AfterSubdevice(t) ==
    LET c == call[t] IN
    IF c.op = "reset_device" /\ c.sub + 1 < NSub
    THEN Goto(t, "slock_enter", [c EXCEPT !.sub = @ + 1])
    ELSE Goto(t, IF c.op = "irq_test" THEN "next_item" ELSE "dlock_exit", c)

\* ME_SUBDEVICE_ENTER of a subdevice method.
slock_enter(t) ==
    LET c == call[t]  r == Here(t) IN
    /\ pc[t] = "slock_enter"
    /\ \/ /\ Refuses(slock[r].filep, c.filep)
          /\ AfterSubdevice(t)
          /\ UNCHANGED slock
       \/ /\ ~ Refuses(slock[r].filep, c.filep)
          /\ slock' = [slock EXCEPT ![r].count = @ + 1]
          /\ Goto(t, "inside", c)
    /\ UNCHANGED <<open, me_lock, me_filep, me_count, dlock>>

\* ME_SUBDEVICE_EXIT, at the end of the method or on its error path.
slock_exit(t) ==
    /\ pc[t] = "inside"
    /\ slock' = [slock EXCEPT ![Here(t)].count = IF @ - 1 < 0 THEN 0 ELSE @ - 1]
    /\ AfterSubdevice(t)
    /\ UNCHANGED <<open, me_lock, me_filep, me_count, dlock>>

dlock_exit(t) ==
    LET c == call[t]  d == c.dev IN
    /\ pc[t] = "dlock_exit" /\ SpinFree(d)
    /\ dlock' = [dlock EXCEPT ![d].count = @ - 1]
    /\ Goto(t, "dlock_exited", c)
    /\ UNCHANGED <<open, me_lock, me_filep, me_count, slock>>

\* The rest of me_dlock_exit(), behind the spin lock: a count below zero is set to
\* zero.  The test and the store are one step because the test never succeeds.
dlock_exited(t) ==
    LET c == call[t]  d == c.dev IN
    /\ pc[t] = "dlock_exited"
    /\ dlock' = [dlock EXCEPT ![d].count = IF @ < 0 THEN 0 ELSE @]
    /\ Goto(t, IF c.op = "lock_subdevice" THEN "driver_done" ELSE "next_item", c)
    /\ UNCHANGED <<open, me_lock, me_filep, me_count, slock>>

\* The loop of me_io_stream_start: after an error it goes on only in the
\* nonblocking mode.  An ioctl on one subdevice has no next entry.
next_item(t) ==
    LET c == call[t] IN
    /\ pc[t] = "next_item"
    /\ \/ /\ c.items > 0
          /\ \E d \in Device, s \in Sub :
                Goto(t, "dlock_enter", [c EXCEPT !.dev = d, !.sub = s,
                                        !.items = @ - 1])
       \/ Goto(t, "driver_exit", [c EXCEPT !.items = 0])
    /\ UNCHANGED <<open, me_lock, me_filep, me_count, dlock, slock>>

driver_exit(t) ==
    /\ pc[t] = "driver_exit" /\ me_lock = NULL
    /\ me_count' = me_count - 1
    /\ Goto(t, "idle", NoCall)
    /\ UNCHANGED <<open, me_lock, me_filep, dlock, slock>>

-----------------------------------------------------------------------------
(* me_slock_lock() and me_dlock_lock().                                    *)

SlockError(r, f, lock, flags) ==
    IF Refuses(slock[r].filep, f) /\ ("FORCE" \notin flags \/ lock = "CHECK")
    THEN "LOCKED"
    ELSE IF lock # "CHECK" /\ slock[r].count # 0 THEN "USED" ELSE "SUCCESS"

\* Mutant: a release does not look at the result of the checks.
SlockOwner_always(r, f, lock, flags) ==
    CASE lock = "RELEASE" -> NULL
      [] lock = "SET" /\ SlockError(r, f, lock, flags) = "SUCCESS" -> f
      [] OTHER -> slock[r].filep

\* The owner of subdevice r after me_slock_lock(filep f, lock, flags).
SlockOwner(r, f, lock, flags) ==
    IF SlockError(r, f, lock, flags) # "SUCCESS" THEN slock[r].filep
    ELSE CASE lock = "SET"     -> f
           [] lock = "RELEASE" -> NULL
           [] OTHER            -> slock[r].filep

me_slock_lock(t) ==
    LET c == call[t]  r == Here(t) IN
    /\ pc[t] = "slock_lock"
    /\ slock' = [slock EXCEPT ![r].filep = SlockOwner(r, c.filep, c.lock, c.flags)]
    /\ Goto(t, "dlock_exit", c)
    /\ UNCHANGED <<open, me_lock, me_filep, me_count, dlock>>

\* Mutant: a device in use can be locked.
DlockError_unused(d, f, lock, flags) ==
    IF Refuses(dlock[d].filep, f) /\ ("FORCE" \notin flags \/ lock = "CHECK")
    THEN "LOCKED" ELSE "SUCCESS"

DlockError(d, f, lock, flags) ==
    IF Refuses(dlock[d].filep, f) /\ ("FORCE" \notin flags \/ lock = "CHECK")
    THEN "LOCKED"
    ELSE IF lock # "CHECK" /\ dlock[d].count # 0 THEN "USED" ELSE "SUCCESS"

\* Entry of me_dlock_lock(): takes the device's spin lock, then the owner check
\* and the count check.
dlock_lock(t) ==
    LET c == call[t]  d == c.dev  flags == c.flags
        err == DlockError(d, c.filep, c.lock, flags)
    IN
    /\ pc[t] = "dlock_lock" /\ SpinFree(d)
    /\ \/ /\ err # "SUCCESS"
          /\ Goto(t, "dlock_done", [c EXCEPT !.err = err])
          /\ UNCHANGED dlock
       \/ /\ err = "SUCCESS"
          /\ dlock' = [dlock EXCEPT ![d].spin = t]
          /\ Goto(t, IF "FORCE" \in flags THEN "dlock_apply" ELSE "dlock_check",
                  [c EXCEPT !.sub = 0, !.err = "SUCCESS"])
    /\ UNCHANGED <<open, me_lock, me_filep, me_count, slock>>

\* Mutant: the error path of the loop leaves the spin lock taken.
dlock_check_keeps(t) ==
    LET c == call[t]
        err == SlockError(Here(t), c.filep, "CHECK", {})
    IN
    /\ pc[t] = "dlock_check"
    /\ IF err # "SUCCESS"
       THEN Goto(t, "dlock_done", [c EXCEPT !.err = err])
       ELSE Goto(t, IF c.sub + 1 < NSub THEN "dlock_check" ELSE "dlock_apply",
                 [c EXCEPT !.sub = IF c.sub + 1 < NSub THEN @ + 1 ELSE 0])
    /\ UNCHANGED <<open, me_lock, me_filep, me_count, dlock, slock>>

\* One turn of the loop that checks the subdevices, under the spin lock.
dlock_check(t) ==
    LET c == call[t]  d == c.dev
        err == SlockError(Here(t), c.filep, "CHECK", {})
    IN
    /\ pc[t] = "dlock_check"
    /\ \/ /\ err # "SUCCESS"
          /\ dlock' = [dlock EXCEPT ![d].spin = NULL]
          /\ Goto(t, "dlock_done", [c EXCEPT !.err = err])
       \/ /\ err = "SUCCESS"
          /\ Goto(t, IF c.sub + 1 < NSub THEN "dlock_check" ELSE "dlock_apply",
                  [c EXCEPT !.sub = IF c.sub + 1 < NSub THEN @ + 1 ELSE 0])
          /\ UNCHANGED dlock
    /\ UNCHANGED <<open, me_lock, me_filep, me_count, slock>>

\* dlock->filep is assigned; a release goes on with the subdevices.
dlock_apply(t) ==
    LET c == call[t]  d == c.dev
        free == c.lock = "RELEASE" /\ "PRESERVE" \notin c.flags
    IN
    /\ pc[t] = "dlock_apply"
    /\ dlock' = [dlock EXCEPT
         ![d].filep = CASE c.lock = "SET"     -> c.filep
                        [] c.lock = "RELEASE" -> NULL
                        [] OTHER              -> @,
         ![d].spin = IF free THEN @ ELSE NULL]
    /\ Goto(t, IF free THEN "dlock_free" ELSE "dlock_done", c)
    /\ UNCHANGED <<open, me_lock, me_filep, me_count, slock>>

\* One turn of the loop that releases the subdevices; an error ends it.
dlock_free(t) ==
    LET c == call[t]  d == c.dev  r == Here(t)
        err  == SlockError(r, c.filep, "RELEASE", c.flags)
        more == err = "SUCCESS" /\ c.sub + 1 < NSub
    IN
    /\ pc[t] = "dlock_free"
    /\ slock' = [slock EXCEPT ![r].filep = SlockOwner(r, c.filep, "RELEASE", c.flags)]
    /\ dlock' = [dlock EXCEPT ![d].spin = IF more THEN @ ELSE NULL]
    /\ Goto(t, IF more THEN "dlock_free" ELSE "dlock_done",
            [c EXCEPT !.sub = IF more THEN @ + 1 ELSE 0, !.err = err])
    /\ UNCHANGED <<open, me_lock, me_filep, me_count>>

\* The callers of me_dlock_lock().  When the check of me_device_io_reset_device
\* fails it returns without me_dlock_exit().
dlock_return(t) ==
    LET c == call[t] IN
    /\ pc[t] = "dlock_done"
    /\ \/ /\ c.op = "lock_device"
          /\ Goto(t, "driver_done", c)
       \/ /\ c.op = "reset_device"
          /\ Goto(t, IF c.err = "SUCCESS" THEN "slock_enter" ELSE "next_item",
                  [c EXCEPT !.sub = 0, !.err = "SUCCESS"])
       \/ /\ c.op \in DriverOps /\ c.lock = "CHECK"
          /\ Goto(t, IF c.err = "SUCCESS" THEN "driver_check" ELSE "driver_done",
                  [c EXCEPT !.dev = NULL, !.err = "SUCCESS"])
       \/ /\ c.op \in DriverOps /\ c.lock # "CHECK"
          /\ Goto(t, "driver_free", [c EXCEPT !.dev = NULL, !.err = "SUCCESS"])
    /\ UNCHANGED <<open, me_lock, me_filep, me_count, dlock, slock>>

-----------------------------------------------------------------------------
(* The body of lock_driver(), which runs while me_lock is held.            *)

\* Mutant: the last device of the list is not checked.
driver_check_but_one(t) ==
    LET c == call[t] IN
    /\ pc[t] = "driver_check"
    /\ \/ /\ \A d, e \in c.devs : d = e
          /\ Goto(t, "driver_apply", c)
       \/ \E d \in c.devs :
             /\ c.devs # {d}
             /\ Goto(t, "dlock_lock", [c EXCEPT !.dev = d, !.devs = @ \ {d}])
    /\ UNCHANGED <<open, me_lock, me_filep, me_count, dlock, slock>>

\* One turn of the loop that checks the devices, in the order of the list.
driver_check(t) ==
    LET c == call[t] IN
    /\ pc[t] = "driver_check"
    /\ \/ /\ c.devs = {}
          /\ Goto(t, "driver_apply", c)
       \/ \E d \in c.devs :
             Goto(t, "dlock_lock", [c EXCEPT !.dev = d, !.devs = @ \ {d}])
    /\ UNCHANGED <<open, me_lock, me_filep, me_count, dlock, slock>>

driver_apply(t) ==
    LET c == call[t]
        used == c.goal # "CHECK" /\ me_count # 0
        free == ~ used /\ c.goal = "RELEASE" /\ c.flags = {}
    IN
    /\ pc[t] = "driver_apply"
    /\ me_filep' = IF used THEN me_filep
                   ELSE CASE c.goal = "SET"     -> c.filep
                          [] c.goal = "RELEASE" -> NULL
                          [] OTHER              -> me_filep
    /\ Goto(t, IF free THEN "driver_free" ELSE "driver_done",
            [c EXCEPT !.lock = "RELEASE",
                      !.devs = IF free THEN Device ELSE {}])
    /\ UNCHANGED <<open, me_lock, me_count, dlock, slock>>

\* One turn of the loop that releases the devices; errors are ignored.
driver_free(t) ==
    LET c == call[t] IN
    /\ pc[t] = "driver_free"
    /\ \/ /\ c.devs = {}
          /\ Goto(t, "driver_done", c)
       \/ \E d \in c.devs :
             Goto(t, "dlock_lock", [c EXCEPT !.dev = d, !.devs = @ \ {d}])
    /\ UNCHANGED <<open, me_lock, me_filep, me_count, dlock, slock>>

\* me_lock is released; me_release() ends the life of the file structure.
driver_done(t) ==
    LET c == call[t] IN
    /\ pc[t] = "driver_done"
    /\ me_lock' = NULL
    /\ open' = IF c.op = "me_release" THEN open \ {c.filep} ELSE open
    /\ Goto(t, "idle", NoCall)
    /\ UNCHANGED <<me_filep, me_count, dlock, slock>>

-----------------------------------------------------------------------------
Begin(t) ==
    \E f \in open, d \in Device, s \in Sub :
       \/ "io" \in Op /\ \E n \in 0 .. MaxList - 1 : me_io(t, f, "io", d, s, {}, n)
       \/ "irq_test" \in Op /\ me_io(t, f, "irq_test", d, s, {}, 0)
       \/ /\ "reset_device" \in Op
          /\ \E flags \in ResetFlags : me_io(t, f, "reset_device", d, 0, flags, 0)
       \/ \E op \in Op \cap {"lock_device", "lock_subdevice"},
             lock \in Lock, flags \in LockFlags : lock_lower(t, f, op, d, s, lock, flags)
       \/ /\ "lock_driver" \in Op
          /\ \E lock \in Lock, flags \in LockFlags :
                lock_driver(t, f, "lock_driver", lock, flags)
       \/ "me_release" \in Op /\ (me_release(t, f) \/ me_release_refused(t, f))

Step(t) ==
    \/ dlock_enter(t) \/ slock_enter(t) \/ slock_exit(t) \/ dlock_exit(t)
    \/ dlock_exited(t) \/ next_item(t) \/ driver_exit(t) \/ me_slock_lock(t)
    \/ dlock_lock(t) \/ dlock_check(t) \/ dlock_apply(t) \/ dlock_free(t)
    \/ dlock_return(t)
    \/ driver_check(t) \/ driver_apply(t) \/ driver_free(t) \/ driver_done(t)

Next ==
    \/ \E f \in Filep : me_open(f)
    \/ \E t \in Task : Begin(t) \/ Step(t)

\* A started ioctl runs on: spin locks are ticket locks, so a task that waits
\* for one gets it, and a subdevice method returns (an infinite irq_wait or
\* stream call is not such a method).
Fairness == \A t \in Task : SF_vars(Step(t))

Spec == Init /\ [][Next]_vars /\ Fairness
-----------------------------------------------------------------------------
(* Properties.                                                             *)

InDriver(t)    == call[t].op \in DataOps
InDevice(t)    == /\ call[t].op \in DataOps \cup {"lock_subdevice"}
                  /\ call[t].op # "irq_test"
                  /\ pc[t] \in {"slock_enter", "inside", "slock_lock", "dlock_exit",
                               "dlock_lock", "dlock_check", "dlock_apply", "dlock_done"}
InSubdevice(t) == pc[t] = "inside"

TasksInDevice(d)    == {t \in Task : InDevice(t) /\ call[t].dev = d}
TasksInSubdevice(r) == {t \in Task : InSubdevice(t) /\ Here(t) = r}

\* A driver, device or subdevice that is held by one process is never entered
\* by, and never taken over under the feet of, a task of another process:
\* whoever is inside runs for the holder, on each of the three levels.
Exclusion ==
    \A t \in Task :
       /\ InDriver(t)    => ~ Refuses(me_filep, call[t].filep)
       /\ InDevice(t)    => ~ Refuses(dlock[call[t].dev].filep, call[t].filep)
       /\ InSubdevice(t) => ~ Refuses(slock[Here(t)].filep, call[t].filep)

\* me_count and slock->count are the number of tasks inside the driver and the
\* subdevice; dlock->count is at least the number inside the device (the reset
\* of a device may leave it too high, never too low).
CountsInside ==
    /\ me_count = Cardinality({t \in Task : InDriver(t)})
    /\ \A r \in Device \X Sub : slock[r].count = Cardinality(TasksInSubdevice(r))
    /\ \A d \in Device : dlock[d].count >= Cardinality(TasksInDevice(d))

\* Where a task can be for each kind of ioctl, with which arguments.
Shape(l, c) ==
    /\ l = "idle" <=> c.op = "none"
    /\ l # "idle" => c.filep \in Filep
    /\ c.items > 0 => c.op = "io"
    /\ l \in {"slock_enter", "inside"} => c.op \in DataOps
    /\ l \in {"dlock_enter", "dlock_exit", "dlock_exited"} =>
          c.op \in {"io", "reset_device", "lock_subdevice"}
    /\ l \in {"next_item", "driver_exit"} => c.op \in DataOps
    /\ l = "slock_lock" => c.op = "lock_subdevice"
    /\ l \in {"dlock_lock", "dlock_check", "dlock_apply", "dlock_free", "dlock_done"} =>
          /\ c.op \in DriverOps \cup {"lock_device", "reset_device"}
          /\ c.op = "reset_device" => c.lock = "CHECK"
    /\ l = "dlock_free" => c.lock = "RELEASE"
    /\ l \in {"driver_check", "driver_apply", "driver_free"} => c.op \in DriverOps
    /\ l = "driver_done" => c.op \in LockOps
    /\ l \in {"dlock_enter", "dlock_exit", "dlock_exited", "slock_enter", "inside",
             "slock_lock", "dlock_lock", "dlock_check", "dlock_apply", "dlock_free", "dlock_done"} =>
          c.dev \in Device
    /\ l \in {"dlock_enter", "slock_enter", "inside", "slock_lock",
             "dlock_check", "dlock_apply", "dlock_free"} => c.sub \in Sub

CallOK == \A t \in Task : Shape(pc[t], call[t])

\* The holders of the spin locks, and what the device spin lock protects: the
\* count found zero stays zero until dlock->filep is written.
SpinOK ==
    /\ \A t \in Task : call[t].op \in LockOps <=> me_lock = t
    /\ \A t \in Task :
          pc[t] \in {"dlock_check", "dlock_apply", "dlock_free"} =>
             /\ dlock[call[t].dev].spin = t
             /\ pc[t] # "dlock_free" /\ call[t].lock # "CHECK" =>
                   dlock[call[t].dev].count = 0

\* The inductive invariant from which Exclusion is proved.
InductiveInv == TypeOK /\ CallOK /\ SpinOK /\ CountsInside /\ Exclusion

\* While the driver or a device is held, everything below it is free or held by
\* the same process, unless FORCE is in use (memain_common.c checks the lower
\* levels before it locks the upper one).
LowerLevelsAgree ==
    me_lock = NULL =>
      \A d \in Device :
        /\ me_filep # NULL => ~ Refuses(dlock[d].filep, me_filep)
        /\ \A s \in Sub :
             /\ me_filep # NULL => ~ Refuses(slock[<<d, s>>].filep, me_filep)
             /\ dlock[d].filep # NULL => ~ Refuses(slock[<<d, s>>].filep, dlock[d].filep)

\* Nobody loses a lock to another process except by FORCE: the owner of a
\* driver, device or subdevice lock changes only in a step of the task that
\* holds me_lock, and that task works for the owner or was told to force.
MayChange(owner, f, flags) == ~ Refuses(owner, f) \/ "FORCE" \in flags

LockNotStolen ==
    [][ LET by(owner) == /\ me_lock # NULL
                         /\ MayChange(owner, call[me_lock].filep, call[me_lock].flags)
        IN  /\ me_filep' # me_filep => by(me_filep)
            /\ \A d \in Device : dlock'[d].filep # dlock[d].filep => by(dlock[d].filep)
            /\ \A r \in Device \X Sub :
                  slock'[r].filep # slock[r].filep => by(slock[r].filep)
      ]_vars

\* Each of the three levels is a lock in the sense of ResourceLock.
For(t, in) == IF in THEN call[t].filep ELSE NULL

DriverRes == INSTANCE ResourceLock WITH
    owner  <- me_filep,
    inside <- [t \in Task |-> For(t, InDriver(t))]

DeviceRes(d) == INSTANCE ResourceLock WITH
    owner  <- dlock[d].filep,
    inside <- [t \in Task |-> For(t, t \in TasksInDevice(d))]

SubdeviceRes(r) == INSTANCE ResourceLock WITH
    owner  <- slock[r].filep,
    inside <- [t \in Task |-> For(t, t \in TasksInSubdevice(r))]

\* The counters of me_lock, me_dlock_t and me_slock_t implement that lock: a
\* holder is set or cleared only while nobody is inside, also in the middle of
\* the loops of me_dlock_lock() and lock_driver().
ResInit ==
    /\ DriverRes!Init
    /\ \A d \in Device : DeviceRes(d)!Init
    /\ \A r \in Device \X Sub : SubdeviceRes(r)!Init

ResNext ==
    /\ [DriverRes!Next]_(DriverRes!vars)
    /\ \A d \in Device : [DeviceRes(d)!Next]_(DeviceRes(d)!vars)
    /\ \A r \in Device \X Sub : [SubdeviceRes(r)!Next]_(SubdeviceRes(r)!vars)

ImplementsResourceLocks == ResInit /\ [][ResNext]_vars

\* Each ioctl comes back: the driver, device and subdevice locks are always
\* taken in that order, so no two tasks wait for each other.
IoctlReturns == \A t \in Task : pc[t] # "idle" ~> pc[t] = "idle"

\* medlock.h on count: "Number of tasks which are inside the device."
DeviceCountExact ==
    \A d \in Device : dlock[d].count = Cardinality(TasksInDevice(d))
=============================================================================
