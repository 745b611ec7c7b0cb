# A TLA+ model of MEiDS

MEiDS is the driver system of Meilhaus Electronic's data acquisition boards: a
Linux kernel driver (`src/module/driver/`), built for PCI boards, boards in USB
boxes and the MEphisto Scope, a user library (`src/library/`) that talks to the
driver directly or through an RPC server, and extensions that make the library
callable from other languages (`src/lang/`). This directory holds TLA+ modules
that model the parts of the system where several actors meet or where a long
path has to keep what it is given, TLC configurations that check them on small
instances, and proofs checked by TLAPS that hold for every instance.

## 1. The system

### Kernel driver

| component | state | operations | who else touches it |
|---|---|---|---|
| dispatch and locks: `memain_common.c`, `medlock.c`, `meslock.c`, `medevice.c` | `me_filep`, `me_count` under `me_lock`; an `me_dlock_t` per device, an `me_slock_t` per subdevice (owner and count) | every ioctl: look the device up, enter the driver, the device and the subdevice, and leave them; lock, unlock and check on each level; release of the descriptor | all tasks that have the device file open |
| device list and constructors: `memain_PCI.c`, `memain_USB.c`, `medlist.c`, `meslist.c`, `me*_device.c` | list of devices under `me_rwsem`; what each device has acquired; the table of subdevices of its interrupt handler | probe, construction in stages, removal, return, unloading | kernel's hot plug against tasks inside ioctls |
| spin locks: `me_spin_lock.c`, `melock_defines.h` | ticket counters; saved interrupt state | lock for a task, lock that also masks the interrupt, try-lock for a handler | tasks, handlers, work queues |
| segmented buffer: `meseg_buf.c` | a table of segments, head and tail as (segment, offset), three counters | create, destroy, reset, put, get, unget, rotate, read | handler and control task put, tasks get |
| circular buffer: `mecirc_buf.h` | head, tail, mask | values, space; callers move the indices | analog outputs: task and handler |
| analog input: `me4600_ai.c` | status, buffer, counts of starts and stops, control task, wait queue, the board's registers | configure, start, stop, status, read, new values, reset, single values | tasks, interrupt handler, control task, hardware |
| analog outputs with a FIFO: `me4600_ao.c`, `me6000_ao.c` | as above, data flowing out; loops of software and of hardware | the same and write | the same |
| analog outputs `me1600_ao.c` | per channel status, control task, lock; for all of them one list of values that wait for a common trigger | configure, write, read, reset | callers of all channels, control tasks |
| digital ports `*_di*.c`, `*_do.c`, `me8255.c`; counters `me8254.c`; external interrupts `*_ext_irq.c` | directions, mirrors, clock registers, counts of interrupts and of waiting tasks | single configuration, read and write, interrupt start, wait, stop, test | tasks and handlers, access by access |
| MEphisto Scope: `mephisto*.c` | a USB pipe and a task of its own | streaming | tasks, USB callbacks |
| EEPROM, firmware, register access | none of their own | register I/O | |

A user's ioctl passes the three lock levels from the top to the bottom, executes
one method of the subdevice, and leaves the levels from the bottom to the top. A
method that streams releases the subdevice's spin lock while it sleeps on its
wait queue, but stays inside the three levels. The board's interrupt handler
takes none of the levels; it meets the tasks at the subdevice's spin lock only.
The control task, a delayed work item that schedules itself every tick, is the
third actor of a stream.

### User library and extensions

| component | state | operations |
|---|---|---|
| global calls: `meids_global.c`, `meids_vrt.c`, `meids_unv.c`, `meids_internal.c` | `open_count` under its mutex, the device entries, the list of contexts | every exported call: resolve the device, choose the context, call its method; open, close, lock of all drivers; lists of entries cut into one list for each device |
| local back end: `meids_local*.c` | a file per driver; threads for callbacks with a list and a mutex | each call an ioctl; callbacks set and removed |
| remote back end: `meids_rpc*.c`, `rmedriver_clnt.c`, `rmedriver_xdr.c`, server `rmedriver_*.c` | a connection per context under a mutex; one open library per client | each call a procedure, which the server answers by a call of its own library |
| virtual devices: `meids_xml*.c` | a table read from an XML file | |
| extensions: `src/lang/` | | each function of the library, its arguments taken apart and its answers put together |

### What is hard

* Three levels of locks, each with an owner, a count and a spin lock of its own;
  locking an upper level checks the lower ones one by one (interleaving,
  partial failure, crash of the owner).
* Streams: the status is written by tasks, by the handler and by the control
  task, in sections that the handler may interrupt, and is read without a lock by
  everyone who waits (ordering, lost wake-ups, time-outs, late handlers).
* Buffers whose indices wrap (boundaries), shared by a handler and by several
  tasks (check, then act); loops that are joined to themselves in a FIFO.
* Registers that several subdevices share, changed in two accesses, by tasks and
  by handlers.
* Devices that fail half-way through their construction, go and come back
  (partial failure, stale pointers).
* A library that is opened and closed by one thread while another calls; servers
  that answer late or die; callbacks removed while they run.
* Some sixty calls that pass several hand-written layers, on two ways.

`PROJECT.json` lists each hazard with the line where it bites and the properties
that watch it.

### What makes each component correct

* Locks: who is inside a level is there by right of its owner; nobody loses a
  lock except by FORCE; counts are what they count; every ioctl comes back.
* Buffers: they are bounded FIFO queues.
* Streams: the hardware runs only for a running stream; a running stream is
  watched by its control task; nobody sleeps on what has already happened; no
  operation tears another's stream; no value is lost, repeated or overtaken.
* Ports and interrupts: no register loses a write, nobody writes an input, no
  interrupt and no wake-up is missed, and the query methods tell the truth.
* Devices: what a handler or the list leads to is there, what was acquired is
  given back.
* Library: references to the configuration are balanced, a lock of all drivers
  leaves all or none of them locked, a removed callback is over, and a call does the same
  whichever way it goes.

## 2. Modules

Every module names the functions it stands for; `PROJECT.json` ("map") gives the
lines of each definition. `MC*` modules only put instances together.

| module | models | role |
|---|---|---|
| `ResourceLock` | | what one lock level promises |
| `DriverLock` | `memain_common.c`, `medlock.c`, `meslock.c`, `medevice.c` | the lock hierarchy; implements `ResourceLock` on every level |
| `BoundedFifo` | | a bounded queue |
| `SegBuf` | `meseg_buf.c` | implements `BoundedFifo` |
| `StreamAI` | `me4600_ai.c` | streams of the ME-4600 analog input |
| `StreamAO`, `ME6000AO` | `me4600_ao.c`, `me6000_ao.c`, `mecirc_buf.h` | streams of the analog outputs |
| `Ports` | `me_spin_lock.c` and the register accesses | steps of a method |
| `DigitalIO`, `Interrupts`, `Counters` | `*_dio.c`, `*_di.c`, `*_do.c`, `me8255.c`, `*_ext_irq.c`, `me8254.c` | the methods as programs of those steps |
| `Boards` | the constructors of those subdevices | boards put together, and their properties |
| `ME1600AO` | `me1600_ao.c` | outputs with a common trigger |
| `DeviceLife` | `me*_device.c`, `memain_PCI.c`, `memain_common.c`, `medevice.c`, `mephisto*.c` | a device from probe to unloading |
| `LibCalls`, `LibBuilds`, `RpcCalls`, `DriverCalls`, `Bindings` | the tables of calls of `meids_*.c`, `rmedriver_*.c`, `memain_common.c`, `src/lang/` | what each layer hands on |
| `CallPath` | | a call on its way through those tables |
| `Library` | `meids_global.c`, `meids_unv.c`, `meids_internal.c` | open, close, lock and call in a process |
| `Callbacks` | `meids_local_calls.c`, `meids_rpc_calls.c` | threads for callbacks |
| `*_proofs` | | the theorems, section 4 |

### DriverLock

`Task` are the kernel contexts, `Filep` the open descriptors: the locks belong
to descriptors, and two tasks may share one. `open`, `me_lock`, `me_filep`,
`me_count` are the globals of `memain_common.c`; `dlock[d]` is the `me_dlock_t`
of a device with the holder of its spin lock, `slock[<<d, s>>]` the `me_slock_t`
of a subdevice. `pc` and `call` hold where a task is and its arguments.

`me_io` is the entry of every data ioctl (`ME_IO_MULTIPLEX_TEMPLATE` and its
variants), with `dlock_enter`, `slock_enter`, `slock_exit`, `dlock_exit`,
`next_item` and `driver_exit` as the steps of its path; `reset_device` runs over
all subdevices after a check of the device, `irq_test` enters the subdevice
without the device, as `medevice.c` does. `lock_driver`, `lock_lower`,
`dlock_lock`, `dlock_check`, `dlock_apply`, `dlock_free` and `me_slock_lock` are
the lock ioctls, one step per turn of their loops; `me_release` is the close of a
descriptor. A step ends where the code releases a spin lock, or where a loop
passes to the next device or subdevice. A subdevice's short lock covers one step
only and is not a variable. What the method does between enter and exit is left
out: it is "inside". The exit of a device is two steps, as in the code:
`dlock_exit` decrements the count under the spin lock, and `dlock_exited` looks for
a negative count behind it. Its test and its store are one step, since the test
never succeeds (section 4).

### SegBuf

One action per function of `meseg_buf.c`, over the same structure: head, tail,
counters, a cell per value. Creation may fail at every allocation; `heap` counts
the allocations that are alive. The refinement maps the cells from tail to head
to the queue of `BoundedFifo`. A failed operation returns the error that the
code returns, and `Zero` as the value: what the buffer of a caller holds.

### StreamAI

`status`, `buf` (values in the buffer), `writes`, `counts`, `empty_read` are
members of `me4600_ai_subdevice_t`; `control` is the flag and the work item of
the control task, `worker` its tail after the locked section; `isr` is the
handler between reading the interrupt status and its locked section; `hw` is the
board: the state machine (`fsm`), armed for a trigger, the STOP bit, overflow,
the FIFO, whether interrupts are enabled (`live`) and whether the acquisition is
limited. `asleep` are the tasks in the wait queue.

A section under a spin lock is one step. `ME_LOCK_PROTECTOR` masks the
interrupt: those steps need `Protected`, that no handler has started.
`ME_SUBDEVICE_LOCK` does not, and a handler that has read its interrupt status
may run its section later, even on the next stream. Waiting is modelled as in the
kernel: the condition is tested (`wait_ready`); when it is false the task goes to
sleep in the same step (`wait_sleep`, which is what `prepare_to_wait` and the
second test amount to); only `wake_up`, a time-out or a signal wakes it, and the
condition is then tested again.

Abstractions: samples are counted; the values one interrupt stands for are any
number the FIFO could have held; which interrupt is the last one of a limited
acquisition is a choice; the channel list has one entry; time is a choice
wherever a time-out was given; a `WAIT_START` or `WAIT_STOP` waits for the count
it finds, not for one the caller passes. Not in the model: the calibration, a
signal sent to the kernel's worker.

### StreamAO and ME6000AO

The outputs are the mirror of the inputs, with values that are told apart: each
written value has the number of values written before it since the buffer was
cleared, so that `hw.dac`, what was put out last, and the contents of FIFO and
buffer say whether an order was kept. `circ` is the circular buffer with
`preloaded_count` and `data_count`; its operations (values, space, the two parts
of a copy at the wrap) are those of `mecirc_buf.h` and `ao_write_data*`. `conf` is
mode (continuous, loop of the software, loop of the hardware), trigger and stop
condition. A section that looks at the hardware more than once is several steps
under `owner`, because the converter takes values meanwhile: `start_fill`,
`start_loop`, `irq_fill`. `stream_write` goes through `write_lock` (what it found
of the status before it took the lock), `write_copy`, `write_check`,
`write_done`. `Board` selects between the two files, which differ in how an
interrupt is blocked, in single values and in some errors; `ME6000AO` names the
handlers of the second file.

`hw_trigger`, `hw_convert`, `hw_underrun` and `hw_stop` are the board. Time is a
choice; `LoopOnce` is a bound (section 3).

A stop covers both stop modes and what the code makes of them: a stop with the last
value of a stream that does not run becomes one that takes effect at once
(`me4600_ao.c:2139`), one of a software loop lets the handler copy the loop to its
end from the beginning of the buffer (2593). The first wakes nobody: `ME6000AO` says that such
a stop and nothing else may abandon a sleeping task (`Abandoned`, `QuietStop`).

### Ports, DigitalIO, Interrupts, Counters, Boards

A method is a sequence of steps (`take` and `give` a lock, `load`, `store`,
`put`, `read`, `test`, `bump`, `wait`, `wake`, `mask` ...), and the tasks' methods
and the handler's interleave step by step. Registers hold sets of bits; `want`, a
ghost, holds what each register would hold if every write had been made in one
piece. Variables that a handler shares with methods are registers too. The
modules of the subdevices give the program of each method from its arguments, or
`Refused`; `Boards` puts them together as the constructors do and states what a
board promises. 21 boards or parts of boards are in it: those whose subdevices
differ.

### ME1600AO

`shadow` and `mirror` are the value asked for and the value output, `sync` and
`trigger` the two words with a bit for each channel, `latch` and `output` the
registers and what the strobe made of them. A write is `single_write` (under the
channel's lock), `write_clear` (its bit leaves the word, in two accesses without
the lock of the word, as the code has it), `write_apply`, and a wait. `jammed`
are the channels whose lock cannot be taken any more after it was given back
twice (section 5).

### DeviceLife

One slot of the bus: the constructor of each of 13 models as a sequence of stages
with what each acquires and the error path from each; `plugs` bounds how often a
board is put in. `dev` holds what the device has; `lost` what was left behind
when it went; `past` the kinds of failure that have happened, in the terms of
which the properties except what the code is known to do. The calls of the bus
for one slot are sequential: nothing runs concurrently here.

### CallPath and its tables

The tables say of each function of a layer which function below it calls, with
which inputs, and which answers it takes back; a step of `CallPath` hands a call
from one layer to the next. The same call is made twice, in C for a device of
this computer and in another way: for a device of another computer, or from
Python or Java; then what reached the subdevices is compared. Lists are cut into
groups as `meids_vrt.c` does.

### Library

`count`, `mutex`, `config` (device entries), `contexts`, `list` (the list of
contexts and whether its head still exists) are the globals of the library;
`lock` and `inside` stand for the driver lock and its count, `inbox`, `broken`
and `rpc` for a server, its death, and the mutex of a connection. Threads run
scripts of calls. `OpenLock`, `OpenDriver`, `OpenEnd` are `meOpen()`;
`CloseLock` or `CloseForce`, `CloseContext`, `CloseConfig`, `CloseClean`,
`CloseEnd` are `meClose()`; `LockAll`, `LockLocal`, `RpcSend`, `RpcReturn` the
lock of all drivers; `CallResolve`, `CallEnter`, `CallLeave` any other call.

### Callbacks

A thread per callback: `Connect` (remote only), wait, `TestCancel`, `LockMutex`,
the callback, `Unlocked`; removal cancels the thread and frees its entry, and
what a thread reads from a freed entry is any value. Cancellation acts at the
points where POSIX lets it, and not while it is disabled.

## 3. Runs

Each run asks the questions of one component. All are exhaustive for their bounds.

| run | instance | question |
|---|---|---|
| `lock_levels` | 2 tasks, 2 files, 1 device with 2 subdevices, all flags, interrupt tests | type, exclusion and counts; no stolen lock; each level is a `ResourceLock` |
| `ioctl_returns` | resets, interrupt tests, closed and reopened files, no FORCE, fair | a lock on a level agrees with the levels below (`LowerLevelsAgree`); every ioctl comes back |
| `reset_leak` (violation) | 1 device, reset | the device count is not exact |
| `seg_buf` | buffers of 2x2, 1x3 and 3x1 cells, counters modulo 7 | counters against positions, FIFO, no memory lost but in a failed creation |
| `ai_safety` | 2 tasks, single reads, triggers of both kinds, time-outs, signals | hardware follows status, control task present, no stream configured away |
| `ai_waiters` | a task that controls, a task that asks, reads or waits for values, fair | the count read without the lock holds; nobody sleeps on when what he waits for has come |
| `ao_stream` | ME-4600; a task that configures, starts, writes, a task that stops and resets; all modes and stop conditions | no value lost, a loop that is not stopped in order, hardware follows status, control task present, the start's own checks |
| `ao_waiters` | ME-6000, no time-outs, stops of both modes, fair | nobody is abandoned but by a silent stop, all others return; the end is noticed |
| `ao_writer_unblocks` (violation) | continuous, small FIFO | a writer leaves the interrupt blocked |
| `ao_short_loop` (violation) | loop of three values, FIFO of eight | a short limited loop does not fit |
| `boards` | 21 boards of ports, counters and interrupts; 2 channels of an ME-1600; 13 models of devices plugged up to 3 times | registers, outputs, waits, interrupts, queries; the story of the ME-1600; what dangles and what leaks |
| `library` | lists of up to 4 entries; 2 threads with 2 drivers and a server; 2 callback threads of every pair of kinds | remote and extension calls do the same; contexts, counts and locks; callbacks |

### Bounds and why they are enough

* Two tasks are enough to interleave any two operations with each other and with
  the handler, the control task and the hardware, which are actors of their own.
  Two files make them the same process or different ones. Two subdevices make a
  loop that can stop half-way. What more devices, tasks and subdevices could add
  to the locks is proved away (section 4).
* `MaxCount` of `DriverLock` bounds the count that leaks; `MaxList` the list of
  one call.
* Streams in: a FIFO and a buffer of one value are always either empty or full, so
  every boundary is reached at once; `ai_waiters` has a buffer of two, for a
  boundary in the middle. `MaxSamples` allows one more sample than a buffer of one
  holds, so that it overflows. `MaxCount` allows a second stream after the first.
* Streams out: in `ao_stream` the FIFO holds four values and the buffer has eight
  cells, so that a write of five fills the FIFO and leaves something behind, the
  FIFO passes its half, and indices wrap within `MaxValues` values. `MaxData`
  and `MaxCount` bound the starts. `LoopOnce` lets a loop be written before its first start
  only: what the code does otherwise is a mixture of two loops of which it promises
  nothing (a loop that grew beyond the FIFO would be started with the control word
  of the hardware's loop taken back, 1575, and the handler would copy nothing).
  `MaxCount = 1` means one stream from its start to its stop: a stopped loop is not
  started again in this run, which `LoopInOrder` would except anyway
  (`RestartedLoop`).
  One task starts and fills a stream, another stops and resets it: two that
  start and preload at a time break the promises (section 5, preloading).
* `CountMod` makes the buffer's counters wrap after seven operations instead of
  2^32; it is larger than every buffer, as in the code.
* `MaxIrqs` and `MaxPlugs` let an interrupt and a board come once more than the
  code distinguishes.
* The calls of `boards` are chosen per kind of board so that those that share a
  register, a lock or a count meet; `Truths` evaluates the query methods for every
  argument and every content of the clock registers, not only for these. `library`
  makes every call there is; its configuration file names the drivers and the server
  in three orders.
* `CHECK_DEADLOCK FALSE` stands where the bounds or the scripts stop the system: no
  more samples, no more starts, all calls made.

### Fairness

* `DriverLock`: strong fairness of each task's steps. The locks are ticket locks
  (`melock_defines.h`): a task that waits for one gets it. A task inside a
  subdevice leaves it; methods that wait for an event without a time-out are
  excluded, and the property says nothing of them.
* `StreamAI`, `StreamAO`, `ME6000AO`: weak fairness of a task inside an ioctl, of
  the work queue, of the handler while its interrupt is pending, of a converter
  that runs, and strong fairness of the hardware's STOP bit, whose moment (the
  last value of a loop) comes again and again. Triggers and samples come or do not
  come; nobody is forced to issue an ioctl; time-outs and signals are not relied
  on.
* `Library`: weak fairness of the threads and of a server at work; no time-out
  needs to pass and no server needs to die. `Callbacks`: weak fairness of the
  threads, strong fairness of the mutex (whoever tries again and again gets it),
  and the wait for an interrupt ends by its own time-out of 100 ms; the other
  waits need not end.
* `Boards`, `ME1600AO`, `DeviceLife`, `CallPath` are checked for safety only.

## 4. Proofs

TLAPS proves the following for every value of the constants: any set of tasks,
files, devices, subdevices, any size of buffers and FIFOs, any bound. The only
assumptions on constants are those the modules declare (sizes are natural
numbers, `NULL` and the names of the other actors are not tasks, the tasks are
finitely many where their number is compared with a count), and, where it is
said, a hypothesis of the theorem.

| module | theorems |
|---|---|
| `DriverLock_proofs` | `TypeCorrect`, `ExclusionHolds`, `CountsHold`, `SpinHolds`; `NotStolen`; `LevelsHold` under `NoForce`; `LocksImplemented`: every level refines `ResourceLock` |
| `SegBuf_proofs` | `TypeHolds`, `CountsHold`, `LostHolds`; `FifoImplemented`: the buffer refines `BoundedFifo` |
| `StreamAI_proofs` | `StoppedHolds`, `WatchedHolds`, `NotReconfigured`; `ValuesHold` under `LoneReader` |
| `StreamAO_proofs` | `StoppedHolds`, `WatchedHolds`, `StartHolds`, `NothingLostHolds`, all under `LoneStarter` |
| `Boards_proofs`, on `BoardMethods_proofs` | `RegistersHold`, `WritesHold`, `NobodyLeftHolds`, `LinesHold`, `ValuesHold`; `AOTypeHolds`, `StoryHolds` of the ME-1600 |
| `Library_proofs` | `LiveContexts` under `Disciplined`; `FilesHold`; `LocksHold` under `LockersApart`; `OnceMoreHolds`, `ApartHolds` of the callbacks |
| `DeviceLife_proofs` | `LifeInvariant`, `DanglesHold`, `LeaksHold` |

### The locks

The inductive invariant of the lock model is `InductiveInv`. `Exclusion` alone is
not inductive: a lock is taken after a count was found zero, which excludes others
only if the count is not below the number of those inside (`CountsInside`), if
nobody enters between the test of `dlock->count` and the write of `dlock->filep`
(`SpinOK`: the device's spin lock is held by that task, and the count it found is
still zero), and if a task at a location is executing an ioctl that goes there
with the arguments it has there (`CallOK`). The proof goes by steps: typing,
shape of the locals, spin locks, then for each level a *flow* lemma that says that
a step either leaves the level's owner and count alone, enters it, leaves it, or
changes the owner while the count is zero; counts and exclusion follow from the
flow, and so does, for each level, the refinement of `ResourceLock`.

`CountsInside` also settles the test that `me_dlock_exit()` makes behind its spin
lock: whoever decrements has been counted, so no count is ever negative, at any step,
and the repair never happens (`NothingToRepair`).

For the owners the invariant is about what a loop has checked: `Checked` says that
the levels the walk of a lock has passed are free or the caller's own until the
walk ends, because each of them is protected by a lock that the caller still
holds. A lock changes hands without FORCE only where `Checked` allows it
(`NotStolen`). `LevelsHold` needs that no task uses FORCE: with it the code
takes a level over and leaves those below to their owner, as documented.

### The segmented buffer

`CountsAgree` compares positions modulo the size of the ring. The invariant of
the proof says the same without remainders: the head is `values_count` cells after
the tail, or as many less one turn. The lemmas about the ring (one step forwards or
backwards of a (segment, offset) pair is one of its number) carry all the
multiplications. The refinement maps cell `i` of the queue to the cell `i` steps
after the tail; each operation is shown to be the operation of `BoundedFifo` or a
stutter.

### Streams in

`IdleIsStopped` is not inductive: a trigger starts the state machine whatever the
status says, so an armed trigger has to be accounted for (`Stopped`), and the
control task, which ends a stream without touching the hardware when it finds it
stopped, has to know that no trigger is armed behind it (`Unarmed`). `ValuesHold`
assumes `LoneReader`, that only one task reads: with two the property is false,
as the count is read without the lock (section 5).

### Streams out

The invariant `Inv` has parts for the discipline of who is in which section
(`Discipline`, `Sections`), what a handler or a start knows of the level of the
FIFO while the converter only lowers it (`Levels`), when an interrupt can come
(`Interrupts`), how much of the buffer is preloaded (`Prefixes`), that nothing is
armed on an empty FIFO (`Loaded`), and who writes (`Writers`). `Wraps` adds that
the handler never fills a FIFO that the hardware repeats by itself.

`NothingLostHolds` is the order of the values: `CellsIn` (the buffer holds the
values written last, behind its tail, in their order), `Flows` (the FIFO holds
the values in front of the place where the next copy begins, consecutive to what
was put out last) and `Opened` (nobody fills a FIFO that is not enabled, whose
values a start would forget). Each of the four ways a value takes, preloading,
start, handler and a writer that serves the FIFO itself, is shown to keep the
three; the arithmetic of the wrap is done once, in lemmas on `Advanced` and
`ao_write_data`.

`LoneStarter` says that one task at a time starts or fills a stream. Without it
the theorems are false: a preloading write tests the status before it takes the
lock (section 5, preloading).

### The boards

The methods are programs, data that the steps interpret, so an invariant of the
registers alone says nothing: it has to speak of what each task has still to do.
The proof is a program logic in TLA+. A *situation* of a task is the locks it holds,
the facts it knows (of the registers and of the value it has loaded), the wake-ups
it owes, and the rest of its program. A situation is `Good` when it is one of a set
of situations that is closed under the steps of the program: a set, because a method
that waits comes back to where it was, and because `Good` is then defined without
recursion. Closed means that

* every fact is `Stable`: no step that others may take makes it false, as long as the
  locks are held (`Rely`). What others may do is limited in turn by `MayWrite` (which
  locks the code takes for which register) and by `Polite`, which every step is shown
  to be;
* a lock is given back only when the *bonds* it is home to hold again: the two bytes
  of a counter, the mode of the 8255 with its copy and its latches, an interrupt
  line with the status its methods keep. Between the steps of a section they are
  broken, and `BoardInv` asks for a bond only when nobody holds its home;
* who changes what others sleep for has the wake-up among its remaining steps, and
  who is through with a program holds, knows and owes nothing.

`BoardInv` is that every task is in a good situation whose facts hold, that every
register has a value it may have (`Fine`), and that the bonds hold whose home is
free. Every kind of step keeps it (`InvStep`), whatever the program: this part of the
proof has one case per step of `Ports`, none per method. The methods come in by
rules for sequences, sections, tests, tries and waits (`DoesThen`, `DoesUnder`,
`DoesTest`, `DoesTry`, `DoesAwait`), with which every method and every handler of
every subdevice is shown to be good when it begins (`SafeSub`, and `SafeBoard` for
all the boards of `BoardNames`). The five properties then follow from `BoardInv`, for
any set of those boards, any tasks, any calls with arguments of the methods' types
and any bound on the interrupts.

Two places needed facts of their own. The line of an ME-1400C or D is enabled by a
bit in the register of the counters' clocks, and the handler, to acknowledge, turns
it off and on without the lock of the clocks: a counter's method that loaded the
register before may write the bit back. It can do so only while the handler stands
between the two (`Turned`, `Window`), never behind the back of a method that holds
the line's lock (`ClockKept`), so that a stop is not undone; the register itself is one
of those `RegistersAgree` leaves out (`Astray`). The 8255 clears its latches whenever
a mode is set and they are restored from their copies, one after the other: the facts
`Stage` follow a task through that.

### The ME-1600 and the callbacks

`Story` strengthens `HeldBackAndWatched` by the registers: a strobe makes all
outputs take over their registers, so these must tell the same story although a
time-out writes one without a strobe. It holds for every set of channels,
although each wait looks at the bits of the wrong ones.

`CbInv`: a thread whose entry is freed has been cancelled; one that has run its
callback since is behind the next test for cancellation; and who is inside a
callback has the mutex.

### The devices

`Families` collects what the constructors have in common: the instance comes
first, its initialisation next, the interrupt last; only two boards have arrays
of their own; whoever has an interrupt has a handler that expects the table it
gets. The invariant (`Inv`) follows a device through its slot: while it is built
it holds what the stages behind it have acquired (`Building`), so that the error
path of every stage can be compared with it (`ErrorPathLoses`); on the list it is
complete (`Listed`), and its handler and its registers follow whether its board
is plugged in (`Handlers`, `Registers`) as long as nothing has happened that the
driver does not cope with. `NothingDangles` alone is not inductive: it says
nothing of a device under construction, nor of an empty slot. The theorems hold
for any number of returns of a board.

### The library's contexts

`TasksUseLiveContexts` is about one thread and its context, but what keeps it is
the count of all openings. The invariant (`LibInv`) says that the count is the
number of openings that are still to be closed (`Counts`: the cardinality of a set
of pairs of a thread and a number); that whoever reads the configuration or closes
the drivers has the mutex and does so because nobody has the library open
(`OnlyLast`); that the list of contexts and the entries of the devices lead to
live contexts unless somebody is in the middle of closing (`Found`); and that a
thread between two steps holds what it found there (`AtWork`). A context's
`fd` outlives its entry, so each of the steps of a close breaks `Found` and only
the end of the close restores it. The theorem's hypothesis `Disciplined` is that a
thread closes what it has opened itself, or that nobody has it open: the code does
not look who closes, and without it one thread's second `meClose()` frees what
another works on.

`FilesFollowCount` needs no such hypothesis: it is about the library, not about the
thread that uses it. Its invariant (`FilesInv`) depends on the count, the mutex, the
contexts and the entries alone. A section that opens has read exactly the drivers and
servers that are behind it in the configuration file (`ReadIn` of `Behind`: each of
them has one open context if a device of it is plugged in, and as many entries as it has
devices); that one driver is not read twice rests on the file's addresses being
distinct. A section that closes has left open only contexts of devices that an entry
in front of it leads to (`Owned` from its position on), which is why nothing is left
when it has come to the end. Between the sections everything that was found is
open, or nothing (`Whole`). The entries are counted driver by driver (`EntriesOf`).

`LockAllOrNothing` looks at the moment when nobody locks; in between, a thread's loop
has passed some drivers and not the others, and servers have requests that nobody waits
for any more. The invariant of its proof says of each lock of ours that it is there to
stay (`Kept`), or is gone or about to be released by a request that its server still
has (`Freed`), and of each loop that the drivers in front of it are all the one or all
the other (`Phase`). The theorem's hypothesis `LockersApart` is that while a thread is in
such a loop no other one is, and none opens the library: nothing in the code keeps
them apart (`meLockDriver()` takes no mutex, `meids_global.c:234`), and two loops that
overlap lock some drivers and release others. In the run's scripts one thread locks.

### Only model-checked

* All liveness: TLAPS has no rules for fairness here, and none for `ENABLED`.
* `LoopInOrder`: the order of a loop relates positions modulo the length of the
  buffer in the FIFO, over rounds that are cut and joined; planned. It is about loops
  that nobody stops: while one is stopped with its last value it may begin again
  before its end (`StoppedLoop`), and nothing is said of one started after a stop
  (`RestartedLoop`).
* `QueriesTellTheTruth` of `Boards`: it compares the methods of a subdevice with what
  its query methods announce, a finite table for each board, with every content of
  the clock registers and what the bits are called in `me8254_reg.h`; TLC reads it
  whole.
* The properties of `CallPath`: tables, finite in any case; TLC tries every call.


## 5. Findings

The violation runs show where the code and what it says of itself differ; each is
described with its quotation in `PROJECT.json`:

* `reset_leak`: the reset of a device whose check fails leaves the device's count
  one too high (`medevice.c:353`; `mephisto_device.c:172` has the same).
* `ao_writer_unblocks`: a write that refilled the FIFO itself goes on without
  unblocking the interrupt (`me4600_ao.c:2364`).
* `ao_short_loop`: a start writes a short limited loop a third time without a look
  at the level of the FIFO (`me4600_ao.c:1771-1790`, `me6000_ao.c:1812`): with the
  FIFO of the boards, loops of more than 1365 and fewer than 2048 values. The
  start then fails while the hardware runs and nobody watches.

What else the code does that the models contain. A property excepts these by
name, so that it holds of everything else:

Kernel driver

* A buffer creation that fails at its first segment leaks the table of segments
  (`meseg_buf.c:121`): `LostOnlyInFailure` allows that loss and no other.
* Analog input: a status change without a wake-up, by a blocking start that times
  out (`me4600_ai.c:1838`) and by a start with a trigger that does not come (1790),
  leaves a task asleep: `WaitersReturn` is checked with a software trigger and
  without time-outs. A limited stream that the handler ends before the control
  task's first tick is never counted as started (2483). Two readers share a
  count that is read without the lock (1433), so that one delivers values that
  were never sampled: hence `LoneReader`. The rest of the FIFO that exactly fills
  the buffer is reported as an overflow (3340).
* Analog outputs, preloading: a write of a stream that is not started looks at the
  status before it takes the lock (`me4600_ao.c:2283, 2302, 2318`); racing with a
  start by another task it pushes into a running stream and leaves
  `preloaded_count` behind, so that the next start finds values counted that are
  not there: hence `LoneStarter`, and one controller in the runs.
* A hardware loop that is started again after a time-out or a preserving stop is
  copied again behind what is left of it in the FIFO (1627): `CopiedAgain`. A
  preserving stop inside a limited loop cuts a round: `CutOffLoop`.
* A software loop that is stopped with its last value is to be copied to its end; the
  handler copies the buffer from its beginning, wherever the loop was
  (`me4600_ao.c:2593`), so that values come again out of order, and the test for the
  end (2608) adds that copy to where the loop was and may miss: `StoppedLoop`. The copies move
  `preloaded_count` too, so that a loop started again goes on somewhere else:
  `RestartedLoop`.
* A stop of an output that takes effect at once, asked for or made of one with the
  last value when the stream is not running (`me6000_ao.c:2178, 2187`,
  `me4600_ao.c:2139`), sets the status and wakes nobody, and a stop that is over
  empties the buffer (2235) and wakes nobody: a task that waits for space, for idle or
  for values sleeps on, although the waits say "Events are signaled when status
  change" (`me6000_ao.c:2026`). `WaitersReturn` lets such a stop abandon a task
  (`QuietStop`) and nothing else.
* ME-1400: 10 MHz for the first counter of the second chip of an ME-1400A or B
  switches the clock of the first chip (`me8254.c:278-282`); 1 MHz after 10 MHz stays
  10 MHz, since the bit "cleared" is 0 (254-262); the chips 5 to 9 of an ME-1400D
  choose their bits by the parity of a number that runs over both halves and so write
  those of the other chip in the register, by the names in `me8254_reg.h`; the first
  counters of the chips 0 and 5 accept the previous counter, which their capabilities
  leave out (1125). `QueriesTellTheTruth` excepts the first three by `ClockMissed`, the
  last by `Unannounced`. `RegistersAgree` cannot see them: its ghost follows the bits
  that the methods store.
* ME-1600: the waits and the control task test `trigger & idx` instead of the
  channel's bit, so that channel 0 never waits and channel 1 waits for channel 0;
  line 430 clears its bit without the lock of the word; 499 gives a lock back that
  521 gives back again, after which the channel's ticket lock cannot be taken any
  more (`jammed`); a time-out writes the register without a strobe, and 0 for a
  just configured bipolar channel; 369 and 507 compare the instance with a status.
  `HeldBackAndWatched` says what remains true.
* ME-8200: a stop of an interrupt of its inputs cancels the waits and wakes nobody
  (`StopsInSilence`); ME-6000: a
  port other than 0 is tested by the bits of another. Both are named in the
  properties of `Boards`.
* Devices: a board that comes back registers its handler twice and frees it once;
  its subdevices keep the addresses of the old mapping; an ME-1400D has one line
  from then on; four families free a device that is on the list when no handler
  can be registered; the destructors of ME-1600 and ME-4700 leave their subdevices
  behind, and ME-4700 the tables of its interrupts; `me_remove_pci()` without
  memory returns at once; the semaphore of a MEphisto is never freed.
  `NothingDangles` and `KnownLeaks` name exactly these.

User library and extensions

* open, close, open: the head of the list of contexts is gone, `ContextAppend()`
  fails unnoticed and `ME_LockAll()` follows a null pointer: the process dies
  (`alive`). A lock of all drivers that fails overwrites its error by the result
  of the release (`meids_unv.c:688`): `LockAllOrNothing` is about the locks, not about
  what the caller is told. A release that a server answers too late ends the loop of
  `ME_LockAll()` (667) although the server releases, and the drivers behind it stay
  locked; a forced lock goes over the locks that others hold on devices, which then
  keep it from being released (`forced`).
* `meClose(ME_CLOSE_FORCE)` closes the library for all threads, whatever they are
  doing: `TasksUseLiveContexts` is about threads that have it open.
* `meOpen()` never reports an error; `ME_Open` of `meids_local.c` tests `err_PCI`
  for the USB driver; contexts without a plugged device stay open after
  `meClose()`.
* The stub of the arguments of capabilities sends another procedure
  (`rmedriver_clnt.c:957`); counts of interrupts and time-outs are not sent; a
  lone value of a list is refused or loses its error; the count of a remote read
  is the one asked for; a stub gives up after 5 s while the server goes on:
  `NotSent` and `AnswerLost`.
* A blocking stop of streams of several devices stops the first twice and the
  others never (`meids_vrt.c:937`).
* Callbacks: one that is removed between the test for cancellation and the mutex
  runs once more, from a freed entry; one that removes itself waits for its own
  mutex (`meids_local_calls.c:2374`); a thread may end with the mutex; a remote
  thread without a server is never cancelled.
* Python and Java: the count to wait from, the levels of a trigger, ticks of more
  than 32 bits and the time-outs of lists are not handed on: `Missing`.

Read but not modelled: `me4700_fo.c` repeats the structure of the ME-1600, but
never sets the bit that makes a task wait, programs all channels by the mode of
one (813), writes words where the others write double words (834), and clears
other bits than it set (109): no promise is left to check.

## 6. Not modelled, and the plan

Not modelled for good: register sequences of EEPROM, firmware and bus access, the
encoding of RPC messages, the reading of XML files, thermocouple tables, tools.

Open, in this order:

1. The multi-subdevice calls of `memain_common.c` (start of several subdevices,
   with undo) in `DriverLock`; `me_rwsem` among tasks in ioctls (hot plug while a
   task sleeps inside).
2. The arithmetic of the analog input's state machine (thresholds, sample counter)
   as functions, with the property that the interrupts add up to the requested
   number of values; other analog inputs as far as they differ; the frequency
   inputs.
3. Proofs: `LoopInOrder` along the lines of `NothingLostHolds`.
4. The measurement task of the MEphisto Scope, which waits for USB.
