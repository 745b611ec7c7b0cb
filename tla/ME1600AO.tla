------------------------------ MODULE ME1600AO ------------------------------
(***************************************************************************)
(* The analog outputs of the ME-1600 (me1600_ao.c).  Each channel is a     *)
(* subdevice with its own lock, status, wait queue and control task; the   *)
(* values they are to output and the list of those that wait for a common  *)
(* trigger are in one structure of the device with a lock of its own.  A   *)
(* value of a synchronous channel is held back until somebody triggers the *)
(* list, and is withdrawn when its time-out passes first.                  *)
(***************************************************************************)
EXTENDS Integers, FiniteSets

CONSTANTS Channel,      \* the channels: numbers from 0
          Caller,       \* the tasks that call methods, and ...
          Calls1600,    \* ... what each calls: [Caller -> sets of <<method, channel>>]
          Sample        \* the values they write

\* 0x0800, the zero of the bipolar range.
Mid == 1

VARIABLES
    shadow, mirror,     \* ao_regs_shadows: the value asked for, and the one output
    sync,               \* .synchronous: the channels that wait for a common trigger
    trigger,            \* .trigger: those that have a value held back
    latch,              \* the registers of the channels
    output,             \* what the board outputs: the latches, taken over by a strobe
    bipolar,            \* the channels in the range -10 .. 10 V
    status,
    control,            \* ao_control_task_flag
    queued,             \* the channels whose control task is queued
    worker,             \* the control task that runs, after its locked section
    holder,             \* who holds the lock of a channel, or "nobody"
    jammed,             \* the channels whose lock can not be taken any more
    at                  \* what each caller does

aoVars == <<shadow, mirror, sync, trigger, latch, output, bipolar, status, control,
            queued, worker, holder, jammed, at>>
values == <<shadow, mirror, sync, trigger, latch, output, bipolar>>
tasks  == <<control, queued, worker>>

-----------------------------------------------------------------------------
Outside == [pc |-> "outside"]
Quiet   == [pc |-> "none"]

AOInit ==
    /\ shadow = [c \in Channel |-> 0] /\ mirror = shadow
    /\ latch = shadow /\ output = shadow
    /\ sync = {} /\ trigger = {} /\ bipolar = {}
    /\ status = [c \in Channel |-> "none"]
    /\ control = [c \in Channel |-> FALSE]
    /\ queued = {} /\ worker = Quiet
    /\ holder = [c \in Channel |-> "nobody"] /\ jammed = {}
    /\ at = [t \in Caller |-> Outside]

\* Who waits on channel c looks at "trigger & idx" instead of the bit of the channel:
\* at the channels whose bits make up the number c.
LookedAt(c) == {k \in Channel : (c \div 2^k) % 2 = 1}
HeldBack(c) == trigger \cap LookedAt(c) # {}

Free(c) == holder[c] = "nobody" /\ c \notin jammed

\* The waiters on channel c that wake_up_interruptible_all() finds asleep.
Woken(c) == [t \in Caller |-> IF at[t].pc = "asleep" /\ at[t].on = c
                              THEN [at[t] EXCEPT !.pc = "woken"] ELSE at[t]]

\* Write v to the register of c and strobe: all outputs take over their registers.
Strobe(c, v) == /\ latch' = [latch EXCEPT ![c] = v]
                /\ output' = latch'

\* me1600_ao_trigger_synchronous_list(), for the list "list" and the values "asked".
TriggerList(list, asked) ==
    /\ mirror' = [c \in Channel |-> IF c \in list THEN asked[c] ELSE mirror[c]]
    /\ latch' = [c \in Channel |-> IF c \in list THEN asked[c] ELSE latch[c]]
    /\ output' = latch'
    /\ trigger' = trigger \ list

\* cancel_delayed_work() does not cancel what the work queue has already taken over.
CancelTask(c) == \E late \in BOOLEAN : queued' = IF late THEN queued ELSE queued \ {c}

-----------------------------------------------------------------------------
me1600_ao_io_reset_subdevice(t, c) ==
    /\ at[t].pc = "outside" /\ Free(c)
    /\ control' = [control EXCEPT ![c] = FALSE]
    /\ CancelTask(c)
    /\ shadow' = [shadow EXCEPT ![c] = 0] /\ mirror' = [mirror EXCEPT ![c] = 0]
    /\ trigger' = trigger \ {c} /\ sync' = sync \ {c} /\ bipolar' = bipolar \ {c}
    /\ Strobe(c, 0)
    /\ status' = [status EXCEPT ![c] = "none"]
    /\ at' = Woken(c)
    /\ UNCHANGED <<worker, holder, jammed>>

\* The output goes to the zero of the range, which reads as 0 in both.
me1600_ao_io_single_config(t, c) ==
    /\ at[t].pc = "outside" /\ Free(c)
    /\ status[c] # "run"
    /\ trigger' = trigger \ {c}
    /\ shadow' = [shadow EXCEPT ![c] = 0] /\ mirror' = [mirror EXCEPT ![c] = 0]
    /\ \E two, together \in BOOLEAN :
          /\ bipolar' = IF two THEN bipolar \cup {c} ELSE bipolar \ {c}
          /\ Strobe(c, IF two THEN Mid ELSE 0)
          /\ sync' = IF together THEN sync \cup {c} ELSE sync \ {c}
    /\ status' = [status EXCEPT ![c] = "configured"]
    /\ UNCHANGED <<tasks, holder, jammed, at>>

-----------------------------------------------------------------------------
(* Reading: no lock of the subdevice is taken.                               *)

\* With the flag, the list is triggered first.
single_read(t, c) ==
    /\ at[t].pc = "outside"
    /\ \/ TriggerList(sync, shadow)
       \/ UNCHANGED <<mirror, latch, output, trigger>>
    /\ \E blocking \in BOOLEAN :
          at' = [at EXCEPT ![t] = IF blocking THEN [pc |-> "read", on |-> c] ELSE Outside]
    /\ UNCHANGED <<shadow, sync, bipolar, status, tasks, holder, jammed>>

read_waits(t) ==
    /\ at[t].pc = "read"
    /\ at' = [at EXCEPT ![t] = IF HeldBack(at[t].on)
                               THEN [pc |-> "asleep", on |-> at[t].on, by |-> "read"]
                               ELSE Outside]
    /\ UNCHANGED <<values, status, tasks, holder, jammed>>

-----------------------------------------------------------------------------
(* Writing.                                                                  *)

\* The status is tested, and the word with the bits of all channels is read: its write
\* back without the bit of c is not protected by the lock of the structure.
single_write(t, c) ==
    /\ at[t].pc = "outside" /\ Free(c)
    /\ status[c] # "run"
    /\ holder' = [holder EXCEPT ![c] = t]
    /\ at' = [at EXCEPT ![t] = [pc |-> "clear", on |-> c, word |-> trigger \ {c}]]
    /\ UNCHANGED <<values, status, tasks, jammed>>

write_clear(t) ==
    /\ at[t].pc = "clear"
    /\ trigger' = at[t].word
    /\ at' = [at EXCEPT ![t] = [pc |-> "apply", on |-> at[t].on]]
    /\ UNCHANGED <<shadow, mirror, sync, latch, output, bipolar, status, tasks, holder, jammed>>

\* What becomes of the value: triggered with the list, held back, or output.
TriggeredAt(c, asked) ==
    /\ sync' = sync \cup {c}
    /\ TriggerList(sync', asked)
    /\ status' = [status EXCEPT ![c] = "end"]

HoldBack(c) ==
    /\ c \in sync
    /\ trigger' = trigger \cup {c}
    /\ status' = [status EXCEPT ![c] = "run"]
    /\ UNCHANGED <<mirror, latch, output, sync>>

Output(c, asked) ==
    /\ c \notin sync
    /\ mirror' = [mirror EXCEPT ![c] = asked[c]]
    /\ Strobe(c, asked[c])
    /\ trigger' = trigger \ {c}
    /\ status' = [status EXCEPT ![c] = "end"]
    /\ UNCHANGED sync

\* The rest of the section; then the caller waits, if he blocks.
write_apply(t) ==
    /\ at[t].pc = "apply"
    /\ LET c == at[t].on IN
       /\ \E v \in Sample : shadow' = [shadow EXCEPT ![c] = v]
       /\ TriggeredAt(c, shadow') \/ HoldBack(c) \/ Output(c, shadow')
       /\ control' = [control EXCEPT ![c] = TRUE]
       /\ queued' = queued \cup {c}
       /\ holder' = [holder EXCEPT ![c] = "nobody"]
       /\ \E blocking \in BOOLEAN :
             at' = [at EXCEPT ![t] =
                      IF blocking /\ trigger' \cap LookedAt(c) # {}
                      THEN [pc |-> "asleep", on |-> c, by |-> "write"] ELSE Outside]
    /\ UNCHANGED <<bipolar, worker, jammed>>

-----------------------------------------------------------------------------
(* Waiting.                                                                  *)

\* The condition is tested again.
wait_again(t) ==
    /\ at[t].pc = "woken" /\ HeldBack(at[t].on)
    /\ at' = [at EXCEPT ![t].pc = "asleep"]
    /\ UNCHANGED <<values, status, tasks, holder, jammed>>

\* The wait ends: its condition holds, or its time is up or a signal has come, which may
\* be at any moment.  A writer
\* releases the lock of the channel twice and has not taken it again.  The ticket locks of
\* the kernel, with more releases than tickets, let nobody in any more; other locks just
\* become free.
wait_ends(t) ==
    /\ at[t].pc \in {"asleep", "woken"}
    /\ LET c == at[t].on IN
       IF at[t].by = "write"
       THEN /\ holder' = [holder EXCEPT ![c] = "nobody"]
            /\ \E ticket \in BOOLEAN : jammed' = IF ticket THEN jammed \cup {c} ELSE jammed
       ELSE UNCHANGED <<holder, jammed>>
    /\ at' = [at EXCEPT ![t] = Outside]
    /\ UNCHANGED <<values, status, tasks>>

-----------------------------------------------------------------------------
(* The control task of a channel.  One thread executes them all.             *)

\* Mutant: a value that is withdrawn leaves the channel busy.
Ends_triggered(c, late) == status[c] = "run" /\ ~HeldBack(c)

\* The channel is busy no longer.
Ends(c, late) == status[c] = "run" /\ (late \/ ~HeldBack(c))

\* A value whose time is up is withdrawn: the register gets the old one again, without a
\* strobe.  The task goes on while the channel is busy, and signals when it no longer is.
\* At a lock that can not be taken any more it spins for good, and the thread with it.
me1600_ao_work_control_task(c) ==
    /\ c \in queued /\ worker = Quiet
    /\ queued' = queued \ {c}
    /\ \/ /\ ~control[c]
          /\ UNCHANGED <<values, status, worker>>
       \/ /\ control[c] /\ Free(c)
          /\ \E late \in BOOLEAN :
                /\ IF late
                   THEN /\ shadow' = [shadow EXCEPT ![c] = mirror[c]]
                        /\ latch' = [latch EXCEPT ![c] = mirror[c]]
                        /\ trigger' = trigger \ {c}
                   ELSE UNCHANGED <<shadow, latch, trigger>>
                /\ status' = IF Ends(c, late) THEN [status EXCEPT ![c] = "end"] ELSE status
                /\ worker' = IF late \/ ~HeldBack(c) THEN [pc |-> "signal", on |-> c]
                             ELSE IF status[c] = "run" THEN [pc |-> "again", on |-> c] ELSE Quiet
          /\ UNCHANGED <<mirror, sync, output, bipolar>>
       \/ /\ control[c] /\ c \in jammed
          /\ worker' = [pc |-> "spins", on |-> c]
          /\ UNCHANGED <<values, status>>
    /\ UNCHANGED <<control, holder, jammed, at>>

\* The flag is read once more, outside of the lock.
control_rest ==
    /\ worker.pc \in {"again", "signal"}
    /\ worker' = Quiet
    /\ queued' = IF worker.pc = "again" /\ control[worker.on] THEN queued \cup {worker.on} ELSE queued
    /\ at' = IF worker.pc = "signal" THEN Woken(worker.on) ELSE at
    /\ UNCHANGED <<values, status, control, holder, jammed>>

\* Nobody calls, or whoever could is asleep or spins.
AORests == worker.pc \in {"none", "spins"} /\ UNCHANGED aoVars

AONext ==
    \/ \E t \in Caller :
          \/ \E c \in Channel :
                \/ <<"reset", c>> \in Calls1600[t] /\ me1600_ao_io_reset_subdevice(t, c)
                \/ <<"config", c>> \in Calls1600[t] /\ me1600_ao_io_single_config(t, c)
                \/ <<"read", c>> \in Calls1600[t] /\ single_read(t, c)
                \/ <<"write", c>> \in Calls1600[t] /\ single_write(t, c)
          \/ read_waits(t) \/ write_clear(t) \/ write_apply(t) \/ wait_again(t) \/ wait_ends(t)
    \/ \E c \in Channel : me1600_ao_work_control_task(c)
    \/ control_rest \/ AORests

AOSpec == AOInit /\ [][AONext]_aoVars

-----------------------------------------------------------------------------
\* A channel's shared state, its outputs and its control task tell the same story,
\* although they are written by the methods of all channels and by their control tasks:
\* a value differs from the one output only while the channel is on the list that the
\* next trigger outputs; reads return what is output, except that a bipolar channel, set
\* to its zero 0x0800 when it is configured, reads as 0 until it is written; and a channel
\* is busy only while its control task, which ends that, is there to come back.
HeldBackAndWatched ==
    \A c \in Channel :
        /\ shadow[c] # mirror[c] => c \in sync
        /\ output[c] # mirror[c] => c \in bipolar /\ mirror[c] = 0 /\ output[c] = Mid
        /\ status[c] = "run" => /\ control[c]
                                /\ \/ c \in queued
                                   \/ worker.pc \in {"again", "spins"} /\ worker.on = c
=============================================================================
