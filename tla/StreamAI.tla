------------------------------ MODULE StreamAI ------------------------------
(***************************************************************************)
(* Streaming on an ME-4600 analog input (me4600_ai.c): the ioctls that     *)
(* configure, start, stop, query, read and reset it, the interrupt handler,*)
(* the control task that polls the hardware every tick, and the hardware.  *)
(*                                                                         *)
(* A section under the subdevice's spin lock is one step: the interrupt    *)
(* handler only tries the lock, and is called again while its interrupt is *)
(* pending.  What the code does without the lock, and every wait on the    *)
(* subdevice's wait queue, is a step of its own.  A section under          *)
(* ME_LOCK_PROTECTOR also disables the interrupt, which waits for a handler*)
(* that already runs; ME_SUBDEVICE_LOCK does not.                          *)
(*                                                                         *)
(* Samples are counted, not told apart (SegBuf tells them apart), which    *)
(* interrupt is the last one of a limited acquisition is left open, and the*)
(* channel list has one entry, so that a frame is a value.                 *)
(***************************************************************************)
EXTENDS Integers, FiniteSets

CONSTANTS
    Task,       \* processes that use the subdevice
    Op,         \* the ioctls each of them issues
    FifoSize,   \* values the hardware FIFO holds
    BufSize,    \* values the segmented buffer holds
    ErrorLimit, \* me4600_AI_ERROR_TIMEOUT
    Trigger,    \* how streams are started: software, external
    Timed,      \* whether a time-out is given: subset of BOOLEAN
    Signals,    \* whether tasks may be interrupted by signals
    MaxCount,   \* bound on the counts above which no stream is started or stopped
    MaxSamples  \* bound: values sampled in one stream

AllOps == {"start", "start_nonblocking", "stop", "status", "read", "new_values",
           "reset", "stream_config", "single_config", "single_read"}

ASSUME OpAssumption    == Op \in [Task -> SUBSET AllOps]
ASSUME SizeAssumption  == /\ FifoSize \in Nat \ {0} /\ BufSize \in Nat \ {0}
                          /\ ErrorLimit \in Nat \ {0}
ASSUME BoundAssumption == MaxCount \in Nat /\ MaxSamples \in Nat
ASSUME KindAssumption  == /\ Trigger \subseteq {"software", "external"}
                          /\ Timed \subseteq BOOLEAN /\ Signals \in BOOLEAN

VARIABLES
    status,     \* instance->status
    listed,     \* chan_list_len > 0
    buf,        \* values in seg_buf
    writes,     \* seg_buf's writes_count
    counts,     \* stream_start_count and stream_stop_count
    empty_read, \* empty_read_count
    control,    \* ai_control_task_flag, its work item, error_confirm, deadline
    worker,     \* the control task between its locked section and its end
    isr,        \* the interrupt status the handler has read
    hw,         \* the hardware
    pc, call,   \* where each task is, and its locals
    asleep      \* tasks that sleep in wait_queue

soft == <<status, listed, buf, writes, counts, empty_read>>
user == <<pc, call>>
vars == <<soft, control, worker, isr, hw, user, asleep>>

-----------------------------------------------------------------------------
Running == {"run_wait", "run", "end_wait"}
Failed  == {"fifo_error", "buffer_error", "timeout"}
Single  == {"single_configured", "single_end"}
Idle    == {"none", "stream_configured", "end"} \cup Failed \cup Single
Status  == Running \cup Idle \cup {"single_run"}

\* Where a task waits, and where it goes on.
AfterWait == [start_wait |-> "start_check", stop_wait |-> "stop_end",
              read_wait |-> "read_count", values_wait |-> "values_check",
              status_wait |-> "idle"]
Waits == DOMAIN AfterWait

Location == Waits \cup {"idle", "start_check", "stop_end", "read_count", "read_get",
                        "read_empty", "read_done", "values_top", "values_check",
                        "reset_wake", "single_wait"}

NoCall == [wait |-> "none", old |-> 0, n |-> 0, ret |-> 0, snap |-> "none",
           screen |-> FALSE, report |-> FALSE, keep |-> FALSE, timed |-> FALSE,
           late |-> FALSE]

Init ==
    /\ status = "none" /\ listed = FALSE /\ buf = 0 /\ writes = 0
    /\ counts = [start |-> 0, stop |-> 0]
    /\ empty_read = 0
    /\ control = [flag |-> FALSE, queued |-> FALSE, confirm |-> 0, deadline |-> FALSE]
    /\ worker = [at |-> "idle", resched |-> FALSE, signal |-> FALSE]
    /\ isr = "idle"
    /\ hw = [fsm |-> FALSE, armed |-> FALSE, live |-> FALSE, stop |-> FALSE,
             over |-> FALSE, fifo |-> 0, limited |-> FALSE, trig |-> "software"]
    /\ pc = [t \in Task |-> "idle"]
    /\ call = [t \in Task |-> NoCall]
    /\ asleep = {}

Goto(t, l, c) == pc' = [pc EXCEPT ![t] = l] /\ call' = [call EXCEPT ![t] = c]
Return(t)     == Goto(t, "idle", NoCall)

wake_up == asleep' = {}

\* The interrupt is disabled: no handler is running.
Protected == isr = "idle"

Least(a, b) == IF a < b THEN a ELSE b

-----------------------------------------------------------------------------
(* The hardware's control register.                                        *)

\* Stop bits and latches; the values in the FIFO stay.
ai_stop_immediately == [hw EXCEPT !.fsm = FALSE, !.armed = FALSE, !.live = FALSE,
                                  !.stop = FALSE]

\* Stop at once, block the latches; the data FIFO is disabled, which empties it.
ai_stop_isr == [hw EXCEPT !.fsm = FALSE, !.armed = FALSE, !.live = FALSE,
                          !.over = FALSE, !.fifo = 0]

\* The control register is written anew.
Rewritten == [ai_stop_isr EXCEPT !.stop = FALSE]

\* ai_read_data_pooling(): the FIFO is copied until it or the buffer ends.  The
\* result is an overflow when the last copied value filled the buffer, because
\* the FIFO's status was read before that value.
Pooled   == Least(hw.fifo, BufSize - buf)
PoolFull == Pooled > 0 /\ Pooled = BufSize - buf

-----------------------------------------------------------------------------
(* Configuration and single values.                                        *)

\* Mutant: a busy subdevice is not refused.
stream_config_unchecked(t) ==
    /\ pc[t] = "idle" /\ "stream_config" \in Op[t]
    /\ \E trig \in Trigger, limited \in BOOLEAN :
          hw' = [Rewritten EXCEPT !.trig = trig, !.limited = limited]
    /\ listed' = TRUE
    /\ status' = "stream_configured"
    /\ UNCHANGED <<buf, writes, counts, empty_read, control, worker, isr, user, asleep>>

me4600_ai_io_stream_config(t) ==
    /\ pc[t] = "idle" /\ "stream_config" \in Op[t]
    /\ status \in Idle
    /\ \E trig \in Trigger, limited \in BOOLEAN :
          hw' = [Rewritten EXCEPT !.trig = trig, !.limited = limited]
    /\ listed' = TRUE
    /\ status' = "stream_configured"
    /\ UNCHANGED <<buf, writes, counts, empty_read, control, worker, isr, user, asleep>>

me4600_ai_io_single_config(t) ==
    /\ pc[t] = "idle" /\ "single_config" \in Op[t]
    /\ status \in Idle
    /\ status' = "single_configured"
    /\ UNCHANGED <<listed, buf, writes, counts, empty_read, control, worker, isr, hw,
                   user, asleep>>

\* The channel is sampled at once, or when an external trigger arrives; in that
\* case the lock is released and the task polls.
me4600_ai_io_single_read(t) ==
    /\ pc[t] = "idle" /\ "single_read" \in Op[t]
    /\ status \in Single
    /\ listed' = FALSE
    /\ hw' = Rewritten
    /\ \/ status' = "single_end" /\ Return(t)
       \/ status' = "single_run" /\ Goto(t, "single_wait", NoCall)
    /\ UNCHANGED <<buf, writes, counts, empty_read, control, worker, isr, asleep>>

\* The value came, the time is over, a signal came or the status changed: the
\* settings are restored whatever happened meanwhile.
single_read_ends(t) ==
    /\ pc[t] = "single_wait"
    /\ hw' = Rewritten
    /\ status' = "single_end"
    /\ Return(t)
    /\ UNCHANGED <<listed, buf, writes, counts, empty_read, control, worker, isr, asleep>>

-----------------------------------------------------------------------------
(* Start.                                                                  *)

Start(t, timed) ==
    /\ status \in {"stream_configured", "end"} \cup Failed
    /\ listed /\ ~ hw.fsm
    /\ counts.start <= MaxCount /\ counts.stop < MaxCount
    /\ status' = "run_wait"
    /\ buf' = 0 /\ writes' = 0
    /\ hw' = [Rewritten EXCEPT !.live = TRUE, !.fsm = hw.trig = "software",
                                 !.armed = hw.trig = "external"]
    /\ control' = [control EXCEPT !.flag = TRUE, !.queued = TRUE, !.deadline = timed]
    /\ UNCHANGED <<listed, counts, empty_read, worker, isr, asleep>>

stream_start_nonblocking(t) ==
    /\ pc[t] = "idle" /\ "start_nonblocking" \in Op[t]
    /\ \E timed \in Timed : Start(t, timed)
    /\ UNCHANGED user

me4600_ai_io_stream_start(t) ==
    /\ pc[t] = "idle" /\ "start" \in Op[t]
    /\ \E timed \in Timed :
          /\ Start(t, timed)
          /\ Goto(t, "start_wait", [NoCall EXCEPT !.timed = timed])

\* cancel_delayed_work() does not remove work that is already due.
Cancelled(queued) == {FALSE, queued}

\* After the wait.  A stream that still waits is given up, and nobody is woken.
start_check(t) ==
    /\ pc[t] = "start_check"
    /\ \/ /\ status # "run_wait"
          /\ UNCHANGED <<status, hw, control>>
       \/ /\ status = "run_wait"
          /\ status' = "timeout"
          /\ hw' = ai_stop_isr
          /\ \E q \in Cancelled(control.queued) :
                control' = [control EXCEPT !.flag = FALSE, !.queued = q]
    /\ Return(t)
    /\ UNCHANGED <<listed, buf, writes, counts, empty_read, worker, isr, asleep>>

-----------------------------------------------------------------------------
(* Stop.                                                                   *)

\* From label END: fetch what is left if asked to, stop, count, wake.
End(h, st, pool) ==
    /\ status' = IF pool /\ PoolFull THEN "buffer_error" ELSE st
    /\ buf' = IF pool THEN buf + Pooled ELSE buf
    /\ writes' = IF pool THEN writes + Pooled ELSE writes
    /\ hw' = h
    /\ counts' = [counts EXCEPT !.stop = @ + 1]
    /\ wake_up

me4600_ai_io_stream_stop(t) ==
    /\ pc[t] = "idle" /\ "stop" \in Op[t]
    /\ Protected /\ counts.stop < MaxCount
    /\ \E last \in BOOLEAN, keep \in BOOLEAN, timed \in Timed :
          LET pool == keep \/ last IN
          \/ \* Nothing runs; without `keep` a failed stream's FIFO is cleared first.
             /\ status \in Idle
             /\ End(ai_stop_isr, IF status \in Failed THEN "end" ELSE status,
                    pool /\ (status \in Failed => keep))
             /\ UNCHANGED user
          \/ /\ status \in Running
             /\ status' = "end_wait"
             /\ hw' = IF last THEN [hw EXCEPT !.stop = TRUE] ELSE ai_stop_immediately
             /\ Goto(t, "stop_wait", [NoCall EXCEPT !.keep = pool, !.timed = timed])
             /\ UNCHANGED <<buf, writes, counts, asleep>>
    /\ UNCHANGED <<listed, empty_read, control, worker, isr>>

stop_end(t) ==
    /\ pc[t] = "stop_end" /\ Protected
    /\ End(ai_stop_isr, status, call[t].keep)
    /\ Return(t)
    /\ UNCHANGED <<listed, empty_read, control, worker, isr>>

-----------------------------------------------------------------------------
(* Reset.                                                                  *)

me4600_ai_io_reset_subdevice(t) ==
    /\ pc[t] = "idle" /\ "reset" \in Op[t] /\ Protected
    /\ status' = "none" /\ listed' = FALSE /\ buf' = 0 /\ writes' = 0
    /\ counts' = [start |-> 0, stop |-> 0]
    /\ \E q \in Cancelled(control.queued) :
          control' = [control EXCEPT !.flag = FALSE, !.queued = q]
    /\ hw' = [Rewritten EXCEPT !.limited = FALSE]
    /\ Goto(t, "reset_wake", NoCall)
    /\ UNCHANGED <<empty_read, worker, isr, asleep>>

reset_wake(t) ==
    /\ pc[t] = "reset_wake"
    /\ wake_up
    /\ Return(t)
    /\ UNCHANGED <<soft, control, worker, isr, hw>>

-----------------------------------------------------------------------------
(* Status.                                                                 *)

\* The status is read without the lock.  single_run is missing in the switch
\* and falls to "WRONG STATUS!", which resets it.
me4600_ai_io_stream_status(t) ==
    /\ pc[t] = "idle" /\ "status" \in Op[t]
    /\ status' = IF status = "single_run" THEN "none" ELSE status
    /\ LET busy == status \in Running \/ (status \in {"none", "single_run"} /\ hw.fsm)
       IN  \/ UNCHANGED user
           \/ \E w \in {"IDLE", "BUSY"} :
                 /\ busy <=> w = "IDLE"
                 /\ Goto(t, "status_wait", [NoCall EXCEPT !.wait = w])
           \/ Goto(t, "status_wait", [NoCall EXCEPT !.wait = "START", !.old = counts.start])
           \/ Goto(t, "status_wait", [NoCall EXCEPT !.wait = "STOP", !.old = counts.stop])
    /\ UNCHANGED <<listed, buf, writes, counts, empty_read, control, worker, isr, hw, asleep>>

-----------------------------------------------------------------------------
(* Reading.                                                                *)

\* A blocking read of n values waits while the state machine works.
me4600_ai_io_stream_read(t) ==
    /\ pc[t] = "idle" /\ "read" \in Op[t]
    /\ \E n \in 1 .. BufSize, block \in BOOLEAN, timed \in Timed :
          Goto(t, IF block /\ hw.fsm /\ buf < n THEN "read_wait" ELSE "read_count",
               [NoCall EXCEPT !.n = n, !.timed = timed])
    /\ UNCHANGED <<soft, control, worker, isr, hw, asleep>>

\* Mutant: the requested number is not reduced to what is there.
read_count_requested(t) ==
    LET n == IF buf = 0 THEN 0 ELSE call[t].n IN
    /\ pc[t] = "read_count"
    /\ Goto(t, IF n = 0 THEN "read_empty" ELSE "read_get",
            [call[t] EXCEPT !.n = n, !.ret = n])
    /\ UNCHANGED <<soft, control, worker, isr, hw, asleep>>

\* How many values can be copied: read without the lock.
read_count(t) ==
    LET n == Least(buf, call[t].n) IN
    /\ pc[t] = "read_count"
    /\ Goto(t, IF n = 0 THEN "read_empty" ELSE "read_get",
            [call[t] EXCEPT !.n = n, !.ret = n])
    /\ UNCHANGED <<soft, control, worker, isr, hw, asleep>>

\* One value.  An empty buffer delivers 0x0000 and an error nobody looks at.
read_get(t) ==
    LET c == call[t] IN
    /\ pc[t] = "read_get" /\ Protected
    /\ buf' = IF buf > 0 THEN buf - 1 ELSE buf
    /\ Goto(t, IF c.n = 1 THEN "read_done" ELSE "read_get", [c EXCEPT !.n = @ - 1])
    /\ UNCHANGED <<status, listed, writes, counts, empty_read, control, worker, isr, hw,
                   asleep>>

\* Nothing to copy: a failure is reported once and the stream has ended.
read_empty(t) ==
    /\ pc[t] = "read_empty"
    /\ status' = IF status \in {"fifo_error", "buffer_error"} THEN "end" ELSE status
    /\ empty_read' = IF status = "end" THEN 1 ELSE empty_read
    /\ Goto(t, "read_done", call[t])
    /\ UNCHANGED <<listed, buf, writes, counts, control, worker, isr, hw, asleep>>

read_done(t) ==
    /\ pc[t] = "read_done"
    /\ empty_read' = IF call[t].ret > 0 \/ status # "end" THEN 0 ELSE empty_read
    /\ Return(t)
    /\ UNCHANGED <<status, listed, buf, writes, counts, control, worker, isr, hw, asleep>>

me4600_ai_io_stream_new_values(t) ==
    /\ pc[t] = "idle" /\ "new_values" \in Op[t]
    /\ \E screen \in BOOLEAN, report \in BOOLEAN, timed \in Timed :
          Goto(t, "values_top", [NoCall EXCEPT !.screen = screen, !.report = report,
                                              !.timed = timed])
    /\ UNCHANGED <<soft, control, worker, isr, hw, asleep>>

\* Top of the loop: report a failure, or remember status and writes_count.
values_top(t) ==
    /\ pc[t] = "values_top"
    /\ IF call[t].report /\ status \in Failed \cup {"none"}
       THEN Return(t)
       ELSE Goto(t, "values_wait", [call[t] EXCEPT !.snap = status, !.old = writes])
    /\ UNCHANGED <<soft, control, worker, isr, hw, asleep>>

\* After the wait: something new, an end or an error ends the loop.
values_check(t) ==
    LET c == call[t]
        news == writes # c.old \/ (~ c.screen /\ ~ c.report /\ buf > 0)
        over == c.late \/ status \in {"fifo_error", "buffer_error", "none", "end"}
    IN  /\ pc[t] = "values_check"
        /\ IF news \/ over THEN Return(t)
           ELSE Goto(t, "values_top", [c EXCEPT !.snap = "none", !.old = 0])
        /\ UNCHANGED <<soft, control, worker, isr, hw, asleep>>

-----------------------------------------------------------------------------
(* Waiting: wait_event_interruptible() on wait_queue.                      *)

Ready(t) ==
    LET c == call[t] IN
    CASE pc[t] = "start_wait"  -> status # "run_wait"
      [] pc[t] = "stop_wait"   -> status # "end_wait"
      [] pc[t] = "read_wait"   -> buf >= c.n \/ ~ hw.fsm
      [] pc[t] = "values_wait" -> status # c.snap
                                  \/ (IF c.screen THEN writes # c.old ELSE buf > 0)
      [] pc[t] = "status_wait" ->
            CASE c.wait = "IDLE"  -> status \notin Running
              [] c.wait = "BUSY"  -> status \in Running \cup {"none"}
              [] c.wait = "START" -> counts.start # c.old \/ status = "none"
              [] c.wait = "STOP"  -> counts.stop # c.old \/ status = "none"
      [] OTHER -> FALSE

Waiting(t) == pc[t] \in Waits

Resume(t, c) ==
    /\ IF AfterWait[pc[t]] = "idle" THEN Return(t) ELSE Goto(t, AfterWait[pc[t]], c)
    /\ UNCHANGED <<soft, control, worker, isr, hw>>

wait_ready(t) ==
    /\ Waiting(t) /\ t \notin asleep /\ Ready(t)
    /\ Resume(t, call[t])
    /\ UNCHANGED asleep

wait_sleep(t) ==
    /\ Waiting(t) /\ t \notin asleep /\ ~ Ready(t)
    /\ asleep' = asleep \cup {t}
    /\ UNCHANGED <<soft, control, worker, isr, hw, user>>

wait_timeout(t) ==
    /\ Waiting(t) /\ call[t].timed
    /\ Resume(t, [call[t] EXCEPT !.late = TRUE])
    /\ asleep' = asleep \ {t}

\* A signal: every ioctl gives up where it waits and leaves the state alone.
wait_interrupted(t) ==
    /\ Waiting(t) /\ Signals
    /\ Return(t)
    /\ asleep' = asleep \ {t}
    /\ UNCHANGED <<soft, control, worker, isr, hw>>

-----------------------------------------------------------------------------
(* The control task.                                                       *)

\* What the task finds: the new status, whether it comes back, whether it wakes
\* the waiting tasks, and how often it counts a start and a stop.
Found(st, resched, signal, start, stop, h) ==
    /\ status' = st
    /\ worker' = [at |-> "post", resched |-> resched, signal |-> signal]
    /\ counts' = [start |-> counts.start + start, stop |-> counts.stop + stop]
    /\ hw' = h

\* Mutant: while the stream waits for its trigger the task is not scheduled again.
control_run_wait_once ==
    /\ status = "run_wait"
    /\ \/ hw.fsm /\ Found("run", TRUE, TRUE, 1, 0, hw)
       \/ ~ hw.fsm /\ control.deadline /\ Found("timeout", FALSE, TRUE, 1, 1, ai_stop_isr)
       \/ ~ hw.fsm /\ Found("run_wait", FALSE, FALSE, 0, 0, hw)

control_run_wait ==
    /\ status = "run_wait"
    /\ \/ hw.fsm /\ Found("run", TRUE, TRUE, 1, 0, hw)
       \/ ~ hw.fsm /\ control.deadline /\ Found("timeout", FALSE, TRUE, 1, 1, ai_stop_isr)
       \/ ~ hw.fsm /\ Found("run_wait", TRUE, FALSE, 0, 0, hw)

control_run ==
    /\ status = "run"
    /\ IF ~ hw.fsm /\ control.confirm + 1 > ErrorLimit
       THEN Found("fifo_error", FALSE, TRUE, 0, 1, hw)
       ELSE Found("run", TRUE, FALSE, 0, 0, hw)

control_end_wait ==
    /\ status = "end_wait"
    /\ IF hw.fsm THEN Found("end_wait", TRUE, FALSE, 0, 0, hw)
                 ELSE Found("end", TRUE, TRUE, 0, 1, hw)

\* Ended, failed or reconfigured: the hardware of an ended stream is stopped.  The
\* state of a single read in progress is missing in the switch, which resets it.
control_idle ==
    /\ status \notin Running
    /\ Found(IF status = "single_run" THEN "none" ELSE status, FALSE, FALSE, 0, 0,
             IF status = "end" /\ hw.fsm THEN ai_stop_immediately ELSE hw)

\* error_confirm counts consecutive ticks with a stopped state machine; the last
\* assignment of that branch sets it to zero again.
me4600_ai_work_control_task ==
    /\ control.queued /\ worker.at = "idle"
    /\ \/ /\ ~ control.flag
          /\ control' = [control EXCEPT !.queued = FALSE]
          /\ UNCHANGED <<status, counts, worker, hw>>
       \/ /\ control.flag /\ Protected
          /\ control_run_wait \/ control_run \/ control_end_wait \/ control_idle
          /\ control' = [control EXCEPT !.queued = FALSE, !.confirm = 0]
    /\ UNCHANGED <<listed, buf, writes, empty_read, isr, user, asleep>>

\* Mutant: what was found is not signalled.
control_post_silent ==
    /\ worker.at = "post"
    /\ control' = [control EXCEPT !.queued = @ \/ (control.flag /\ worker.resched)]
    /\ worker' = [at |-> "idle", resched |-> FALSE, signal |-> FALSE]
    /\ UNCHANGED <<soft, isr, hw, user, asleep>>

\* Behind the lock: schedule again, then wake.
control_post ==
    /\ worker.at = "post"
    /\ control' = [control EXCEPT !.queued = @ \/ (control.flag /\ worker.resched)]
    /\ IF worker.signal THEN wake_up ELSE UNCHANGED asleep
    /\ worker' = [at |-> "idle", resched |-> FALSE, signal |-> FALSE]
    /\ UNCHANGED <<soft, isr, hw, user>>

-----------------------------------------------------------------------------
(* The interrupt handler.                                                  *)

\* The device's handler reads the interrupt status, then calls the subdevice's.
irq ==
    /\ isr = "idle" /\ hw.live /\ (hw.fifo > 0 \/ hw.over)
    /\ isr' = IF hw.over THEN "overflow" ELSE "data"
    /\ UNCHANGED <<soft, control, worker, hw, user, asleep>>

Wake(signal) == IF signal THEN wake_up ELSE UNCHANGED asleep

\* How many values a handler copies.  One that comes late, after the FIFO was
\* emptied, copies what an empty FIFO returns.
Fetched == {n \in 1 .. FifoSize : n <= hw.fifo \/ hw.fifo = 0}

\* n values are copied and the acquisition goes on.  With a limit, the handler
\* may call itself a second time, and then forgets that it had to wake.
isr_continues ==
    /\ isr = "data"
    /\ \E n \in Fetched :
          /\ n <= BufSize - buf
          /\ buf' = buf + n
          /\ writes' = writes + n
          /\ hw' = [hw EXCEPT !.fifo = IF n > @ THEN 0 ELSE @ - n]
    /\ \E signal \in BOOLEAN : Wake(signal)
    /\ UNCHANGED <<status, counts>>

\* The last interrupt of a limited acquisition.
isr_last ==
    /\ isr = "data" /\ hw.limited
    /\ \E n \in 0 .. Least(FifoSize, BufSize - buf) :
          buf' = buf + n /\ writes' = writes + n
    /\ status' = "end"
    /\ hw' = ai_stop_isr
    /\ counts' = [counts EXCEPT !.stop = @ + 1]
    /\ wake_up

\* Mutant: the failed acquisition goes on.
isr_full_goes_on ==
    /\ isr = "data"
    /\ \E n \in Fetched : n > BufSize - buf
    /\ buf' = BufSize /\ writes' = writes + BufSize - buf
    /\ status' = "buffer_error"
    /\ UNCHANGED hw
    /\ counts' = [counts EXCEPT !.stop = @ + 1]
    /\ wake_up

\* The buffer cannot take them all.
isr_full ==
    /\ isr = "data"
    /\ \E n \in Fetched : n > BufSize - buf
    /\ buf' = BufSize /\ writes' = writes + BufSize - buf
    /\ status' = "buffer_error"
    /\ hw' = ai_stop_isr
    /\ counts' = [counts EXCEPT !.stop = @ + 1]
    /\ wake_up

\* The FIFO is full.  The data interrupt that comes with it may have ended the
\* acquisition as above.  Then a last read, and everything is stopped: the status is
\* not changed here, the control task is expected to see that the hardware stopped.
isr_overflow ==
    /\ isr = "overflow"
    /\ \E n \in 0 .. Least(FifoSize, BufSize - buf) :
          buf' = buf + n /\ writes' = writes + n
    /\ \/ UNCHANGED status /\ counts' = [counts EXCEPT !.stop = @ + 1]
       \/ /\ \/ hw.limited /\ status' = "end"
             \/ buf' = BufSize /\ status' = "buffer_error"
          /\ \E n \in {1, 2} : counts' = [counts EXCEPT !.stop = @ + n]
    /\ hw' = ai_stop_isr
    /\ wake_up

me4600_ai_irq_handle ==
    /\ isr_continues \/ isr_last \/ isr_full \/ isr_overflow
    /\ isr' = "idle"
    /\ UNCHANGED <<listed, empty_read, control, worker, user>>

-----------------------------------------------------------------------------
(* The hardware, as the driver uses it.                                    *)

Hardware(h) == hw' = h /\ UNCHANGED <<soft, control, worker, isr, user, asleep>>

hw_trigger == hw.armed /\ Hardware([hw EXCEPT !.armed = FALSE, !.fsm = TRUE])

hw_sample ==
    /\ hw.fsm /\ hw.fifo < FifoSize /\ writes + hw.fifo < MaxSamples
    /\ Hardware([hw EXCEPT !.fifo = @ + 1])

\* A sample finds the FIFO full; the state machine may stop by itself.
hw_overflow ==
    /\ hw.fsm /\ hw.fifo = FifoSize
    /\ \E fsm \in BOOLEAN : Hardware([hw EXCEPT !.over = TRUE, !.fsm = fsm])

\* The STOP bit takes effect at the end of the channel list, also when the trigger
\* comes after the bit was set.
hw_stop == hw.stop /\ hw.fsm /\ Hardware([hw EXCEPT !.fsm = FALSE])

-----------------------------------------------------------------------------
Ioctl(t) ==
    \/ me4600_ai_io_stream_config(t) \/ me4600_ai_io_single_config(t)
    \/ me4600_ai_io_single_read(t)
    \/ me4600_ai_io_stream_start(t) \/ stream_start_nonblocking(t)
    \/ me4600_ai_io_stream_stop(t) \/ me4600_ai_io_stream_status(t)
    \/ me4600_ai_io_stream_read(t) \/ me4600_ai_io_stream_new_values(t)
    \/ me4600_ai_io_reset_subdevice(t)

\* What a task does by itself once it is in an ioctl.
Proceed(t) ==
    \/ start_check(t) \/ stop_end(t) \/ reset_wake(t) \/ single_read_ends(t)
    \/ read_count(t) \/ read_get(t) \/ read_empty(t) \/ read_done(t)
    \/ values_top(t) \/ values_check(t)
    \/ wait_ready(t) \/ wait_sleep(t)

Control == me4600_ai_work_control_task \/ control_post

Handler == irq \/ me4600_ai_irq_handle

Next ==
    \/ \E t \in Task : Ioctl(t) \/ Proceed(t) \/ wait_timeout(t) \/ wait_interrupted(t)
    \/ Control \/ Handler
    \/ hw_trigger \/ hw_sample \/ hw_overflow \/ hw_stop

Spec == Init /\ [][Next]_vars

\* Tasks are scheduled, the work queue runs, interrupts are delivered and a STOP
\* bit takes effect.  Nothing makes a trigger or a sample arrive.
Fairness ==
    /\ \A t \in Task : WF_vars(Proceed(t))
    /\ WF_vars(Control) /\ WF_vars(Handler) /\ WF_vars(hw_stop)

FairSpec == Spec /\ Fairness

-----------------------------------------------------------------------------
(* Properties.                                                             *)

\* The hardware acquires only for a stream that runs: whichever way a stream ends
\* or fails, the state machine is stopped, or has been told to stop, when the status
\* says so.
IdleIsStopped == status \in Idle /\ hw.fsm => hw.stop

\* A running stream is watched: its control task is scheduled, or is at work and
\* will schedule itself.  Nobody else notices that a start timed out or a stop
\* took effect.
StreamIsWatched ==
    status \in Running =>
        /\ control.flag
        /\ control.queued \/ (worker.at = "post" /\ worker.resched)

\* A running stream gives way to something else than its own end, its failure or
\* a reset.
Torn == status \in Running /\ status' \notin Running \cup Failed \cup {"end", "none"}

\* A running stream is never configured away under its user, whoever else starts,
\* stops, resets and configures: "Subdevice running in stream mode!" (1728).  Only
\* a single read that was cancelled while it polled may end it.
StreamNotReconfigured == [][Torn => status' = "single_end"]_status

\* What a sleeping task waits for has come: the stream is idle or busy (1949, 1976),
\* the hardware has stopped for a reader, the stream ended for a task that waits
\* for its new values, a stop took effect and nobody started again, a start is over.
Due(t) ==
    \/ pc[t] = "status_wait" /\ call[t].wait = "IDLE" /\ status \notin Running
    \/ pc[t] = "status_wait" /\ call[t].wait = "BUSY" /\ status \in Running
    \/ pc[t] = "read_wait" /\ ~ hw.fsm
    \/ pc[t] = "values_wait" /\ call[t].snap \in Running /\ status \notin Running
    \/ pc[t] = "stop_wait" /\ status # "run_wait"
    \/ pc[t] = "start_wait" /\ status # "run_wait"

\* "Only runing process will interrupt this call. Events are signaled when status
\* change." (me4600_ai.c:1949): a task whose condition has come returns, unless the
\* condition goes again before it is scheduled; no wake-up is missing.
WaitersReturn == \A t \in Task : Due(t) ~> ~ Due(t)

\* "Checking how many datas can be copied." (me4600_ai.c:1432): a reader that was
\* told n values are there gets n values.
ReaderFindsValues == \A t \in Task : pc[t] = "read_get" => call[t].n <= buf
=============================================================================
