------------------------------ MODULE ME6000AO ------------------------------
(***************************************************************************)
(* The analog outputs of the ME-6000 (me6000_ao.c).  The driver has a copy *)
(* of the ME-4600's file for them; the copies differ in the interrupt, the *)
(* single values of the outputs without a FIFO and some errors, which      *)
(* StreamAO describes where Board = "me6000".  This module names the       *)
(* handlers of the copy and puts their specification together.             *)
(***************************************************************************)
EXTENDS StreamAO

me6000_ao_io_reset_subdevice(t)   == reset_subdevice(t)
me6000_ao_reset_wake(t)           == reset_wake(t)
me6000_ao_io_single_config(t)     == single_config(t)
me6000_ao_io_single_read(t)       == single_read(t)
me6000_ao_io_single_write(t)      == single_write(t)
me6000_ao_io_single_check(t)      == single_check(t)
me6000_ao_io_stream_config(t)     == stream_config(t)
me6000_ao_io_stream_start(t)      == stream_start(t)
me6000_ao_start_fill(t)           == start_fill(t)
me6000_ao_start_loop(t)           == start_loop(t)
me6000_ao_start_check(t)          == start_check(t)
me6000_ao_io_stream_stop(t)       == stream_stop(t)
me6000_ao_stop_end(t)             == stop_end(t)
me6000_ao_io_stream_write(t)      == stream_write(t)
me6000_ao_write_lock(t)           == write_lock(t)
me6000_ao_write_copy(t)           == write_copy(t)
me6000_ao_write_check(t)          == write_check(t)
me6000_ao_write_done(t)           == write_done(t)
me6000_ao_io_stream_status(t)     == stream_status(t)
me6000_ao_io_stream_new_values(t) == stream_new_values(t)
me6000_ao_values_top(t)           == values_top(t)
me6000_ao_values_check(t)         == values_check(t)
me6000_ao_work_control_task       == work_control_task
me6000_ao_control_post            == control_post
me6000_ao_irq_enter               == irq_enter
me6000_ao_irq_fill                == irq_fill /\ UNCHANGED <<conf, control, worker, user>>

-----------------------------------------------------------------------------
Ioctl6000(t) ==
    \/ me6000_ao_io_reset_subdevice(t) \/ me6000_ao_io_single_config(t)
    \/ me6000_ao_io_single_read(t)     \/ me6000_ao_io_single_write(t)
    \/ me6000_ao_io_stream_config(t)   \/ me6000_ao_io_stream_start(t)
    \/ me6000_ao_io_stream_stop(t)     \/ me6000_ao_io_stream_write(t)
    \/ me6000_ao_io_stream_status(t)   \/ me6000_ao_io_stream_new_values(t)

Proceed6000(t) ==
    \/ me6000_ao_reset_wake(t)  \/ me6000_ao_io_single_check(t) \/ me6000_ao_start_fill(t)
    \/ me6000_ao_start_loop(t)  \/ me6000_ao_start_check(t)     \/ me6000_ao_stop_end(t)
    \/ me6000_ao_write_lock(t)  \/ me6000_ao_write_copy(t)      \/ me6000_ao_write_check(t)
    \/ me6000_ao_write_done(t)  \/ me6000_ao_values_top(t)      \/ me6000_ao_values_check(t)
    \/ wait_ready(t)            \/ wait_sleep(t)

Control6000 == me6000_ao_work_control_task \/ me6000_ao_control_post
Handler6000 == irq \/ me6000_ao_irq_enter \/ me6000_ao_irq_fill

Next6000 ==
    \/ \E t \in Task : Ioctl6000(t) \/ Proceed6000(t) \/ wait_timeout(t)
    \/ Control6000 \/ Handler6000
    \/ hw_trigger \/ hw_convert \/ hw_underrun \/ hw_stop

\* The fairness of StreamAO, for the handlers of this file.
FairSpec6000 ==
    /\ Init /\ [][Next6000]_vars
    /\ \A t \in Task : WF_vars(Proceed6000(t))
    /\ WF_vars(Control6000) /\ WF_vars(Handler6000)
    /\ WF_vars(hw_convert) /\ WF_vars(hw_underrun) /\ SF_vars(hw_stop)

-----------------------------------------------------------------------------
(* The tasks that sleep in wait_queue, and who wakes them.                 *)

\* What a task waits for has come.  A start frees space and wakes nobody: the writer hears
\* of it when the stream runs.
Due(t) ==
    \/ /\ pc[t] = "write_wait"
       /\ \/ status \notin {"stream_configured", "run_wait", "run"}
          \/ status # "run_wait" /\ me_circ_buf_space(circ) > 0
    \/ pc[t] = "status_wait" /\ call[t].how = "idle" /\ status \notin Busy
    \/ pc[t] = "status_wait" /\ call[t].how = "busy" /\ status \in {"run", "end_wait"}
    \/ /\ pc[t] = "values_wait"
       /\ status \in Failed \cup {"run", "end", "none"} /\ status # call[t].snap
    \/ pc[t] = "stop_wait" /\ status \notin {"end_wait", "run_wait"}
    \/ pc[t] = "start_wait" /\ status # "run_wait"
    \/ pc[t] \in {"single_wait", "read_wait"} /\ status # "single_run"

\* Who has changed something is on the way to wake_up.
WakeUpComes == \/ worker.at = "post" /\ worker.signal
               \/ isr = "fill"
               \/ \E u \in Task : pc[u] = "reset_wake"

Abandoned(t) == t \in asleep /\ Due(t) /\ ~ WakeUpComes

\* The end of stream_stop.  A stop that takes effect at once changes the status, and any
\* stop may empty the buffer when it is over: neither wakes anybody (me6000_ao.c:2187,
\* 2235), and the control task that finds the stream ended has nothing to signal.
\* Everybody else who counts a stop wakes the tasks.
QuietStop == counts'.stop > counts.stop /\ UNCHANGED <<worker, isr>>

\* A task whose condition has come returns, unless the condition goes again before it is
\* scheduled or a stop abandons it; and nothing but the end of a stop abandons anybody.
WaitersReturn ==
    /\ [][\A t \in Task : Abandoned(t)' => Abandoned(t) \/ QuietStop]_vars
    /\ \A t \in Task : Due(t) /\ ~ Abandoned(t) ~> ~ Due(t) \/ Abandoned(t)
=============================================================================
