--------------------------- MODULE StreamAI_proofs ---------------------------
(***************************************************************************)
(* What holds of a stream of the ME-4600 analog input for every set of     *)
(* tasks, whatever they call, for every size of the FIFO and the buffer:   *)
(* the hardware of an idle subdevice is stopped, a stream that runs is     *)
(* watched and is not configured away, and a reader that is alone gets     *)
(* the values it was told of.                                              *)
(*                                                                         *)
(* IdleIsStopped is not inductive.  A trigger starts the state machine     *)
(* whatever the status says, so an armed trigger has to be accounted for   *)
(* as well (Stopped), and the control task, which ends a stream without    *)
(* touching the hardware when it finds it stopped, has to know that no     *)
(* trigger is armed behind it (Unarmed).                                   *)
(***************************************************************************)
EXTENDS StreamAI, TLAPS

Calls == [wait : {"none", "IDLE", "BUSY", "START", "STOP"}, old : Nat, n : Nat, ret : Nat,
          snap : Status, screen : BOOLEAN, report : BOOLEAN, keep : BOOLEAN,
          timed : BOOLEAN, late : BOOLEAN]

HwType == [fsm : BOOLEAN, armed : BOOLEAN, live : BOOLEAN, stop : BOOLEAN, over : BOOLEAN,
           fifo : 0 .. FifoSize, limited : BOOLEAN, trig : {"software", "external"}]

\* A task that copies values has one to copy.
UserType ==
    /\ pc \in [Task -> Location]
    /\ call \in [Task -> Calls]
    /\ \A t \in Task : pc[t] = "read_get" => call[t].n # 0

AIType ==
    /\ status \in Status /\ listed \in BOOLEAN
    /\ buf \in 0 .. BufSize /\ writes \in Nat
    /\ counts \in [start : Nat, stop : Nat]
    /\ empty_read \in {0, 1}
    /\ control \in [flag : BOOLEAN, queued : BOOLEAN, confirm : Nat, deadline : BOOLEAN]
    /\ worker \in [at : {"idle", "post"}, resched : BOOLEAN, signal : BOOLEAN]
    /\ isr \in {"idle", "data", "overflow"}
    /\ hw \in HwType
    /\ UserType
    /\ asleep \subseteq Task

Stopped ==
    status \notin {"run_wait", "run"} /\ (hw.fsm \/ hw.armed) => hw.stop

Unarmed ==
    /\ ~ (hw.fsm /\ hw.armed)
    /\ status = "run" => ~ hw.armed

Inv == AIType /\ Stopped /\ Unarmed /\ StreamIsWatched

-----------------------------------------------------------------------------
(* What the helpers return *)

LEMMA LeastOf ==
  ASSUME NEW a \in Int, NEW b \in Int
  PROVE  Least(a, b) \in {a, b} /\ Least(a, b) <= a /\ Least(a, b) <= b
  BY DEF Least

\* The states of the control register that the driver writes are states of it.
LEMMA RegisterType ==
  ASSUME hw \in HwType
  PROVE  /\ ai_stop_immediately \in HwType /\ ai_stop_isr \in HwType /\ Rewritten \in HwType
         /\ ~ ai_stop_immediately.fsm /\ ~ ai_stop_immediately.armed
         /\ ~ ai_stop_isr.fsm /\ ~ ai_stop_isr.armed
         /\ ~ Rewritten.fsm /\ ~ Rewritten.armed /\ ~ Rewritten.stop
  <1>1. 0 \in 0 .. FifoSize
    BY SizeAssumption
  <1>2. /\ ai_stop_immediately \in HwType
        /\ ~ ai_stop_immediately.fsm /\ ~ ai_stop_immediately.armed
    BY DEF HwType, ai_stop_immediately
  <1>3. ai_stop_isr \in HwType /\ ~ ai_stop_isr.fsm /\ ~ ai_stop_isr.armed
    BY <1>1 DEF HwType, ai_stop_isr
  <1>4. /\ Rewritten \in HwType
        /\ ~ Rewritten.fsm /\ ~ Rewritten.armed /\ ~ Rewritten.stop
    BY <1>3 DEF HwType, Rewritten
  <1> QED
    BY <1>2, <1>3, <1>4

\* Copying what the FIFO holds does not overrun the buffer.
LEMMA PooledType ==
  ASSUME AIType
  PROVE  Pooled \in Nat /\ buf + Pooled \in 0 .. BufSize /\ writes + Pooled \in Nat
  <1>1. hw.fifo \in Nat /\ BufSize - buf \in Nat /\ buf \in Nat /\ writes \in Nat
    BY SizeAssumption DEF AIType, HwType
  <1> QED
    BY <1>1, LeastOf, SizeAssumption DEF Pooled

LEMMA GotoType ==
  ASSUME AIType, NEW t \in Task, NEW l \in Location, NEW c \in Calls, Goto(t, l, c),
         l = "read_get" => c.n # 0
  PROVE  UserType'
  BY DEF AIType, UserType, Goto

LEMMA ReturnType ==
  ASSUME AIType, NEW t \in Task, Return(t)
  PROVE  UserType'
  <1>1. NoCall \in Calls
    BY DEF NoCall, Calls, Status, Idle
  <1>2. "idle" \in Location
    BY DEF Location
  <1> QED
    BY <1>1, <1>2, GotoType DEF Return

-----------------------------------------------------------------------------
(* Every step preserves the invariant *)

\* A step of a task that leaves the stream, its control task and the hardware.
LEMMA Elsewhere ==
  ASSUME Inv, AIType', status' = status, hw' = hw, control' = control, worker' = worker
  PROVE  Inv'
  BY DEF Inv, Stopped, Unarmed, StreamIsWatched

\* A step that leaves the hardware stopped and no stream running.
LEMMA Ended ==
  ASSUME Inv, AIType', status' \notin Running, ~ hw'.fsm, ~ hw'.armed
  PROVE  Inv'
  BY DEF Inv, Stopped, Unarmed, StreamIsWatched, Running

\* The same with a stream that was not stopped by the step.
LEMMA Halted ==
  ASSUME Inv, AIType', status' = status \/ status' \notin Running, ~ hw'.fsm, ~ hw'.armed,
         control' = control, worker' = worker
  PROVE  Inv'
  BY DEF Inv, Stopped, Unarmed, StreamIsWatched, Running

LEMMA InvConfig ==
  ASSUME Inv, NEW t \in Task,
         me4600_ai_io_stream_config(t) \/ me4600_ai_io_single_config(t)
  PROVE  Inv'
  <1>1. CASE me4600_ai_io_stream_config(t)
    <2>1. hw' \in HwType /\ ~ hw'.fsm /\ ~ hw'.armed
      <3>1. PICK trig \in Trigger, limited \in BOOLEAN :
              hw' = [Rewritten EXCEPT !.trig = trig, !.limited = limited]
        BY <1>1 DEF me4600_ai_io_stream_config
      <3>2. Rewritten \in HwType /\ ~ Rewritten.fsm /\ ~ Rewritten.armed
        BY RegisterType DEF Inv, AIType
      <3> QED
        BY <3>1, <3>2, KindAssumption DEF HwType
    <2>2. AIType'
      BY <1>1, <2>1 DEF Inv, AIType, UserType, me4600_ai_io_stream_config, user, Status, Idle
    <2> QED
      BY <1>1, <2>1, <2>2, Ended DEF me4600_ai_io_stream_config, Running
  <1>2. CASE me4600_ai_io_single_config(t)
    <2>1. AIType'
      BY <1>2 DEF Inv, AIType, UserType, me4600_ai_io_single_config, user, Status, Idle, Single
    <2> QED
      BY <1>2, <2>1 DEF Inv, me4600_ai_io_single_config, Stopped, Unarmed,
                        StreamIsWatched, Running, Idle, Failed, Single
  <1> QED
    BY <1>1, <1>2

LEMMA InvSingle ==
  ASSUME Inv, NEW t \in Task, me4600_ai_io_single_read(t) \/ single_read_ends(t)
  PROVE  Inv'
  <1>1. hw' = Rewritten /\ hw' \in HwType /\ ~ hw'.fsm /\ ~ hw'.armed
    BY RegisterType DEF Inv, AIType, me4600_ai_io_single_read, single_read_ends
  <1>2. status' \in {"single_end", "single_run"}
    BY DEF me4600_ai_io_single_read, single_read_ends
  <1>3. UserType'
    <2>1. CASE Return(t)
      BY <2>1, ReturnType DEF Inv
    <2>2. CASE Goto(t, "single_wait", NoCall)
      <3>1. NoCall \in Calls /\ "single_wait" \in Location
        BY DEF NoCall, Calls, Status, Idle, Location
      <3> QED
        BY <2>2, <3>1, GotoType DEF Inv
    <2> QED
      BY <2>1, <2>2 DEF me4600_ai_io_single_read, single_read_ends
  <1>4. AIType'
    BY <1>1, <1>2, <1>3 DEF Inv, AIType, me4600_ai_io_single_read, single_read_ends,
                            Status, Idle, Single
  <1> QED
    BY <1>1, <1>2, <1>4, Ended DEF Running

LEMMA InvStart ==
  ASSUME Inv, NEW t \in Task,
         stream_start_nonblocking(t) \/ me4600_ai_io_stream_start(t)
  PROVE  Inv'
  <1>1. PICK timed \in Timed :
          /\ Start(t, timed)
          /\ UNCHANGED user \/ Goto(t, "start_wait", [NoCall EXCEPT !.timed = timed])
    BY DEF stream_start_nonblocking, me4600_ai_io_stream_start
  <1>2. timed \in BOOLEAN
    BY KindAssumption
  <1>3. UserType'
    <2>1. CASE UNCHANGED user
      BY <2>1 DEF user, Inv, AIType, UserType
    <2>2. CASE Goto(t, "start_wait", [NoCall EXCEPT !.timed = timed])
      <3>1. [NoCall EXCEPT !.timed = timed] \in Calls /\ "start_wait" \in Location
        BY <1>2 DEF NoCall, Calls, Status, Idle, Location, Waits, AfterWait
      <3> QED
        BY <2>2, <3>1, GotoType DEF Inv
    <2> QED
      BY <1>1, <2>1, <2>2
  <1>4. hw' \in HwType /\ ~ (hw'.fsm /\ hw'.armed)
    <2>1. Rewritten \in HwType
      BY RegisterType DEF Inv, AIType
    <2>2. hw' = [Rewritten EXCEPT !.live = TRUE, !.fsm = hw.trig = "software",
                                  !.armed = hw.trig = "external"]
      BY <1>1 DEF Start
    <2> QED
      BY <2>1, <2>2 DEF HwType
  <1>5. status' = "run_wait" /\ control'.flag /\ control'.queued
    BY <1>1 DEF Start, Inv, AIType
  <1>6. AIType'
    <2>1. control' \in [flag : BOOLEAN, queued : BOOLEAN, confirm : Nat, deadline : BOOLEAN]
      BY <1>1, <1>2 DEF Start, Inv, AIType
    <2> QED
      BY <1>1, <1>3, <1>4, <1>5, <2>1, SizeAssumption DEF Start, Inv, AIType, Status, Running
  <1> QED
    BY <1>4, <1>5, <1>6 DEF Inv, Stopped, Unarmed, StreamIsWatched

LEMMA InvStartCheck ==
  ASSUME Inv, NEW t \in Task, start_check(t)
  PROVE  Inv'
  <1>1. UserType'
    BY ReturnType DEF start_check, Inv
  <1>2. CASE UNCHANGED <<status, hw, control>>
    <2>1. AIType'
      BY <1>1, <1>2 DEF start_check, Inv, AIType
    <2> QED
      BY <1>2, <2>1, Elsewhere DEF start_check
  <1>3. CASE status' = "timeout" /\ hw' = ai_stop_isr
             /\ \E q \in Cancelled(control.queued) :
                   control' = [control EXCEPT !.flag = FALSE, !.queued = q]
    <2>1. hw' \in HwType /\ ~ hw'.fsm /\ ~ hw'.armed
      BY <1>3, RegisterType DEF Inv, AIType
    <2>2. control' \in [flag : BOOLEAN, queued : BOOLEAN, confirm : Nat, deadline : BOOLEAN]
      BY <1>3 DEF Inv, AIType, Cancelled
    <2>3. AIType'
      BY <1>1, <1>3, <2>1, <2>2 DEF start_check, Inv, AIType, Status, Idle, Failed
    <2> QED
      BY <1>3, <2>1, <2>3, Ended DEF Running
  <1> QED
    BY <1>2, <1>3 DEF start_check

\* What End leaves is well typed, if it is given a status and a register.
LEMMA EndType ==
  ASSUME Inv, NEW h \in HwType, NEW st \in Status, NEW pool \in BOOLEAN, End(h, st, pool)
  PROVE  /\ status' \in Status /\ status' \in {st, "buffer_error"}
         /\ buf' \in 0 .. BufSize /\ writes' \in Nat
         /\ counts' \in [start : Nat, stop : Nat] /\ hw' = h /\ asleep' \subseteq Task
  <1>1. Pooled \in Nat /\ buf + Pooled \in 0 .. BufSize /\ writes + Pooled \in Nat
    BY PooledType DEF Inv
  <1>2. status' \in {st, "buffer_error"}
    BY DEF End
  <1>3. "buffer_error" \in Status
    BY DEF Status, Idle, Failed
  <1>4. counts' \in [start : Nat, stop : Nat]
    BY DEF End, Inv, AIType
  <1> QED
    BY <1>1, <1>2, <1>3, <1>4 DEF End, Inv, AIType, wake_up

LEMMA InvStop ==
  ASSUME Inv, NEW t \in Task, me4600_ai_io_stream_stop(t)
  PROVE  Inv'
  <1>1. PICK last \in BOOLEAN, keep \in BOOLEAN, timed \in Timed :
          LET pool == keep \/ last IN
          \/ /\ status \in Idle
             /\ End(ai_stop_isr, IF status \in Failed THEN "end" ELSE status,
                    pool /\ (status \in Failed => keep))
             /\ UNCHANGED user
          \/ /\ status \in Running
             /\ status' = "end_wait"
             /\ hw' = IF last THEN [hw EXCEPT !.stop = TRUE] ELSE ai_stop_immediately
             /\ Goto(t, "stop_wait", [NoCall EXCEPT !.keep = pool, !.timed = timed])
             /\ UNCHANGED <<buf, writes, counts, asleep>>
    BY DEF me4600_ai_io_stream_stop
  <1>2. UNCHANGED <<listed, empty_read, control, worker, isr>>
    BY DEF me4600_ai_io_stream_stop
  <1> DEFINE pool == keep \/ last
             st == IF status \in Failed THEN "end" ELSE status
             kept == pool /\ (status \in Failed => keep)
  <1>3. CASE status \in Idle /\ End(ai_stop_isr, st, kept) /\ UNCHANGED user
    <2>1. ai_stop_isr \in HwType /\ ~ ai_stop_isr.fsm /\ ~ ai_stop_isr.armed
      BY RegisterType DEF Inv, AIType
    <2>2. st \in Status /\ st \notin Running /\ kept \in BOOLEAN
      BY <1>3 DEF Status, Idle, Running, Failed, Single
    <2> HIDE DEF st, kept
    <2>3. /\ status' \in Status /\ status' \in {st, "buffer_error"}
          /\ buf' \in 0 .. BufSize /\ writes' \in Nat
          /\ counts' \in [start : Nat, stop : Nat] /\ hw' = ai_stop_isr /\ asleep' \subseteq Task
      BY <1>3, <2>1, <2>2, EndType
    <2>4. AIType'
      BY <1>2, <1>3, <2>1, <2>3 DEF Inv, AIType, UserType, user
    <2> QED
      BY <2>1, <2>2, <2>3, <2>4, Ended DEF Running
  <1>4. CASE /\ status \in Running
             /\ status' = "end_wait"
             /\ hw' = IF last THEN [hw EXCEPT !.stop = TRUE] ELSE ai_stop_immediately
             /\ Goto(t, "stop_wait", [NoCall EXCEPT !.keep = pool, !.timed = timed])
             /\ UNCHANGED <<buf, writes, counts, asleep>>
    <2>1. [NoCall EXCEPT !.keep = pool, !.timed = timed] \in Calls /\ "stop_wait" \in Location
      BY KindAssumption DEF NoCall, Calls, Status, Idle, Location, Waits, AfterWait
    <2>2. UserType'
      BY <1>4, <2>1, GotoType DEF Inv
    <2>3. /\ hw' \in HwType /\ (hw'.fsm \/ hw'.armed => hw'.stop)
          /\ ~ (hw'.fsm /\ hw'.armed)
      <3>1. CASE last
        BY <1>4, <3>1 DEF Inv, AIType, HwType, Unarmed
      <3>2. CASE ~ last
        BY <1>4, <3>2, RegisterType DEF Inv, AIType
      <3> QED
        BY <3>1, <3>2
    <2>4. AIType'
      BY <1>2, <1>4, <2>2, <2>3 DEF Inv, AIType, Status, Running
    <2> QED
      BY <1>2, <1>4, <2>3, <2>4 DEF Inv, Stopped, Unarmed, StreamIsWatched
  <1> QED
    BY <1>1, <1>3, <1>4

LEMMA InvStopEnd ==
  ASSUME Inv, NEW t \in Task, stop_end(t)
  PROVE  Inv'
  <1>1. ai_stop_isr \in HwType /\ ~ ai_stop_isr.fsm /\ ~ ai_stop_isr.armed
    BY RegisterType DEF Inv, AIType
  <1>2. status \in Status /\ call[t].keep \in BOOLEAN
    BY DEF Inv, AIType, UserType, Calls
  <1>3. /\ status' \in Status /\ status' \in {status, "buffer_error"}
        /\ buf' \in 0 .. BufSize /\ writes' \in Nat
        /\ counts' \in [start : Nat, stop : Nat] /\ hw' = ai_stop_isr /\ asleep' \subseteq Task
    BY <1>1, <1>2, EndType DEF stop_end
  <1>4. UserType'
    BY ReturnType DEF stop_end, Inv
  <1>5. AIType'
    BY <1>1, <1>3, <1>4 DEF Inv, AIType, stop_end
  <1> QED
    <2>1. status' = status \/ status' \notin Running
      BY <1>3 DEF Running
    <2>2. control' = control /\ worker' = worker /\ ~ hw'.fsm /\ ~ hw'.armed
      BY <1>1, <1>3 DEF stop_end
    <2> QED
      BY <1>5, <2>1, <2>2, Halted

LEMMA InvReset ==
  ASSUME Inv, NEW t \in Task, me4600_ai_io_reset_subdevice(t) \/ reset_wake(t)
  PROVE  Inv'
  <1>1. CASE me4600_ai_io_reset_subdevice(t)
    <2>1. Rewritten \in HwType /\ ~ Rewritten.fsm /\ ~ Rewritten.armed
      BY RegisterType DEF Inv, AIType
    <2>2. hw' \in HwType /\ ~ hw'.fsm /\ ~ hw'.armed
      BY <1>1, <2>1 DEF me4600_ai_io_reset_subdevice, HwType
    <2>3. NoCall \in Calls /\ "reset_wake" \in Location
      BY DEF NoCall, Calls, Status, Idle, Location
    <2>4. UserType'
      BY <1>1, <2>3, GotoType DEF Inv, me4600_ai_io_reset_subdevice
    <2>5. control' \in [flag : BOOLEAN, queued : BOOLEAN, confirm : Nat, deadline : BOOLEAN]
      BY <1>1 DEF Inv, AIType, me4600_ai_io_reset_subdevice, Cancelled
    <2>6. counts' \in [start : Nat, stop : Nat] /\ buf' \in 0 .. BufSize /\ writes' \in Nat
      <3>1. 0 \in 0 .. BufSize
        BY SizeAssumption
      <3>2. counts' = [start |-> 0, stop |-> 0] /\ buf' = 0 /\ writes' = 0
        BY <1>1 DEF me4600_ai_io_reset_subdevice
      <3> QED
        BY <3>1, <3>2
    <2>7. AIType'
      BY <1>1, <2>2, <2>4, <2>5, <2>6 DEF Inv, AIType, me4600_ai_io_reset_subdevice, Status, Idle
    <2> QED
      BY <1>1, <2>2, <2>7, Ended DEF me4600_ai_io_reset_subdevice, Running
  <1>2. CASE reset_wake(t)
    <2>1. UserType'
      BY <1>2, ReturnType DEF reset_wake, Inv
    <2>2. AIType'
      BY <1>2, <2>1 DEF Inv, AIType, reset_wake, soft, wake_up
    <2> QED
      BY <1>2, <2>2, Elsewhere DEF reset_wake, soft
  <1> QED
    BY <1>1, <1>2

LEMMA InvStatus ==
  ASSUME Inv, NEW t \in Task, me4600_ai_io_stream_status(t)
  PROVE  Inv'
  <1>1. status' = status \/ (status = "single_run" /\ status' = "none")
    BY DEF me4600_ai_io_stream_status
  <1>2. UserType'
    <2>1. CASE UNCHANGED user
      BY <2>1 DEF user, Inv, AIType, UserType
    <2>2. ASSUME NEW c \in Calls, Goto(t, "status_wait", c)
          PROVE  UserType'
      BY <2>2, GotoType DEF Inv, Location, Waits, AfterWait
    <2>3. \A w \in {"IDLE", "BUSY"} : [NoCall EXCEPT !.wait = w] \in Calls
      BY DEF NoCall, Calls, Status, Idle
    <2>4. /\ [NoCall EXCEPT !.wait = "START", !.old = counts.start] \in Calls
          /\ [NoCall EXCEPT !.wait = "STOP", !.old = counts.stop] \in Calls
      BY DEF NoCall, Calls, Status, Idle, Inv, AIType
    <2> QED
      BY <2>1, <2>2, <2>3, <2>4 DEF me4600_ai_io_stream_status
  <1>3. AIType'
    BY <1>1, <1>2 DEF Inv, AIType, me4600_ai_io_stream_status, Status, Idle
  <1> QED
    BY <1>1, <1>3 DEF Inv, me4600_ai_io_stream_status, Stopped, Unarmed, StreamIsWatched, Running

\* What the reading calls do to the stream is no more than to take values and to
\* report a failure once.
LEMMA InvRead ==
  ASSUME Inv, NEW t \in Task,
         \/ me4600_ai_io_stream_read(t) \/ read_count(t) \/ read_get(t) \/ read_empty(t)
         \/ read_done(t) \/ me4600_ai_io_stream_new_values(t) \/ values_top(t)
         \/ values_check(t)
  PROVE  Inv'
  <1>1. call[t] \in Calls /\ buf \in 0 .. BufSize /\ writes \in Nat /\ BufSize \in Nat
    BY SizeAssumption DEF Inv, AIType, UserType
  <1>2. NoCall \in Calls
    BY DEF NoCall, Calls, Status, Idle
  <1>3. CASE me4600_ai_io_stream_read(t)
    <2>1. PICK n \in 1 .. BufSize, timed \in Timed, l \in {"read_wait", "read_count"} :
            Goto(t, l, [NoCall EXCEPT !.n = n, !.timed = timed])
      BY <1>3 DEF me4600_ai_io_stream_read
    <2>2. [NoCall EXCEPT !.n = n, !.timed = timed] \in Calls
      <3>1. n \in Nat /\ timed \in BOOLEAN
        BY <1>1, KindAssumption
      <3> QED
        BY <3>1, <1>2 DEF Calls
    <2>3. UserType'
      BY <2>1, <2>2, GotoType DEF Inv, Location, Waits, AfterWait
    <2>4. AIType'
      BY <1>3, <2>3 DEF Inv, AIType, me4600_ai_io_stream_read, soft
    <2> QED
      BY <1>3, <2>4, Elsewhere DEF me4600_ai_io_stream_read, soft
  <1>4. CASE read_count(t)
    <2> DEFINE n == Least(buf, call[t].n)
    <2>1. n \in Nat
      BY <1>1, LeastOf DEF Calls
    <2>2. [call[t] EXCEPT !.n = n, !.ret = n] \in Calls
      BY <1>1, <2>1 DEF Calls
    <2> HIDE DEF n
    <2>3. PICK l \in {"read_empty", "read_get"} :
            /\ Goto(t, l, [call[t] EXCEPT !.n = n, !.ret = n])
            /\ l = "read_get" => n # 0
      BY <1>4 DEF read_count, n
    <2>4. UserType'
      <3>1. [call[t] EXCEPT !.n = n, !.ret = n].n = n
        BY <1>1 DEF Calls
      <3> QED
        BY <2>2, <2>3, <3>1, GotoType DEF Inv, Location
    <2>5. AIType'
      BY <1>4, <2>4 DEF Inv, AIType, read_count, soft
    <2> QED
      BY <1>4, <2>5, Elsewhere DEF read_count, soft
  <1>5. CASE read_get(t)
    <2>1. PICK l \in {"read_done", "read_get"} :
            /\ Goto(t, l, [call[t] EXCEPT !.n = @ - 1])
            /\ l = "read_get" => call[t].n # 1
      BY <1>5 DEF read_get
    <2>2. call[t].n \in Nat \ {0}
      BY <1>1, <1>5 DEF Calls, read_get, Inv, AIType, UserType
    <2>3. /\ [call[t] EXCEPT !.n = @ - 1] \in Calls
          /\ [call[t] EXCEPT !.n = @ - 1].n = call[t].n - 1
      BY <1>1, <2>2 DEF Calls
    <2>4. UserType'
      <3>1. l = "read_get" => call[t].n - 1 # 0
        BY <2>1, <2>2
      <3> QED
        BY <2>1, <2>3, <3>1, GotoType DEF Inv, Location
    <2>5. buf' \in 0 .. BufSize
      BY <1>1, <1>5 DEF read_get
    <2>6. AIType'
      BY <1>5, <2>4, <2>5 DEF Inv, AIType, read_get
    <2> QED
      BY <1>5, <2>6, Elsewhere DEF read_get
  <1>6. CASE read_empty(t)
    <2>1. UserType'
      BY <1>1, <1>6, GotoType DEF Inv, read_empty, Location
    <2>2. status' = status \/ (status \in Failed /\ status' = "end")
      BY <1>6 DEF read_empty, Failed
    <2>3. AIType'
      BY <1>6, <2>1, <2>2 DEF Inv, AIType, read_empty, Status, Idle
    <2> QED
      BY <1>6, <2>2, <2>3 DEF Inv, read_empty, Stopped, Unarmed, StreamIsWatched, Running, Failed
  <1>7. CASE read_done(t)
    <2>1. UserType'
      BY <1>7, ReturnType DEF Inv, read_done
    <2>2. AIType'
      BY <1>7, <2>1 DEF Inv, AIType, read_done
    <2> QED
      BY <1>7, <2>2, Elsewhere DEF read_done
  <1>8. CASE me4600_ai_io_stream_new_values(t)
    <2>1. PICK screen \in BOOLEAN, report \in BOOLEAN, timed \in Timed :
            Goto(t, "values_top", [NoCall EXCEPT !.screen = screen, !.report = report,
                                                 !.timed = timed])
      BY <1>8 DEF me4600_ai_io_stream_new_values
    <2>2. [NoCall EXCEPT !.screen = screen, !.report = report, !.timed = timed] \in Calls
      BY <1>2, KindAssumption DEF Calls
    <2>3. UserType'
      BY <2>1, <2>2, GotoType DEF Inv, Location
    <2>4. AIType'
      BY <1>8, <2>3 DEF Inv, AIType, me4600_ai_io_stream_new_values, soft
    <2> QED
      BY <1>8, <2>4, Elsewhere DEF me4600_ai_io_stream_new_values, soft
  <1>9. CASE values_top(t) \/ values_check(t)
    <2>1. /\ [call[t] EXCEPT !.snap = status, !.old = writes] \in Calls
          /\ [call[t] EXCEPT !.snap = "none", !.old = 0] \in Calls
      BY <1>1 DEF Calls, Inv, AIType, Status, Idle
    <2>2. UserType'
      <3>1. CASE Return(t)
        BY <3>1, ReturnType DEF Inv
      <3>2. ASSUME NEW l \in Location, l # "read_get", NEW c \in Calls, Goto(t, l, c)
            PROVE  UserType'
        BY <3>2, GotoType DEF Inv
      <3> QED
        BY <1>9, <2>1, <3>1, <3>2 DEF values_top, values_check, Location, Waits, AfterWait
    <2>3. AIType' /\ status' = status /\ hw' = hw /\ control' = control /\ worker' = worker
      BY <1>9, <2>2 DEF Inv, AIType, values_top, values_check, soft
    <2> QED
      BY <2>3, Elsewhere
  <1> QED
    BY <1>3, <1>4, <1>5, <1>6, <1>7, <1>8, <1>9

LEMMA InvWait ==
  ASSUME Inv, NEW t \in Task,
         wait_ready(t) \/ wait_sleep(t) \/ wait_timeout(t) \/ wait_interrupted(t)
  PROVE  Inv'
  <1>1. UNCHANGED <<soft, control, worker, isr, hw>> /\ asleep' \subseteq Task
    BY DEF wait_ready, wait_sleep, wait_timeout, wait_interrupted, Resume, Inv, AIType
  <1>2. UserType'
    <2>1. call[t] \in Calls /\ [call[t] EXCEPT !.late = TRUE] \in Calls
      <3>1. call[t] \in Calls
        BY DEF Inv, AIType, UserType
      <3> QED
        BY <3>1 DEF Calls
    <2>2. ASSUME Waiting(t), NEW c \in Calls, Resume(t, c)
          PROVE  UserType'
      <3>1. AfterWait[pc[t]] \in Location /\ AfterWait[pc[t]] # "read_get"
        BY <2>2 DEF Waiting, Waits, AfterWait, Location
      <3> QED
        BY <2>2, <3>1, ReturnType, GotoType DEF Resume, Inv
    <2>3. CASE wait_sleep(t)
      BY <2>3 DEF wait_sleep, user, Inv, AIType, UserType
    <2>4. CASE wait_ready(t)
      BY <2>1, <2>2, <2>4 DEF wait_ready
    <2>5. CASE wait_timeout(t)
      BY <2>1, <2>2, <2>5 DEF wait_timeout
    <2>6. CASE wait_interrupted(t)
      BY <2>6, ReturnType DEF wait_interrupted, Inv
    <2> QED
      BY <2>3, <2>4, <2>5, <2>6
  <1>3. AIType'
    BY <1>1, <1>2 DEF Inv, AIType, soft
  <1> QED
    BY <1>1, <1>3, Elsewhere DEF soft

LEMMA InvControl ==
  ASSUME Inv, me4600_ai_work_control_task
  PROVE  Inv'
  <1>1. UNCHANGED <<listed, buf, writes, empty_read, isr, user, asleep>>
    BY DEF me4600_ai_work_control_task
  <1>2. CASE /\ ~ control.flag
             /\ control' = [control EXCEPT !.queued = FALSE]
             /\ UNCHANGED <<status, counts, worker, hw>>
    <2>1. AIType'
      BY <1>1, <1>2 DEF Inv, AIType, UserType, user
    <2> QED
      BY <1>2, <2>1 DEF Inv, Stopped, Unarmed, StreamIsWatched
  <1>3. CASE /\ control.flag
             /\ control_run_wait \/ control_run \/ control_end_wait \/ control_idle
             /\ control' = [control EXCEPT !.queued = FALSE, !.confirm = 0]
    <2>1. PICK st \in Status, resched \in BOOLEAN, signal \in BOOLEAN,
               start \in {0, 1}, stop \in {0, 1}, h \in {hw, ai_stop_isr, ai_stop_immediately} :
            /\ Found(st, resched, signal, start, stop, h)
            /\ st \in Running => resched /\ h = hw
            /\ \/ st = status
               \/ status = "run_wait" /\ st = "run" /\ hw.fsm
               \/ status = "run_wait" /\ st = "timeout" /\ h = ai_stop_isr
               \/ status = "run" /\ st = "fifo_error" /\ ~ hw.fsm /\ h = hw
               \/ status = "end_wait" /\ st = "end"
               \/ status = "single_run" /\ st = "none"
      <3>1. status \in Status
        BY DEF Inv, AIType
      <3>2. CASE control_run_wait
        BY <3>2, <3>1 DEF control_run_wait, Status, Running, Idle, Failed
      <3>3. CASE control_run
        BY <3>3, <3>1 DEF control_run, Status, Running, Idle, Failed
      <3>4. CASE control_end_wait
        BY <3>4, <3>1 DEF control_end_wait, Status, Running, Idle, Failed
      <3>5. CASE control_idle
        BY <3>5, <3>1 DEF control_idle, Status, Running, Idle, Failed
      <3> QED
        BY <1>3, <3>2, <3>3, <3>4, <3>5
    <2>2. /\ ai_stop_immediately \in HwType /\ ai_stop_isr \in HwType /\ hw \in HwType
          /\ ~ ai_stop_immediately.fsm /\ ~ ai_stop_immediately.armed
          /\ ~ ai_stop_isr.fsm /\ ~ ai_stop_isr.armed
      BY RegisterType DEF Inv, AIType
    <2>3. /\ status' = st /\ hw' = h /\ worker' = [at |-> "post", resched |-> resched, signal |-> signal]
          /\ counts' = [start |-> counts.start + start, stop |-> counts.stop + stop]
      BY <2>1 DEF Found
    <2>4. counts' \in [start : Nat, stop : Nat]
      BY <2>3 DEF Inv, AIType
    <2>5. control' \in [flag : BOOLEAN, queued : BOOLEAN, confirm : Nat, deadline : BOOLEAN]
          /\ control'.flag
      BY <1>3 DEF Inv, AIType
    <2>6. AIType'
      BY <1>1, <2>2, <2>3, <2>4, <2>5 DEF Inv, AIType, UserType, user
    <2>7. StreamIsWatched'
      BY <2>1, <2>3, <2>5 DEF StreamIsWatched
    <2>8. Stopped' /\ Unarmed'
      BY <2>1, <2>2, <2>3 DEF Inv, Stopped, Unarmed, Running
    <2> QED
      BY <2>6, <2>7, <2>8 DEF Inv
  <1> QED
    BY <1>2, <1>3 DEF me4600_ai_work_control_task

LEMMA InvControlPost ==
  ASSUME Inv, control_post
  PROVE  Inv'
  <1>1. AIType'
    BY DEF Inv, AIType, UserType, control_post, soft, user, wake_up
  <1>2. StreamIsWatched'
    BY DEF Inv, AIType, StreamIsWatched, control_post, soft
  <1> QED
    BY <1>1, <1>2 DEF Inv, Stopped, Unarmed, control_post, soft

LEMMA InvHandler ==
  ASSUME Inv, irq \/ me4600_ai_irq_handle
  PROVE  Inv'
  <1>1. CASE irq
    <2>1. AIType'
      BY <1>1 DEF Inv, AIType, UserType, irq, soft, user
    <2> QED
      BY <1>1, <2>1, Elsewhere DEF irq, soft
  <1>2. CASE me4600_ai_irq_handle
    <2>1. UNCHANGED <<listed, empty_read, control, worker, user>> /\ isr' = "idle"
      BY <1>2 DEF me4600_ai_irq_handle
    <2>2. /\ ai_stop_isr \in HwType /\ ~ ai_stop_isr.fsm /\ ~ ai_stop_isr.armed
          /\ hw \in HwType /\ buf \in 0 .. BufSize /\ writes \in Nat
          /\ counts \in [start : Nat, stop : Nat] /\ status \in Status
          /\ BufSize \in Nat /\ FifoSize \in Nat
      BY RegisterType, SizeAssumption DEF Inv, AIType
    <2>3. asleep' \subseteq Task
      BY <1>2 DEF Inv, AIType, me4600_ai_irq_handle, isr_continues, isr_last, isr_full,
                  isr_overflow, Wake, wake_up
    <2>4. CASE isr_continues
      <3>1. PICK n \in Fetched : /\ n <= BufSize - buf /\ buf' = buf + n /\ writes' = writes + n
                                 /\ hw' = [hw EXCEPT !.fifo = IF n > @ THEN 0 ELSE @ - n]
        BY <2>4 DEF isr_continues
      <3>2. n \in 1 .. FifoSize
        BY DEF Fetched
      <3>3. buf' \in 0 .. BufSize /\ writes' \in Nat
        BY <2>2, <3>1, <3>2
      <3>4. (IF n > hw.fifo THEN 0 ELSE hw.fifo - n) \in 0 .. FifoSize
        BY <2>2, <3>2 DEF HwType
      <3>5. hw' \in HwType /\ hw'.fsm = hw.fsm /\ hw'.armed = hw.armed /\ hw'.stop = hw.stop
        BY <2>2, <3>1, <3>4 DEF HwType
      <3>6. AIType'
        BY <2>1, <2>3, <2>4, <3>3, <3>5 DEF Inv, AIType, UserType, user, isr_continues
      <3> QED
        BY <2>1, <2>4, <3>5, <3>6 DEF Inv, isr_continues, Stopped, Unarmed, StreamIsWatched
    <2>5. CASE isr_last \/ isr_full \/ isr_overflow
      <3>1. hw' = ai_stop_isr
        BY <2>5 DEF isr_last, isr_full, isr_overflow
      <3>2. status' \in {status, "end", "buffer_error"}
        BY <2>5 DEF isr_last, isr_full, isr_overflow
      <3>3. buf' \in 0 .. BufSize /\ writes' \in Nat
        <4>1. ASSUME NEW n \in 0 .. Least(FifoSize, BufSize - buf), buf' = buf + n, writes' = writes + n
              PROVE  buf' \in 0 .. BufSize /\ writes' \in Nat
          <5>1. BufSize - buf \in Int /\ FifoSize \in Int
            BY <2>2
          <5>2. Least(FifoSize, BufSize - buf) \in Int /\ Least(FifoSize, BufSize - buf) <= BufSize - buf
            BY <5>1, LeastOf
          <5> QED
            BY <2>2, <4>1, <5>2
        <4>2. CASE isr_full
          <5>1. buf' = BufSize /\ writes' = writes + BufSize - buf
            BY <4>2 DEF isr_full
          <5> QED
            BY <5>1, <2>2
        <4> QED
          BY <2>5, <4>1, <4>2 DEF isr_last, isr_overflow
      <3>4. counts' \in [start : Nat, stop : Nat]
        <4>1. PICK n \in {1, 2} : counts' = [counts EXCEPT !.stop = @ + n]
          BY <2>5 DEF isr_last, isr_full, isr_overflow
        <4> QED
          BY <4>1, <2>2
      <3>5. AIType'
        BY <2>1, <2>2, <2>3, <3>1, <3>2, <3>3, <3>4
           DEF Inv, AIType, UserType, user, Status, Idle, Failed
      <3> QED
        BY <2>1, <2>2, <3>1, <3>2, <3>5, Halted DEF Running
    <2> QED
      BY <1>2, <2>4, <2>5 DEF me4600_ai_irq_handle
  <1> QED
    BY <1>1, <1>2

LEMMA InvHardware ==
  ASSUME Inv, hw_trigger \/ hw_sample \/ hw_overflow \/ hw_stop
  PROVE  Inv'
  <1>1. hw \in HwType
    BY DEF Inv, AIType
  <1>2. UNCHANGED <<soft, control, worker, isr, user, asleep>>
    BY DEF hw_trigger, hw_sample, hw_overflow, hw_stop, Hardware
  <1>3. ASSUME hw' \in HwType
        PROVE  AIType' /\ StreamIsWatched'
    BY <1>2, <1>3 DEF Inv, AIType, UserType, soft, user, StreamIsWatched
  <1>4. CASE hw_trigger
    <2>1. hw' \in HwType /\ hw'.fsm /\ ~ hw'.armed /\ hw'.stop = hw.stop /\ hw.armed
      BY <1>1, <1>4 DEF hw_trigger, Hardware, HwType
    <2> QED
      BY <1>2, <1>3, <2>1 DEF Inv, Stopped, Unarmed, soft
  <1>5. CASE hw_sample
    <2>1. /\ hw' = [hw EXCEPT !.fifo = @ + 1] /\ hw.fifo + 1 \in 0 .. FifoSize
      BY <1>1, <1>5, SizeAssumption DEF hw_sample, Hardware, HwType
    <2>2. hw' \in HwType /\ hw'.fsm = hw.fsm /\ hw'.armed = hw.armed /\ hw'.stop = hw.stop
      BY <1>1, <2>1 DEF HwType
    <2> QED
      BY <1>2, <1>3, <2>2 DEF Inv, Stopped, Unarmed, soft
  <1>6. CASE hw_overflow
    <2>1. hw' \in HwType /\ hw.fsm /\ hw'.armed = hw.armed /\ hw'.stop = hw.stop
      BY <1>1, <1>6 DEF hw_overflow, Hardware, HwType
    <2> QED
      BY <1>2, <1>3, <2>1 DEF Inv, Stopped, Unarmed, soft
  <1>7. CASE hw_stop
    <2>1. hw' \in HwType /\ ~ hw'.fsm /\ hw'.armed = hw.armed /\ hw'.stop = hw.stop
      BY <1>1, <1>7 DEF hw_stop, Hardware, HwType
    <2> QED
      BY <1>2, <1>3, <2>1 DEF Inv, Stopped, Unarmed, soft
  <1> QED
    BY <1>4, <1>5, <1>6, <1>7

LEMMA InvInit == Init => Inv
  <1> SUFFICES ASSUME Init PROVE Inv
    OBVIOUS
  <1>1. NoCall \in Calls
    BY DEF NoCall, Calls, Status, Idle
  <1>2. UserType
    BY <1>1 DEF Init, UserType, Location
  <1>3. hw \in HwType
    BY SizeAssumption DEF Init, HwType
  <1>4. 0 \in 0 .. BufSize
    BY SizeAssumption
  <1>5. AIType
    BY <1>2, <1>3, <1>4 DEF Init, AIType, Status, Idle
  <1> QED
    BY <1>5 DEF Init, Inv, Stopped, Unarmed, StreamIsWatched, Running

LEMMA InvNext == Inv /\ [Next]_vars => Inv'
  <1> SUFFICES ASSUME Inv, [Next]_vars PROVE Inv'
    OBVIOUS
  <1>1. ASSUME NEW t \in Task, Ioctl(t)
        PROVE  Inv'
    BY <1>1, InvConfig, InvSingle, InvStart, InvStop, InvStatus, InvRead, InvReset DEF Ioctl
  <1>2. ASSUME NEW t \in Task, Proceed(t) \/ wait_timeout(t) \/ wait_interrupted(t)
        PROVE  Inv'
    BY <1>2, InvStartCheck, InvStopEnd, InvReset, InvSingle, InvRead, InvWait DEF Proceed
  <1>3. CASE Control
    BY <1>3, InvControl, InvControlPost DEF Control
  <1>4. CASE Handler
    BY <1>4, InvHandler DEF Handler
  <1>5. CASE hw_trigger \/ hw_sample \/ hw_overflow \/ hw_stop
    BY <1>5, InvHardware
  <1>6. CASE UNCHANGED vars
    BY <1>6 DEF vars, soft, user, Inv, AIType, UserType, Stopped, Unarmed, StreamIsWatched
  <1> QED
    BY <1>1, <1>2, <1>3, <1>4, <1>5, <1>6 DEF Next

LEMMA InvHolds == Spec => []Inv
  BY InvInit, InvNext, PTL DEF Spec

\* Whichever way a stream ends or fails, the state machine is stopped, or told to
\* stop, when the status says so.
THEOREM StoppedHolds == Spec => []IdleIsStopped
  <1>1. Inv => IdleIsStopped
    BY DEF Inv, Stopped, IdleIsStopped, Idle, Failed, Single
  <1> QED
    BY <1>1, InvHolds, PTL

\* A running stream is watched by its control task.
THEOREM WatchedHolds == Spec => []StreamIsWatched
  <1>1. Inv => StreamIsWatched
    BY DEF Inv
  <1> QED
    BY <1>1, InvHolds, PTL

\* A running stream is never configured away under its user: it gives way to its own
\* end, its failure, a reset, or to a single read that was polling when it started.
THEOREM NotReconfigured == Spec => StreamNotReconfigured
  <1>1. ASSUME Inv, [Next]_vars
        PROVE  [Torn => status' = "single_end"]_status
    <2> SUFFICES ASSUME Next, Torn PROVE status' = "single_end"
      BY <1>1 DEF vars, soft
    <2>1. status \in Running /\ status' \notin Running \cup Failed \cup {"end", "none"}
      BY DEF Torn
    <2>2. ASSUME NEW t \in Task, Ioctl(t)
          PROVE  status' = "single_end"
      BY <2>1, <2>2 DEF Ioctl, Running, Idle, Failed, Single,
           me4600_ai_io_stream_config, me4600_ai_io_single_config, me4600_ai_io_single_read,
           me4600_ai_io_stream_start, stream_start_nonblocking, Start, me4600_ai_io_stream_stop,
           me4600_ai_io_stream_status, me4600_ai_io_stream_read,
           me4600_ai_io_stream_new_values, me4600_ai_io_reset_subdevice, soft
    <2>3. ASSUME NEW t \in Task, Proceed(t) \/ wait_timeout(t) \/ wait_interrupted(t)
          PROVE  status' = "single_end"
      BY <2>1, <2>3 DEF Proceed, Running, Failed, start_check, stop_end, End, reset_wake,
           single_read_ends, read_count, read_get, read_empty, read_done, values_top,
           values_check, wait_ready, wait_sleep, wait_timeout, wait_interrupted, Resume, soft
    <2>4. CASE Control
      BY <2>1, <2>4 DEF Control, Running, Failed, me4600_ai_work_control_task, control_post,
           control_run_wait, control_run, control_end_wait, control_idle, Found, soft
    <2>5. CASE Handler
      BY <2>1, <2>5 DEF Handler, Running, Failed, irq, me4600_ai_irq_handle, isr_continues,
           isr_last, isr_full, isr_overflow, soft
    <2>6. CASE hw_trigger \/ hw_sample \/ hw_overflow \/ hw_stop
      BY <2>1, <2>6 DEF hw_trigger, hw_sample, hw_overflow, hw_stop, Hardware, soft
    <2> QED
      BY <2>2, <2>3, <2>4, <2>5, <2>6 DEF Next
  <1> QED
    BY <1>1, InvHolds, PTL DEF Spec, StreamNotReconfigured

-----------------------------------------------------------------------------
(* A reader that is alone *)

\* Nobody else reads the values, or starts or resets the stream they belong to.
LoneReader ==
    \A t, u \in Task : t # u /\ "read" \in Op[t] =>
        Op[u] \cap {"read", "start", "start_nonblocking", "reset"} = {}

Readers ==
    \A t \in Task : pc[t] \in {"read_wait", "read_count", "read_get"} => "read" \in Op[t]

\* Who is not about to take a value only adds some, unless a stream starts or is reset.
LEMMA OthersOnlyAdd ==
  ASSUME Inv, [Next]_vars, LoneReader, NEW r \in Task, pc[r] = "read_get", "read" \in Op[r],
         Readers
  PROVE  read_get(r) \/ (pc'[r] = pc[r] /\ call'[r] = call[r] /\ buf' >= buf)
  <1> USE DEF Goto, Return
  <1>1. buf \in 0 .. BufSize /\ BufSize \in Nat /\ pc \in [Task -> Location]
        /\ call \in [Task -> Calls]
    BY SizeAssumption DEF Inv, AIType, UserType
  <1>2. buf + Pooled >= buf
    BY <1>1, PooledType DEF Inv
  <1>3. ASSUME NEW t \in Task, Ioctl(t)
        PROVE  pc'[r] = pc[r] /\ call'[r] = call[r] /\ buf' >= buf
    <2>1. t # r
      BY <1>3 DEF Ioctl, me4600_ai_io_stream_config, me4600_ai_io_single_config,
           me4600_ai_io_single_read, me4600_ai_io_stream_start, stream_start_nonblocking,
           me4600_ai_io_stream_stop, me4600_ai_io_stream_status, me4600_ai_io_stream_read,
           me4600_ai_io_stream_new_values, me4600_ai_io_reset_subdevice
    <2>2. Op[t] \cap {"read", "start", "start_nonblocking", "reset"} = {}
      BY <2>1 DEF LoneReader
    <2>3. buf' >= buf
      <3>1. CASE me4600_ai_io_stream_stop(t)
        BY <3>1, <1>1, <1>2 DEF me4600_ai_io_stream_stop, End
      <3>2. CASE ~ me4600_ai_io_stream_stop(t)
        <4>1. buf' = buf
          BY <1>3, <2>2, <3>2 DEF Ioctl, me4600_ai_io_stream_config,
             me4600_ai_io_single_config,
             me4600_ai_io_single_read, me4600_ai_io_stream_start, stream_start_nonblocking,
             me4600_ai_io_stream_status, me4600_ai_io_stream_read,
             me4600_ai_io_stream_new_values, me4600_ai_io_reset_subdevice, soft
        <4> QED
          BY <1>1, <4>1
      <3> QED
        BY <3>1, <3>2
    <2>4. pc'[r] = pc[r] /\ call'[r] = call[r]
      BY <1>1, <1>3, <2>1, <2>2 DEF Ioctl, me4600_ai_io_stream_config, me4600_ai_io_single_config,
           me4600_ai_io_single_read, me4600_ai_io_stream_start, stream_start_nonblocking,
           me4600_ai_io_stream_stop, me4600_ai_io_stream_status, me4600_ai_io_stream_read,
           me4600_ai_io_stream_new_values, me4600_ai_io_reset_subdevice, user
    <2> QED
      BY <2>3, <2>4
  <1>4. ASSUME NEW t \in Task, Proceed(t) \/ wait_timeout(t) \/ wait_interrupted(t)
        PROVE  read_get(r) \/ (pc'[r] = pc[r] /\ call'[r] = call[r] /\ buf' >= buf)
    <2>1. CASE t = r
      BY <1>4, <2>1 DEF Proceed, start_check, stop_end, reset_wake, single_read_ends,
           read_count, read_empty, read_done, values_top, values_check, wait_ready, wait_sleep,
           wait_timeout, wait_interrupted, Waiting, Waits, AfterWait
    <2>2. CASE t # r
      <3>1. "read" \notin Op[t]
        BY <2>2 DEF LoneReader
      <3>2. ~ read_get(t)
        BY <3>1 DEF Readers, read_get
      <3>3. buf' >= buf
        <4>1. CASE stop_end(t)
          BY <4>1, <1>1, <1>2 DEF stop_end, End
        <4>2. CASE ~ stop_end(t)
          <5>1. buf' = buf
            BY <1>4, <3>2, <4>2 DEF Proceed, start_check, reset_wake, single_read_ends,
               read_count, read_empty, read_done, values_top, values_check, wait_ready,
               wait_sleep, wait_timeout, wait_interrupted, Resume, soft
          <5> QED
            BY <1>1, <5>1
        <4> QED
          BY <4>1, <4>2
      <3>4. pc'[r] = pc[r] /\ call'[r] = call[r]
        BY <1>1, <1>4, <2>2, <3>2 DEF Proceed, start_check, stop_end, reset_wake,
           single_read_ends, read_count, read_empty, read_done, values_top, values_check,
           wait_ready, wait_sleep, wait_timeout, wait_interrupted, Resume, user
      <3> QED
        BY <3>3, <3>4
    <2> QED
      BY <2>1, <2>2
  <1>5. CASE Control
    BY <1>1, <1>5 DEF Control, me4600_ai_work_control_task, control_post, soft, user
  <1>6. CASE Handler
    <2>1. UNCHANGED user
      BY <1>6 DEF Handler, irq, me4600_ai_irq_handle
    <2>2. buf' >= buf
      <3>1. CASE irq
        BY <1>1, <3>1 DEF irq, soft
      <3>2. CASE isr_full
        BY <1>1, <3>2 DEF isr_full
      <3>3. ASSUME NEW n \in Nat, buf' = buf + n
            PROVE  buf' >= buf
        BY <1>1, <3>3
      <3>4. CASE isr_continues
        BY <3>3, <3>4, SizeAssumption DEF isr_continues, Fetched
      <3>5. CASE isr_last \/ isr_overflow
        BY <3>3, <3>5 DEF isr_last, isr_overflow
      <3> QED
        BY <1>6, <3>1, <3>2, <3>4, <3>5 DEF Handler, me4600_ai_irq_handle
    <2> QED
      BY <2>1, <2>2 DEF user
  <1>7. CASE hw_trigger \/ hw_sample \/ hw_overflow \/ hw_stop
    <2>1. UNCHANGED <<buf, pc, call>>
      BY <1>7 DEF hw_trigger, hw_sample, hw_overflow, hw_stop, Hardware, soft, user
    <2> QED
      BY <1>1, <2>1
  <1>8. CASE UNCHANGED vars
    BY <1>1, <1>8 DEF vars, soft, user
  <1> QED
    BY <1>3, <1>4, <1>5, <1>6, <1>7, <1>8 DEF Next

\* What the reader itself does: it counts what is there, and takes one of them.
LEMMA ReaderCounts ==
  ASSUME Inv, NEW r \in Task, read_count(r), pc'[r] = "read_get"
  PROVE  call'[r].n <= buf'
  <1>1. buf \in Int /\ call \in [Task -> Calls] /\ call[r].n \in Nat
    BY SizeAssumption DEF Inv, AIType, UserType, Calls
  <1>2. buf' = buf /\ call'[r].n = Least(buf, call[r].n)
    BY <1>1 DEF read_count, Goto, soft, Calls
  <1> QED
    BY <1>1, <1>2 DEF Least

LEMMA ReaderTakes ==
  ASSUME Inv, ReaderFindsValues, NEW r \in Task, read_get(r), pc'[r] = "read_get"
  PROVE  call'[r].n <= buf'
  <1>1. buf \in Nat /\ call[r].n \in Nat /\ call \in [Task -> Calls] /\ pc \in [Task -> Location]
    BY SizeAssumption DEF Inv, AIType, UserType, Calls
  <1>2. pc[r] = "read_get" /\ call[r].n <= buf
    BY DEF read_get, ReaderFindsValues
  <1>3. call[r].n # 1 /\ call'[r].n = call[r].n - 1
    BY <1>1 DEF read_get, Goto, Calls
  <1>4. buf' = IF buf > 0 THEN buf - 1 ELSE buf
    BY DEF read_get
  <1> QED
    BY <1>1, <1>2, <1>3, <1>4

\* Only a reader gets to where values are read, and only by counting them.
LEMMA ReadersStep ==
  ASSUME Inv, Readers, [Next]_vars
  PROVE  /\ Readers'
         /\ \A r \in Task : pc'[r] = "read_get" /\ pc[r] # "read_get" => read_count(r)
  <1> USE DEF Goto, Return
  <1>1. pc \in [Task -> Location]
    BY DEF Inv, AIType, UserType
  <1>2. ASSUME NEW t \in Task, Ioctl(t), NEW r \in Task
        PROVE  \/ pc'[r] = pc[r]
               \/ pc'[r] \notin {"read_wait", "read_count", "read_get"}
               \/ pc'[r] # "read_get" /\ "read" \in Op[r]
    BY <1>1, <1>2 DEF Ioctl, me4600_ai_io_stream_config, me4600_ai_io_single_config,
       me4600_ai_io_single_read, me4600_ai_io_stream_start, stream_start_nonblocking,
       me4600_ai_io_stream_stop, me4600_ai_io_stream_status, me4600_ai_io_stream_read,
       me4600_ai_io_stream_new_values, me4600_ai_io_reset_subdevice, user
  <1>3. ASSUME NEW t \in Task, Proceed(t) \/ wait_timeout(t) \/ wait_interrupted(t),
               NEW r \in Task
        PROVE  \/ pc'[r] = pc[r]
               \/ pc'[r] \notin {"read_wait", "read_count", "read_get"}
               \/ pc'[r] = "read_count" /\ pc[r] = "read_wait"
               \/ read_count(r) /\ pc'[r] = "read_get"
    <2>1. CASE t = r
      <3>1. CASE read_count(r)
        BY <1>1, <3>1 DEF read_count
      <3>2. CASE Waiting(r) /\ Resume(r, [call[r] EXCEPT !.late = TRUE])
        BY <1>1, <3>2 DEF Waiting, Waits, AfterWait, Resume
      <3>3. CASE Waiting(r) /\ Resume(r, call[r])
        BY <1>1, <3>3 DEF Waiting, Waits, AfterWait, Resume
      <3> QED
        BY <1>1, <1>3, <2>1, <3>1, <3>2, <3>3 DEF Proceed, start_check, stop_end, reset_wake,
           single_read_ends, read_get, read_empty, read_done, values_top, values_check,
           wait_ready, wait_sleep, wait_timeout, wait_interrupted, user
    <2>2. CASE t # r
      BY <1>1, <1>3, <2>2 DEF Proceed, start_check, stop_end, reset_wake, single_read_ends,
         read_count, read_get, read_empty, read_done, values_top, values_check, wait_ready,
         wait_sleep, wait_timeout, wait_interrupted, Resume, user
    <2> QED
      BY <2>1, <2>2
  <1>4. CASE Control \/ Handler \/ UNCHANGED vars
    BY <1>4 DEF Control, Handler, me4600_ai_work_control_task, control_post, irq,
       me4600_ai_irq_handle, Readers, user, vars
  <1>5. CASE hw_trigger \/ hw_sample \/ hw_overflow \/ hw_stop
    BY <1>5 DEF hw_trigger, hw_sample, hw_overflow, hw_stop, Hardware, Readers, user
  <1>6. ASSUME NEW t \in Task, Ioctl(t)
        PROVE  /\ Readers'
               /\ \A r \in Task : pc'[r] = "read_get" /\ pc[r] # "read_get" => read_count(r)
    BY <1>2, <1>6 DEF Readers
  <1>7. ASSUME NEW t \in Task, Proceed(t) \/ wait_timeout(t) \/ wait_interrupted(t)
        PROVE  /\ Readers'
               /\ \A r \in Task : pc'[r] = "read_get" /\ pc[r] # "read_get" => read_count(r)
    <2>1. ASSUME NEW r \in Task, pc'[r] \in {"read_wait", "read_count", "read_get"}
          PROVE  "read" \in Op[r]
      BY <1>3, <1>7, <2>1 DEF Readers, read_count
    <2>2. ASSUME NEW r \in Task, pc'[r] = "read_get", pc[r] # "read_get"
          PROVE  read_count(r)
      BY <1>3, <1>7, <2>2
    <2> QED
      BY <2>1, <2>2 DEF Readers
  <1> QED
    BY <1>4, <1>5, <1>6, <1>7 DEF Next

\* "Checking how many datas can be copied." (me4600_ai.c:1432): while nobody else reads,
\* starts or resets, a reader that was told n values are there finds them, whatever the
\* handler, the control task and those who stop, configure or wait do meanwhile.
THEOREM ValuesHold ==
  ASSUME LoneReader
  PROVE  Spec => []ReaderFindsValues
  <1>1. Init => Readers /\ ReaderFindsValues
    BY DEF Init, Readers, ReaderFindsValues
  <1>2. ASSUME Inv, Readers, ReaderFindsValues, [Next]_vars
        PROVE  Readers' /\ ReaderFindsValues'
    <2>1. ASSUME NEW r \in Task, pc'[r] = "read_get"
          PROVE  call'[r].n <= buf'
      <3>1. CASE pc[r] # "read_get"
        BY <1>2, <2>1, <3>1, ReadersStep, ReaderCounts
      <3>2. CASE pc[r] = "read_get" /\ read_get(r)
        BY <1>2, <2>1, <3>2, ReaderTakes
      <3>3. CASE pc[r] = "read_get" /\ ~ read_get(r)
        <4>1. "read" \in Op[r]
          BY <1>2, <3>3 DEF Readers
        <4>2. call'[r] = call[r] /\ buf' >= buf
          BY <1>2, <3>3, <4>1, OthersOnlyAdd
        <4>3. call[r].n <= buf
          BY <1>2, <3>3 DEF ReaderFindsValues
        <4>4. buf \in Int /\ buf' \in Int /\ call[r].n \in Int
          BY <1>2, InvNext, SizeAssumption DEF Inv, AIType, UserType, Calls
        <4> QED
          BY <4>2, <4>3, <4>4
      <3> QED
        BY <3>1, <3>2, <3>3
    <2> QED
      BY <1>2, <2>1, ReadersStep DEF ReaderFindsValues
  <1> QED
    BY <1>1, <1>2, InvHolds, PTL DEF Spec

=============================================================================
