------------------------------ MODULE StreamAO ------------------------------
(***************************************************************************)
(* Analog outputs with a FIFO on the ME-4600 and the ME-6000               *)
(* (me4600_ao.c, me6000_ao.c): the ioctls that configure, preload, start,  *)
(* write, stop, query and reset a stream or put out a single value, the    *)
(* interrupt handler, the control task that polls the hardware every tick, *)
(* and the hardware.  The two files differ in how an interrupt is blocked: *)
(* the ME-4600 has a bit that holds the interrupt in reset, the ME-6000    *)
(* disables it and resets its latch by a read.                             *)
(*                                                                         *)
(* ME_LOCK_PROTECTOR disables the interrupt and takes the subdevice's spin *)
(* lock: `owner` is the task or handler inside such a section.  A section  *)
(* is one step where the code looks at the hardware once, and several      *)
(* where it looks again: the converter does not wait for the lock.         *)
(*                                                                         *)
(* Values are numbered in the order they were written since the buffer was *)
(* cleared, so that the order in which they leave can be told.             *)
(***************************************************************************)
EXTENDS Integers, Sequences, FiniteSets

CONSTANTS
    Board,      \* "me4600" or "me6000"
    Task,       \* processes that use the subdevice
    Op,         \* the ioctls each of them issues
    FifoSize,   \* values the hardware FIFO holds
    BufSize,    \* cells of the circular buffer, a power of two
    Mode,       \* continuous, sw_wrap, hw_wrap
    Stop,       \* stop conditions: records [mode, count]
    Trigger,    \* whether a start waits for a trigger: subset of BOOLEAN
    Chunk,      \* how many values a write brings
    StopHow,    \* immediate, last: subset of those
    Keep,       \* whether a stop preserves the buffers: subset of BOOLEAN
    Timed,      \* whether a time-out is given: subset of BOOLEAN
    MaxCount,   \* bound on the counts above which no stream is started or stopped
    MaxData,    \* bound on data_count above which no stream is started
    MaxValues   \* bound on the values written to a buffer until it is cleared

AllOps == {"reset", "single_config", "single_read", "single_write", "stream_config",
           "start", "stop", "status", "write", "new_values"}

ASSUME BoardAssumption == Board \in {"me4600", "me6000"}
ASSUME OpsAssumption   == Op \in [Task -> SUBSET AllOps]
ASSUME SizesAssumption == /\ BufSize \in {2, 4, 8, 16} /\ FifoSize \in Nat /\ FifoSize > 1
                          /\ MaxCount \in Nat /\ MaxData \in Nat /\ MaxValues \in Nat
                          /\ Chunk \subseteq Nat \ {0}
ASSUME KindsAssumption == /\ Mode \subseteq {"continuous", "sw_wrap", "hw_wrap"}
                          /\ Trigger \cup Keep \cup Timed \subseteq BOOLEAN
                          /\ StopHow \subseteq {"immediate", "last"}
                          /\ Stop \subseteq [mode : {"inf", "list", "scan"}, count : Nat]
ASSUME TaskAssumption  == Task \cap {"nobody", "isr"} = {}

VARIABLES
    status,     \* instance->status
    conf,       \* mode, start_mode, stop_mode, stop_count, stop_data_count, and
                \* wrap, the mode in ctrl_trg
    counts,     \* stream_start_count and stream_stop_count
    circ,       \* circ_buf with preloaded_count and data_count
    control,    \* ao_control_task_flag, its work item, deadline
    worker,     \* the control task between its locked section and its end
    isr,        \* the interrupt handler
    owner,      \* who is inside a section that takes several steps
    hw,         \* control register, state machine, FIFO, output
    pc, call,   \* where each task is, and its locals
    asleep      \* tasks that sleep in wait_queue

soft == <<status, conf, counts>>
rest == <<control, worker, isr>>
user == <<pc, call>>
vars == <<soft, circ, rest, owner, hw, user, asleep>>

-----------------------------------------------------------------------------
Running == {"run_wait", "run", "end_wait"}
Single  == {"single_configured", "single_end", "single_error"}
Failed  == {"fifo_error", "buffer_error"}
Idle    == Single \cup Failed \cup {"none", "stream_configured", "end", "timeout"}
Busy    == Running \cup {"single_run"}
Status  == Idle \cup Busy

Half  == FifoSize \div 2
Tag   == 0 .. MaxValues - 1
None  == -1     \* no value: a free cell, an output nothing was put out on
Alone == -2     \* a single value
Value == Tag \cup {None, Alone}

Least(a, b) == IF a < b THEN a ELSE b

Waits == {"start_wait", "stop_wait", "write_wait", "values_wait", "status_wait",
          "single_wait", "read_wait"}
Location == Waits \cup {"idle", "start_fill", "start_loop", "start_check", "stop_end",
                        "write_lock", "write_copy", "write_check", "write_done",
                        "values_top", "values_check", "single_check", "reset_wake"}

NoCall == [left |-> 0, how |-> "none", block |-> FALSE, half |-> FALSE, old |-> 0,
           snap |-> "none", screen |-> FALSE, report |-> FALSE, keep |-> FALSE,
           timed |-> FALSE, late |-> FALSE]

Empty == [buf |-> [i \in 0 .. BufSize - 1 |-> None], head |-> 0, tail |-> 0, pre |-> 0,
          data |-> 0, next |-> 0]

Init ==
    /\ status = "none"
    /\ conf = [mode |-> "continuous", wrap |-> FALSE, trig |-> FALSE, stop |-> "inf",
               count |-> 0, until |-> 0]
    /\ counts = [start |-> 0, stop |-> 0]
    /\ circ = Empty
    /\ control = [flag |-> FALSE, queued |-> FALSE, deadline |-> FALSE]
    /\ worker = [at |-> "idle", again |-> FALSE, signal |-> FALSE]
    /\ isr = "idle" /\ owner = "nobody"
    /\ hw = [fsm |-> FALSE, armed |-> FALSE, halt |-> TRUE, stop |-> TRUE, on |-> FALSE,
             wrap |-> FALSE, irq |-> FALSE, rst |-> FALSE, fifo |-> <<>>, dac |-> None]
    /\ pc = [t \in Task |-> "idle"] /\ call = [t \in Task |-> NoCall]
    /\ asleep = {}

Goto(t, l, c) == pc' = [pc EXCEPT ![t] = l] /\ call' = [call EXCEPT ![t] = c]
Return(t)     == Goto(t, "idle", NoCall)
Called(t, op) == pc[t] = "idle" /\ op \in Op[t]
Free          == owner = "nobody"
wake_up       == asleep' = {}

\* cancel_delayed_work() does not remove work that is already due.
Cancelled == {[control EXCEPT !.flag = FALSE, !.deadline = FALSE, !.queued = q] :
                 q \in {FALSE, control.queued}}
Watched(timed) == [control EXCEPT !.flag = TRUE, !.queued = TRUE, !.deadline = timed]

-----------------------------------------------------------------------------
(* The circular buffer and the FIFO.                                       *)

me_circ_buf_values(c) == (c.head - c.tail) % BufSize
me_circ_buf_space(c)  == (c.tail - (c.head + 1)) % BufSize

\* The cells a moved tail leaves behind hold nothing any more.
Advanced(c, n) ==
    [c EXCEPT !.tail = (@ + n) % BufSize,
              !.buf = [i \in DOMAIN @ |->
                          IF (i - c.tail) % BufSize < n THEN None ELSE @[i]]]

\* n more values from the user.
Stored(c, n) ==
    [c EXCEPT !.head = (@ + n) % BufSize, !.next = @ + n,
              !.buf = [i \in DOMAIN @ |-> IF (i - c.head) % BufSize < n
                                          THEN c.next + ((i - c.head) % BufSize)
                                          ELSE @[i]]]

ao_get_data_from_user(c, left) == Stored(c, Least(left, me_circ_buf_space(c)))

\* Values written to the FIFO register: a full FIFO is noticed at the last of them.
Pushed(fifo, s) ==
    IF Len(fifo) + Len(s) > FifoSize
    THEN [n |-> -1, fifo |-> SubSeq(fifo \o s, 1, FifoSize)]
    ELSE [n |-> Len(s), fifo |-> fifo \o s]

\* Mutant: the values in front of start are counted too.
ao_write_data_whole(fifo, c, count, start) ==
    LET n == Least(count, me_circ_buf_values(c)) IN
    Pushed(fifo, [i \in 1 .. n |-> c.buf[(c.tail + start + i - 1) % BufSize]])

\* At most count values from start on; the tail is left to the caller.
ao_write_data(fifo, c, count, start) ==
    LET n == Least(count, me_circ_buf_values(c) - start) IN
    Pushed(fifo, [i \in 1 .. n |-> c.buf[(c.tail + start + i - 1) % BufSize]])

\* Mutant: the place where the last copy ended is forgotten.
ao_write_data_wraparound_restarted(c, count, start) ==
    LET n == me_circ_buf_values(c) IN
    Pushed(hw.fifo, [i \in 1 .. count |-> c.buf[(c.tail + ((i - 1) % n)) % BufSize]])

\* count values from start on, beginning again where the values end.
ao_write_data_wraparound(c, count, start) ==
    LET n == me_circ_buf_values(c) IN
    Pushed(hw.fifo, [i \in 1 .. count |-> c.buf[(c.tail + ((start + i - 1) % n)) % BufSize]])

\* The FIFO is looked at before every value.
ao_write_data_pooling(c, count, start) ==
    ao_write_data(hw.fifo, c, Least(count, FifoSize - Len(hw.fifo)), start)

BelowHalf(fifo) == Len(fifo) < Half

\* data_count is only compared with a limit: without one it is not kept.
Counted(c, n) == IF conf.stop = "inf" THEN c.data ELSE c.data + n

\* preloaded_count starts again when the whole buffer was written.
Preloaded(c, n) ==
    [c EXCEPT !.data = Counted(c, n),
              !.pre = IF @ + n = me_circ_buf_values(c) THEN 0 ELSE @ + n]

-----------------------------------------------------------------------------
(* The control register.                                                   *)

Quiet(h)   == [h EXCEPT !.irq = FALSE, !.rst = Board = "me4600"]
Enabled(h) == [h EXCEPT !.irq = TRUE, !.rst = FALSE]
Halted(h)  == [h EXCEPT !.fsm = FALSE, !.armed = FALSE, !.halt = TRUE, !.stop = TRUE]
Off(h)     == [h EXCEPT !.on = FALSE, !.fifo = <<>>]

ao_stop_immediately(h) == Quiet(Halted(h))

Rewritten(h) == [Off(ao_stop_immediately(h)) EXCEPT !.wrap = FALSE]

\* What blocks the interrupt while the writer fills the FIFO, and lets it through.
Held(h)     == IF Board = "me4600" THEN [h EXCEPT !.rst = TRUE] ELSE [h EXCEPT !.irq = FALSE]
Released(h) == IF Board = "me4600" THEN [h EXCEPT !.rst = FALSE] ELSE [h EXCEPT !.irq = TRUE]

\* A write to the single register starts the conversion.
Started(h) == [h EXCEPT !.fsm = TRUE, !.armed = FALSE]

IrqRequest == hw.irq /\ ~ hw.rst /\ hw.fsm /\ BelowHalf(hw.fifo)

-----------------------------------------------------------------------------
(* Reset and single values.                                                *)

reset_subdevice(t) ==
    /\ Called(t, "reset") /\ Free
    /\ status' = "none"
    /\ control' \in Cancelled
    /\ hw' = [Rewritten(hw) EXCEPT !.dac = None]
    /\ circ' = Empty
    /\ counts' = [start |-> 0, stop |-> 0]
    /\ Goto(t, "reset_wake", NoCall)
    /\ UNCHANGED <<conf, worker, isr, owner, asleep>>

reset_wake(t) ==
    /\ pc[t] = "reset_wake"
    /\ wake_up
    /\ Return(t)
    /\ UNCHANGED <<soft, circ, rest, owner, hw>>

\* The arguments of single_config that decide something; `other` stands for the channel,
\* the range, the reference and the flags, of which one value each is allowed.
SingleArgs == [chain : {"none", "default", "synchronous"}, type : {"none", "sw", "ext"},
               edge : {"none", "rising"}, other : {"allowed", "wrong"}]

single_config_check(a) ==
    /\ a.edge # "none" <=> a.type = "ext"
    /\ a.chain = "none" <=> a.type = "none"
    /\ a.other = "allowed"

\* Whether a value waits: for the external trigger, or for the chain it is part of.
single_waits(a) == a.type = "ext" \/ a.chain = "synchronous"

single_config(t) ==
    /\ Called(t, "single_config") /\ Free
    /\ status \in Idle
    /\ \E a \in SingleArgs :
          /\ single_config_check(a) /\ single_waits(a) \in Trigger
          /\ conf' = [conf EXCEPT !.trig = single_waits(a)]
    /\ hw' = [Rewritten(hw) EXCEPT !.rst = FALSE]
    /\ status' = "single_configured"
    /\ UNCHANGED <<counts, circ, rest, owner, user, asleep>>

\* The FIFO is emptied for the value.
single_loaded(h) == [Quiet(h) EXCEPT !.on = TRUE, !.fifo = <<Alone>>, !.wrap = FALSE,
                                     !.halt = FALSE, !.stop = FALSE]

\* Without a trigger, or when the call is the trigger of a synchronous chain, the value
\* is out when the call returns; otherwise the control task watches for it, and a
\* blocking call waits.
single_write(t) ==
    /\ Called(t, "single_write") /\ Free
    /\ status \in Single
    /\ \/ /\ status' = "single_end"
          /\ hw' = Started(single_loaded(hw))
          /\ UNCHANGED <<control, user>>
       \/ /\ conf.trig
          /\ status' = "single_run"
          /\ hw' = [single_loaded(hw) EXCEPT !.armed = TRUE]
          /\ \E timed \in Timed, block \in BOOLEAN :
                /\ control' = Watched(timed)
                /\ IF block THEN Goto(t, "single_wait", [NoCall EXCEPT !.timed = timed])
                            ELSE UNCHANGED user
    /\ UNCHANGED <<conf, counts, circ, worker, isr, owner, asleep>>

\* After the wait: a value that still waits for its trigger is given up.
single_check(t) ==
    /\ pc[t] = "single_check" /\ Free
    /\ IF status = "single_run"
       THEN /\ status' = "single_error"
            /\ control' \in Cancelled
            /\ hw' = Off(ao_stop_immediately(hw))
       ELSE UNCHANGED <<status, control, hw>>
    /\ Return(t)
    /\ UNCHANGED <<conf, counts, circ, worker, isr, owner, asleep>>

\* Reading the value back.  With the synchronous flag the call is the trigger for
\* every output that waits for one; both happen outside the lock.
single_read(t) ==
    /\ Called(t, "single_read")
    /\ hw' \in {hw} \cup {h \in {Started(hw)} : hw.armed}
    /\ \/ UNCHANGED user
       \/ status = "single_run" /\ \E timed \in Timed :
             Goto(t, "read_wait", [NoCall EXCEPT !.timed = timed])
    /\ UNCHANGED <<soft, circ, rest, owner, asleep>>

-----------------------------------------------------------------------------
(* Configuration and start of a stream.                                    *)

\* The arguments of stream_config that decide something; `other` stands for the channel
\* list, the time base and the thresholds.
StreamArgs == [flags : SUBSET {"wraparound", "hardware_only"}, type : {"software", "ext"},
               edge : {"none", "rising"}, chain : {"default", "synchronous"}, stop : Stop,
               other : {"allowed", "wrong"}]

stream_config_check(a) ==
    /\ "hardware_only" \in a.flags => "wraparound" \in a.flags /\ a.stop.mode = "inf"
    /\ a.edge # "none" <=> a.type = "ext"
    /\ a.stop.mode = "inf" <=> a.stop.count = 0
    /\ a.other = "allowed"

stream_mode(a) == IF "hardware_only" \in a.flags THEN "hw_wrap"
                  ELSE IF "wraparound" \in a.flags THEN "sw_wrap" ELSE "continuous"

\* Whether the start waits, as for a single value.
stream_waits(a) == a.type = "ext" \/ a.chain = "synchronous"

stream_config(t) ==
    /\ Called(t, "stream_config") /\ Free
    /\ status \in Idle
    /\ \E a \in StreamArgs :
          /\ stream_config_check(a)
          /\ stream_mode(a) \in Mode /\ stream_waits(a) \in Trigger
          /\ conf' = [mode |-> stream_mode(a), wrap |-> stream_mode(a) = "hw_wrap",
                      trig |-> stream_waits(a), stop |-> a.stop.mode,
                      count |-> a.stop.count, until |-> 0]
          /\ hw' = [Rewritten(hw) EXCEPT !.wrap = stream_mode(a) = "hw_wrap", !.dac = None]
    /\ circ' = Empty
    /\ status' = "stream_configured"
    /\ UNCHANGED <<counts, rest, owner, user, asleep>>

\* What was preloaded has left the buffer of a continuous stream; a FIFO that was
\* not enabled holds nothing.
StartBuffer ==
    LET c == IF conf.mode = "continuous" THEN Advanced(circ, circ.pre) ELSE circ
    IN  IF hw.on THEN c ELSE [c EXCEPT !.pre = 0, !.data = 0]

\* stop_data_count; 0 when the stream is not limited.
Until(n) == IF conf.stop = "list" THEN conf.count * n ELSE conf.count

\* How many values may be copied at once.
Portion(until, n) == IF until = 0 THEN n ELSE Least(n, until)

\* The FIFO is filled if it is empty, the stop bits are removed, the interrupt is
\* enabled if the FIFO is half full, the conversion is started.  A loop without end
\* that fits into the FIFO is left to the hardware.
stream_start(t) ==
    LET c      == StartBuffer
        values == me_circ_buf_values(c)
        until  == Until(values)
        first  == IF hw.fifo = <<>> THEN ao_write_data(hw.fifo, c, Portion(until, FifoSize), c.pre)
                                    ELSE [n |-> 0, fifo |-> hw.fifo]
        loops  == /\ conf.mode # "continuous" /\ conf.stop = "inf" /\ values <= FifoSize
        fifo   == IF loops THEN ao_write_data(first.fifo, c, values, c.pre + first.n).fifo
                           ELSE first.fifo
        wrap   == conf.wrap \/ loops
        ready  == [Quiet(hw) EXCEPT !.on = TRUE, !.fifo = fifo, !.wrap = wrap,
                                    !.halt = FALSE, !.stop = FALSE]
        armed  == IF BelowHalf(fifo) \/ wrap THEN ready ELSE Enabled(ready)
    IN  /\ Called(t, "start") /\ Free
        /\ status \in {"stream_configured", "timeout", "end"}
        /\ counts.start <= MaxCount /\ counts.stop < MaxCount /\ circ.data <= MaxData
        /\ values > 0 \/ c.pre > 0
        /\ first.n >= 0
        /\ conf' = [conf EXCEPT !.until = until, !.mode = IF loops THEN "hw_wrap" ELSE @]
        /\ circ' = IF conf.mode = "continuous" THEN [Advanced(c, first.n) EXCEPT !.pre = 0]
                                               ELSE Preloaded(c, first.n)
        /\ status' = "run_wait"
        /\ hw' \in IF conf.trig THEN {[armed EXCEPT !.armed = TRUE], Started(armed)}
                                ELSE {Started(armed)}
        /\ owner' = t
        /\ \E block \in BOOLEAN, timed \in Timed :
              Goto(t, "start_fill", [NoCall EXCEPT !.half = BelowHalf(fifo),
                                                   !.block = block, !.timed = timed])
        /\ UNCHANGED <<counts, rest, asleep>>

\* The lock is released and the call returns.
Leave(t) == owner' = "nobody" /\ Return(t)

\* The control task is scheduled; a blocking start waits for the trigger.
Scheduled(t) ==
    /\ control' = Watched(call[t].timed)
    /\ owner' = "nobody"
    /\ IF call[t].block THEN Goto(t, "start_wait", [NoCall EXCEPT !.timed = call[t].timed])
                        ELSE Return(t)

\* The interrupt is enabled if the FIFO is half full now.
IfHalfFull(h) == IF BelowHalf(h.fifo) THEN h ELSE Enabled(h)

\* A limited software loop that is shorter than half a FIFO is written repeatedly.
ShortLoop == /\ conf.mode = "sw_wrap" /\ conf.stop # "inf"
             /\ me_circ_buf_values(circ) <= Half

\* A start that fails from here on leaves the hardware started, and nobody watches it.

\* The FIFO was less than half full before the start: half of it more is written.
start_fill(t) ==
    LET w == ao_write_data(hw.fifo, circ, Portion(conf.until, Half), circ.pre)
        fills == conf.mode # "hw_wrap" /\ call[t].half
        fails == fills /\ w.n < 0
    IN  /\ pc[t] = "start_fill"
        /\ circ' = IF ~ fills \/ fails THEN circ
                   ELSE IF conf.mode = "continuous" THEN Advanced(circ, w.n)
                   ELSE Preloaded(circ, w.n)
        /\ hw' = IF ~ fills THEN hw
                 ELSE IF fails THEN [hw EXCEPT !.fifo = w.fifo]
                 ELSE IfHalfFull([hw EXCEPT !.fifo = w.fifo])
        /\ CASE fails -> Leave(t) /\ UNCHANGED control
             [] ~ fails /\ ShortLoop -> /\ Goto(t, "start_loop", call[t])
                                       /\ UNCHANGED <<control, owner>>
             [] ~ fails /\ ~ ShortLoop -> Scheduled(t)
        /\ UNCHANGED <<soft, worker, isr, asleep>>

\* The loop is written once more before the FIFO is looked at, and again until the FIFO is
\* half full.  A part of it that was copied before, or a FIFO that does not take it, ends
\* the call with an internal error.
start_loop(t) ==
    LET n == me_circ_buf_values(circ)
        w == ao_write_data_wraparound(circ, n, 0)
        more == circ.pre = 0 /\ conf.until > circ.data
        fails == circ.pre # 0 \/ (more /\ w.n # n)
    IN  /\ pc[t] = "start_loop"
        /\ hw' = IF ~ more THEN hw
                 ELSE IF fails THEN [hw EXCEPT !.fifo = w.fifo]
                 ELSE IfHalfFull([hw EXCEPT !.fifo = w.fifo])
        /\ circ' = IF more /\ ~ fails THEN [circ EXCEPT !.data = @ + n] ELSE circ
        /\ CASE fails -> Leave(t) /\ UNCHANGED control
             [] ~ fails /\ more /\ BelowHalf(w.fifo) -> UNCHANGED <<control, owner, user>>
             [] ~ fails /\ ~ (more /\ BelowHalf(w.fifo)) -> Scheduled(t)
        /\ UNCHANGED <<soft, worker, isr, asleep>>

\* After the wait of a blocking start: the stream is given up if it still waits.
\* Nobody is woken, and the control task is left to find out.
start_check(t) ==
    /\ pc[t] = "start_check" /\ Free
    /\ IF status = "run_wait"
       THEN status' = "timeout" /\ hw' = ao_stop_immediately(hw)
       ELSE UNCHANGED <<status, hw>>
    /\ Return(t)
    /\ UNCHANGED <<conf, counts, circ, rest, owner, asleep>>

-----------------------------------------------------------------------------
(* Stop.                                                                   *)

\* From label END: everything is stopped; without PRESERVE_BUFFERS the FIFO and the
\* buffer are emptied.  The waiting tasks are not woken.
End(keep) ==
    /\ hw' = IF keep THEN ao_stop_immediately(hw)
                     ELSE [Off(ao_stop_immediately(hw)) EXCEPT !.dac = None]
    /\ circ' = IF keep THEN circ ELSE Empty
    /\ counts' = [counts EXCEPT !.stop = @ + 1]

\* Mutant: the hardware of a running stream is left alone.
stream_stop_soft(t) ==
    /\ Called(t, "stop") /\ Free /\ counts.stop < MaxCount
    /\ status \in Running /\ status' = "end"
    /\ counts' = [counts EXCEPT !.stop = @ + 1]
    /\ UNCHANGED <<conf, circ, rest, owner, hw, user, asleep>>

\* To stop at the last value has a meaning only while the stream runs; everything else is
\* stopped at once.
stream_stop(t) ==
    /\ Called(t, "stop") /\ Free /\ counts.stop < MaxCount
    /\ \E how \in StopHow, keep \in Keep, timed \in Timed :
          \/ /\ status \in Running \cup Failed \cup {"end", "timeout"}
             /\ status = "run" => how = "immediate"
             /\ status' = "end"
             /\ End(keep)
             /\ UNCHANGED user
          \/ /\ status = "run" /\ how = "last"
             /\ status' = "end_wait"
             /\ hw' = IF hw.wrap THEN Quiet([hw EXCEPT !.stop = TRUE]) ELSE hw
             /\ Goto(t, "stop_wait", [NoCall EXCEPT !.keep = keep, !.timed = timed])
             /\ UNCHANGED <<counts, circ>>
    /\ UNCHANGED <<conf, rest, owner, asleep>>

stop_end(t) ==
    /\ pc[t] = "stop_end" /\ Free
    /\ End(call[t].keep)
    /\ Return(t)
    /\ UNCHANGED <<status, conf, rest, owner, asleep>>

-----------------------------------------------------------------------------
(* Writing.                                                                *)

\* Bound: a loop is written before its first start only.
LoopOnce == conf.mode # "continuous" => status = "stream_configured"

\* The status is looked at before the lock is taken.
stream_write(t) ==
    /\ Called(t, "write")
    /\ status \notin {"none", "single_configured"}
    /\ \E how \in {"preload", "nonblocking", "blocking"}, n \in Chunk, timed \in Timed :
          /\ how = "preload" \/ conf.mode # "continuous"
                => status \in {"stream_configured", "end"}
          /\ circ.next + n <= MaxValues
          /\ LoopOnce
          /\ Goto(t, "write_lock",
                  [NoCall EXCEPT !.left = n, !.timed = timed,
                        !.how = IF conf.mode = "hw_wrap" THEN "preload" ELSE how])
    /\ UNCHANGED <<soft, circ, rest, owner, hw, asleep>>

\* The lock is taken; preloading enables the FIFO.
write_lock(t) ==
    /\ pc[t] = "write_lock" /\ Free
    /\ owner' = t
    /\ Goto(t, "write_copy", call[t])
    /\ IF call[t].how = "preload" /\ ~ hw.on
       THEN hw' = [hw EXCEPT !.on = TRUE] /\ circ' = [circ EXCEPT !.pre = 0]
       ELSE UNCHANGED <<hw, circ>>
    /\ UNCHANGED <<soft, rest, asleep>>

\* One turn of the loop.  A running continuous stream whose FIFO is less than half
\* full is served at once, with the interrupt blocked.
write_copy(t) ==
    LET c      == call[t]
        filled == ao_get_data_from_user(circ, c.left)
        left   == c.left - Least(c.left, me_circ_buf_space(circ))
        again  == [c EXCEPT !.left = left]
        serve  == status = "run" /\ hw.fsm /\ conf.mode = "continuous" /\ BelowHalf(hw.fifo)
        w      == ao_write_data(hw.fifo, filled, Half, 0)
    IN  /\ pc[t] = "write_copy"
        /\ IF serve /\ w.n > 0
           THEN /\ circ' = Advanced(filled, w.n)
                /\ hw' = [Held(hw) EXCEPT !.fifo = w.fifo]
                /\ Goto(t, "write_copy", again)
                /\ UNCHANGED owner
           ELSE /\ circ' = filled
                /\ hw' = IF serve THEN Released(hw) ELSE hw
                /\ CASE status = "run" /\ ~ hw.fsm -> Leave(t)
                     [] serve \/ (left = 0 /\ ~ (status = "run" /\ ~ hw.fsm)) ->
                           Goto(t, "write_done", again) /\ UNCHANGED owner
                     [] OTHER ->
                           IF conf.mode # "continuous" THEN Leave(t)
                           ELSE IF c.how = "blocking"
                           THEN owner' = "nobody" /\ Goto(t, "write_wait", again)
                           ELSE Goto(t, "write_done", again) /\ UNCHANGED owner
        /\ status' = IF serve /\ w.n < 0 THEN "fifo_error" ELSE status
        /\ UNCHANGED <<conf, counts, rest, asleep>>

\* After the wait: an end or an error ends the call, otherwise the loop goes on.
write_check(t) ==
    /\ pc[t] = "write_check" /\ Free
    /\ IF status \in {"run", "run_wait", "stream_configured"} /\ ~ call[t].late
       THEN owner' = t /\ Goto(t, "write_copy", call[t])
       ELSE Leave(t)
    /\ UNCHANGED <<soft, circ, rest, hw, asleep>>

\* Behind the loop: preloaded values are copied on into the FIFO.
write_done(t) ==
    LET w == ao_write_data_pooling(circ, FifoSize, circ.pre) IN
    /\ pc[t] = "write_done"
    /\ IF call[t].how = "preload"
       THEN /\ hw' = [hw EXCEPT !.fifo = w.fifo]
            /\ circ' = [circ EXCEPT !.pre = @ + w.n, !.data = Counted(circ, w.n)]
       ELSE UNCHANGED <<hw, circ>>
    /\ Leave(t)
    /\ UNCHANGED <<soft, rest, asleep>>

-----------------------------------------------------------------------------
(* Status and new values: all without the lock.                            *)

stream_status(t) ==
    /\ Called(t, "status")
    /\ LET busy == status \in Busy \/ (status = "none" /\ hw.fsm)
       IN  \/ \E w \in {"idle", "busy"} :
                 /\ busy <=> w = "idle"
                 /\ Goto(t, "status_wait", [NoCall EXCEPT !.how = w])
           \/ Goto(t, "status_wait", [NoCall EXCEPT !.how = "start", !.old = counts.start])
           \/ Goto(t, "status_wait", [NoCall EXCEPT !.how = "stop", !.old = counts.stop])
    /\ UNCHANGED <<soft, circ, rest, owner, hw, asleep>>

stream_new_values(t) ==
    /\ Called(t, "new_values")
    /\ \E screen \in BOOLEAN, report \in BOOLEAN, timed \in Timed :
          Goto(t, "values_top", [NoCall EXCEPT !.screen = screen, !.report = report,
                                              !.timed = timed])
    /\ UNCHANGED <<soft, circ, rest, owner, hw, asleep>>

\* Top of the loop: report a failure, or remember the status and the tail.
values_top(t) ==
    /\ pc[t] = "values_top"
    /\ IF call[t].report /\ status \in Failed \cup {"none"}
       THEN Return(t)
       ELSE Goto(t, "values_wait", [call[t] EXCEPT !.snap = status, !.old = circ.tail])
    /\ UNCHANGED <<soft, circ, rest, owner, hw, asleep>>

\* After the wait: a stream that works, a failure or a reset ends the loop.  One that
\* has ended does not: with space in the buffer the loop turns without sleeping.
values_check(t) ==
    /\ pc[t] = "values_check"
    /\ IF call[t].late \/ status \in Failed \cup {"none", "run_wait", "run"} THEN Return(t)
       ELSE Goto(t, "values_top", [call[t] EXCEPT !.snap = "none", !.old = 0])
    /\ UNCHANGED <<soft, circ, rest, owner, hw, asleep>>

-----------------------------------------------------------------------------
(* Waiting: wait_event_interruptible_timeout() on wait_queue.              *)

AfterWait == [start_wait |-> "start_check", stop_wait |-> "stop_end",
              write_wait |-> "write_check", values_wait |-> "values_check",
              single_wait |-> "single_check", status_wait |-> "idle", read_wait |-> "idle"]

Ready(t) ==
    LET c == call[t] IN
    CASE pc[t] = "start_wait"  -> status # "run_wait"
      [] pc[t] = "stop_wait"   -> status # "end_wait"
      [] pc[t] \in {"single_wait", "read_wait"} -> status # "single_run"
      [] pc[t] = "write_wait"  ->
            \/ me_circ_buf_space(circ) > 0
            \/ status \notin {"stream_configured", "run_wait", "run"}
      [] pc[t] = "values_wait" ->
            \/ status # c.snap
            \/ IF c.screen THEN circ.tail # c.old ELSE me_circ_buf_space(circ) > 0
      [] pc[t] = "status_wait" ->
            CASE c.how = "idle"  -> status \notin Busy
              [] c.how = "busy"  -> status \in Busy \cup {"none"}
              [] c.how = "start" -> counts.start # c.old \/ status = "none"
              [] c.how = "stop"  -> counts.stop # c.old \/ status = "none"
      [] OTHER -> FALSE

Waiting(t) == pc[t] \in Waits

Resume(t, c) ==
    /\ IF AfterWait[pc[t]] = "idle" THEN Return(t) ELSE Goto(t, AfterWait[pc[t]], c)
    /\ UNCHANGED <<soft, circ, rest, owner, hw>>

wait_ready(t) ==
    /\ Waiting(t) /\ t \notin asleep /\ Ready(t)
    /\ Resume(t, call[t])
    /\ UNCHANGED asleep

wait_sleep(t) ==
    /\ Waiting(t) /\ t \notin asleep /\ ~ Ready(t)
    /\ asleep' = asleep \cup {t}
    /\ UNCHANGED <<soft, circ, rest, owner, hw, user>>

wait_timeout(t) ==
    /\ Waiting(t) /\ call[t].timed
    /\ Resume(t, [call[t] EXCEPT !.late = TRUE])
    /\ asleep' = asleep \ {t}

-----------------------------------------------------------------------------
(* The control task.                                                       *)

\* What the task finds: the new status, whether it comes back, whether it wakes the
\* waiting tasks, how often it counts a start and a stop.
Found(st, again, signal, start, stop, h) ==
    /\ status' = st
    /\ worker' = [at |-> "post", again |-> again, signal |-> signal]
    /\ counts' = [start |-> counts.start + start, stop |-> counts.stop + stop]
    /\ hw' = h

Ended == ~ hw.fsm /\ hw.fifo = <<>>
Late  == control.deadline /\ status \in {"single_run", "run_wait"}

control_single ==
    /\ status = "single_run"
    /\ \/ Ended /\ Found("single_end", FALSE, TRUE, 0, 0, Off(ao_stop_immediately(hw)))
       \/ ~ Ended /\ Late /\ Found("single_error", FALSE, TRUE, 0, 0, Off(ao_stop_immediately(hw)))
       \/ ~ Ended /\ Found("single_run", TRUE, FALSE, 0, 0, hw)

\* Mutant: while the stream waits for its trigger the task is not scheduled again.
control_run_wait_once ==
    /\ status = "run_wait"
    /\ \/ hw.fsm /\ Found("run", TRUE, TRUE, 1, 0, hw)
       \/ Ended /\ Found("end", FALSE, TRUE, 0, 0, hw)
       \/ ~ hw.fsm /\ ~ Ended /\ Found("run_wait", FALSE, FALSE, 0, 0, hw)

\* A stream that has come and gone between two turns has ended: neither its start nor
\* its stop is counted.
control_run_wait ==
    /\ status = "run_wait"
    /\ \/ hw.fsm /\ Found("run", TRUE, TRUE, 1, 0, hw)
       \/ Ended /\ Found("end", FALSE, TRUE, 0, 0, hw)
       \/ ~ hw.fsm /\ ~ Ended /\ Late
             /\ Found("timeout", FALSE, TRUE, 0, 0, ao_stop_immediately(hw))
       \/ ~ hw.fsm /\ ~ Ended /\ Found("run_wait", TRUE, FALSE, 0, 0, hw)

\* Mutant: the task does not come back once the stream runs.
control_run_once ==
    /\ status = "run"
    /\ IF hw.fsm THEN Found("run", FALSE, FALSE, 0, 0, hw)
       ELSE Found("end", FALSE, TRUE, 0, 1, ao_stop_immediately(hw))

\* The state machine stopped.  An empty FIFO with an empty buffer, or behind the
\* limit, is the end of the stream; values left in the buffer are an underflow.
control_run ==
    /\ status = "run"
    /\ LET over == conf.until # 0 /\ conf.until <= circ.data
           h    == IF Board = "me6000" THEN ao_stop_immediately(hw) ELSE Halted(hw)
       IN  IF hw.fsm THEN Found("run", TRUE, FALSE, 0, 0, hw)
           ELSE Found(CASE hw.fifo # <<>> -> "fifo_error"
                        [] hw.fifo = <<>> /\ me_circ_buf_values(circ) > 0 /\ ~ over ->
                              "buffer_error"
                        [] OTHER -> "end",
                      FALSE, TRUE, 0, 1, h)

control_end_wait ==
    /\ status = "end_wait"
    /\ IF hw.fsm THEN Found("end_wait", TRUE, FALSE, 0, 0, hw)
       ELSE Found("end", FALSE, TRUE, 0, 1,
                  IF Board = "me6000" THEN ao_stop_immediately(hw) ELSE Halted(hw))

control_idle == status \in Idle /\ Found(status, FALSE, FALSE, 0, 0, hw)

work_control_task ==
    /\ control.queued /\ worker.at = "idle"
    /\ control' = [control EXCEPT !.queued = FALSE]
    /\ \/ ~ control.flag /\ UNCHANGED <<status, counts, worker, hw>>
       \/ /\ control.flag /\ Free
          /\ \/ control_single \/ control_run_wait \/ control_run
             \/ control_end_wait \/ control_idle
    /\ UNCHANGED <<conf, circ, isr, owner, user, asleep>>

\* Mutant: what was found is not signalled.
control_post_silent ==
    /\ worker.at = "post"
    /\ control' = [control EXCEPT !.queued = @ \/ (control.flag /\ worker.again)]
    /\ worker' = [at |-> "idle", again |-> FALSE, signal |-> FALSE]
    /\ UNCHANGED <<soft, circ, isr, owner, hw, user, asleep>>

\* Behind the lock: schedule again, then wake.
control_post ==
    /\ worker.at = "post"
    /\ control' = [control EXCEPT !.queued = @ \/ (control.flag /\ worker.again)]
    /\ IF worker.signal THEN wake_up ELSE UNCHANGED asleep
    /\ worker' = [at |-> "idle", again |-> FALSE, signal |-> FALSE]
    /\ UNCHANGED <<soft, circ, isr, owner, hw, user>>

-----------------------------------------------------------------------------
(* The interrupt handler.                                                  *)

\* The device's handler sees the request and calls the subdevice's, which tries the
\* lock; the interrupt stays pending while somebody holds it.
irq ==
    /\ isr = "idle" /\ Free /\ IrqRequest
    /\ isr' = "enter" /\ owner' = "isr"
    /\ UNCHANGED <<soft, circ, control, worker, hw, user, asleep>>

\* A stopped state machine or a FIFO that is full enough needs nothing.
irq_enter ==
    /\ isr = "enter"
    /\ IF hw.fsm /\ BelowHalf(hw.fifo)
       THEN hw' = Quiet(hw) /\ isr' = "fill" /\ UNCHANGED <<owner, asleep>>
       ELSE /\ hw' = IF hw.fsm THEN [hw EXCEPT !.rst = FALSE] ELSE ao_stop_immediately(hw)
            /\ isr' = "idle" /\ owner' = "nobody"
            /\ IF hw.fsm /\ Board = "me4600" THEN wake_up ELSE UNCHANGED asleep
    /\ UNCHANGED <<soft, circ, control, worker, user>>

\* How many values the handler copies at most in one turn.
Wanted == IF conf.until # 0 THEN Least(Half, conf.until - circ.data) ELSE Half

Over(data) == conf.until # 0 /\ conf.until <= data

\* The end of the handler: a limited stream that got all its values waits for its
\* end; the interrupt is let through again if values were copied, and left blocked,
\* for stream_write() to unblock, if there were none.
Leaves(c, n, fifo) ==
    /\ isr' = "idle" /\ owner' = "nobody" /\ wake_up
    /\ LET h == [hw EXCEPT !.fifo = fifo] IN
       IF n < 0
       THEN /\ status' = "fifo_error" /\ hw' = h
            /\ counts' = [counts EXCEPT !.stop = @ + 1]
       ELSE /\ status' = IF Over(c.data) THEN "end_wait" ELSE status
            /\ hw' = IF Over(c.data) THEN h
                     ELSE IF n > 0 THEN Enabled(h)
                     ELSE [h EXCEPT !.irq = Board = "me4600"]
            /\ UNCHANGED counts

\* Mutant: the tail is not advanced behind what was copied.
irq_fill_again ==
    LET w == ao_write_data(hw.fifo, circ, Wanted, 0) IN
    /\ isr = "fill" /\ w.n > 0
    /\ circ' = [circ EXCEPT !.data = Counted(circ, w.n)]
    /\ Leaves(circ, w.n, w.fifo)

\* One turn of the handler's loop.  In a software loop that is being stopped the
\* values are taken from the beginning of the buffer.
irq_fill ==
    LET loop == conf.mode = "sw_wrap"
        w == IF loop /\ status # "end_wait"
             THEN ao_write_data_wraparound(circ, Wanted, circ.pre)
             ELSE ao_write_data(hw.fifo, circ, Wanted, 0)
        c == IF w.n <= 0 THEN circ
             ELSE IF loop
             THEN [circ EXCEPT !.pre = (@ + w.n) % me_circ_buf_values(circ),
                               !.data = Counted(circ, w.n)]
             ELSE [Advanced(circ, w.n) EXCEPT !.data = Counted(circ, w.n)]
        last == \/ w.n <= 0 \/ Over(c.data)
                \/ /\ status = "end_wait"
                   /\ IF loop THEN c.pre = 0 ELSE me_circ_buf_values(c) = 0
    IN  /\ isr = "fill"
        /\ circ' = c
        /\ \/ last /\ Leaves(c, w.n, w.fifo)
           \/ /\ ~ last /\ BelowHalf(w.fifo)
              /\ hw' = [hw EXCEPT !.fifo = w.fifo]
              /\ UNCHANGED <<status, counts, isr, owner, asleep>>
           \/ ~ last /\ ~ BelowHalf(w.fifo) /\ Leaves(c, w.n, w.fifo)

irq_handle ==
    \/ irq_enter
    \/ irq_fill /\ UNCHANGED <<conf, control, worker, user>>

-----------------------------------------------------------------------------
(* The hardware, as the driver uses it.                                    *)

Hardware(h) == hw' = h /\ UNCHANGED <<soft, circ, rest, owner, user, asleep>>

hw_trigger == hw.armed /\ ~ hw.halt /\ Hardware(Started(hw))

\* The oldest value is put out; in a hardware loop it comes again.
hw_convert ==
    /\ hw.fsm /\ hw.fifo # <<>>
    /\ Hardware([hw EXCEPT !.dac = IF Head(hw.fifo) = Alone THEN @ ELSE Head(hw.fifo),
                           !.fifo = IF hw.wrap THEN Append(Tail(@), Head(@)) ELSE Tail(@)])

\* The FIFO ran empty.
hw_underrun == hw.fsm /\ hw.fifo = <<>> /\ Hardware([hw EXCEPT !.fsm = FALSE])

\* The STOP bit ends a hardware loop behind its last value.
hw_stop == /\ hw.fsm /\ hw.stop /\ hw.fifo # <<>> /\ Head(hw.fifo) = 0
           /\ Hardware([hw EXCEPT !.fsm = FALSE])

-----------------------------------------------------------------------------
Ioctl(t) ==
    \/ reset_subdevice(t) \/ single_config(t) \/ single_write(t) \/ single_read(t)
    \/ stream_config(t) \/ stream_start(t) \/ stream_stop(t) \/ stream_write(t)
    \/ stream_status(t) \/ stream_new_values(t)

\* What a task does by itself once it is in an ioctl.
Proceed(t) ==
    \/ reset_wake(t) \/ single_check(t) \/ start_fill(t) \/ start_loop(t) \/ start_check(t)
    \/ stop_end(t) \/ write_lock(t) \/ write_copy(t) \/ write_check(t) \/ write_done(t)
    \/ values_top(t) \/ values_check(t) \/ wait_ready(t) \/ wait_sleep(t)

Control == work_control_task \/ control_post

Handler == irq \/ irq_handle

Next ==
    \/ \E t \in Task : Ioctl(t) \/ Proceed(t) \/ wait_timeout(t)
    \/ Control \/ Handler
    \/ hw_trigger \/ hw_convert \/ hw_underrun \/ hw_stop

Spec == Init /\ [][Next]_vars

\* Tasks are scheduled, the work queue runs, interrupts are delivered, a converter
\* that runs converts.  Nothing makes a trigger arrive.
Fairness ==
    /\ \A t \in Task : WF_vars(Proceed(t))
    /\ WF_vars(Control) /\ WF_vars(Handler)
    /\ WF_vars(hw_convert) /\ WF_vars(hw_underrun) /\ SF_vars(hw_stop)

FairSpec == Spec /\ Fairness

-----------------------------------------------------------------------------
(* Properties.                                                             *)

Starting == \E t \in Task : pc[t] \in {"start_fill", "start_loop"}

\* The values on their way: in the FIFO, then in the buffer behind what was preloaded.
Pipe == hw.fifo \o [i \in 1 .. me_circ_buf_values(circ) - circ.pre |->
                       circ.buf[(circ.tail + circ.pre + i - 1) % BufSize]]

Streaming == status \in Running \cup Failed \cup {"stream_configured", "end", "timeout"}

\* No value of a continuous stream is lost, repeated or overtaken between the user and
\* the converter, whether it takes the way over preloading, the start, the handler or a
\* writer that serves the FIFO itself: what is on its way is a run of consecutive values
\* that continues what was put out and ends with the last one written.
NothingLost ==
    conf.mode = "continuous" /\ Pipe # <<>> /\ Streaming =>
        /\ \A i \in 1 .. Len(Pipe) - 1 : Pipe[i + 1] = Pipe[i] + 1
        /\ Pipe[Len(Pipe)] + 1 = circ.next
        /\ hw.dac # None => Pipe[1] = hw.dac + 1

\* A software loop with a limit, and one of less than half a FIFO: the start of the first
\* can fail when the hardware runs already, that of the second when a round of the loop
\* was cut off in the FIFO (ShortLoopFits).
LimitedLoop == conf.mode = "sw_wrap" /\ conf.stop # "inf"
CutOffLoop  == LimitedLoop /\ me_circ_buf_values(circ) < Half

\* A hardware loop that is started again is copied again, behind what a stop or a time-out
\* has left of it in the FIFO (me4600_ao.c:1627).
CopiedAgain == conf.mode = "hw_wrap" /\ Len(hw.fifo) > me_circ_buf_values(circ)

\* The rest of a software loop that is stopped at its last value is copied from the
\* beginning of the buffer, wherever the loop was (me4600_ao.c:2593).
StoppedLoop == conf.mode = "sw_wrap" /\ status = "end_wait"

\* Those copies move preloaded_count too: a start that follows goes on somewhere else.
RestartedLoop == conf.mode = "sw_wrap" /\ counts.stop > 0

\* A loop that was not stopped before puts out the values of its buffer in turn, also
\* where the driver joins two rounds of it in the FIFO; while it is being stopped at its
\* last value, a software loop may begin again before its end.  The hardware's own loop
\* holds what fits into the FIFO.
LoopInOrder ==
    [][LET n == IF conf.mode = "hw_wrap" THEN Least(me_circ_buf_values(circ), FifoSize)
                                         ELSE me_circ_buf_values(circ)
       IN  /\ Streaming /\ conf.mode # "continuous"
           /\ ~ CutOffLoop /\ ~ CopiedAgain /\ ~ RestartedLoop
           /\ hw'.dac \notin {hw.dac, None}
           => \/ hw'.dac = IF hw.dac = None THEN 0 ELSE (hw.dac + 1) % n
              \/ StoppedLoop /\ hw'.dac = 0]_vars

\* Whichever way an output ends, fails or is reset, the state machine is stopped and no
\* trigger can start it when the status says that nothing runs.  Only a single value
\* that is put out at once is reported before it is.
IdleIsStopped == hw.fsm \/ hw.armed => status \in Busy \cup {"single_end"}

\* An output that runs is watched: its control task is scheduled, or is at work and
\* will schedule itself.  Nobody else notices its start, its end or its time-out.
OutputIsWatched ==
    status \in Busy /\ ~ Starting /\ ~ LimitedLoop =>
        /\ control.flag
        /\ control.queued \/ (worker.at = "post" /\ worker.again)

\* Of the checks of stream_start that "should never" fail two never do: no more values are
\* preloaded than the buffer holds (me4600_ao.c:1643, 1750), and the FIFO takes what is
\* written to it behind the start (1729).
StartNeverFails ==
    /\ conf.mode # "continuous" => circ.pre <= me_circ_buf_values(circ)
    /\ \A t \in Task : pc[t] = "start_fill" /\ call[t].half => Len(hw.fifo) < Half

\* "This should never happend!" (me4600_ao.c:1776, 1786): a short limited loop is at its
\* beginning when its rounds are written, and the FIFO takes each of them.
ShortLoopFits ==
    \A t \in Task : pc[t] = "start_loop" =>
        /\ circ.pre = 0
        /\ conf.until > circ.data => Len(hw.fifo) + me_circ_buf_values(circ) <= FifoSize

\* "Interrupt active but blocked. stream_write() will unblock it." (me4600_ao.c:2639): a
\* writer that leaves values behind in the buffer of a running stream leaves the interrupt
\* enabled that fetches them.
WriterUnblocks ==
    [][\A t \in Task :
          /\ pc[t] = "write_done" /\ pc'[t] = "idle"
          /\ status = "run" /\ conf.mode = "continuous" /\ me_circ_buf_values(circ) > 0
          => hw'.irq /\ ~ hw'.rst]_vars

\* A stream whose hardware ran empty does not stay running.
EndIsNoticed ==
    (status \in {"run", "end_wait"} /\ ~ hw.fsm) ~> (status \notin {"run", "end_wait"} \/ hw.fsm)
=============================================================================
