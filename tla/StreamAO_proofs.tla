--------------------------- MODULE StreamAO_proofs ---------------------------
(***************************************************************************)
(* What holds of the analog outputs with a FIFO for every set of tasks,    *)
(* every size of the FIFO and every stop condition, as long as one task at *)
(* a time starts and fills the stream (LoneStarter): the state machine is  *)
(* stopped when the status says that nothing runs, an output that runs is  *)
(* watched, the checks of stream_start that "should never" fail never do,  *)
(* and no value of a continuous stream is lost.                            *)
(*                                                                         *)
(* IdleIsStopped is not inductive.  The control task ends a stream whose   *)
(* state machine stands and whose FIFO is empty without touching the       *)
(* hardware, so that a trigger must not be armed on an empty FIFO (Loaded);*)
(* that the start always finds a value to put into it depends on how much  *)
(* of the buffer is counted as preloaded (Prefix), in every status from    *)
(* which a start is allowed or which ends in one.  The handler fails when  *)
(* the FIFO does not take its values, which depends on the level it saw    *)
(* and on who may fill the FIFO meanwhile (Levels, Discipline).  It must   *)
(* not come to a loop that the hardware repeats by itself (Wraps,          *)
(* Interrupts): it would push behind the loop.                             *)
(*                                                                         *)
(* NothingLost relates what leaves the FIFO to what the user wrote.  The   *)
(* buffer always holds the values that were written last (CellsIn), with   *)
(* every step that moves a pointer of it; the FIFO holds those in front of *)
(* the place where the next copy begins (Flows); and nobody fills a FIFO   *)
(* that is not enabled, whose values a start would forget (Opened).        *)
(***************************************************************************)
EXTENDS StreamAO, TLAPS

Calls == [left : Nat, how : {"none", "preload", "nonblocking", "blocking", "idle", "busy",
                             "start", "stop"},
          block : BOOLEAN, half : BOOLEAN, old : Nat, snap : Status, screen : BOOLEAN,
          report : BOOLEAN, keep : BOOLEAN, timed : BOOLEAN, late : BOOLEAN]

Writing == {"write_lock", "write_copy", "write_wait", "write_check", "write_done"}
Filling == {"start_fill", "start_loop"}

CircType == [buf : [0 .. BufSize - 1 -> Int], head : 0 .. BufSize - 1,
             tail : 0 .. BufSize - 1, pre : Nat, data : Nat, next : Nat]

HwType == [fsm : BOOLEAN, armed : BOOLEAN, halt : BOOLEAN, stop : BOOLEAN, on : BOOLEAN,
           wrap : BOOLEAN, irq : BOOLEAN, rst : BOOLEAN, fifo : Seq(Int), dac : Int]

ConfType == [mode : {"continuous", "sw_wrap", "hw_wrap"}, wrap : BOOLEAN, trig : BOOLEAN,
             stop : {"inf", "list", "scan"}, count : Nat, until : Nat]

ControlType == [flag : BOOLEAN, queued : BOOLEAN, deadline : BOOLEAN]

WorkerType == [at : {"idle", "post"}, again : BOOLEAN, signal : BOOLEAN]

\* A task that writes is one that may.
UserType ==
    /\ pc \in [Task -> Location]
    /\ call \in [Task -> Calls]
    /\ \A t \in Task : pc[t] \in Writing => "write" \in Op[t]

AOType ==
    /\ status \in Status
    /\ conf \in ConfType /\ (conf.stop = "inf" <=> conf.count = 0)
    /\ conf.wrap => conf.mode = "hw_wrap"
    /\ counts \in [start : Nat, stop : Nat]
    /\ circ \in CircType
    /\ control \in ControlType
    /\ worker \in WorkerType
    /\ isr \in {"idle", "enter", "fill"}
    /\ owner \in Task \cup {"nobody", "isr"}
    /\ hw \in HwType /\ Len(hw.fifo) <= FifoSize
    /\ UserType
    /\ asleep \subseteq Task

-----------------------------------------------------------------------------
(* The invariant *)

\* Who is inside a locked section of several steps has the lock.
Discipline ==
    /\ \A t \in Task : pc[t] \in Filling \cup {"write_copy", "write_done"} => owner = t
    /\ isr # "idle" => owner = "isr"

\* What a start and a handler know of the stream they work on.
Sections ==
    /\ \A t \in Task : pc[t] \in Filling => status = "run_wait"
    /\ \A t \in Task : pc[t] = "start_loop" => LimitedLoop
    /\ isr # "idle" => status \in Running /\ conf.mode # "hw_wrap"

\* The levels of the FIFO on which they rely.
Levels ==
    /\ isr = "fill" => Len(hw.fifo) < Half
    /\ \A t \in Task : pc[t] = "start_fill" /\ call[t].half => Len(hw.fifo) < Half

\* Only a stream has its interrupt enabled while its state machine runs; the hardware's
\* own loop has none.
Interrupts ==
    /\ status \in {"single_run", "single_end"} => ~ hw.irq
    /\ status \in Running /\ conf.mode = "hw_wrap" => ~ hw.irq

\* Part of the buffer of a loop is preloaded, and not all of it, and nothing of the
\* buffer of a continuous stream.
Prefix == circ.pre = 0 \/ (conf.mode # "continuous" /\ circ.pre < me_circ_buf_values(circ))

Prefixes ==
    /\ conf.mode # "continuous" => circ.pre <= me_circ_buf_values(circ)
    /\ status \in Running \cup Failed => Prefix
    /\ status \in {"stream_configured", "end", "timeout"} /\ hw.on /\ hw.fifo = <<>> => Prefix

\* A stream that waits for its trigger has something to put out, and a loop that can run
\* has values.
Loaded ==
    /\ status = "run_wait" /\ hw.armed => ~ hw.fsm /\ hw.fifo # <<>>
    /\ status \in Running /\ conf.mode # "continuous" /\ (hw.fsm \/ hw.armed)
          => me_circ_buf_values(circ) > 0
    /\ isr = "fill" /\ conf.mode # "continuous" => me_circ_buf_values(circ) > 0

\* Nobody preloads or fills a loop while the stream runs.
Writers ==
    \A t \in Task :
        pc[t] \in Writing /\ (call[t].how = "preload" \/ conf.mode # "continuous")
            => status \notin Running \cup Failed

Inv == /\ AOType /\ Discipline /\ Sections /\ Levels /\ Interrupts /\ Prefixes /\ Loaded
       /\ Writers /\ IdleIsStopped /\ OutputIsWatched

\* A stream is started and filled by one task at a time.  A preloading write looks at the
\* status before it takes the lock (me4600_ao.c:2302): with a start in between it preloads
\* a stream that runs.
LoneStarter ==
    \A t, u \in Task : t # u => ~ ("start" \in Op[t] /\ "write" \in Op[u])

-----------------------------------------------------------------------------
(* What the helpers return *)

LEMMA LeastOf ==
  ASSUME NEW a \in Int, NEW b \in Int
  PROVE  Least(a, b) \in Int /\ Least(a, b) \in {a, b} /\ Least(a, b) <= a /\ Least(a, b) <= b
  BY DEF Least

LEMMA HalfOf == Half \in Nat /\ Half > 0 /\ Half + Half <= FifoSize /\ FifoSize \in Nat
  BY SizesAssumption DEF Half

\* Cells are counted modulo the size of the buffer.
LEMMA Wrapped ==
  ASSUME NEW b \in Nat \ {0}, NEW x \in Int, - b <= x, x < b + b
  PROVE  x % b = IF x < 0 THEN x + b ELSE IF x < b THEN x ELSE x - b
  OBVIOUS

LEMMA Cell ==
  ASSUME NEW a \in Int
  PROVE  a % BufSize \in 0 .. BufSize - 1
  BY SizesAssumption

LEMMA CircBounds ==
  ASSUME NEW c \in CircType
  PROVE  /\ me_circ_buf_values(c) \in Nat /\ me_circ_buf_values(c) < BufSize
         /\ me_circ_buf_space(c) \in Nat
  <1>1. c.head \in Int /\ c.tail \in Int /\ BufSize \in Nat
    BY SizesAssumption DEF CircType
  <1>2. c.head - c.tail \in Int /\ c.tail - (c.head + 1) \in Int
    BY <1>1
  <1>3. (c.head - c.tail) % BufSize \in 0 .. BufSize - 1
    BY <1>2, Cell
  <1>4. (c.tail - (c.head + 1)) % BufSize \in 0 .. BufSize - 1
    BY <1>2, Cell
  <1> QED
    BY <1>1, <1>3, <1>4 DEF me_circ_buf_values, me_circ_buf_space

LEMMA AdvancedType ==
  ASSUME NEW c \in CircType, NEW n \in Nat
  PROVE  Advanced(c, n) \in CircType /\ Advanced(c, n).pre = c.pre
  <1>1. c.tail \in Int /\ c.tail + n \in Int
    BY SizesAssumption DEF CircType
  <1>2. (c.tail + n) % BufSize \in 0 .. BufSize - 1
    BY <1>1, Cell
  <1>3. [i \in DOMAIN c.buf |-> IF (i - c.tail) % BufSize < n THEN None ELSE c.buf[i]]
           \in [0 .. BufSize - 1 -> Int]
    <2>1. DOMAIN c.buf = 0 .. BufSize - 1 /\ \A i \in 0 .. BufSize - 1 : c.buf[i] \in Int
      BY DEF CircType
    <2>2. None \in Int
      BY DEF None
    <2> QED
      BY <2>1, <2>2
  <1> QED
    BY <1>2, <1>3 DEF CircType, Advanced

\* n values more are n values more.
LEMMA StoredType ==
  ASSUME NEW c \in CircType, NEW n \in Nat, n <= me_circ_buf_space(c)
  PROVE  /\ Stored(c, n) \in CircType /\ Stored(c, n).pre = c.pre
         /\ me_circ_buf_values(Stored(c, n)) = me_circ_buf_values(c) + n
  <1>1. c.head \in 0 .. BufSize - 1 /\ c.tail \in 0 .. BufSize - 1
    BY DEF CircType
  <1>2. (c.head + n) % BufSize \in 0 .. BufSize - 1
    BY <1>1, Cell, SizesAssumption
  <1>3. [i \in DOMAIN c.buf |-> IF (i - c.head) % BufSize < n
                                THEN c.next + ((i - c.head) % BufSize) ELSE c.buf[i]]
           \in [0 .. BufSize - 1 -> Int]
    <2>1. DOMAIN c.buf = 0 .. BufSize - 1 /\ \A i \in 0 .. BufSize - 1 : c.buf[i] \in Int
      BY DEF CircType
    <2>2. ASSUME NEW i \in 0 .. BufSize - 1
          PROVE  c.next + ((i - c.head) % BufSize) \in Int
      <3>1. i - c.head \in Int /\ c.next \in Int
        BY <1>1, SizesAssumption DEF CircType
      <3>2. (i - c.head) % BufSize \in Int
        BY <3>1, Cell, SizesAssumption
      <3> QED
        BY <3>1, <3>2
    <2> QED
      BY <2>1, <2>2
  <1>4. Stored(c, n) \in CircType /\ Stored(c, n).pre = c.pre
    <2>1. c.next + n \in Nat
      BY DEF CircType
    <2> QED
      BY <1>2, <1>3, <2>1 DEF CircType, Stored
  <1>5. Stored(c, n).head = (c.head + n) % BufSize /\ Stored(c, n).tail = c.tail
    BY DEF CircType, Stored
  <1>6. (((c.head + n) % BufSize) - c.tail) % BufSize = ((c.head - c.tail) % BufSize) + n
    <2> DEFINE h == c.head
               u == c.tail
    <2>1. h \in Nat /\ h < BufSize /\ u \in Nat /\ u < BufSize /\ n \in Nat
      BY <1>1, SizesAssumption
    <2>2. n <= (u - (h + 1)) % BufSize
      BY DEF me_circ_buf_space
    <2> HIDE DEF h, u
    <2>3. BufSize \in Nat \ {0}
      BY SizesAssumption
    <2>4. (u - (h + 1)) % BufSize = IF u <= h THEN u - (h + 1) + BufSize ELSE u - (h + 1)
      <3> DEFINE a == u - (h + 1)
      <3>1. a \in Int /\ - BufSize <= a /\ a < BufSize + BufSize
        BY <2>1, <2>3
      <3> HIDE DEF a
      <3>2. a % BufSize = IF a < 0 THEN a + BufSize ELSE IF a < BufSize THEN a ELSE a - BufSize
        BY <2>3, <3>1, Wrapped
      <3> QED
        BY <2>1, <2>3, <3>2 DEF a
    <2>5. (h - u) % BufSize = IF h < u THEN h - u + BufSize ELSE h - u
      <3> DEFINE a == h - u
      <3>1. a \in Int /\ - BufSize <= a /\ a < BufSize + BufSize
        BY <2>1, <2>3
      <3> HIDE DEF a
      <3>2. a % BufSize = IF a < 0 THEN a + BufSize ELSE IF a < BufSize THEN a ELSE a - BufSize
        BY <2>3, <3>1, Wrapped
      <3> QED
        BY <2>1, <2>3, <3>2 DEF a
    <2>6. n < BufSize
      BY <2>1, <2>2, <2>3, <2>4
    <2>7. (h + n) % BufSize = IF h + n < BufSize THEN h + n ELSE h + n - BufSize
      <3> DEFINE a == h + n
      <3>1. a \in Int /\ - BufSize <= a /\ a < BufSize + BufSize
        BY <2>1, <2>3, <2>6
      <3> HIDE DEF a
      <3>2. a % BufSize = IF a < 0 THEN a + BufSize ELSE IF a < BufSize THEN a ELSE a - BufSize
        BY <2>3, <3>1, Wrapped
      <3> QED
        BY <2>1, <2>3, <2>6, <3>2 DEF a
    <2> DEFINE k == (h + n) % BufSize
    <2>8. k \in Nat /\ k < BufSize
      BY <2>1, <2>3, <2>6, <2>7
    <2>9. (k - u) % BufSize = IF k < u THEN k - u + BufSize ELSE k - u
      <3> HIDE DEF k
      <3> DEFINE a == k - u
      <3>1. a \in Int /\ - BufSize <= a /\ a < BufSize + BufSize
        BY <2>1, <2>3, <2>8
      <3> HIDE DEF a
      <3>2. a % BufSize = IF a < 0 THEN a + BufSize ELSE IF a < BufSize THEN a ELSE a - BufSize
        BY <2>3, <3>1, Wrapped
      <3> QED
        BY <2>1, <2>3, <2>8, <3>2 DEF a
    <2>10. (k - u) % BufSize = ((h - u) % BufSize) + n
      BY <2>1, <2>2, <2>3, <2>4, <2>5, <2>6, <2>7, <2>9
    <2> QED
      BY <2>10 DEF h, u
  <1> QED
    BY <1>4, <1>5, <1>6 DEF me_circ_buf_values

\* The values that are copied are a sequence, also where there are none.
LEMMA Copied ==
  ASSUME NEW n \in Int, NEW s \in [1 .. n -> Int]
  PROVE  /\ s \in Seq(Int) /\ Len(s) = IF n > 0 THEN n ELSE 0
         /\ n <= 0 => s = <<>>
  <1>1. CASE n > 0
    BY <1>1
  <1>2. CASE n <= 0
    <2>1. 1 .. n = {}
      BY <1>2
    <2>2. s = <<>>
      BY <2>1
    <2> QED
      BY <1>2, <2>2
  <1> QED
    BY <1>1, <1>2

LEMMA PushedOf ==
  ASSUME NEW f \in Seq(Int), Len(f) <= FifoSize, NEW s \in Seq(Int)
  PROVE  LET w == Pushed(f, s) IN
         /\ w.fifo \in Seq(Int) /\ Len(w.fifo) <= FifoSize /\ Len(f) <= Len(w.fifo)
         /\ Len(f) + Len(s) <= FifoSize => w.n = Len(s) /\ Len(w.fifo) = Len(f) + Len(s)
         /\ w.n \in {-1, Len(s)}
         /\ s = <<>> => w.n = 0 /\ w.fifo = f
         /\ f # <<>> \/ s # <<>> => w.fifo # <<>>
  <1>1. FifoSize \in Nat /\ FifoSize > 1 /\ Len(f) \in Nat /\ Len(s) \in Nat
    BY SizesAssumption
  <1>2. f \o s \in Seq(Int) /\ Len(f \o s) = Len(f) + Len(s)
    OBVIOUS
  <1>3. CASE Len(f) + Len(s) > FifoSize
    <2>1. Pushed(f, s).n = -1 /\ Pushed(f, s).fifo = SubSeq(f \o s, 1, FifoSize)
      BY <1>3 DEF Pushed
    <2>2. /\ SubSeq(f \o s, 1, FifoSize) \in Seq(Int)
          /\ Len(SubSeq(f \o s, 1, FifoSize)) = FifoSize
      BY <1>1, <1>2, <1>3
    <2>3. s # <<>>
      BY <1>1, <1>3
    <2>4. SubSeq(f \o s, 1, FifoSize) # <<>>
      <3> DEFINE q == SubSeq(f \o s, 1, FifoSize)
      <3>1. Len(q) = FifoSize
        BY <2>2
      <3> HIDE DEF q
      <3>2. q # <<>>
        BY <1>1, <3>1
      <3> QED
        BY <3>2 DEF q
    <2> QED
      BY <1>1, <1>3, <2>1, <2>2, <2>3, <2>4
  <1>4. CASE Len(f) + Len(s) <= FifoSize
    <2>1. Pushed(f, s).n = Len(s) /\ Pushed(f, s).fifo = f \o s
      BY <1>1, <1>4 DEF Pushed
    <2>2. s = <<>> => f \o s = f /\ Len(s) = 0
      OBVIOUS
    <2>3. f # <<>> \/ s # <<>> => f \o s # <<>>
      BY <1>2
    <2> QED
      BY <1>1, <1>2, <1>4, <2>1, <2>2, <2>3
  <1> QED
    BY <1>1, <1>3, <1>4

\* What a copy to the FIFO did: it fails only if the FIFO has no room for as many values
\* as were asked for, and takes none only if there is none to take.
Wrote(w, f, count) ==
    /\ w.fifo \in Seq(Int) /\ Len(w.fifo) <= FifoSize /\ Len(f) <= Len(w.fifo)
    /\ w.n \in Int /\ w.n >= -1
    /\ Len(f) + count <= FifoSize => w.n >= 0
    /\ w.n = 0 => w.fifo = f
    /\ f # <<>> \/ w.n # 0 => w.fifo # <<>>

LEMMA WriteData ==
  ASSUME NEW f \in Seq(Int), Len(f) <= FifoSize, NEW c \in CircType, NEW count \in Int,
         NEW start \in Nat
  PROVE  LET w == ao_write_data(f, c, count, start) IN
         /\ Wrote(w, f, count)
         /\ w.n > 0 => w.n <= me_circ_buf_values(c) - start
         /\ count > 0 /\ start < me_circ_buf_values(c) => w.fifo # <<>>
  <1> DEFINE v == me_circ_buf_values(c)
             n == Least(count, v - start)
             s == [i \in 1 .. n |-> c.buf[(c.tail + start + i - 1) % BufSize]]
             w == Pushed(f, s)
  <1>1. v \in Nat
    BY CircBounds
  <1>2. n \in Int /\ n <= count /\ n <= v - start /\ n \in {count, v - start}
    <2>1. v - start \in Int
      BY <1>1
    <2> HIDE DEF v
    <2> QED
      BY <2>1, LeastOf
  <1>3. s \in [1 .. n -> Int]
    <2>1. ASSUME NEW i \in 1 .. n
          PROVE  c.buf[(c.tail + start + i - 1) % BufSize] \in Int
      <3>1. c.tail + start + i - 1 \in Int
        BY <1>2, SizesAssumption DEF CircType
      <3>2. (c.tail + start + i - 1) % BufSize \in 0 .. BufSize - 1
        BY <3>1, Cell
      <3> QED
        BY <3>2 DEF CircType
    <2> QED
      BY <2>1
  <1>4. w = ao_write_data(f, c, count, start)
    BY DEF ao_write_data
  <1> HIDE DEF v, n, s
  <1>5. /\ s \in Seq(Int) /\ Len(s) = IF n > 0 THEN n ELSE 0
        /\ n <= 0 => s = <<>>
    BY <1>2, <1>3, Copied
  <1>6. /\ w.fifo \in Seq(Int) /\ Len(w.fifo) <= FifoSize /\ Len(f) <= Len(w.fifo)
        /\ Len(f) + Len(s) <= FifoSize => w.n = Len(s) /\ Len(w.fifo) = Len(f) + Len(s)
        /\ w.n \in {-1, Len(s)}
        /\ s = <<>> => w.n = 0 /\ w.fifo = f
        /\ f # <<>> \/ s # <<>> => w.fifo # <<>>
    BY <1>5, PushedOf
  <1> HIDE DEF w
  <1>7. Len(f) \in Nat /\ FifoSize \in Nat
    BY SizesAssumption
  <1>8. n > 0 => s # <<>>
    <2>1. s = <<>> => Len(s) = 0
      OBVIOUS
    <2> QED
      BY <1>2, <1>5, <2>1
  <1>9. Len(f) + count <= FifoSize => w.n >= 0
    BY <1>2, <1>5, <1>6, <1>7
  <1>10. w.n \in Int /\ w.n >= -1 /\ (w.n > 0 => w.n <= v - start)
    <2>1. w.n = -1 \/ w.n = 0 \/ w.n = n
      BY <1>5, <1>6
    <2>2. CASE w.n = n
      <3>1. n >= 0 \/ Len(s) = 0
        BY <1>2, <1>5
      <3> QED
        BY <1>1, <1>2, <1>5, <1>6, <2>2, <3>1
    <2> QED
      BY <1>1, <1>2, <2>1, <2>2
  <1>11. w.n = 0 => w.fifo = f
    BY <1>2, <1>5, <1>6, <1>8
  <1>12. count > 0 /\ start < v => w.fifo # <<>>
    BY <1>1, <1>2, <1>6, <1>8
  <1> QED
    BY <1>4, <1>6, <1>9, <1>10, <1>11, <1>12 DEF Wrote, v

LEMMA WriteLoop ==
  ASSUME hw.fifo \in Seq(Int), Len(hw.fifo) <= FifoSize, NEW c \in CircType,
         NEW count \in Int, NEW start \in Nat, me_circ_buf_values(c) > 0 \/ count <= 0
  PROVE  Wrote(ao_write_data_wraparound(c, count, start), hw.fifo, count)
  <1> DEFINE v == me_circ_buf_values(c)
             s == [i \in 1 .. count |-> c.buf[(c.tail + ((start + i - 1) % v)) % BufSize]]
             w == Pushed(hw.fifo, s)
  <1>1. v \in Nat
    BY CircBounds
  <1>2. s \in [1 .. count -> Int]
    <2>1. ASSUME NEW i \in 1 .. count
          PROVE  c.buf[(c.tail + ((start + i - 1) % v)) % BufSize] \in Int
      <3>1. v \in Nat \ {0} /\ start + i - 1 \in Int
        BY <1>1
      <3> HIDE DEF v
      <3>2. (start + i - 1) % v \in Int
        BY <3>1
      <3>3. c.tail + ((start + i - 1) % v) \in Int
        BY <3>2, SizesAssumption DEF CircType
      <3>4. (c.tail + ((start + i - 1) % v)) % BufSize \in 0 .. BufSize - 1
        BY <3>3, Cell
      <3> QED
        BY <3>4 DEF CircType
    <2> QED
      BY <2>1
  <1>3. w = ao_write_data_wraparound(c, count, start)
    BY DEF ao_write_data_wraparound
  <1> HIDE DEF v, s
  <1>4. /\ s \in Seq(Int) /\ Len(s) = IF count > 0 THEN count ELSE 0
        /\ count <= 0 => s = <<>>
    BY <1>2, Copied
  <1>5. /\ w.fifo \in Seq(Int) /\ Len(w.fifo) <= FifoSize /\ Len(hw.fifo) <= Len(w.fifo)
        /\ Len(hw.fifo) + Len(s) <= FifoSize => w.n = Len(s) /\ Len(w.fifo) = Len(hw.fifo) + Len(s)
        /\ w.n \in {-1, Len(s)}
        /\ s = <<>> => w.n = 0 /\ w.fifo = hw.fifo
        /\ hw.fifo # <<>> \/ s # <<>> => w.fifo # <<>>
    BY <1>4, PushedOf
  <1> HIDE DEF w
  <1>6. Len(hw.fifo) \in Nat /\ FifoSize \in Nat
    BY SizesAssumption
  <1>7. Len(hw.fifo) + count <= FifoSize => w.n >= 0
    <2>1. CASE count > 0
      BY <1>4, <1>5, <1>6, <2>1
    <2>2. CASE ~ (count > 0)
      BY <1>4, <1>5, <2>2
    <2> QED
      BY <2>1, <2>2
  <1>8. w.n \in Int /\ w.n >= -1 /\ (w.n = 0 => w.fifo = hw.fifo)
    BY <1>4, <1>5
  <1> QED
    BY <1>3, <1>5, <1>7, <1>8 DEF Wrote

\* The states of the control register that the driver writes are states of it.
LEMMA RegisterType ==
  ASSUME NEW h \in HwType
  PROVE  /\ Quiet(h) \in HwType /\ Quiet(h).fsm = h.fsm /\ Quiet(h).armed = h.armed
         /\ Quiet(h).fifo = h.fifo /\ ~ Quiet(h).irq /\ Quiet(h).on = h.on
         /\ Enabled(h) \in HwType /\ Enabled(h).fsm = h.fsm /\ Enabled(h).armed = h.armed
         /\ Enabled(h).fifo = h.fifo /\ Enabled(h).on = h.on
         /\ Held(h) \in HwType /\ Held(h).fsm = h.fsm /\ Held(h).armed = h.armed
         /\ Held(h).fifo = h.fifo /\ Held(h).on = h.on
         /\ Released(h) \in HwType /\ Released(h).fsm = h.fsm /\ Released(h).armed = h.armed
         /\ Released(h).fifo = h.fifo /\ Released(h).on = h.on
         /\ Started(h) \in HwType /\ ~ Started(h).armed /\ Started(h).fifo = h.fifo
         /\ Started(h).irq = h.irq /\ Started(h).on = h.on
  BY DEF HwType, Quiet, Enabled, Held, Released, Started

\* A register in which nothing runs and nothing can start or interrupt.
Still(h) == ~ h.fsm /\ ~ h.armed /\ ~ h.irq

LEMMA StoppedType ==
  ASSUME NEW h \in HwType
  PROVE  /\ ao_stop_immediately(h) \in HwType /\ Still(ao_stop_immediately(h))
         /\ ao_stop_immediately(h).fifo = h.fifo /\ ao_stop_immediately(h).on = h.on
         /\ Off(h) \in HwType /\ (Still(h) => Still(Off(h))) /\ Off(h).fifo = <<>> /\ ~ Off(h).on
         /\ Rewritten(h) \in HwType /\ Still(Rewritten(h))
         /\ Rewritten(h).fifo = <<>> /\ ~ Rewritten(h).on
         /\ Halted(h) \in HwType /\ ~ Halted(h).fsm /\ ~ Halted(h).armed
         /\ Halted(h).fifo = h.fifo /\ Halted(h).irq = h.irq /\ Halted(h).on = h.on
  <1>1. <<>> \in Seq(Int)
    OBVIOUS
  <1> QED
    BY <1>1 DEF HwType, Still, ao_stop_immediately, Off, Rewritten, Halted, Quiet

LEMMA EmptyType ==
  /\ Empty \in CircType /\ Empty.pre = 0 /\ me_circ_buf_values(Empty) = 0
  <1>1. 0 \in 0 .. BufSize - 1 /\ None \in Int /\ 0 % BufSize = 0
    BY SizesAssumption DEF None
  <1> QED
    BY <1>1 DEF Empty, CircType, me_circ_buf_values

LEMMA NoCallType ==
  NoCall \in Calls /\ "idle" \in Location
  BY DEF NoCall, Calls, Status, Idle, Location

LEMMA GotoType ==
  ASSUME AOType, NEW t \in Task, NEW l \in Location, NEW c \in Calls, Goto(t, l, c),
         l \in Writing => "write" \in Op[t]
  PROVE  UserType'
  BY DEF AOType, UserType, Goto

LEMMA ReturnType ==
  ASSUME AOType, NEW t \in Task, Return(t)
  PROVE  UserType'
  BY NoCallType, GotoType DEF Return, Writing

-----------------------------------------------------------------------------
(* What a step has to show *)

Inside == Filling \cup {"write_copy", "write_done"}

LEMMA FreeMeans ==
  ASSUME Inv, Free
  PROVE  (\A u \in Task : pc[u] \notin Inside) /\ isr = "idle" /\ ~ Starting
  BY TaskAssumption DEF Inv, Discipline, Free, Starting, Inside, Filling

\* A step of somebody who takes the lock and leaves it.
LEMMA FreeStep ==
  ASSUME Inv, Free, isr' = isr, \A u \in Task : pc'[u] = pc[u] \/ pc'[u] \notin Inside,
         AOType', Interrupts', Prefixes', Loaded', Writers', IdleIsStopped', OutputIsWatched'
  PROVE  Inv'
  <1>1. (\A u \in Task : pc'[u] \notin Inside) /\ isr' = "idle"
    BY FreeMeans
  <1> QED
    BY <1>1 DEF Inv, Discipline, Sections, Levels, Inside, Filling

\* The same with a step that leaves the hardware stopped, of a stream that ended or was.
LEMMA EndedStep ==
  ASSUME Inv, Free, isr' = isr, \A u \in Task : pc'[u] = pc[u] \/ pc'[u] \notin Inside,
         ~ hw'.fsm, ~ hw'.armed,
         ~ hw'.irq \/ status' \notin Running \cup {"single_run", "single_end"},
         status' \notin Busy \/ UNCHANGED <<status, conf, control, worker>>,
         AOType', Prefixes', Writers'
  PROVE  Inv'
  <1>1. (\A u \in Task : pc'[u] \notin Inside) /\ isr' = "idle" /\ ~ Starting
    BY FreeMeans
  <1>2. IdleIsStopped' /\ Interrupts'
    BY DEF IdleIsStopped, Interrupts
  <1>3. Loaded'
    BY <1>1 DEF Loaded
  <1>4. OutputIsWatched'
    BY <1>1 DEF Inv, OutputIsWatched, Starting, LimitedLoop
  <1> QED
    BY <1>2, <1>3, <1>4, FreeStep

LEMMA StillStep ==
  ASSUME Inv, Free, isr' = isr, \A u \in Task : pc'[u] = pc[u] \/ pc'[u] \notin Inside,
         Still(hw'),
         status' \notin Busy \/ UNCHANGED <<status, conf, control, worker>>,
         AOType', Prefixes', Writers'
  PROVE  Inv'
  BY EndedStep DEF Still

Settled ==
    \A u \in Task : pc'[u] \in Writing => pc[u] \in Writing /\ call'[u].how = call[u].how

LEMMA WritersKept ==
  ASSUME Inv, Settled,
         status' \in Running \cup Failed
            => status \in Running \cup Failed /\ conf'.mode = conf.mode
  PROVE  Writers'
  BY DEF Inv, Writers, Settled

LEMMA PrefixesKept ==
  ASSUME Inv, conf'.mode = conf.mode, circ' = circ,
         status' \in Running \cup Failed => status \in Running \cup Failed,
         status' \in {"stream_configured", "end", "timeout"}
            => status \in Running \cup Failed \cup {"stream_configured", "end", "timeout"},
         hw'.on /\ hw'.fifo = <<>> /\ status \notin Running \cup Failed
            => hw.on /\ hw.fifo = <<>>
  PROVE  Prefixes'
  BY DEF Inv, Prefixes, Prefix, me_circ_buf_values

LEMMA PrefixesEmpty ==
  ASSUME circ' \in CircType, circ'.pre = 0
  PROVE  Prefixes'
  <1>1. me_circ_buf_values(circ') \in Nat
    BY CircBounds
  <1>2. me_circ_buf_values(circ)' \in Nat
    BY <1>1 DEF me_circ_buf_values
  <1> QED
    BY <1>2 DEF Prefixes, Prefix

\* A task that goes elsewhere, not to write.
LEMMA SettledBy ==
  ASSUME AOType, NEW t \in Task, NEW l, NEW c, Goto(t, l, c), l \notin Writing
  PROVE  Settled
  BY DEF Settled, Goto, AOType, UserType

LEMMA ReturnSettled ==
  ASSUME AOType, NEW t \in Task, Return(t)
  PROVE  Settled
  BY SettledBy DEF Return, Writing

LEMMA CancelledType ==
  ASSUME AOType
  PROVE  Cancelled \subseteq ControlType
  BY DEF AOType, Cancelled, ControlType

LEMMA WatchedType ==
  ASSUME AOType, NEW timed \in BOOLEAN
  PROVE  Watched(timed) \in ControlType /\ Watched(timed).flag /\ Watched(timed).queued
  BY DEF AOType, Watched, ControlType

-----------------------------------------------------------------------------
(* Every step preserves the invariant *)

LEMMA InvReset ==
  ASSUME Inv, NEW t \in Task, reset_subdevice(t)
  PROVE  Inv'
  <1>1. Goto(t, "reset_wake", NoCall) /\ "reset_wake" \in Location \ (Writing \cup Inside)
    BY DEF reset_subdevice, Location, Writing, Inside, Filling
  <1>2. UserType' /\ Settled
    BY <1>1, NoCallType, GotoType, SettledBy DEF Inv
  <1>3. hw' \in HwType /\ Still(hw') /\ Len(hw'.fifo) <= FifoSize
    <2>1. Rewritten(hw) \in HwType /\ Still(Rewritten(hw)) /\ Rewritten(hw).fifo = <<>>
      BY StoppedType DEF Inv, AOType
    <2>2. hw' = [Rewritten(hw) EXCEPT !.dac = None] /\ None \in Int
      BY DEF reset_subdevice, None
    <2>3. Len(<<>>) <= FifoSize
      BY SizesAssumption
    <2> QED
      BY <2>1, <2>2, <2>3 DEF HwType, Still
  <1>4. circ' \in CircType /\ circ'.pre = 0
    BY EmptyType DEF reset_subdevice
  <1>5. AOType'
    BY <1>2, <1>3, <1>4, CancelledType DEF reset_subdevice, Inv, AOType, Status, Idle
  <1>6. Writers' /\ Prefixes'
    BY <1>2, <1>4, WritersKept, PrefixesEmpty DEF reset_subdevice, Running, Failed
  <1>7. \A u \in Task : pc'[u] = pc[u] \/ pc'[u] \notin Inside
    BY <1>1 DEF Goto, Inv, AOType, UserType
  <1> QED
    BY <1>3, <1>5, <1>6, <1>7, StillStep DEF reset_subdevice, Busy, Running

\* What the hardware may do by itself: a trigger comes, values are put out, the state
\* machine stops.
Moved ==
    /\ hw' \in HwType /\ Len(hw'.fifo) <= Len(hw.fifo) /\ hw'.on = hw.on /\ hw'.irq = hw.irq
    /\ hw'.fsm \/ hw'.armed => hw.fsm \/ hw.armed
    /\ hw'.armed => hw.armed /\ (hw.fsm \/ (hw'.fsm = hw.fsm /\ hw'.fifo = hw.fifo))
    /\ hw'.fifo = <<>> => hw.fifo = <<>> \/ hw.fsm

LEMMA Unmoved ==
  ASSUME AOType, hw' = hw
  PROVE  Moved
  BY DEF AOType, Moved, HwType

LEMMA Triggered ==
  ASSUME AOType, hw.armed, hw' = Started(hw)
  PROVE  Moved
  <1>1. hw \in HwType /\ Len(hw.fifo) \in Nat
    BY DEF AOType, HwType
  <1>2. /\ hw' \in HwType /\ ~ hw'.armed /\ hw'.fifo = hw.fifo
        /\ hw'.irq = hw.irq /\ hw'.on = hw.on
    BY <1>1, RegisterType
  <1> QED
    BY <1>1, <1>2 DEF Moved

LEMMA StateStops ==
  ASSUME AOType, hw.fsm, hw' = [hw EXCEPT !.fsm = FALSE]
  PROVE  Moved
  <1>1. hw \in HwType /\ Len(hw.fifo) \in Nat
    BY DEF AOType, HwType
  <1>2. /\ hw' \in HwType /\ ~ hw'.fsm /\ hw'.armed = hw.armed /\ hw'.fifo = hw.fifo
        /\ hw'.irq = hw.irq /\ hw'.on = hw.on
    BY <1>1 DEF HwType
  <1> QED
    BY <1>1, <1>2 DEF Moved

\* The parts of the invariant that do not look at the tasks.
LEMMA StreamKept ==
  ASSUME Inv, UNCHANGED <<soft, circ, rest>>, Moved
  PROVE  Interrupts' /\ Prefixes' /\ Loaded' /\ IdleIsStopped'
  <1>1. UNCHANGED <<status, conf, circ, isr>>
    BY DEF soft, rest
  <1>2. Interrupts'
    BY <1>1 DEF Inv, Interrupts, Moved
  <1>3. Prefixes'
    BY <1>1 DEF Inv, Prefixes, Prefix, Moved, me_circ_buf_values, IdleIsStopped, Busy, Running
  <1>4. Loaded'
    <2>1. status' = "run_wait" /\ hw'.armed => ~ hw'.fsm /\ hw'.fifo # <<>>
      BY <1>1 DEF Inv, Loaded, Moved, AOType, HwType
    <2>2. /\ status' \in Running /\ conf'.mode # "continuous" /\ (hw'.fsm \/ hw'.armed)
                => me_circ_buf_values(circ') > 0
          /\ isr' = "fill" /\ conf'.mode # "continuous" => me_circ_buf_values(circ') > 0
      BY <1>1 DEF Inv, Loaded, Moved
    <2> QED
      BY <2>1, <2>2 DEF Loaded, me_circ_buf_values
  <1>5. IdleIsStopped'
    BY <1>1 DEF Inv, IdleIsStopped, Moved
  <1> QED
    BY <1>2, <1>3, <1>4, <1>5

\* A step of nobody's: of the hardware, or of a task that falls asleep.
LEMMA Aside ==
  ASSUME Inv, UNCHANGED <<soft, circ, rest, owner, user>>, asleep' \subseteq Task, Moved
  PROVE  Inv'
  <1>1. UNCHANGED <<status, conf, counts, circ, control, worker, isr, owner, pc, call>>
    BY DEF soft, rest, user
  <1>2. Len(hw'.fifo) \in Nat /\ Len(hw.fifo) \in Nat /\ Len(hw'.fifo) <= Len(hw.fifo)
    BY DEF Inv, AOType, Moved, HwType
  <1>3. AOType'
    BY <1>1, <1>2, SizesAssumption DEF Inv, AOType, UserType, Moved
  <1>4. Discipline' /\ Sections' /\ Writers'
    BY <1>1 DEF Inv, Discipline, Sections, Writers, LimitedLoop
  <1>5. Levels'
    BY <1>1, <1>2, HalfOf DEF Inv, Levels
  <1>6. OutputIsWatched'
    BY <1>1 DEF Inv, OutputIsWatched, Starting, LimitedLoop
  <1> QED
    BY <1>3, <1>4, <1>5, <1>6, StreamKept DEF Inv

\* A step of a task that leaves the stream, its buffer and its control task.
LEMMA Elsewhere ==
  ASSUME Inv, NEW t \in Task, NEW l \in Location \ Filling, NEW c \in Calls, Goto(t, l, c),
         UNCHANGED <<soft, circ, rest>>, Moved, pc[t] \notin Filling,
         asleep' \subseteq Task,
         owner' \in {owner, t} \/ owner' = "nobody",
         owner' # owner => owner \in {"nobody", t},
         l \in Inside => owner' = t,
         l \in Writing => /\ "write" \in Op[t]
                          /\ c.how = "preload" \/ conf.mode # "continuous"
                                => status \notin Running \cup Failed
  PROVE  Inv'
  <1>1. UserType'
    BY GotoType DEF Inv
  <1>2. pc' = [pc EXCEPT ![t] = l] /\ call' = [call EXCEPT ![t] = c]
    BY DEF Goto
  <1>3. pc'[t] = l /\ call'[t] = c
    BY <1>2 DEF Inv, AOType, UserType
  <1>4. \A u \in Task \ {t} : pc'[u] = pc[u] /\ call'[u] = call[u]
    BY <1>2 DEF Inv, AOType, UserType
  <1>5. Len(hw'.fifo) \in Nat /\ Len(hw.fifo) \in Nat /\ Len(hw'.fifo) <= Len(hw.fifo)
    BY DEF Inv, AOType, Moved, HwType
  <1>13. AOType'
    BY <1>1, <1>5, SizesAssumption DEF soft, rest, Inv, AOType, Moved
  <1>6. Discipline'
    BY <1>3, <1>4, TaskAssumption DEF rest, Inv, Discipline, Inside
  <1>7. Sections'
    BY <1>3, <1>4 DEF soft, rest, Inv, Sections, Filling, LimitedLoop
  <1>8. Levels'
    BY <1>3, <1>4, <1>5, HalfOf DEF soft, rest, Inv, Levels, Filling
  <1>9. Interrupts' /\ Prefixes' /\ Loaded' /\ IdleIsStopped'
    BY StreamKept
  <1>10. Writers'
    BY <1>3, <1>4 DEF soft, Inv, Writers
  <1>11. Starting' <=> Starting
    BY <1>3, <1>4 DEF Starting, Filling
  <1>12. OutputIsWatched'
    BY <1>11 DEF soft, rest, Inv, OutputIsWatched, LimitedLoop
  <1> QED
    BY <1>13, <1>6, <1>7, <1>8, <1>9, <1>10, <1>12 DEF Inv

LEMMA InvHardware ==
  ASSUME Inv, hw_trigger \/ hw_convert \/ hw_underrun \/ hw_stop
  PROVE  Inv'
  <1>1. UNCHANGED <<soft, circ, rest, owner, user>> /\ asleep' \subseteq Task
    BY DEF hw_trigger, hw_convert, hw_underrun, hw_stop, Hardware, Inv, AOType
  <1>2. hw \in HwType /\ hw.fifo \in Seq(Int) /\ Len(hw.fifo) \in Nat
    BY DEF Inv, AOType, HwType
  <1>3. CASE hw_trigger
    <2>1. hw' = Started(hw) /\ hw.armed
      BY <1>3 DEF hw_trigger, Hardware
    <2> QED
      BY <1>1, <2>1, Aside, Triggered DEF Inv
  <1>4. CASE hw_convert
    <2> DEFINE f == IF hw.wrap THEN Append(Tail(hw.fifo), Head(hw.fifo)) ELSE Tail(hw.fifo)
               d == IF Head(hw.fifo) = Alone THEN hw.dac ELSE Head(hw.fifo)
    <2>1. hw' = [hw EXCEPT !.dac = d, !.fifo = f] /\ hw.fsm /\ hw.fifo # <<>>
      BY <1>4, <1>2 DEF hw_convert, Hardware, HwType
    <2>2. Head(hw.fifo) \in Int /\ Tail(hw.fifo) \in Seq(Int)
          /\ Len(Tail(hw.fifo)) = Len(hw.fifo) - 1
      BY <1>2, <2>1
    <2>3. f \in Seq(Int) /\ Len(f) <= Len(hw.fifo)
      BY <1>2, <2>2
    <2>4. d \in Int
      BY <1>2, <2>2 DEF HwType
    <2> HIDE DEF f, d
    <2> QED
      BY <1>1, <1>2, <2>1, <2>3, <2>4, Aside DEF Moved, HwType
  <1>5. CASE hw_underrun \/ hw_stop
    <2>1. hw' = [hw EXCEPT !.fsm = FALSE] /\ hw.fsm
      BY <1>5 DEF hw_underrun, hw_stop, Hardware
    <2> QED
      BY <1>1, <2>1, Aside, StateStops DEF Inv
  <1> QED
    BY <1>3, <1>4, <1>5

LEMMA InvAsk ==
  ASSUME Inv, NEW t \in Task, stream_status(t) \/ stream_new_values(t)
  PROVE  Inv'
  <1>1. Moved /\ asleep' \subseteq Task
    BY Unmoved DEF stream_status, stream_new_values, Inv, AOType
  <1>2. pc[t] \notin Filling
    BY DEF stream_status, stream_new_values, Called, Filling
  <1>3. CASE stream_status(t)
    <2>1. PICK c \in Calls : Goto(t, "status_wait", c)
      <3>1. counts.start \in Nat /\ counts.stop \in Nat
        BY DEF Inv, AOType
      <3>2. /\ \A w \in {"idle", "busy"} : [NoCall EXCEPT !.how = w] \in Calls
            /\ [NoCall EXCEPT !.how = "start", !.old = counts.start] \in Calls
            /\ [NoCall EXCEPT !.how = "stop", !.old = counts.stop] \in Calls
        BY <3>1 DEF NoCall, Calls, Status, Idle
      <3> QED
        BY <1>3, <3>2 DEF stream_status
    <2>3. "status_wait" \in Location \ (Filling \cup Inside \cup Writing)
      BY DEF Location, Waits, Filling, Inside, Writing
    <2> QED
      BY <1>1, <1>2, <1>3, <2>1, <2>3, Elsewhere DEF stream_status
  <1>4. CASE stream_new_values(t)
    <2>1. PICK screen \in BOOLEAN, report \in BOOLEAN, timed \in Timed :
             Goto(t, "values_top", [NoCall EXCEPT !.screen = screen, !.report = report,
                                                  !.timed = timed])
      BY <1>4 DEF stream_new_values
    <2> DEFINE c == [NoCall EXCEPT !.screen = screen, !.report = report, !.timed = timed]
    <2>2. c \in Calls
      BY KindsAssumption DEF NoCall, Calls, Status, Idle
    <2>3. "values_top" \in Location \ (Filling \cup Inside \cup Writing)
      BY DEF Location, Waits, Filling, Inside, Writing
    <2> HIDE DEF c
    <2>4. Goto(t, "values_top", c)
      BY <2>1 DEF c
    <2> QED
      BY <1>1, <1>2, <1>4, <2>2, <2>3, <2>4, Elsewhere DEF stream_new_values
  <1> QED
    BY <1>3, <1>4

LEMMA InvRead ==
  ASSUME Inv, NEW t \in Task, single_read(t)
  PROVE  Inv'
  <1>1. Moved
    <2>1. CASE hw' = hw
      BY <2>1, Unmoved DEF Inv
    <2>2. CASE hw' = Started(hw) /\ hw.armed
      BY <2>2, Triggered DEF Inv
    <2> QED
      BY <2>1, <2>2 DEF single_read
  <1>2. CASE UNCHANGED user
    BY <1>1, <1>2, Aside DEF single_read, Inv, AOType
  <1>3. CASE \E timed \in Timed : Goto(t, "read_wait", [NoCall EXCEPT !.timed = timed])
    <2>1. PICK timed \in Timed : Goto(t, "read_wait", [NoCall EXCEPT !.timed = timed])
      BY <1>3
    <2>2. [NoCall EXCEPT !.timed = timed] \in Calls
      BY KindsAssumption DEF NoCall, Calls, Status, Idle
    <2>3. "read_wait" \in Location \ (Filling \cup Inside \cup Writing)
      BY DEF Location, Waits, Filling, Inside, Writing
    <2>4. pc[t] \notin Filling
      BY DEF single_read, Called, Filling
    <2> QED
      BY <1>1, <2>1, <2>2, <2>3, <2>4, Elsewhere DEF single_read, Inv, AOType
  <1> QED
    BY <1>2, <1>3 DEF single_read

\* A call that ends, or goes on with what it knows.
LEMMA InvReturn ==
  ASSUME Inv, NEW t \in Task, Return(t), UNCHANGED <<soft, circ, rest>>, Moved,
         pc[t] \notin Filling, asleep' \subseteq Task,
         owner' = owner \/ (owner = t /\ owner' = "nobody")
  PROVE  Inv'
  <1>1. "idle" \notin Filling \cup Inside \cup Writing
    BY DEF Filling, Inside, Writing
  <1> QED
    BY <1>1, NoCallType, Elsewhere DEF Return

LEMMA InvValues ==
  ASSUME Inv, NEW t \in Task, values_top(t) \/ values_check(t) \/ reset_wake(t)
  PROVE  Inv'
  <1>1. Moved /\ asleep' \subseteq Task
    BY Unmoved DEF values_top, values_check, reset_wake, wake_up, Inv, AOType
  <1>2. pc[t] \notin Filling
    BY DEF values_top, values_check, reset_wake, Filling
  <1>3. UNCHANGED <<soft, circ, rest, owner>>
    BY DEF values_top, values_check, reset_wake
  <1>4. CASE Return(t)
    BY <1>1, <1>2, <1>3, <1>4, InvReturn
  <1>5. ASSUME NEW l \in {"values_wait", "values_top"}, NEW c \in Calls, Goto(t, l, c)
        PROVE  Inv'
    <2>1. l \in Location \ (Filling \cup Inside \cup Writing)
      BY <1>5 DEF Location, Waits, Filling, Inside, Writing
    <2> QED
      BY <1>1, <1>2, <1>3, <1>5, <2>1, Elsewhere
  <1>6. /\ [call[t] EXCEPT !.snap = status, !.old = circ.tail] \in Calls
        /\ [call[t] EXCEPT !.snap = "none", !.old = 0] \in Calls
    <2>1. status \in Status /\ "none" \in Status /\ circ.tail \in Nat /\ call[t] \in Calls
      BY SizesAssumption DEF Inv, AOType, UserType, CircType, Status, Idle
    <2> QED
      BY <2>1 DEF Calls
  <1> QED
    BY <1>4, <1>5, <1>6 DEF values_top, values_check, reset_wake

LEMMA InvWait ==
  ASSUME Inv, NEW t \in Task, wait_ready(t) \/ wait_sleep(t) \/ wait_timeout(t)
  PROVE  Inv'
  <1>1. Moved /\ asleep' \subseteq Task
    BY Unmoved DEF wait_ready, wait_sleep, wait_timeout, Resume, Inv, AOType
  <1>2. CASE wait_sleep(t)
    BY <1>1, <1>2, Aside DEF wait_sleep
  <1>3. CASE wait_ready(t) \/ wait_timeout(t)
    <2>1. PICK late \in BOOLEAN : Resume(t, [call[t] EXCEPT !.late = late])
      <3>1. call[t] = [call[t] EXCEPT !.late = call[t].late] /\ call[t].late \in BOOLEAN
        BY DEF Inv, AOType, UserType, Calls
      <3> QED
        BY <1>3, <3>1 DEF wait_ready, wait_timeout
    <2> DEFINE c == [call[t] EXCEPT !.late = late]
               l == AfterWait[pc[t]]
    <2>2. c \in Calls /\ c.how = call[t].how
      BY DEF Inv, AOType, UserType, Calls
    <2>3. pc[t] \in Waits /\ pc[t] \notin Filling
      BY <1>3 DEF wait_ready, wait_timeout, Waiting, Waits, Filling
    <2>4. l \in Location \ (Filling \cup Inside) /\ (l \in Writing => pc[t] = "write_wait")
      BY <2>3 DEF AfterWait, Waits, Location, Filling, Inside, Writing
    <2>5. pc[t] = "write_wait" => /\ "write" \in Op[t]
                                  /\ c.how = "preload" \/ conf.mode # "continuous"
                                        => status \notin Running \cup Failed
      BY <2>2 DEF Inv, AOType, UserType, Writers, Writing
    <2>6. CASE l = "idle"
      BY <1>1, <2>1, <2>3, <2>6, InvReturn DEF Resume
    <2>7. CASE l # "idle"
      <3>1. Goto(t, l, c) /\ UNCHANGED <<soft, circ, rest, owner, hw>>
        BY <2>1, <2>7 DEF Resume
      <3> HIDE DEF c, l
      <3> QED
        BY <1>1, <2>2, <2>3, <2>4, <2>5, <3>1, Elsewhere
    <2> QED
      BY <2>6, <2>7
  <1> QED
    BY <1>2, <1>3

LEMMA InvConfig ==
  ASSUME Inv, NEW t \in Task, single_config(t) \/ stream_config(t)
  PROVE  Inv'
  <1>1. /\ Rewritten(hw) \in HwType /\ Still(Rewritten(hw)) /\ Rewritten(hw).fifo = <<>>
        /\ ~ Rewritten(hw).on
    BY StoppedType DEF Inv, AOType
  <1>2. Len(<<>>) <= FifoSize
    BY SizesAssumption
  <1>3. /\ UNCHANGED <<pc, call, counts, control, worker, isr, owner, asleep>> /\ Free
        /\ status' \in {"single_configured", "stream_configured"}
    BY DEF single_config, stream_config, rest, user
  <1>4. Settled /\ UserType' /\ status' \in Status
    BY <1>3 DEF Settled, Inv, AOType, UserType, Status, Idle, Single
  <1>5. CASE single_config(t)
    <2>1. PICK b \in BOOLEAN : conf' = [conf EXCEPT !.trig = b]
      BY <1>5, KindsAssumption DEF single_config
    <2>2. /\ conf' \in ConfType /\ conf'.mode = conf.mode /\ (conf'.stop = "inf" <=> conf'.count = 0)
          /\ conf'.wrap => conf'.mode = "hw_wrap"
      BY <2>1 DEF Inv, AOType, ConfType
    <2>3. hw' = [Rewritten(hw) EXCEPT !.rst = FALSE]
      BY <1>5 DEF single_config
    <2>4. hw' \in HwType /\ Still(hw') /\ hw'.fifo = <<>> /\ ~ hw'.on
      BY <1>1, <2>3 DEF HwType, Still
    <2>5. circ' = circ /\ status' = "single_configured"
      BY <1>5 DEF single_config
    <2>6. AOType'
      BY <1>2, <1>3, <1>4, <2>2, <2>4, <2>5 DEF Inv, AOType
    <2>7. Prefixes'
      BY <2>2, <2>4, <2>5, PrefixesKept DEF Running, Failed
    <2>8. Writers'
      BY <1>4, <2>5, WritersKept DEF Running, Failed
    <2> QED
      BY <1>3, <2>4, <2>5, <2>6, <2>7, <2>8, StillStep DEF Busy, Running
  <1>6. CASE stream_config(t)
    <2>1. PICK a \in StreamArgs :
            /\ stream_config_check(a) /\ stream_mode(a) \in Mode
            /\ stream_waits(a) \in Trigger
            /\ conf' = [mode |-> stream_mode(a), wrap |-> stream_mode(a) = "hw_wrap",
                        trig |-> stream_waits(a), stop |-> a.stop.mode,
                         count |-> a.stop.count, until |-> 0]
            /\ hw' = [Rewritten(hw) EXCEPT !.wrap = stream_mode(a) = "hw_wrap", !.dac = None]
      BY <1>6 DEF stream_config
    <2>2. a.stop \in [mode : {"inf", "list", "scan"}, count : Nat]
      BY KindsAssumption DEF StreamArgs
    <2>3. /\ conf' \in ConfType /\ (conf'.stop = "inf" <=> conf'.count = 0)
          /\ conf'.wrap => conf'.mode = "hw_wrap"
      BY <2>1, <2>2, KindsAssumption DEF ConfType, stream_config_check
    <2>4. hw' \in HwType /\ Still(hw') /\ hw'.fifo = <<>>
      <3>1. (stream_mode(a) = "hw_wrap") \in BOOLEAN /\ None \in Int
        BY DEF None
      <3> QED
        BY <1>1, <2>1, <3>1 DEF HwType, Still
    <2>5. circ' \in CircType /\ circ'.pre = 0 /\ status' = "stream_configured"
      BY <1>6, EmptyType DEF stream_config
    <2>6. AOType'
      BY <1>2, <1>3, <1>4, <2>3, <2>4, <2>5 DEF Inv, AOType
    <2>7. Prefixes'
      BY <2>5, PrefixesEmpty
    <2>8. Writers'
      BY <1>4, <2>5, WritersKept DEF Running, Failed
    <2> QED
      BY <1>3, <2>4, <2>5, <2>6, <2>7, <2>8, StillStep DEF Busy, Running
  <1> QED
    BY <1>5, <1>6

LEMMA InvSingleWrite ==
  ASSUME Inv, NEW t \in Task, single_write(t)
  PROVE  Inv'
  <1> DEFINE h == single_loaded(hw)
  <1>1. h \in HwType /\ ~ h.irq /\ h.fifo = <<Alone>>
    <2>1. Quiet(hw) \in HwType /\ ~ Quiet(hw).irq
      BY RegisterType DEF Inv, AOType
    <2>2. <<Alone>> \in Seq(Int)
      BY DEF Alone
    <2> QED
      BY <2>1, <2>2 DEF single_loaded, HwType
  <1>2. <<Alone>> # <<>> /\ Len(<<Alone>>) <= FifoSize
    BY SizesAssumption
  <1>3. UNCHANGED <<conf, counts, circ, worker, isr, owner, asleep>> /\ Free /\ status \in Single
    BY DEF single_write
  <1>4. ~ Starting /\ isr = "idle"
    BY <1>3, FreeMeans
  <1>5. ASSUME status' \in {"single_end", "single_run"}, hw' \in HwType, ~ hw'.irq,
               hw'.fifo = <<Alone>>, UserType', control' \in ControlType, Settled,
               \A u \in Task : pc'[u] = pc[u] \/ pc'[u] \notin Inside,
               status' = "single_run" => control'.flag /\ control'.queued
        PROVE  Inv'
    <2>1. AOType'
      BY <1>2, <1>3, <1>5 DEF Inv, AOType, Status, Idle, Busy, Single
    <2>2. Writers' /\ Interrupts'
      BY <1>5, WritersKept DEF Interrupts, Running, Failed
    <2>3. Prefixes'
      BY <1>2, <1>3, <1>5, PrefixesKept DEF Running, Failed
    <2>4. Loaded'
      BY <1>3, <1>4, <1>5 DEF Loaded, Running
    <2>5. IdleIsStopped' /\ OutputIsWatched'
      BY <1>5 DEF IdleIsStopped, OutputIsWatched, Busy, Running
    <2> QED
      BY <1>3, <1>5, <2>1, <2>2, <2>3, <2>4, <2>5, FreeStep
  <1>6. CASE status' = "single_end" /\ hw' = Started(h) /\ UNCHANGED <<control, user>>
    <2>1. hw' \in HwType /\ ~ hw'.irq /\ hw'.fifo = <<Alone>>
      BY <1>1, <1>6, RegisterType
    <2>2. UserType' /\ Settled /\ control' \in ControlType
      BY <1>6 DEF user, Inv, AOType, UserType, Settled
    <2> QED
      BY <1>5, <1>6, <2>1, <2>2 DEF user
  <1>7. CASE /\ status' = "single_run" /\ hw' = [h EXCEPT !.armed = TRUE]
             /\ \E timed \in Timed, block \in BOOLEAN :
                   /\ control' = Watched(timed)
                   /\ IF block THEN Goto(t, "single_wait", [NoCall EXCEPT !.timed = timed])
                               ELSE UNCHANGED user
    <2>1. hw' \in HwType /\ ~ hw'.irq /\ hw'.fifo = <<Alone>>
      BY <1>1, <1>7 DEF HwType
    <2>2. PICK timed \in Timed :
             /\ control' = Watched(timed)
             /\ Goto(t, "single_wait", [NoCall EXCEPT !.timed = timed]) \/ UNCHANGED user
      BY <1>7
    <2>3. control' \in ControlType /\ control'.flag /\ control'.queued
      BY <2>2, WatchedType, KindsAssumption DEF Inv
    <2>4. CASE UNCHANGED user
      <3>1. UserType' /\ Settled
        BY <2>4 DEF user, Inv, AOType, UserType, Settled
      <3> QED
        BY <1>5, <1>7, <2>1, <2>3, <2>4, <3>1 DEF user
    <2>5. CASE Goto(t, "single_wait", [NoCall EXCEPT !.timed = timed])
      <3>1. [NoCall EXCEPT !.timed = timed] \in Calls
        BY KindsAssumption DEF NoCall, Calls, Status, Idle
      <3>2. "single_wait" \in Location \ (Filling \cup Inside \cup Writing)
        BY DEF Location, Waits, Filling, Inside, Writing
      <3>3. UserType' /\ Settled
        BY <2>5, <3>1, <3>2, GotoType, SettledBy DEF Inv
      <3>4. \A u \in Task : pc'[u] = pc[u] \/ pc'[u] \notin Inside
        BY <2>5, <3>2 DEF Goto, Inv, AOType, UserType
      <3> QED
        BY <1>5, <1>7, <2>1, <2>3, <3>3, <3>4
    <2> QED
      BY <2>2, <2>4, <2>5
  <1> QED
    BY <1>6, <1>7 DEF single_write

\* A call that returns from behind its wait.
LEMMA ReturnFrame ==
  ASSUME Inv, NEW t \in Task, Return(t)
  PROVE  UserType' /\ Settled /\ \A u \in Task : pc'[u] = pc[u] \/ pc'[u] \notin Inside
  <1>1. "idle" \notin Inside
    BY DEF Inside, Filling
  <1>2. \A u \in Task : pc'[u] = pc[u] \/ pc'[u] \notin Inside
    BY <1>1 DEF Return, Goto, Inv, AOType, UserType
  <1> QED
    BY <1>2, ReturnType, ReturnSettled DEF Inv

LEMMA InvChecks ==
  ASSUME Inv, NEW t \in Task, single_check(t) \/ start_check(t)
  PROVE  Inv'
  <1>1. /\ UNCHANGED <<conf, counts, circ, worker, isr, owner, asleep>> /\ Return(t) /\ Free
        /\ pc[t] \notin Filling
    BY DEF single_check, start_check, rest, Filling
  <1>2. CASE UNCHANGED <<status, control, hw>>
    BY <1>1, <1>2, InvReturn, Unmoved DEF soft, rest, Inv, AOType
  <1>3. UserType' /\ Settled /\ \A u \in Task : pc'[u] = pc[u] \/ pc'[u] \notin Inside
    BY <1>1, ReturnFrame
  <1>4. /\ ao_stop_immediately(hw) \in HwType /\ Still(ao_stop_immediately(hw))
        /\ ao_stop_immediately(hw).fifo = hw.fifo /\ ao_stop_immediately(hw).on = hw.on
    BY StoppedType DEF Inv, AOType
  <1>5. CASE /\ status = "single_run" /\ status' = "single_error" /\ control' \in Cancelled
             /\ hw' = Off(ao_stop_immediately(hw))
    <2>1. hw' \in HwType /\ Still(hw') /\ hw'.fifo = <<>> /\ ~ hw'.on
      BY <1>4, <1>5, StoppedType
    <2>2. Len(<<>>) <= FifoSize
      BY SizesAssumption
    <2>3. AOType'
      BY <1>1, <1>3, <1>5, <2>1, <2>2, CancelledType DEF Inv, AOType, Status, Idle, Single
    <2>4. Prefixes' /\ Writers'
      BY <1>1, <1>3, <1>5, <2>1, PrefixesKept, WritersKept DEF Running, Failed
    <2> QED
      BY <1>1, <1>3, <1>5, <2>1, <2>3, <2>4, StillStep DEF Busy, Running
  <1>6. CASE /\ status = "run_wait" /\ status' = "timeout" /\ control' = control
             /\ hw' = ao_stop_immediately(hw)
    <2>1. AOType'
      BY <1>1, <1>3, <1>4, <1>6 DEF Inv, AOType, Status, Idle
    <2>2. Prefixes' /\ Writers'
      BY <1>1, <1>3, <1>6, PrefixesKept, WritersKept DEF Running, Failed
    <2> QED
      BY <1>1, <1>3, <1>4, <1>6, <2>1, <2>2, StillStep DEF Busy, Running
  <1> QED
    BY <1>2, <1>5, <1>6 DEF single_check, start_check, rest

\* What End leaves, with the buffers or without.
LEMMA EndType ==
  ASSUME Inv, NEW keep \in BOOLEAN, End(keep)
  PROVE  /\ hw' \in HwType /\ Len(hw'.fifo) <= FifoSize /\ Still(hw')
         /\ counts' \in [start : Nat, stop : Nat] /\ circ' \in CircType
         /\ \/ circ' = circ /\ hw'.fifo = hw.fifo /\ hw'.on = hw.on
            \/ circ'.pre = 0
  <1>1. /\ ao_stop_immediately(hw) \in HwType /\ Still(ao_stop_immediately(hw))
        /\ ao_stop_immediately(hw).fifo = hw.fifo /\ ao_stop_immediately(hw).on = hw.on
    BY StoppedType DEF Inv, AOType
  <1>2. counts' \in [start : Nat, stop : Nat]
    BY DEF End, Inv, AOType
  <1>3. CASE keep
    BY <1>1, <1>2, <1>3 DEF End, Inv, AOType
  <1>4. CASE ~ keep
    <2> DEFINE h == Off(ao_stop_immediately(hw))
    <2>1. h \in HwType /\ Still(h) /\ h.fifo = <<>>
      BY <1>1, StoppedType
    <2>2. hw' = [h EXCEPT !.dac = None] /\ None \in Int
      BY <1>4 DEF End, None
    <2> HIDE DEF h
    <2>3. hw' \in HwType /\ Still(hw') /\ hw'.fifo = <<>>
      BY <2>1, <2>2 DEF HwType, Still
    <2>4. Len(<<>>) <= FifoSize
      BY SizesAssumption
    <2> QED
      BY <1>2, <1>4, <2>3, <2>4, EmptyType DEF End
  <1> QED
    BY <1>3, <1>4

LEMMA InvStop ==
  ASSUME Inv, NEW t \in Task, stream_stop(t)
  PROVE  Inv'
  <1>1. UNCHANGED <<conf, control, worker, isr, owner, asleep>> /\ Free
    BY DEF stream_stop, rest
  <1>2. PICK how \in StopHow, keep \in Keep, timed \in Timed :
          \/ /\ status \in Running \cup Failed \cup {"end", "timeout"}
             /\ status' = "end" /\ End(keep) /\ UNCHANGED user
          \/ /\ status = "run" /\ status' = "end_wait"
             /\ hw' = IF hw.wrap THEN Quiet([hw EXCEPT !.stop = TRUE]) ELSE hw
             /\ Goto(t, "stop_wait", [NoCall EXCEPT !.keep = keep, !.timed = timed])
             /\ UNCHANGED <<counts, circ>>
    BY DEF stream_stop, Running
  <1>3. keep \in BOOLEAN /\ timed \in BOOLEAN
    BY KindsAssumption
  <1>4. CASE /\ status \in Running \cup Failed \cup {"end", "timeout"}
             /\ status' = "end" /\ End(keep) /\ UNCHANGED user
    <2>1. /\ hw' \in HwType /\ Len(hw'.fifo) <= FifoSize /\ Still(hw')
          /\ counts' \in [start : Nat, stop : Nat] /\ circ' \in CircType
          /\ \/ circ' = circ /\ hw'.fifo = hw.fifo /\ hw'.on = hw.on
             \/ circ'.pre = 0
      BY <1>3, <1>4, EndType
    <2>2. UserType' /\ Settled
      BY <1>4 DEF user, Inv, AOType, UserType, Settled
    <2>3. AOType'
      BY <1>1, <1>4, <2>1, <2>2 DEF Inv, AOType, Status, Idle
    <2>4. Writers'
      BY <1>4, <2>2, WritersKept DEF Running, Failed
    <2>5. Prefixes'
      BY <1>1, <1>4, <2>1, PrefixesKept, PrefixesEmpty DEF Running, Failed
    <2> QED
      BY <1>1, <1>4, <2>1, <2>3, <2>4, <2>5, StillStep DEF user, Busy, Running
  <1>5. CASE /\ status = "run" /\ status' = "end_wait"
             /\ hw' = IF hw.wrap THEN Quiet([hw EXCEPT !.stop = TRUE]) ELSE hw
             /\ Goto(t, "stop_wait", [NoCall EXCEPT !.keep = keep, !.timed = timed])
             /\ UNCHANGED <<counts, circ>>
    <2> DEFINE h == [hw EXCEPT !.stop = TRUE]
    <2>1. /\ hw' \in HwType /\ hw'.fifo = hw.fifo /\ hw'.on = hw.on /\ hw'.fsm = hw.fsm
          /\ hw'.armed = hw.armed /\ (hw'.irq => hw.irq)
      <3>1. /\ h \in HwType /\ h.fifo = hw.fifo /\ h.on = hw.on /\ h.fsm = hw.fsm
            /\ h.armed = hw.armed /\ hw \in HwType
        BY DEF Inv, AOType, HwType
      <3> HIDE DEF h
      <3>2. /\ Quiet(h) \in HwType /\ Quiet(h).fifo = hw.fifo /\ Quiet(h).on = hw.on
            /\ Quiet(h).fsm = hw.fsm /\ Quiet(h).armed = hw.armed /\ ~ Quiet(h).irq
        BY <3>1, RegisterType
      <3>3. hw' = IF hw.wrap THEN Quiet(h) ELSE hw
        BY <1>5 DEF h
      <3> QED
        BY <3>1, <3>2, <3>3
    <2>2. [NoCall EXCEPT !.keep = keep, !.timed = timed] \in Calls
      BY <1>3 DEF NoCall, Calls, Status, Idle
    <2>3. "stop_wait" \in Location \ (Filling \cup Inside \cup Writing)
      BY DEF Location, Waits, Filling, Inside, Writing
    <2>4. UserType' /\ Settled
      BY <1>5, <2>2, <2>3, GotoType, SettledBy DEF Inv
    <2>5. \A u \in Task : pc'[u] = pc[u] \/ pc'[u] \notin Inside
      BY <1>5, <2>3 DEF Goto, Inv, AOType, UserType
    <2>6. AOType'
      BY <1>1, <1>5, <2>1, <2>4 DEF Inv, AOType, Status, Busy, Running
    <2>7. Writers' /\ Prefixes'
      BY <1>1, <1>5, <2>1, <2>4, WritersKept, PrefixesKept DEF Running, Failed
    <2>8. isr = "idle" /\ ~ Starting
      BY <1>1, FreeMeans
    <2>9. Interrupts' /\ IdleIsStopped'
      BY <1>1, <1>5, <2>1 DEF Inv, Interrupts, IdleIsStopped, Busy, Running
    <2>10. Loaded'
      BY <1>1, <1>5, <2>1, <2>8 DEF Inv, Loaded, Running, me_circ_buf_values
    <2>11. OutputIsWatched'
      BY <1>1, <1>5, <2>8 DEF Inv, OutputIsWatched, Busy, Running, LimitedLoop
    <2> QED
      BY <1>1, <2>5, <2>6, <2>7, <2>9, <2>10, <2>11, FreeStep
  <1> QED
    BY <1>2, <1>4, <1>5

LEMMA InvStopEnd ==
  ASSUME Inv, NEW t \in Task, stop_end(t)
  PROVE  Inv'
  <1>1. /\ UNCHANGED <<status, conf, control, worker, isr, owner, asleep>> /\ Return(t) /\ Free
        /\ End(call[t].keep)
    BY DEF stop_end, rest
  <1>2. call[t].keep \in BOOLEAN
    BY DEF Inv, AOType, UserType, Calls
  <1>3. /\ hw' \in HwType /\ Len(hw'.fifo) <= FifoSize /\ Still(hw')
        /\ counts' \in [start : Nat, stop : Nat] /\ circ' \in CircType
        /\ \/ circ' = circ /\ hw'.fifo = hw.fifo /\ hw'.on = hw.on
           \/ circ'.pre = 0
    BY <1>1, <1>2, EndType
  <1>4. UserType' /\ Settled /\ \A u \in Task : pc'[u] = pc[u] \/ pc'[u] \notin Inside
    BY <1>1, ReturnFrame
  <1>5. AOType'
    BY <1>1, <1>3, <1>4 DEF Inv, AOType
  <1>6. Writers'
    BY <1>1, <1>4, WritersKept
  <1>7. Prefixes'
    BY <1>1, <1>3, PrefixesKept, PrefixesEmpty DEF Running, Failed
  <1> QED
    BY <1>1, <1>3, <1>4, <1>5, <1>6, <1>7, StillStep

LEMMA InvWrite ==
  ASSUME Inv, NEW t \in Task, stream_write(t) \/ write_check(t)
  PROVE  Inv'
  <1>1. /\ UNCHANGED <<soft, circ, rest>> /\ Moved /\ asleep' \subseteq Task
        /\ pc[t] \notin Filling
    BY Unmoved DEF stream_write, write_check, Called, Filling, Inv, AOType
  <1>2. CASE stream_write(t)
    <2>1. PICK how \in {"preload", "nonblocking", "blocking"}, n \in Chunk, timed \in Timed :
            /\ how = "preload" \/ conf.mode # "continuous"
                  => status \in {"stream_configured", "end"}
            /\ Goto(t, "write_lock",
                    [NoCall EXCEPT !.left = n, !.timed = timed,
                        !.how = IF conf.mode = "hw_wrap" THEN "preload" ELSE how])
      BY <1>2 DEF stream_write
    <2> DEFINE c == [NoCall EXCEPT !.left = n, !.timed = timed,
                        !.how = IF conf.mode = "hw_wrap" THEN "preload" ELSE how]
    <2>2. c \in Calls /\ (c.how = "preload" => how = "preload" \/ conf.mode # "continuous")
      BY SizesAssumption, KindsAssumption DEF NoCall, Calls, Status, Idle
    <2>3. "write_lock" \in Location \ (Filling \cup Inside)
      BY DEF Location, Waits, Filling, Inside
    <2>4. "write" \in Op[t] /\ owner' = owner
      BY <1>2 DEF stream_write, Called
    <2>5. Goto(t, "write_lock", c)
      BY <2>1
    <2> HIDE DEF c
    <2> QED
      BY <1>1, <2>1, <2>2, <2>3, <2>4, <2>5, Elsewhere DEF Running, Failed
  <1>3. CASE write_check(t)
    <2>1. CASE owner' = t /\ Goto(t, "write_copy", call[t])
      <3>1. /\ call[t] \in Calls /\ "write" \in Op[t]
            /\ call[t].how = "preload" \/ conf.mode # "continuous"
                  => status \notin Running \cup Failed
        BY <1>3 DEF write_check, Inv, AOType, UserType, Writers, Writing
      <3>2. "write_copy" \in Location \ Filling /\ owner = "nobody"
        BY <1>3 DEF write_check, Free, Location, Filling
      <3> QED
        BY <1>1, <2>1, <3>1, <3>2, Elsewhere
    <2>2. CASE Leave(t)
      <3>1. owner' = owner /\ Return(t)
        BY <1>3, <2>2 DEF Leave, write_check, Free
      <3> QED
        BY <1>1, <3>1, InvReturn
    <2> QED
      BY <1>3, <2>1, <2>2 DEF write_check
  <1> QED
    BY <1>2, <1>3

LEMMA InvWriteLock ==
  ASSUME Inv, NEW t \in Task, write_lock(t)
  PROVE  Inv'
  <1>1. /\ UNCHANGED <<soft, rest, asleep>> /\ Free /\ owner' = t
        /\ Goto(t, "write_copy", call[t]) /\ pc[t] = "write_lock"
    BY DEF write_lock
  <1>2. /\ call[t] \in Calls /\ "write" \in Op[t]
        /\ call[t].how = "preload" \/ conf.mode # "continuous"
              => status \notin Running \cup Failed
    BY <1>1 DEF Inv, AOType, UserType, Writers, Writing
  <1>3. "write_copy" \in Location \ Filling /\ owner = "nobody" /\ pc[t] \notin Filling
    BY <1>1 DEF Free, Location, Filling
  <1>4. CASE UNCHANGED <<hw, circ>>
    <2>1. Moved /\ asleep' \subseteq Task
      BY <1>1, <1>4, Unmoved DEF Inv, AOType
    <2> QED
      BY <1>1, <1>2, <1>3, <1>4, <2>1, Elsewhere
  <1>5. CASE /\ call[t].how = "preload" /\ hw' = [hw EXCEPT !.on = TRUE]
             /\ circ' = [circ EXCEPT !.pre = 0]
    <2>1. UNCHANGED <<status, conf, counts, control, worker, isr>>
      BY <1>1 DEF soft, rest
    <2>2. /\ hw' \in HwType /\ hw'.fsm = hw.fsm /\ hw'.armed = hw.armed /\ hw'.irq = hw.irq
          /\ hw'.fifo = hw.fifo /\ circ' \in CircType /\ circ'.pre = 0
      BY <1>5 DEF Inv, AOType, HwType, CircType
    <2>3. UserType'
      BY <1>1, <1>2, <1>3, GotoType DEF Inv
    <2>4. AOType'
      BY <1>1, <2>1, <2>2, <2>3 DEF Inv, AOType
    <2>5. /\ \A u \in Task : pc[u] \notin Inside
          /\ isr' = "idle" /\ ~ Starting
      BY <1>1, <2>1, FreeMeans
    <2>6. pc' = [pc EXCEPT ![t] = "write_copy"] /\ call' = call
      BY <1>1 DEF Goto, Inv, AOType, UserType
    <2>7. \A u \in Task : pc'[u] \in Inside => u = t /\ pc'[u] = "write_copy"
      BY <2>5, <2>6 DEF Inv, AOType, UserType
    <2>8. Discipline' /\ Sections' /\ Levels'
      BY <1>1, <2>5, <2>7 DEF Discipline, Sections, Levels, Inside, Filling
    <2>9. Interrupts' /\ IdleIsStopped'
      BY <2>1, <2>2 DEF Inv, Interrupts, IdleIsStopped
    <2>10. Prefixes'
      BY <2>2, PrefixesEmpty
    <2>11. status \notin Running \cup Failed
      BY <1>2, <1>5
    <2>12. Loaded' /\ Writers'
      BY <2>1, <2>5, <2>11 DEF Loaded, Writers, Running
    <2>13. OutputIsWatched'
      BY <2>1, <2>5 DEF Inv, OutputIsWatched, LimitedLoop
    <2> QED
      BY <2>4, <2>8, <2>9, <2>10, <2>12, <2>13 DEF Inv
  <1> QED
    BY <1>4, <1>5 DEF write_lock

\* A step of a writer inside the lock: the stream and its control task are left alone.
LEMMA InsideStep ==
  ASSUME Inv, NEW t \in Task, pc[t] \in {"write_copy", "write_done"},
         NEW l \in Location \ Filling, NEW c \in Calls, Goto(t, l, c),
         UNCHANGED <<soft, rest, asleep>>,
         l \in Writing => c.how = call[t].how,
         owner' = t \/ (owner' = "nobody" /\ l \notin Inside),
         hw' \in HwType, Len(hw'.fifo) <= FifoSize, hw'.fsm = hw.fsm, hw'.armed = hw.armed,
         hw'.fifo = hw.fifo \/ hw'.fifo # <<>>,
         hw'.irq => hw.irq \/ (status = "run" /\ conf.mode = "continuous"),
         circ' \in CircType,
         conf.mode # "continuous" => me_circ_buf_values(circ') >= me_circ_buf_values(circ),
         Prefixes'
  PROVE  Inv'
  <1>1. UNCHANGED <<status, conf, counts, control, worker, isr>>
    BY DEF soft, rest
  <1>2. owner = t /\ isr = "idle" /\ ~ Starting
    BY TaskAssumption DEF Inv, Discipline, Starting, Filling
  <1>3. pc' = [pc EXCEPT ![t] = l] /\ call' = [call EXCEPT ![t] = c]
    BY DEF Goto
  <1>4. pc'[t] = l /\ call'[t] = c
    BY <1>3 DEF Inv, AOType, UserType
  <1>5. \A u \in Task \ {t} : pc'[u] = pc[u] /\ call'[u] = call[u] /\ pc[u] \notin Inside
    BY <1>2, <1>3 DEF Inv, AOType, UserType, Discipline, Inside
  <1>6. pc[t] \in Writing /\ "write" \in Op[t]
    BY DEF Inv, AOType, UserType, Writing
  <1>7. UserType'
    BY <1>6, GotoType DEF Inv
  <1>8. AOType'
    BY <1>1, <1>7 DEF Inv, AOType
  <1>9. \A u \in Task : pc'[u] \in Inside => u = t /\ pc'[u] \notin Filling
    BY <1>4, <1>5
  <1>10. Discipline' /\ Sections' /\ Levels'
    BY <1>1, <1>2, <1>4, <1>9 DEF Discipline, Sections, Levels, Inside, Filling
  <1>11. Interrupts' /\ IdleIsStopped'
    BY <1>1 DEF Inv, Interrupts, IdleIsStopped
  <1>12. Loaded'
    <2>1. status' = "run_wait" /\ hw'.armed => ~ hw'.fsm /\ hw'.fifo # <<>>
      BY <1>1 DEF Inv, Loaded
    <2>2. status' \in Running /\ conf'.mode # "continuous" /\ (hw'.fsm \/ hw'.armed)
             => me_circ_buf_values(circ') > 0
      <3>1. me_circ_buf_values(circ) \in Nat /\ me_circ_buf_values(circ') \in Nat
        BY CircBounds DEF Inv, AOType
      <3> QED
        BY <1>1, <3>1 DEF Inv, Loaded
    <2> QED
      BY <1>1, <1>2, <2>1, <2>2 DEF Loaded, me_circ_buf_values
  <1>13. Writers'
    BY <1>1, <1>4, <1>5, <1>6 DEF Inv, Writers
  <1>14. OutputIsWatched'
    BY <1>1, <1>2 DEF Inv, OutputIsWatched, LimitedLoop
  <1> QED
    BY <1>8, <1>10, <1>11, <1>12, <1>13, <1>14 DEF Inv

\* More values in the buffer, none of them preloaded.
LEMMA MoreValues ==
  ASSUME Inv, UNCHANGED <<status, conf>>, circ' \in CircType, circ'.pre = circ.pre,
         conf.mode # "continuous" => me_circ_buf_values(circ') >= me_circ_buf_values(circ),
         hw'.on = hw.on,
         status \in {"stream_configured", "end", "timeout"} => hw'.fifo = hw.fifo
  PROVE  Prefixes'
  <1>1. me_circ_buf_values(circ) \in Nat /\ me_circ_buf_values(circ') \in Nat /\ circ.pre \in Nat
    BY CircBounds DEF Inv, AOType, CircType
  <1>2. me_circ_buf_values(circ)' = me_circ_buf_values(circ')
    BY DEF me_circ_buf_values
  <1>3. Prefix => Prefix'
    BY <1>1, <1>2 DEF Prefix
  <1> QED
    BY <1>1, <1>2, <1>3 DEF Inv, Prefixes

\* A writer serves a FIFO that is less than half full: it takes what it is given.
LEMMA WriterFits ==
  ASSUME Inv, NEW t \in Task, write_copy(t)
  PROVE  UNCHANGED soft
  <1> DEFINE filled == ao_get_data_from_user(circ, call[t].left)
             serve == status = "run" /\ hw.fsm /\ conf.mode = "continuous" /\ BelowHalf(hw.fifo)
             w == ao_write_data(hw.fifo, filled, Half, 0)
  <1>1. status' = (IF serve /\ w.n < 0 THEN "fifo_error" ELSE status)
    BY DEF write_copy
  <1>2. conf' = conf /\ counts' = counts
    BY DEF write_copy
  <1>3. w.n \in Int /\ (serve => w.n >= 0)
    <2>1. call[t] \in Calls /\ circ \in CircType /\ hw \in HwType /\ Len(hw.fifo) <= FifoSize
      BY DEF Inv, AOType, UserType
    <2>2. Least(call[t].left, me_circ_buf_space(circ)) \in Nat
          /\ Least(call[t].left, me_circ_buf_space(circ)) <= me_circ_buf_space(circ)
      <3>1. call[t].left \in Nat /\ me_circ_buf_space(circ) \in Nat
        BY <2>1, CircBounds DEF Calls
      <3> QED
        BY <3>1 DEF Least
    <2>3. filled \in CircType
      BY <2>1, <2>2, StoredType DEF ao_get_data_from_user
    <2>4. Wrote(w, hw.fifo, Half)
      <3>1. hw.fifo \in Seq(Int) /\ Half \in Int /\ 0 \in Nat
        BY <2>1, HalfOf DEF HwType
      <3> HIDE DEF filled
      <3> QED
        BY <2>1, <2>3, <3>1, WriteData
    <2>5. BelowHalf(hw.fifo) => Len(hw.fifo) + Half <= FifoSize
      <3>1. Len(hw.fifo) \in Nat
        BY <2>1 DEF HwType
      <3> QED
        BY <3>1, HalfOf DEF BelowHalf
    <2> HIDE DEF w
    <2> QED
      BY <2>4, <2>5 DEF Wrote
  <1>4. w.n \in Int
    BY <1>3
  <1>5. status' = status
    <2> HIDE DEF serve, w
    <2> QED
      BY <1>1, <1>3, <1>4
  <1> QED
    BY <1>2, <1>5 DEF soft

LEMMA InvWriteCopy ==
  ASSUME Inv, NEW t \in Task, write_copy(t)
  PROVE  Inv'
  <1> DEFINE c == call[t]
             n == Least(c.left, me_circ_buf_space(circ))
             filled == ao_get_data_from_user(circ, c.left)
             again == [c EXCEPT !.left = c.left - n]
             serve == status = "run" /\ hw.fsm /\ conf.mode = "continuous" /\ BelowHalf(hw.fifo)
             w == ao_write_data(hw.fifo, filled, Half, 0)
  <1>1. c \in Calls /\ circ \in CircType /\ hw \in HwType /\ Len(hw.fifo) <= FifoSize
    BY DEF Inv, AOType, UserType
  <1>2. n \in Nat /\ n <= me_circ_buf_space(circ) /\ c.left - n \in Nat
    <2>1. c.left \in Nat /\ me_circ_buf_space(circ) \in Nat
      BY <1>1, CircBounds DEF Calls
    <2> QED
      BY <2>1 DEF Least
  <1>3. again \in Calls /\ again.how = c.how
    BY <1>1, <1>2 DEF Calls
  <1>4. /\ filled \in CircType /\ filled.pre = circ.pre
        /\ me_circ_buf_values(filled) = me_circ_buf_values(circ) + n
    BY <1>1, <1>2, StoredType DEF ao_get_data_from_user
  <1>5. me_circ_buf_values(filled) >= me_circ_buf_values(circ)
    <2>1. me_circ_buf_values(circ) \in Nat
      BY <1>1, CircBounds
    <2> QED
      BY <1>2, <1>4, <2>1
  <1>6. pc[t] = "write_copy" /\ owner = t /\ UNCHANGED <<soft, rest, asleep>>
    BY WriterFits DEF write_copy, Inv, Discipline
  <1>7. UNCHANGED <<status, conf>>
    BY <1>6 DEF soft
  <1>8. CASE serve /\ w.n > 0
    <2>1. /\ circ' = Advanced(filled, w.n) /\ hw' = [Held(hw) EXCEPT !.fifo = w.fifo]
          /\ Goto(t, "write_copy", again) /\ owner' = owner
      BY <1>8 DEF write_copy
    <2>2. Wrote(w, hw.fifo, Half)
      <3>1. hw.fifo \in Seq(Int) /\ Half \in Int /\ 0 \in Nat
        BY <1>1, HalfOf DEF HwType
      <3> HIDE DEF filled
      <3> QED
        BY <1>1, <1>4, <3>1, WriteData
    <2> HIDE DEF w, again
    <2>3. circ' \in CircType /\ circ'.pre = circ.pre
      BY <1>4, <1>8, <2>1, <2>2, AdvancedType DEF Wrote
    <2>4. /\ hw' \in HwType /\ hw'.fifo = w.fifo /\ hw'.fsm = hw.fsm /\ hw'.armed = hw.armed
          /\ hw'.on = hw.on
      <3>1. /\ Held(hw) \in HwType /\ Held(hw).fsm = hw.fsm /\ Held(hw).armed = hw.armed
            /\ Held(hw).on = hw.on
        BY <1>1, RegisterType
      <3> QED
        BY <2>1, <2>2, <3>1 DEF HwType, Wrote
    <2>5. Prefixes'
      BY <1>7, <1>8, <2>3, <2>4, MoreValues
    <2>6. "write_copy" \in Location \ Filling
      BY DEF Location, Filling
    <2>7. Len(hw'.fifo) <= FifoSize /\ hw'.fifo # <<>>
      BY <1>8, <2>2, <2>4 DEF Wrote
    <2> QED
      BY <1>3, <1>6, <1>8, <2>1, <2>3, <2>4, <2>5, <2>6, <2>7, InsideStep
  <1>9. CASE ~ (serve /\ w.n > 0)
    <2> DEFINE left == c.left - n
    <2>1. /\ circ' = filled
          /\ hw' = IF serve THEN Released(hw) ELSE hw
          /\ \/ Leave(t)
             \/ Goto(t, "write_done", again) /\ owner' = owner
             \/ owner' = "nobody" /\ Goto(t, "write_wait", again)
      BY <1>9 DEF write_copy
    <2>2. /\ hw' \in HwType /\ hw'.fifo = hw.fifo /\ hw'.fsm = hw.fsm /\ hw'.armed = hw.armed
          /\ hw'.on = hw.on /\ (hw' = hw \/ serve)
      <3>1. /\ Released(hw) \in HwType /\ Released(hw).fsm = hw.fsm
            /\ Released(hw).armed = hw.armed /\ Released(hw).on = hw.on
            /\ Released(hw).fifo = hw.fifo
        BY <1>1, RegisterType
      <3> QED
        BY <1>1, <2>1, <3>1
    <2> HIDE DEF w, again
    <2>3. Prefixes'
      BY <1>4, <1>5, <1>7, <2>1, <2>2, MoreValues
    <2>4. ASSUME NEW l \in {"write_done", "write_wait", "idle"}, NEW k \in Calls,
                 Goto(t, l, k), l # "idle" => k.how = c.how,
                 owner' = t \/ (owner' = "nobody" /\ l # "write_done")
          PROVE  Inv'
      <3>1. l \in Location \ Filling /\ (l # "write_done" => l \notin Inside)
            /\ "idle" \notin Writing
        BY DEF Location, Waits, Filling, Inside, Writing
      <3>2. hw'.irq => hw.irq \/ (status = "run" /\ conf.mode = "continuous")
        BY <2>2
      <3> HIDE DEF filled
      <3> QED
        BY <1>1, <1>4, <1>5, <1>6, <2>1, <2>2, <2>3, <2>4, <3>1, <3>2, InsideStep
    <2> QED
      BY <1>3, <1>6, <2>1, <2>4, NoCallType DEF Leave, Return
  <1> QED
    BY <1>8, <1>9

LEMMA InvWriteDone ==
  ASSUME Inv, NEW t \in Task, write_done(t)
  PROVE  Inv'
  <1> DEFINE w == ao_write_data_pooling(circ, FifoSize, circ.pre)
  <1>1. /\ pc[t] = "write_done" /\ UNCHANGED <<soft, rest, asleep>>
        /\ owner' = "nobody" /\ Goto(t, "idle", NoCall)
    BY DEF write_done, Leave, Return
  <1>2. UNCHANGED <<status, conf>>
    BY <1>1 DEF soft
  <1>3. circ \in CircType /\ hw \in HwType /\ Len(hw.fifo) <= FifoSize
    BY DEF Inv, AOType
  <1>4. "idle" \in Location \ (Filling \cup Inside \cup Writing)
    BY DEF Location, Filling, Inside, Writing
  <1>5. CASE UNCHANGED <<hw, circ>>
    <2>1. me_circ_buf_values(circ) \in Nat /\ me_circ_buf_values(circ') = me_circ_buf_values(circ)
      BY <1>3, <1>5, CircBounds
    <2>2. Prefixes'
      BY <1>2, <1>3, <1>5, <2>1, MoreValues
    <2> QED
      BY <1>1, <1>3, <1>4, <1>5, <2>1, <2>2, NoCallType, InsideStep
  <1>6. CASE /\ call[t].how = "preload" /\ hw' = [hw EXCEPT !.fifo = w.fifo]
             /\ circ' = [circ EXCEPT !.pre = @ + w.n, !.data = Counted(circ, w.n)]
    <2> DEFINE count == Least(FifoSize, FifoSize - Len(hw.fifo))
    <2>1. count \in Int /\ Len(hw.fifo) + count <= FifoSize
      <3> DEFINE m == Len(hw.fifo)
      <3>1. m \in Nat /\ FifoSize \in Nat
        BY <1>3, SizesAssumption DEF HwType
      <3> HIDE DEF m
      <3>2. /\ Least(FifoSize, FifoSize - m) \in Int
            /\ m + Least(FifoSize, FifoSize - m) <= FifoSize
        BY <3>1 DEF Least
      <3> QED
        BY <3>2 DEF m
    <2>2. /\ Wrote(w, hw.fifo, count)
          /\ w.n > 0 => w.n <= me_circ_buf_values(circ) - circ.pre
      <3>1. hw.fifo \in Seq(Int) /\ circ.pre \in Nat
        BY <1>3 DEF HwType, CircType
      <3>2. w = ao_write_data(hw.fifo, circ, count, circ.pre)
        BY DEF ao_write_data_pooling
      <3> HIDE DEF count, w
      <3> QED
        BY <1>3, <2>1, <3>1, <3>2, WriteData
    <2> HIDE DEF w, count
    <2>3. w.n \in Nat
      BY <2>1, <2>2 DEF Wrote
    <2>4. circ' \in CircType /\ circ'.pre = circ.pre + w.n
      <3>1. Counted(circ, w.n) \in Nat
        BY <1>3, <2>3 DEF Counted, CircType
      <3>2. circ.pre + w.n \in Nat
        BY <1>3, <2>3 DEF CircType
      <3> QED
        BY <1>3, <1>6, <3>1, <3>2 DEF CircType
    <2>5. /\ hw' \in HwType /\ hw'.fifo = w.fifo /\ Len(hw'.fifo) <= FifoSize
          /\ hw'.fsm = hw.fsm /\ hw'.armed = hw.armed /\ hw'.irq = hw.irq /\ hw'.on = hw.on
      BY <1>3, <1>6, <2>2 DEF HwType, Wrote
    <2>6. me_circ_buf_values(circ') = me_circ_buf_values(circ) /\ me_circ_buf_values(circ) \in Nat
      BY <1>3, <1>6, CircBounds DEF me_circ_buf_values, CircType
    <2>7. me_circ_buf_values(circ)' = me_circ_buf_values(circ)
      BY <2>6 DEF me_circ_buf_values
    <2>8. status \notin Running \cup Failed
      BY <1>1, <1>6 DEF Inv, Writers, Writing
    <2>9. Prefixes'
      <3>1. conf.mode # "continuous" => circ'.pre <= me_circ_buf_values(circ)
        <4>1. circ.pre \in Nat
          BY <1>3 DEF CircType
        <4>2. conf.mode # "continuous" => circ.pre <= me_circ_buf_values(circ)
          BY DEF Inv, Prefixes
        <4>3. CASE w.n = 0
          BY <2>4, <4>1, <4>2, <4>3
        <4>4. CASE w.n > 0
          BY <2>2, <2>3, <2>4, <2>6, <4>1, <4>4
        <4> QED
          BY <2>3, <4>3, <4>4
      <3>2. CASE w.n = 0
        <4>1. circ'.pre = circ.pre /\ hw'.fifo = hw.fifo
          BY <1>3, <2>2, <2>4, <2>5, <3>2 DEF Wrote, CircType
        <4> QED
          BY <1>2, <2>5, <2>7, <2>8, <3>1, <4>1 DEF Inv, Prefixes, Prefix
      <3>3. CASE w.n # 0
        <4>1. hw'.fifo # <<>>
          BY <2>2, <2>5, <3>3 DEF Wrote
        <4> QED
          BY <1>2, <2>7, <2>8, <3>1, <4>1 DEF Prefixes
      <3> QED
        BY <3>2, <3>3
    <2>10. hw'.fifo = hw.fifo \/ hw'.fifo # <<>>
      BY <2>2, <2>5 DEF Wrote
    <2> QED
      BY <1>1, <1>4, <2>4, <2>5, <2>6, <2>9, <2>10, NoCallType, InsideStep
  <1> QED
    BY <1>5, <1>6 DEF write_done

\* A step of the control task that changes nothing but when it comes back.
LEMMA ControlStep ==
  ASSUME Inv, UNCHANGED <<status, conf, circ, isr, owner, hw, pc, call>>,
         counts' \in [start : Nat, stop : Nat], control' \in ControlType,
         worker' \in WorkerType, asleep' \subseteq Task, OutputIsWatched'
  PROVE  Inv'
  <1>1. AOType'
    BY DEF Inv, AOType, UserType
  <1>2. Discipline' /\ Sections' /\ Levels' /\ Interrupts' /\ Writers' /\ IdleIsStopped'
    BY DEF Inv, Discipline, Sections, Levels, Interrupts, Writers, IdleIsStopped, LimitedLoop
  <1>3. Prefixes' /\ Loaded'
    BY DEF Inv, Prefixes, Prefix, Loaded, me_circ_buf_values
  <1> QED
    BY <1>1, <1>2, <1>3 DEF Inv

\* What the control task finds: the stream goes on, or ends.
LEMMA FoundStep ==
  ASSUME Inv, Free, UNCHANGED <<conf, circ, isr, owner, pc, call, asleep>>, control.flag,
         control' = [control EXCEPT !.queued = FALSE],
         NEW st \in Status, NEW again \in BOOLEAN, NEW signal \in BOOLEAN,
         NEW start \in Nat, NEW stop \in Nat, NEW h \in HwType,
         Found(st, again, signal, start, stop, h), Len(h.fifo) <= FifoSize,
         h.on => hw.on /\ h.fifo = hw.fifo,
         \/ st \in Busy /\ again /\ h = hw
            /\ (st = status \/ (status = "run_wait" /\ st = "run"))
         \/ /\ st \notin Busy /\ ~ h.fsm /\ ~ h.armed
            /\ ~ h.irq \/ st # "single_end"
            /\ st \in Failed \cup {"stream_configured", "end", "timeout"} => status \in Running
            /\ status \in Busy
         \/ st = status /\ st \notin Busy /\ h = hw
  PROVE  Inv'
  <1>1. status' = st /\ hw' = h /\ worker' = [at |-> "post", again |-> again, signal |-> signal]
    BY DEF Found
  <1>2. counts' \in [start : Nat, stop : Nat] /\ worker' \in WorkerType
        /\ control' \in ControlType /\ control'.flag
    <2>1. counts' = [start |-> counts.start + start, stop |-> counts.stop + stop]
      BY DEF Found
    <2>2. counts.start + start \in Nat /\ counts.stop + stop \in Nat
      BY DEF Inv, AOType
    <2>3. worker' \in WorkerType
      BY <1>1 DEF WorkerType
    <2>4. control' \in ControlType /\ control'.flag
      BY DEF Inv, AOType, ControlType
    <2> QED
      BY <2>1, <2>2, <2>3, <2>4
  <1>3. Settled
    BY DEF Settled
  <1>4. AOType'
    BY <1>1, <1>2 DEF Inv, AOType, UserType
  <1>5. CASE /\ st \in Busy /\ again /\ h = hw
             /\ st = status \/ (status = "run_wait" /\ st = "run")
    <2>1. OutputIsWatched'
      BY <1>1, <1>2, <1>5 DEF OutputIsWatched
    <2>2. CASE st = status
      BY <1>1, <1>2, <1>5, <2>1, <2>2, ControlStep DEF Inv, AOType
    <2>3. CASE status = "run_wait" /\ st = "run"
      <3>1. Prefixes' /\ Writers'
        BY <1>1, <1>3, <1>5, <2>3, PrefixesKept, WritersKept DEF Running, Failed
      <3>2. Interrupts' /\ IdleIsStopped' /\ Loaded'
        BY <1>1, <1>5, <2>3 DEF Inv, Interrupts, IdleIsStopped, Loaded, Busy, Running,
                                me_circ_buf_values
      <3> QED
        BY <1>4, <2>1, <3>1, <3>2, FreeStep
    <2> QED
      BY <1>5, <2>2, <2>3
  <1>6. CASE /\ st \notin Busy /\ ~ h.fsm /\ ~ h.armed
             /\ ~ h.irq \/ st # "single_end"
             /\ st \in Failed \cup {"stream_configured", "end", "timeout"} => status \in Running
             /\ status \in Busy
    <2>1. Writers'
      BY <1>1, <1>3, <1>6, WritersKept DEF Busy, Running, Failed
    <2>2. Prefixes'
      BY <1>1, <1>6, PrefixesKept DEF Busy, Running, Failed
    <2> QED
      BY <1>1, <1>4, <1>6, <2>1, <2>2, EndedStep DEF Busy, Running
  <1>7. CASE st = status /\ st \notin Busy /\ h = hw
    <2>1. OutputIsWatched'
      BY <1>1, <1>7 DEF OutputIsWatched
    <2> QED
      BY <1>1, <1>2, <1>7, <2>1, ControlStep DEF Inv, AOType
  <1> QED
    BY <1>5, <1>6, <1>7

LEMMA InvControl ==
  ASSUME Inv, work_control_task
  PROVE  Inv'
  <1>1. /\ control' = [control EXCEPT !.queued = FALSE]
        /\ UNCHANGED <<conf, circ, isr, owner, pc, call, asleep>>
    BY DEF work_control_task, user
  <1>2. CASE ~ control.flag /\ UNCHANGED <<status, counts, worker, hw>>
    <2>1. OutputIsWatched'
      BY <1>1, <1>2 DEF Inv, OutputIsWatched, Starting, LimitedLoop
    <2>2. /\ control' \in ControlType /\ worker' \in WorkerType
          /\ counts' \in [start : Nat, stop : Nat] /\ asleep' \subseteq Task
      BY <1>1, <1>2 DEF Inv, AOType, ControlType
    <2> QED
      BY <1>1, <1>2, <2>1, <2>2, ControlStep
  <1>3. CASE /\ control.flag /\ Free
             /\ control_single \/ control_run_wait \/ control_run \/ control_end_wait
                \/ control_idle
    <2>1. hw \in HwType /\ Len(hw.fifo) <= FifoSize /\ status \in Status /\ 0 \in Nat /\ 1 \in Nat
      BY DEF Inv, AOType
    <2> DEFINE h == ao_stop_immediately(hw)
    <2>2. h \in HwType /\ Still(h) /\ h.fifo = hw.fifo /\ h.on = hw.on
      BY <2>1, StoppedType
    <2> HIDE DEF h
    <2>3. Off(h) \in HwType /\ Still(Off(h)) /\ Off(h).fifo = <<>> /\ ~ Off(h).on
      BY <2>2, StoppedType
    <2>4. Len(<<>>) <= FifoSize
      BY SizesAssumption
    <2>5. /\ Halted(hw) \in HwType /\ ~ Halted(hw).fsm /\ ~ Halted(hw).armed
          /\ Halted(hw).fifo = hw.fifo /\ Halted(hw).on = hw.on
      BY <2>1, StoppedType
    <2>6. CASE control_single
      <3>1. status = "single_run" /\ status \in Busy
        BY <2>6 DEF control_single, Busy
      <3>2. ASSUME NEW st \in {"single_end", "single_error"},
                   Found(st, FALSE, TRUE, 0, 0, Off(h))
            PROVE  Inv'
        <4>1. st \in Status \ Busy /\ st \notin Failed \cup {"stream_configured", "end", "timeout"}
          BY <3>2 DEF Status, Idle, Single, Busy, Running, Failed
        <4> QED
          BY <1>1, <1>3, <2>1, <2>3, <2>4, <3>1, <3>2, <4>1, FoundStep DEF Still
      <3>3. CASE Found("single_run", TRUE, FALSE, 0, 0, hw)
        BY <1>1, <1>3, <2>1, <3>1, <3>3, FoundStep
      <3> QED
        BY <2>6, <3>2, <3>3 DEF control_single, h
    <2>7. CASE control_run_wait
      <3>1. status = "run_wait" /\ status \in Running /\ status \in Busy
        BY <2>7 DEF control_run_wait, Busy, Running
      <3>2. CASE Found("run", TRUE, TRUE, 1, 0, hw)
        <4>1. "run" \in Status /\ "run" \in Busy
          BY DEF Status, Busy, Running
        <4> QED
          BY <1>1, <1>3, <2>1, <3>1, <3>2, <4>1, FoundStep
      <3>3. CASE Ended /\ Found("end", FALSE, TRUE, 0, 0, hw)
        <4>1. "end" \in Status /\ "end" \notin Busy
          BY DEF Status, Idle, Busy, Running
        <4>2. ~ hw.fsm /\ ~ hw.armed
          BY <3>1, <3>3 DEF Ended, Inv, Loaded
        <4> QED
          BY <1>1, <1>3, <2>1, <3>1, <3>3, <4>1, <4>2, FoundStep
      <3>4. CASE Found("timeout", FALSE, TRUE, 0, 0, h)
        <4>1. "timeout" \in Status /\ "timeout" \notin Busy
          BY DEF Status, Idle, Busy, Running
        <4> QED
          BY <1>1, <1>3, <2>1, <2>2, <3>1, <3>4, <4>1, FoundStep DEF Still
      <3>5. CASE Found("run_wait", TRUE, FALSE, 0, 0, hw)
        BY <1>1, <1>3, <2>1, <3>1, <3>5, FoundStep
      <3> QED
        BY <2>7, <3>2, <3>3, <3>4, <3>5 DEF control_run_wait, h
    <2>8. CASE control_run \/ control_end_wait
      <3>1. status \in {"run", "end_wait"} /\ status \in Running /\ status \in Busy
        BY <2>8 DEF control_run, control_end_wait, Busy, Running
      <3>2. CASE Found(status, TRUE, FALSE, 0, 0, hw)
        BY <1>1, <1>3, <2>1, <3>1, <3>2, FoundStep
      <3>3. ASSUME NEW st \in Failed \cup {"end"}, NEW g \in {h, Halted(hw)},
                   Found(st, FALSE, TRUE, 0, 1, g)
            PROVE  Inv'
        <4>1. st \in Status \ Busy /\ st # "single_end"
          BY <3>3 DEF Status, Idle, Busy, Running, Failed
        <4>2. /\ g \in HwType /\ ~ g.fsm /\ ~ g.armed /\ g.fifo = hw.fifo
              /\ g.on = hw.on
          BY <2>2, <2>5 DEF Still
        <4> QED
          BY <1>1, <1>3, <2>1, <3>1, <3>3, <4>1, <4>2, FoundStep
      <3>4. CASE control_run
        <4>1. \/ Found(status, TRUE, FALSE, 0, 0, hw)
              \/ \E st \in Failed \cup {"end"}, g \in {h, Halted(hw)} :
                    Found(st, FALSE, TRUE, 0, 1, g)
          BY <3>4 DEF control_run, Failed, h
        <4> QED
          BY <3>2, <3>3, <4>1
      <3>5. CASE control_end_wait
        <4>1. \/ Found(status, TRUE, FALSE, 0, 0, hw)
              \/ \E g \in {h, Halted(hw)} : Found("end", FALSE, TRUE, 0, 1, g)
          BY <3>5 DEF control_end_wait, h
        <4> QED
          BY <3>2, <3>3, <4>1
      <3> QED
        BY <2>8, <3>4, <3>5
    <2>9. CASE control_idle
      <3>1. Found(status, FALSE, FALSE, 0, 0, hw) /\ status \notin Busy
        BY <2>9 DEF control_idle, Idle, Single, Failed, Busy, Running
      <3> QED
        BY <1>1, <1>3, <2>1, <3>1, FoundStep
    <2> QED
      BY <1>3, <2>6, <2>7, <2>8, <2>9
  <1> QED
    BY <1>2, <1>3 DEF work_control_task

LEMMA InvPost ==
  ASSUME Inv, control_post
  PROVE  Inv'
  <1>1. /\ UNCHANGED <<status, conf, counts, circ, isr, owner, hw, pc, call>>
        /\ control' = [control EXCEPT !.queued = @ \/ (control.flag /\ worker.again)]
        /\ worker' = [at |-> "idle", again |-> FALSE, signal |-> FALSE]
        /\ asleep' \subseteq Task
    BY DEF control_post, soft, user, wake_up, Inv, AOType
  <1>2. control' \in ControlType /\ worker' \in WorkerType
    BY <1>1 DEF Inv, AOType, ControlType, WorkerType
  <1>3. OutputIsWatched'
    <2>1. control'.flag = control.flag
          /\ control'.queued = (control.queued \/ (control.flag /\ worker.again))
      BY <1>1 DEF Inv, AOType, ControlType
    <2> QED
      BY <1>1, <2>1 DEF Inv, OutputIsWatched, Starting, LimitedLoop
  <1>4. counts' \in [start : Nat, stop : Nat]
    BY <1>1 DEF Inv, AOType
  <1> QED
    BY <1>1, <1>2, <1>3, <1>4, ControlStep

LEMMA InvIrq ==
  ASSUME Inv, irq
  PROVE  Inv'
  <1>1. /\ UNCHANGED <<soft, circ, control, worker, hw, pc, call, asleep>> /\ Free
        /\ isr' = "enter" /\ owner' = "isr" /\ hw.irq /\ hw.fsm
    BY DEF irq, user, IrqRequest
  <1>2. UNCHANGED <<status, conf, counts>>
    BY <1>1 DEF soft
  <1>3. \A u \in Task : pc[u] \notin Inside
    BY <1>1, FreeMeans
  <1>4. AOType'
    BY <1>1, <1>2 DEF Inv, AOType, UserType
  <1>5. status \in Running /\ conf.mode # "hw_wrap"
    BY <1>1 DEF Inv, IdleIsStopped, Interrupts, Busy
  <1>6. Discipline' /\ Sections' /\ Levels'
    BY <1>1, <1>2, <1>3, <1>5 DEF Discipline, Sections, Levels, Inside, Filling
  <1>7. Interrupts' /\ Prefixes' /\ Loaded' /\ Writers'
    BY <1>1, <1>2 DEF Inv, Interrupts, Prefixes, Prefix, Loaded, Writers, me_circ_buf_values
  <1>8. IdleIsStopped' /\ OutputIsWatched'
    BY <1>1, <1>2 DEF Inv, IdleIsStopped, OutputIsWatched, Starting, LimitedLoop
  <1> QED
    BY <1>4, <1>6, <1>7, <1>8 DEF Inv

\* A step of the handler inside the lock, of a stream that goes on.
LEMMA HandlerStep ==
  ASSUME Inv, isr # "idle", UNCHANGED <<conf, control, worker, pc, call>>, AOType',
         owner' = "isr" \/ isr' = "idle",
         status' \in Running, status' = "run_wait" => status = "run_wait",
         hw'.fsm \/ hw'.armed => hw.fsm \/ hw.armed,
         hw'.armed => hw.armed /\ hw'.fsm = hw.fsm,
         hw.fifo # <<>> => hw'.fifo # <<>>,
         \/ circ'.pre = 0
         \/ conf.mode # "continuous" /\ circ'.pre < me_circ_buf_values(circ'),
         conf.mode # "continuous" => me_circ_buf_values(circ') = me_circ_buf_values(circ),
         isr' = "fill" => /\ Len(hw'.fifo) < Half
                          /\ conf.mode # "continuous" => me_circ_buf_values(circ) > 0
  PROVE  Inv'
  <1>1. owner = "isr" /\ status \in Running /\ conf.mode # "hw_wrap"
    BY DEF Inv, Discipline, Sections
  <1>2. (\A u \in Task : pc[u] \notin Inside) /\ ~ Starting
    BY <1>1, TaskAssumption DEF Inv, Discipline, Inside, Starting, Filling
  <1>3. Discipline' /\ Sections' /\ Levels'
    BY <1>1, <1>2 DEF Discipline, Sections, Levels, Inside, Filling
  <1>4. Interrupts' /\ Writers'
    BY <1>1 DEF Inv, Interrupts, Writers, Running, Failed
  <1>5. me_circ_buf_values(circ)' = me_circ_buf_values(circ')
    BY DEF me_circ_buf_values
  <1>6. circ'.pre \in Nat /\ me_circ_buf_values(circ') \in Nat
    BY CircBounds DEF AOType, CircType
  <1>7. Prefixes'
    BY <1>5, <1>6 DEF Prefixes, Prefix
  <1>8. Loaded'
    BY <1>1, <1>5 DEF Inv, Loaded
  <1>9. IdleIsStopped' /\ OutputIsWatched'
    BY <1>1, <1>2 DEF Inv, IdleIsStopped, OutputIsWatched, Starting, LimitedLoop, Busy
  <1> QED
    BY <1>3, <1>4, <1>7, <1>8, <1>9 DEF Inv

LEMMA InvIrqEnter ==
  ASSUME Inv, irq_enter
  PROVE  Inv'
  <1>1. /\ isr = "enter" /\ UNCHANGED <<soft, circ, control, worker, pc, call>>
        /\ asleep' \subseteq Task
    BY DEF irq_enter, user, wake_up, Inv, AOType
  <1>2. UNCHANGED <<status, conf, counts>> /\ status \in Running /\ owner = "isr"
    BY <1>1 DEF soft, Inv, Sections, Discipline
  <1>3. hw \in HwType /\ circ \in CircType
    BY DEF Inv, AOType
  <1>4. /\ me_circ_buf_values(circ') = me_circ_buf_values(circ)
        /\ circ'.pre = 0 \/ (conf.mode # "continuous" /\ circ'.pre < me_circ_buf_values(circ'))
    BY <1>1, <1>2 DEF Inv, Prefixes, Prefix
  <1>5. CASE hw.fsm /\ BelowHalf(hw.fifo)
    <2>1. hw' = Quiet(hw) /\ isr' = "fill" /\ owner' = owner
      BY <1>5 DEF irq_enter
    <2>2. /\ hw' \in HwType /\ hw'.fsm = hw.fsm /\ hw'.armed = hw.armed /\ hw'.fifo = hw.fifo
      BY <1>3, <2>1, RegisterType
    <2>3. AOType'
      BY <1>1, <1>2, <2>1, <2>2 DEF Inv, AOType, UserType
    <2>4. Len(hw'.fifo) < Half /\ (conf.mode # "continuous" => me_circ_buf_values(circ) > 0)
      BY <1>2, <1>5, <2>2 DEF BelowHalf, Inv, Loaded
    <2> QED
      BY <1>1, <1>2, <1>4, <2>1, <2>2, <2>3, <2>4, HandlerStep
  <1>6. CASE ~ (hw.fsm /\ BelowHalf(hw.fifo))
    <2>1. /\ hw' = IF hw.fsm THEN [hw EXCEPT !.rst = FALSE] ELSE ao_stop_immediately(hw)
          /\ isr' = "idle" /\ owner' = "nobody"
      BY <1>6 DEF irq_enter
    <2>2. /\ hw' \in HwType /\ hw'.fifo = hw.fifo /\ (hw'.fsm => hw.fsm)
          /\ hw'.armed => hw.armed /\ hw'.fsm = hw.fsm
      <3>1. CASE hw.fsm
        BY <1>3, <2>1, <3>1 DEF HwType
      <3>2. CASE ~ hw.fsm
        BY <1>3, <2>1, <3>2, StoppedType DEF Still
      <3> QED
        BY <3>1, <3>2
    <2>3. AOType'
      BY <1>1, <1>2, <2>1, <2>2 DEF Inv, AOType, UserType
    <2> QED
      BY <1>1, <1>2, <1>4, <2>1, <2>2, <2>3, HandlerStep
  <1> QED
    BY <1>5, <1>6

LEMMA InvIrqFill ==
  ASSUME Inv, irq_fill, UNCHANGED <<conf, control, worker, user>>
  PROVE  Inv'
  <1> DEFINE loop == conf.mode = "sw_wrap"
             v == me_circ_buf_values(circ)
             w == IF loop /\ status # "end_wait"
                  THEN ao_write_data_wraparound(circ, Wanted, circ.pre)
                  ELSE ao_write_data(hw.fifo, circ, Wanted, 0)
             c == IF w.n <= 0 THEN circ
                  ELSE IF loop
                  THEN [circ EXCEPT !.pre = (@ + w.n) % v, !.data = Counted(circ, w.n)]
                  ELSE [Advanced(circ, w.n) EXCEPT !.data = Counted(circ, w.n)]
  <1>1. /\ isr = "fill" /\ circ' = c
        /\ \/ Leaves(c, w.n, w.fifo)
           \/ /\ BelowHalf(w.fifo) /\ hw' = [hw EXCEPT !.fifo = w.fifo]
              /\ UNCHANGED <<status, counts, isr, owner, asleep>>
    BY DEF irq_fill
  <1>2. /\ circ \in CircType /\ hw \in HwType /\ hw.fifo \in Seq(Int) /\ Len(hw.fifo) <= FifoSize
        /\ circ.pre \in Nat /\ circ.data \in Nat /\ conf.until \in Nat
    BY DEF Inv, AOType, HwType, CircType, ConfType
  <1>3. /\ owner = "isr" /\ status \in Running /\ Len(hw.fifo) < Half
        /\ (loop => v > 0) /\ (loop \/ conf.mode = "continuous")
    BY <1>1 DEF Inv, AOType, ConfType, Discipline, Sections, Levels, Loaded
  <1>4. v \in Nat
    BY <1>2, CircBounds
  <1>5. Wanted \in Int /\ Wanted <= Half
    <2>1. conf.until - circ.data \in Int /\ Half \in Int
      BY <1>2, HalfOf
    <2> QED
      BY <2>1, LeastOf DEF Wanted
  <1>6. Wrote(w, hw.fifo, Wanted)
    <2>1. CASE loop /\ status # "end_wait"
      BY <1>2, <1>3, <1>5, <2>1, WriteLoop
    <2>2. CASE ~ (loop /\ status # "end_wait")
      BY <1>2, <1>5, <2>2, WriteData
    <2> QED
      BY <2>1, <2>2
  <1> HIDE DEF w
  <1>7. w.n \in Nat /\ w.fifo \in Seq(Int) /\ Len(w.fifo) <= FifoSize
        /\ (hw.fifo # <<>> => w.fifo # <<>>)
    <2>1. Len(hw.fifo) + Wanted <= FifoSize
      BY <1>2, <1>3, <1>5, HalfOf
    <2> QED
      BY <1>6, <2>1 DEF Wrote
  <1>8. /\ c \in CircType /\ (loop => me_circ_buf_values(c) = v)
        /\ c.pre = 0 \/ (conf.mode # "continuous" /\ c.pre < v)
    <2>1. circ.pre = 0 \/ (conf.mode # "continuous" /\ circ.pre < v)
      BY <1>3 DEF Inv, Prefixes, Prefix
    <2>2. Counted(circ, w.n) \in Nat
      BY <1>2, <1>7 DEF Counted
    <2>3. CASE w.n <= 0
      BY <1>2, <2>1, <2>3
    <2>4. CASE ~ (w.n <= 0) /\ loop
      <3>1. (circ.pre + w.n) % v \in Nat /\ (circ.pre + w.n) % v < v
        <4> HIDE DEF v
        <4> QED
          BY <1>2, <1>3, <1>4, <1>7, <2>4
      <3>2. c = [circ EXCEPT !.pre = (circ.pre + w.n) % v, !.data = Counted(circ, w.n)]
        BY <2>4
      <3>3. c \in CircType /\ c.pre = (circ.pre + w.n) % v
            /\ c.head = circ.head /\ c.tail = circ.tail
        <4> HIDE DEF c, v
        <4> QED
          BY <1>2, <2>2, <3>1, <3>2 DEF CircType
      <3>4. me_circ_buf_values(c) = v
        BY <3>3 DEF me_circ_buf_values
      <3> QED
        BY <2>4, <3>1, <3>3, <3>4
    <2>5. CASE ~ (w.n <= 0) /\ ~ loop
      <3>1. Advanced(circ, w.n) \in CircType /\ Advanced(circ, w.n).pre = circ.pre
        BY <1>2, <1>7, AdvancedType
      <3>2. c = [Advanced(circ, w.n) EXCEPT !.data = Counted(circ, w.n)]
        BY <2>5
      <3>3. c \in CircType /\ c.pre = circ.pre
        BY <2>2, <3>1, <3>2 DEF CircType
      <3> QED
        BY <1>3, <2>1, <2>5, <3>3
    <2> QED
      BY <2>3, <2>4, <2>5
  <1> HIDE DEF c, v
  <1>9. UNCHANGED <<pc, call>>
    BY DEF user
  <1> DEFINE h == [hw EXCEPT !.fifo = w.fifo]
  <1>10. /\ h \in HwType /\ h.fsm = hw.fsm /\ h.armed = hw.armed /\ h.fifo = w.fifo
    BY <1>2, <1>7 DEF HwType
  <1>11. ASSUME status' \in {status, "end_wait"}, counts' = counts, asleep' \subseteq Task,
                hw' \in HwType, hw'.fsm = hw.fsm, hw'.armed = hw.armed, hw'.fifo = w.fifo,
                \/ isr' = "fill" /\ owner' = "isr" /\ Len(w.fifo) < Half
                \/ isr' = "idle" /\ owner' = "nobody"
         PROVE  Inv'
    <2>1. status' \in Running
      BY <1>3, <1>11 DEF Running
    <2>2. AOType'
      BY <1>1, <1>7, <1>8, <1>9, <1>11, <2>1 DEF Inv, AOType, UserType, Status, Busy
    <2>3. /\ conf.mode # "continuous" => loop
          /\ circ' = c
      BY <1>1, <1>3
    <2>4. v = me_circ_buf_values(circ)
      BY DEF v
    <2>5. isr # "idle"
      BY <1>1
    <2>6. /\ circ'.pre = 0
             \/ (conf.mode # "continuous" /\ circ'.pre < me_circ_buf_values(circ'))
          /\ conf.mode # "continuous" => me_circ_buf_values(circ') = me_circ_buf_values(circ)
      BY <1>8, <2>3, <2>4
    <2>7. isr' = "fill" => /\ Len(hw'.fifo) < Half
                           /\ conf.mode # "continuous" => me_circ_buf_values(circ) > 0
      BY <1>3, <1>11, <2>3, <2>4
    <2> QED
      BY <1>7, <1>9, <1>11, <2>1, <2>2, <2>5, <2>6, <2>7, HandlerStep
  <1>12. CASE Leaves(c, w.n, w.fifo)
    <2>1. /\ isr' = "idle" /\ owner' = "nobody" /\ asleep' = {} /\ counts' = counts
          /\ status' \in {status, "end_wait"}
          /\ hw' \in {h, Enabled(h), [h EXCEPT !.irq = Board = "me4600"]}
      BY <1>7, <1>12 DEF Leaves, wake_up
    <2>2. hw' \in HwType /\ hw'.fsm = hw.fsm /\ hw'.armed = hw.armed /\ hw'.fifo = w.fifo
      <3> HIDE DEF h
      <3>1. CASE hw' = h
        BY <1>10, <3>1
      <3>2. CASE hw' = Enabled(h)
        BY <1>10, <3>2, RegisterType
      <3>3. CASE hw' = [h EXCEPT !.irq = Board = "me4600"]
        <4>1. (Board = "me4600") \in BOOLEAN
          OBVIOUS
        <4> QED
          BY <1>10, <3>3, <4>1 DEF HwType
      <3> QED
        BY <2>1, <3>1, <3>2, <3>3
    <2> QED
      BY <1>11, <2>1, <2>2
  <1>13. CASE /\ BelowHalf(w.fifo) /\ hw' = h
              /\ UNCHANGED <<status, counts, isr, owner, asleep>>
    <2>1. asleep' \subseteq Task
      BY <1>13 DEF Inv, AOType
    <2> QED
      BY <1>1, <1>3, <1>10, <1>11, <1>13, <2>1 DEF BelowHalf
  <1> QED
    BY <1>1, <1>12, <1>13

-----------------------------------------------------------------------------
(* The start *)

\* A software loop that a start left to the hardware: the mode says so, ctrl_trg does not.
OwnLoop == conf.mode = "hw_wrap" /\ ~ conf.wrap

\* Such a loop has no end and fits into the FIFO, and nobody writes more to it: another
\* start leaves it to the hardware again, and the interrupt stays off.
Wraps ==
    OwnLoop => /\ conf.stop = "inf" /\ me_circ_buf_values(circ) <= FifoSize
               /\ status # "stream_configured"
               /\ \A t \in Task : pc[t] \notin Writing

\* A start changes what is preloaded of a loop, not its values.
LEMMA StartValues ==
  ASSUME Inv, conf.mode # "continuous"
  PROVE  me_circ_buf_values(StartBuffer) = me_circ_buf_values(circ)
  <1>1. StartBuffer = IF hw.on THEN circ ELSE [circ EXCEPT !.pre = 0, !.data = 0]
    BY DEF StartBuffer
  <1>2. circ \in CircType
    BY DEF Inv, AOType
  <1>3. StartBuffer.head = circ.head /\ StartBuffer.tail = circ.tail
    BY <1>1, <1>2 DEF CircType
  <1> QED
    BY <1>3 DEF me_circ_buf_values

\* How many values a start writes at once.
LEMMA PortionOf ==
  ASSUME NEW until \in Nat, NEW n \in Nat, n > 0
  PROVE  Portion(until, n) \in Nat /\ Portion(until, n) > 0 /\ Portion(until, n) <= n
  BY DEF Portion, Least

\* Part of the buffer of a loop was copied; behind its last value begins its first.
LEMMA PreloadedType ==
  ASSUME NEW c \in CircType, NEW n \in Nat, conf.stop \in {"inf", "list", "scan"},
         c.pre + n <= me_circ_buf_values(c)
  PROVE  LET p == Preloaded(c, n) IN
         /\ p \in CircType /\ me_circ_buf_values(p) = me_circ_buf_values(c)
         /\ p.pre = 0 \/ p.pre < me_circ_buf_values(p)
  <1> DEFINE v == me_circ_buf_values(c)
             pre == IF c.pre + n = v THEN 0 ELSE c.pre + n
             p == [c EXCEPT !.data = Counted(c, n), !.pre = pre]
  <1>1. c.pre \in Nat /\ c.data \in Nat /\ v \in Nat
    BY CircBounds DEF CircType
  <1>2. pre \in Nat /\ (pre = 0 \/ pre < v)
    <2> HIDE DEF v
    <2> QED
      BY <1>1 DEF v
  <1>3. Counted(c, n) \in Nat
    BY <1>1 DEF Counted
  <1>4. p = Preloaded(c, n)
    BY DEF Preloaded, CircType
  <1> HIDE DEF v, pre
  <1>5. p \in CircType /\ p.pre = pre /\ p.head = c.head /\ p.tail = c.tail
    BY <1>2, <1>3 DEF CircType
  <1>6. me_circ_buf_values(p) = v
    BY <1>5 DEF me_circ_buf_values, v
  <1> HIDE DEF p
  <1> QED
    BY <1>2, <1>4, <1>5, <1>6 DEF v

\* The buffer a start begins with, and what it puts into the FIFO.
LEMMA StartFrom ==
  ASSUME Inv, status \in {"stream_configured", "timeout", "end"},
         me_circ_buf_values(StartBuffer) > 0 \/ StartBuffer.pre > 0
  PROVE  LET c == StartBuffer
             v == me_circ_buf_values(c) IN
         /\ c \in CircType /\ v \in Nat
         /\ conf.mode # "continuous" => c.pre <= v /\ v > 0
         /\ hw.fifo = <<>> => c.pre < v
  <1> DEFINE d == IF conf.mode = "continuous" THEN Advanced(circ, circ.pre) ELSE circ
             c == StartBuffer
             v == me_circ_buf_values(c)
  <1>1. circ \in CircType /\ circ.pre \in Nat
    BY DEF Inv, AOType, CircType
  <1>2. d \in CircType /\ d.pre = circ.pre /\ (conf.mode # "continuous" => d = circ)
    BY <1>1, AdvancedType
  <1>3. c = IF hw.on THEN d ELSE [d EXCEPT !.pre = 0, !.data = 0]
    BY DEF StartBuffer
  <1> HIDE DEF d
  <1>4. /\ c \in CircType /\ c.head = d.head /\ c.tail = d.tail
        /\ (hw.on => c.pre = circ.pre) /\ (~ hw.on => c.pre = 0)
    <2> HIDE DEF c
    <2> QED
      BY <1>2, <1>3 DEF CircType
  <1>5. v \in Nat /\ c.pre \in Nat
    BY <1>4, CircBounds DEF CircType
  <1>6. conf.mode # "continuous" => v = me_circ_buf_values(circ)
    BY <1>2, <1>4 DEF me_circ_buf_values
  <1> HIDE DEF c, v
  <1>7. v > 0 \/ c.pre > 0
    BY DEF c, v
  <1>8. conf.mode # "continuous" => c.pre <= v /\ v > 0
    BY <1>1, <1>4, <1>5, <1>6, <1>7 DEF Inv, Prefixes
  <1>9. hw.fifo = <<>> => c.pre < v
    <2> SUFFICES ASSUME hw.fifo = <<>> PROVE c.pre < v
      OBVIOUS
    <2>1. CASE c.pre = 0
      BY <1>5, <1>7, <2>1
    <2>2. CASE c.pre # 0
      <3>1. hw.on /\ c.pre = circ.pre
        BY <1>4, <2>2
      <3>2. Prefix
        BY <3>1 DEF Inv, Prefixes
      <3> QED
        BY <1>6, <2>2, <3>1, <3>2 DEF Prefix
    <2> QED
      BY <2>1, <2>2
  <1> QED
    BY <1>4, <1>5, <1>8, <1>9 DEF c, v

\* What a start leaves behind when it has released the FIFO.
LEMMA StartedStep ==
  ASSUME Inv, LoneStarter, NEW t \in Task, Free, "start" \in Op[t], NEW c \in Calls,
         Goto(t, "start_fill", c), owner' = t, UNCHANGED <<counts, rest, asleep>>,
         status' = "run_wait", conf' \in ConfType, conf'.stop = "inf" <=> conf'.count = 0,
         conf'.wrap => conf'.mode = "hw_wrap", hw' \in HwType, Len(hw'.fifo) <= FifoSize, hw'.fifo # <<>>, hw'.armed => ~ hw'.fsm,
         conf'.mode = "hw_wrap" => ~ hw'.irq, c.half => Len(hw'.fifo) < Half,
         circ' \in CircType,
         \/ circ'.pre = 0
         \/ conf'.mode # "continuous" /\ circ'.pre < me_circ_buf_values(circ'),
         conf'.mode # "continuous" => me_circ_buf_values(circ') > 0
  PROVE  Inv'
  <1>1. UNCHANGED <<control, worker, isr>> /\ asleep' = asleep /\ counts' = counts
    BY DEF rest
  <1>2. isr' = "idle" /\ \A u \in Task : pc[u] \notin Inside
    BY <1>1, FreeMeans
  <1>3. pc' = [pc EXCEPT ![t] = "start_fill"] /\ call' = [call EXCEPT ![t] = c]
    BY DEF Goto
  <1>4. pc'[t] = "start_fill" /\ call'[t] = c
    BY <1>3 DEF Inv, AOType, UserType
  <1>5. \A u \in Task \ {t} : pc'[u] = pc[u] /\ pc'[u] \notin Inside
    BY <1>2, <1>3 DEF Inv, AOType, UserType
  <1>6. "start_fill" \in Location /\ "start_fill" \notin Writing
    BY DEF Location, Writing
  <1>7. UserType'
    BY <1>6, GotoType DEF Inv
  <1>8. AOType'
    BY <1>1, <1>7 DEF Inv, AOType, Status, Busy, Running
  <1>9. Discipline' /\ Sections' /\ Levels'
    BY <1>2, <1>4, <1>5 DEF Discipline, Sections, Levels, Inside, Filling
  <1>10. Interrupts' /\ IdleIsStopped'
    BY DEF Interrupts, IdleIsStopped, Busy, Running
  <1>11. Prefixes'
    <2>1. me_circ_buf_values(circ') \in Nat /\ circ'.pre \in Nat
      BY CircBounds DEF CircType
    <2>2. me_circ_buf_values(circ)' = me_circ_buf_values(circ')
      BY DEF me_circ_buf_values
    <2> QED
      BY <2>1, <2>2 DEF Prefixes, Prefix
  <1>12. Loaded'
    <2>1. me_circ_buf_values(circ)' = me_circ_buf_values(circ')
      BY DEF me_circ_buf_values
    <2> QED
      BY <1>2, <2>1 DEF Loaded
  <1>13. Writers'
    <2>1. \A u \in Task : pc'[u] \in Writing => u # t /\ "write" \in Op[u]
      BY <1>4, <1>6, <1>7 DEF UserType
    <2> QED
      BY <2>1 DEF LoneStarter, Writers
  <1>14. OutputIsWatched'
    BY <1>4 DEF OutputIsWatched, Starting
  <1> QED
    BY <1>8, <1>9, <1>10, <1>11, <1>12, <1>13, <1>14 DEF Inv

LEMMA InvStart ==
  ASSUME Inv, Wraps, LoneStarter, NEW t \in Task, stream_start(t)
  PROVE  Inv'
  <1> DEFINE c == StartBuffer
             values == me_circ_buf_values(c)
             until == Until(values)
             first == IF hw.fifo = <<>>
                      THEN ao_write_data(hw.fifo, c, Portion(until, FifoSize), c.pre)
                      ELSE [n |-> 0, fifo |-> hw.fifo]
             loops == /\ conf.mode # "continuous" /\ conf.stop = "inf" /\ values <= FifoSize
             fifo == IF loops THEN ao_write_data(first.fifo, c, values, c.pre + first.n).fifo
                              ELSE first.fifo
             wrap == conf.wrap \/ loops
             ready == [Quiet(hw) EXCEPT !.on = TRUE, !.fifo = fifo, !.wrap = wrap,
                                        !.halt = FALSE, !.stop = FALSE]
             armed == IF BelowHalf(fifo) \/ wrap THEN ready ELSE Enabled(ready)
  <1>1. /\ Called(t, "start") /\ Free
        /\ status \in {"stream_configured", "timeout", "end"}
        /\ values > 0 \/ c.pre > 0
        /\ first.n >= 0
        /\ conf' = [conf EXCEPT !.until = until, !.mode = IF loops THEN "hw_wrap" ELSE @]
        /\ circ' = IF conf.mode = "continuous" THEN [Advanced(c, first.n) EXCEPT !.pre = 0]
                                               ELSE Preloaded(c, first.n)
        /\ status' = "run_wait"
        /\ hw' \in {[armed EXCEPT !.armed = TRUE], Started(armed)}
        /\ owner' = t
        /\ UNCHANGED <<counts, rest, asleep>>
    BY DEF stream_start
  <1>2. PICK k \in Calls : Goto(t, "start_fill", k) /\ k.half = BelowHalf(fifo)
    <2> HIDE DEF fifo
    <2>1. PICK block \in BOOLEAN, timed \in Timed :
             Goto(t, "start_fill", [NoCall EXCEPT !.half = BelowHalf(fifo),
                                                  !.block = block, !.timed = timed])
      BY DEF stream_start, fifo
    <2> DEFINE k == [NoCall EXCEPT !.half = BelowHalf(fifo), !.block = block, !.timed = timed]
    <2>2. BelowHalf(fifo) \in BOOLEAN
      BY DEF BelowHalf
    <2>3. k \in Calls /\ k.half = BelowHalf(fifo)
      BY <2>2, KindsAssumption, NoCallType DEF NoCall, Calls
    <2> HIDE DEF k
    <2>4. Goto(t, "start_fill", k)
      BY <2>1 DEF k
    <2> QED
      BY <2>3, <2>4
  <1>3. /\ c \in CircType /\ values \in Nat
        /\ conf.mode # "continuous" => c.pre <= values /\ values > 0
        /\ hw.fifo = <<>> => c.pre < values
    BY <1>1, StartFrom
  <1>4. c.pre \in Nat /\ conf \in ConfType /\ (conf.stop = "inf" <=> conf.count = 0)
        /\ (conf.wrap => conf.mode = "hw_wrap")
        /\ hw \in HwType /\ hw.fifo \in Seq(Int) /\ Len(hw.fifo) <= FifoSize
        /\ ~ hw.fsm /\ ~ hw.armed
    BY <1>1, <1>3 DEF Inv, AOType, CircType, HwType, IdleIsStopped, Busy, Running
  <1>5. until \in Nat
    <2> HIDE DEF values
    <2>1. conf.count \in Nat
      BY <1>4 DEF ConfType
    <2>2. conf.count * values \in Nat
      BY <1>3, <2>1
    <2> QED
      BY <2>1, <2>2 DEF Until
  <1>6. /\ first.n \in Nat /\ first.fifo \in Seq(Int) /\ Len(first.fifo) <= FifoSize
        /\ first.fifo # <<>>
        /\ conf.mode # "continuous" => c.pre + first.n <= values
    <2>1. CASE hw.fifo = <<>>
      <3> DEFINE p == Portion(until, FifoSize)
                 w == ao_write_data(hw.fifo, c, p, c.pre)
      <3>1. first = w
        BY <2>1
      <3>2. p \in Int /\ p > 0
        BY <1>5, PortionOf, SizesAssumption
      <3> HIDE DEF p
      <3>3. /\ Wrote(w, hw.fifo, p) /\ (w.n > 0 => w.n <= values - c.pre)
            /\ p > 0 /\ c.pre < values => w.fifo # <<>>
        BY <1>3, <1>4, <3>2, WriteData
      <3> HIDE DEF c, values, first, w
      <3> QED
        BY <1>1, <1>3, <1>4, <2>1, <3>1, <3>2, <3>3 DEF Wrote
    <2>2. CASE hw.fifo # <<>>
      <3>1. first.n = 0 /\ first.fifo = hw.fifo
        BY <2>2
      <3> HIDE DEF c, values, first
      <3> QED
        BY <1>3, <1>4, <2>2, <3>1
    <2> QED
      BY <2>1, <2>2
  <1> HIDE DEF first
  <1>7. fifo \in Seq(Int) /\ Len(fifo) <= FifoSize /\ fifo # <<>>
    <2>1. CASE loops
      <3> DEFINE w == ao_write_data(first.fifo, c, values, c.pre + first.n)
      <3>1. c.pre + first.n \in Nat /\ values \in Int
        BY <1>3, <1>4, <1>6
      <3>2. Wrote(w, first.fifo, values)
        BY <1>3, <1>6, <3>1, WriteData
      <3>3. fifo = w.fifo
        BY <2>1
      <3> HIDE DEF w, fifo
      <3> QED
        BY <1>6, <3>2, <3>3 DEF Wrote
    <2>2. CASE ~ loops
      BY <1>6, <2>2
    <2> QED
      BY <2>1, <2>2
  <1> HIDE DEF fifo
  <1>8. /\ ready \in HwType /\ ready.fifo = fifo /\ ~ ready.irq /\ ~ ready.fsm
        /\ ~ ready.armed
    <2>1. /\ Quiet(hw) \in HwType /\ ~ Quiet(hw).fsm /\ ~ Quiet(hw).armed /\ ~ Quiet(hw).irq
      BY <1>4, RegisterType
    <2>2. wrap \in BOOLEAN
      BY <1>4 DEF ConfType
    <2> HIDE DEF wrap
    <2> QED
      BY <1>7, <2>1, <2>2 DEF HwType
  <1>9. conf.mode = "hw_wrap" => wrap
    <2> SUFFICES ASSUME conf.mode = "hw_wrap", ~ conf.wrap PROVE loops
      OBVIOUS
    <2>1. conf.stop = "inf" /\ me_circ_buf_values(circ) <= FifoSize
      BY DEF Wraps, OwnLoop
    <2>2. values = me_circ_buf_values(circ)
      BY StartValues
    <2> QED
      BY <2>1, <2>2
  <1>10. /\ armed \in HwType /\ armed.fifo = fifo /\ ~ armed.fsm /\ ~ armed.armed
         /\ wrap => ~ armed.irq
    <2>1. CASE BelowHalf(fifo) \/ wrap
      <3>1. armed = ready
        BY <2>1
      <3> HIDE DEF armed, ready
      <3> QED
        BY <1>8, <3>1
    <2>2. CASE ~ (BelowHalf(fifo) \/ wrap)
      <3>1. armed = Enabled(ready) /\ ~ wrap
        BY <2>2
      <3> HIDE DEF armed, ready
      <3> QED
        BY <1>8, <3>1, RegisterType
    <2> QED
      BY <2>1, <2>2
  <1> HIDE DEF armed, ready
  <1>11. /\ hw' \in HwType /\ hw'.fifo = fifo /\ (hw'.armed => ~ hw'.fsm)
         /\ wrap => ~ hw'.irq
    <2>1. CASE hw' = [armed EXCEPT !.armed = TRUE]
      BY <1>10, <2>1 DEF HwType
    <2>2. CASE hw' = Started(armed)
      BY <1>10, <2>2, RegisterType
    <2> QED
      BY <1>1, <2>1, <2>2
  <1>12. /\ conf' \in ConfType /\ conf'.stop = conf.stop /\ conf'.count = conf.count
         /\ conf'.wrap => conf'.mode = "hw_wrap"
         /\ conf'.mode = conf.mode \/ (conf'.mode = "hw_wrap" /\ conf.mode # "continuous" /\ wrap)
    <2>1. CASE loops
      <3>1. conf' = [conf EXCEPT !.until = until, !.mode = "hw_wrap"]
        BY <1>1, <2>1
      <3> HIDE DEF until
      <3> QED
        BY <1>4, <1>5, <2>1, <3>1 DEF ConfType
    <2>2. CASE ~ loops
      <3>1. conf' = [conf EXCEPT !.until = until]
        BY <1>1, <1>4, <2>2 DEF ConfType
      <3> HIDE DEF until
      <3> QED
        BY <1>4, <1>5, <3>1 DEF ConfType
    <2> QED
      BY <2>1, <2>2
  <1>13. conf'.mode = "hw_wrap" => ~ hw'.irq
    BY <1>9, <1>11, <1>12
  <1>14. /\ circ' \in CircType
         /\ \/ circ'.pre = 0
            \/ conf'.mode # "continuous" /\ circ'.pre < me_circ_buf_values(circ')
         /\ conf'.mode # "continuous" => me_circ_buf_values(circ') > 0
    <2>1. CASE conf.mode = "continuous"
      <3> DEFINE d == Advanced(c, first.n)
      <3>1. circ' = [d EXCEPT !.pre = 0] /\ d \in CircType
        BY <1>1, <1>3, <1>6, <2>1, AdvancedType
      <3> HIDE DEF d
      <3> QED
        BY <1>12, <2>1, <3>1 DEF CircType
    <2>2. CASE conf.mode # "continuous"
      <3>1. circ' = Preloaded(c, first.n) /\ c.pre + first.n <= values /\ values > 0
        BY <1>1, <1>3, <1>6, <2>2
      <3>2. conf.stop \in {"inf", "list", "scan"}
        BY <1>4 DEF ConfType
      <3>3. /\ circ' \in CircType /\ me_circ_buf_values(circ') = values
            /\ circ'.pre = 0 \/ circ'.pre < me_circ_buf_values(circ')
        BY <1>3, <1>6, <3>1, <3>2, PreloadedType
      <3> HIDE DEF values
      <3> QED
        BY <1>12, <2>2, <3>1, <3>3
    <2> QED
      BY <2>1, <2>2
  <1>15. k.half => Len(hw'.fifo) < Half
    BY <1>2, <1>11 DEF BelowHalf
  <1>16. "start" \in Op[t] /\ Free
    BY <1>1 DEF Called
  <1>17. conf'.stop = "inf" <=> conf'.count = 0
    BY <1>4, <1>12
  <1> HIDE DEF c, values, until, loops, wrap
  <1>18. Len(hw'.fifo) <= FifoSize /\ hw'.fifo # <<>>
    BY <1>7, <1>11
  <1> QED
    BY <1>1, <1>2, <1>11, <1>12, <1>13, <1>14, <1>15, <1>16, <1>17, <1>18, StartedStep

\* A step of a start behind that, up to where it leaves the lock: with the control task
\* scheduled, or, in a limited loop only, without.
LEMMA FillStep ==
  ASSUME Inv, NEW t \in Task, pc[t] \in Filling, UNCHANGED <<soft, worker, isr, asleep>>,
         NEW l \in {"start_loop", "start_wait", "idle"}, NEW c \in Calls, Goto(t, l, c),
         \/ l = "start_loop" /\ LimitedLoop /\ UNCHANGED <<owner, control>>
         \/ l = "idle" /\ LimitedLoop /\ owner' = "nobody" /\ control' = control
         \/ /\ l # "start_loop" /\ owner' = "nobody"
            /\ control' \in ControlType /\ control'.flag /\ control'.queued,
         hw' \in HwType, Len(hw'.fifo) <= FifoSize, hw'.fsm = hw.fsm, hw'.armed = hw.armed,
         hw'.fifo = hw.fifo \/ hw'.fifo # <<>>,
         conf.mode = "hw_wrap" => hw'.irq = hw.irq,
         circ' \in CircType,
         \/ circ'.pre = 0
         \/ conf.mode # "continuous" /\ circ'.pre < me_circ_buf_values(circ'),
         conf.mode # "continuous" => me_circ_buf_values(circ') = me_circ_buf_values(circ)
  PROVE  Inv'
  <1>1. UNCHANGED <<status, conf, counts, worker, isr, asleep>>
    BY DEF soft
  <1>2. owner = t /\ isr = "idle" /\ status = "run_wait"
    BY TaskAssumption DEF Inv, Discipline, Sections
  <1>3. pc' = [pc EXCEPT ![t] = l] /\ call' = [call EXCEPT ![t] = c]
    BY DEF Goto
  <1>4. pc'[t] = l /\ call'[t] = c
    BY <1>3 DEF Inv, AOType, UserType
  <1>5. \A u \in Task \ {t} : /\ pc'[u] = pc[u] /\ call'[u] = call[u]
                              /\ pc[u] \notin Inside
    BY <1>2, <1>3 DEF Inv, AOType, UserType, Discipline, Inside
  <1>6. l \in Location /\ l \notin Writing /\ (l \in Inside => l = "start_loop")
    BY DEF Location, Waits, Writing, Inside, Filling
  <1>7. UserType'
    BY <1>6, GotoType DEF Inv
  <1>8. AOType'
    BY <1>1, <1>7 DEF Inv, AOType
  <1>9. Discipline' /\ Sections' /\ Levels'
    BY <1>1, <1>2, <1>4, <1>5, <1>6 DEF Discipline, Sections, Levels, Inside, Filling, LimitedLoop
  <1>10. Interrupts' /\ IdleIsStopped'
    BY <1>1, <1>2 DEF Inv, Interrupts, IdleIsStopped
  <1>11. me_circ_buf_values(circ)' = me_circ_buf_values(circ') /\ me_circ_buf_values(circ') \in Nat
    BY CircBounds DEF me_circ_buf_values
  <1>12. Prefixes'
    BY <1>1, <1>11 DEF Prefixes, Prefix, CircType
  <1>13. Loaded'
    BY <1>1, <1>2, <1>11 DEF Inv, Loaded
  <1>14. Writers'
    BY <1>1, <1>4, <1>5, <1>6 DEF Inv, Writers
  <1>15. OutputIsWatched'
    BY <1>1, <1>4 DEF OutputIsWatched, Starting, LimitedLoop
  <1> QED
    BY <1>8, <1>9, <1>10, <1>12, <1>13, <1>14, <1>15 DEF Inv

\* The control task is scheduled, and the call ends or waits.
LEMMA ScheduledTask ==
  ASSUME Inv, NEW t \in Task, Scheduled(t)
  PROVE  /\ \E l \in {"start_wait", "idle"}, c \in Calls : Goto(t, l, c)
         /\ owner' = "nobody" /\ control' \in ControlType /\ control'.flag /\ control'.queued
  <1>1. call[t].timed \in BOOLEAN
    BY DEF Inv, AOType, UserType, Calls
  <1>2. owner' = "nobody" /\ control' \in ControlType /\ control'.flag /\ control'.queued
    BY <1>1, WatchedType DEF Scheduled, Inv
  <1>3. [NoCall EXCEPT !.timed = call[t].timed] \in Calls
    BY <1>1, NoCallType DEF Calls
  <1> QED
    BY <1>2, <1>3, NoCallType DEF Scheduled, Return

\* The FIFO after more values, with the interrupt as its level asks for.
LEMMA FilledType ==
  ASSUME Inv, NEW f \in Seq(Int), Len(f) <= FifoSize, hw.fifo # <<>> => f # <<>>,
         NEW h \in {[hw EXCEPT !.fifo = f], IfHalfFull([hw EXCEPT !.fifo = f])}
  PROVE  /\ h \in HwType /\ h.fifo = f /\ h.fsm = hw.fsm /\ h.armed = hw.armed
         /\ h.fifo = hw.fifo \/ h.fifo # <<>>
  <1> DEFINE g == [hw EXCEPT !.fifo = f]
  <1>1. g \in HwType /\ g.fifo = f /\ g.fsm = hw.fsm /\ g.armed = hw.armed
    BY DEF Inv, AOType, HwType
  <1>2. h = g \/ h = Enabled(g)
    BY DEF IfHalfFull
  <1> HIDE DEF g
  <1>3. h \in HwType /\ h.fifo = f /\ h.fsm = hw.fsm /\ h.armed = hw.armed
    BY <1>1, <1>2, RegisterType
  <1>4. h.fifo = hw.fifo \/ h.fifo # <<>>
    BY <1>3
  <1> QED
    BY <1>3, <1>4

LEMMA InvStartFill ==
  ASSUME Inv, NEW t \in Task, start_fill(t)
  PROVE  Inv'
  <1> DEFINE count == Portion(conf.until, Half)
             w == ao_write_data(hw.fifo, circ, count, circ.pre)
             fills == conf.mode # "hw_wrap" /\ call[t].half
             fails == fills /\ w.n < 0
             v == me_circ_buf_values(circ)
  <1>1. /\ pc[t] = "start_fill"
        /\ circ' = IF ~ fills \/ fails THEN circ
                   ELSE IF conf.mode = "continuous" THEN Advanced(circ, w.n)
                   ELSE Preloaded(circ, w.n)
        /\ hw' = IF ~ fills THEN hw
                 ELSE IF fails THEN [hw EXCEPT !.fifo = w.fifo]
                 ELSE IfHalfFull([hw EXCEPT !.fifo = w.fifo])
        /\ ~ fails => \/ /\ ShortLoop /\ Goto(t, "start_loop", call[t])
                         /\ UNCHANGED <<control, owner>>
                      \/ ~ ShortLoop /\ Scheduled(t)
        /\ UNCHANGED <<soft, worker, isr, asleep>>
    BY DEF start_fill
  <1>2. pc[t] \in Filling /\ status = "run_wait"
    BY <1>1 DEF Inv, Sections, Filling
  <1>3. /\ circ \in CircType /\ circ.pre \in Nat /\ hw \in HwType /\ hw.fifo \in Seq(Int)
        /\ Len(hw.fifo) <= FifoSize /\ conf.until \in Nat
        /\ conf.stop \in {"inf", "list", "scan"} /\ call[t] \in Calls
    BY DEF Inv, AOType, UserType, CircType, HwType, ConfType
  <1>4. count \in Nat /\ count <= Half
    BY <1>3, PortionOf, HalfOf
  <1>5. Wrote(w, hw.fifo, count) /\ (w.n > 0 => w.n <= v - circ.pre)
    <2> HIDE DEF count
    <2>1. /\ circ \in CircType /\ circ.pre \in Nat /\ hw.fifo \in Seq(Int)
          /\ Len(hw.fifo) <= FifoSize /\ count \in Int
      BY <1>3, <1>4
    <2> QED
      BY <2>1, WriteData
  <1>6. v \in Nat /\ Prefix /\ (conf.mode # "continuous" => circ.pre <= v)
    BY <1>2, <1>3, CircBounds DEF Inv, Prefixes, Running
  <1> HIDE DEF count, w
  <1>7. fills => Len(hw.fifo) + count <= FifoSize
    <2>1. fills => Len(hw.fifo) < Half
      BY <1>1 DEF Inv, Levels
    <2> QED
      BY <1>3, <1>4, <2>1, HalfOf
  <1>8. ~ fails /\ (fills => w.n \in Nat)
    BY <1>5, <1>7 DEF Wrote
  <1>9. /\ circ' \in CircType
        /\ \/ circ'.pre = 0
           \/ conf.mode # "continuous" /\ circ'.pre < me_circ_buf_values(circ')
        /\ conf.mode # "continuous" => me_circ_buf_values(circ') = v
    <2>1. CASE ~ fills
      <3>1. circ' = circ
        BY <1>1, <2>1
      <3> QED
        BY <1>3, <1>6, <3>1 DEF Prefix
    <2>2. CASE fills /\ conf.mode = "continuous"
      <3>1. circ' = Advanced(circ, w.n)
        BY <1>1, <1>8, <2>2
      <3> QED
        BY <1>3, <1>6, <1>8, <2>2, <3>1, AdvancedType DEF Prefix
    <2>3. CASE fills /\ conf.mode # "continuous"
      <3>1. circ' = Preloaded(circ, w.n)
        BY <1>1, <1>8, <2>3
      <3>2. circ.pre + w.n <= v /\ w.n \in Nat
        <4> HIDE DEF v
        <4> QED
          BY <1>3, <1>5, <1>6, <1>8, <2>3
      <3> QED
        BY <1>3, <2>3, <3>1, <3>2, PreloadedType
    <2> QED
      BY <2>1, <2>2, <2>3
  <1>10. /\ hw' \in HwType /\ Len(hw'.fifo) <= FifoSize /\ hw'.fsm = hw.fsm
         /\ hw'.armed = hw.armed /\ (hw'.fifo = hw.fifo \/ hw'.fifo # <<>>)
         /\ conf.mode = "hw_wrap" => hw'.irq = hw.irq
    <2>1. CASE ~ fills
      BY <1>1, <1>3, <2>1
    <2>2. CASE fills
      <3>1. hw' = IfHalfFull([hw EXCEPT !.fifo = w.fifo])
        BY <1>1, <1>8, <2>2
      <3>2. w.fifo \in Seq(Int) /\ Len(w.fifo) <= FifoSize /\ (hw.fifo # <<>> => w.fifo # <<>>)
        BY <1>5 DEF Wrote
      <3> DEFINE f == w.fifo
      <3> HIDE DEF f
      <3>3. f \in Seq(Int) /\ Len(f) <= FifoSize /\ (hw.fifo # <<>> => f # <<>>)
            /\ hw' = IfHalfFull([hw EXCEPT !.fifo = f])
        BY <3>1, <3>2 DEF f
      <3> QED
        BY <2>2, <3>3, FilledType
    <2> QED
      BY <2>1, <2>2
  <1>11. CASE /\ ShortLoop /\ Goto(t, "start_loop", call[t]) /\ UNCHANGED <<control, owner>>
    <2>1. LimitedLoop
      BY <1>11 DEF ShortLoop, LimitedLoop
    <2> HIDE DEF fills, fails
    <2> QED
      BY <1>1, <1>2, <1>3, <1>9, <1>10, <1>11, <2>1, FillStep
  <1>12. CASE Scheduled(t)
    <2>1. PICK l \in {"start_wait", "idle"}, c \in Calls : Goto(t, l, c)
      BY <1>12, ScheduledTask
    <2>2. owner' = "nobody" /\ control' \in ControlType /\ control'.flag /\ control'.queued
      BY <1>12, ScheduledTask
    <2> HIDE DEF fills, fails
    <2> QED
      BY <1>1, <1>2, <1>9, <1>10, <2>1, <2>2, FillStep
  <1> QED
    BY <1>1, <1>8, <1>11, <1>12

LEMMA InvStartLoop ==
  ASSUME Inv, NEW t \in Task, start_loop(t)
  PROVE  Inv'
  <1> DEFINE n == me_circ_buf_values(circ)
             w == ao_write_data_wraparound(circ, n, 0)
             more == circ.pre = 0 /\ conf.until > circ.data
             fails == circ.pre # 0 \/ (more /\ w.n # n)
  <1>1. /\ pc[t] = "start_loop"
        /\ hw' = IF ~ more THEN hw
                 ELSE IF fails THEN [hw EXCEPT !.fifo = w.fifo]
                 ELSE IfHalfFull([hw EXCEPT !.fifo = w.fifo])
        /\ circ' = IF more /\ ~ fails THEN [circ EXCEPT !.data = @ + n] ELSE circ
        /\ \/ Leave(t) /\ UNCHANGED control
           \/ UNCHANGED <<control, owner, user>>
           \/ Scheduled(t)
        /\ UNCHANGED <<soft, worker, isr, asleep>>
    BY DEF start_loop
  <1>2. pc[t] \in Filling /\ status = "run_wait" /\ LimitedLoop
    BY <1>1 DEF Inv, Sections, Filling
  <1>3. /\ circ \in CircType /\ hw \in HwType /\ hw.fifo \in Seq(Int)
        /\ Len(hw.fifo) <= FifoSize /\ call[t] \in Calls /\ n \in Nat
    BY CircBounds DEF Inv, AOType, UserType, HwType
  <1>4. Wrote(w, hw.fifo, n)
    BY <1>3, WriteLoop
  <1> HIDE DEF w
  <1>5. /\ circ' \in CircType /\ circ'.pre = circ.pre /\ me_circ_buf_values(circ') = n
    <2>1. CASE circ' = circ
      BY <1>3, <2>1
    <2>2. CASE circ' = [circ EXCEPT !.data = circ.data + n]
      <3>1. circ.data + n \in Nat
        <4> HIDE DEF n
        <4> QED
          BY <1>3 DEF CircType
      <3>2. /\ circ' \in CircType /\ circ'.pre = circ.pre
            /\ circ'.head = circ.head /\ circ'.tail = circ.tail
        <4> HIDE DEF n
        <4> QED
          BY <1>3, <2>2, <3>1 DEF CircType
      <3> QED
        BY <3>2 DEF me_circ_buf_values
    <2> QED
      BY <1>1, <1>3, <2>1, <2>2 DEF CircType
  <1>6. \/ circ'.pre = 0
        \/ conf.mode # "continuous" /\ circ'.pre < me_circ_buf_values(circ')
    <2>1. Prefix
      BY <1>2 DEF Inv, Prefixes, Running
    <2> QED
      BY <1>5, <2>1 DEF Prefix
  <1>7. /\ hw' \in HwType /\ Len(hw'.fifo) <= FifoSize /\ hw'.fsm = hw.fsm
        /\ hw'.armed = hw.armed /\ (hw'.fifo = hw.fifo \/ hw'.fifo # <<>>)
    <2>1. w.fifo \in Seq(Int) /\ Len(w.fifo) <= FifoSize /\ (hw.fifo # <<>> => w.fifo # <<>>)
      BY <1>4 DEF Wrote
    <2> DEFINE f == w.fifo
    <2>2. hw' \in {hw, [hw EXCEPT !.fifo = f], IfHalfFull([hw EXCEPT !.fifo = f])}
      BY <1>1
    <2> HIDE DEF f
    <2>3. f \in Seq(Int) /\ Len(f) <= FifoSize /\ (hw.fifo # <<>> => f # <<>>)
      BY <2>1 DEF f
    <2>4. CASE hw' = hw
      BY <1>3, <2>4
    <2>5. CASE hw' \in {[hw EXCEPT !.fifo = f], IfHalfFull([hw EXCEPT !.fifo = f])}
      BY <2>3, <2>5, FilledType
    <2> QED
      BY <2>2, <2>4, <2>5
  <1>8. conf.mode # "hw_wrap"
    BY <1>2 DEF LimitedLoop
  <1>9. CASE Leave(t) /\ UNCHANGED control
    <2>1. owner' = "nobody" /\ Goto(t, "idle", NoCall) /\ NoCall \in Calls
      BY <1>9, NoCallType DEF Leave, Return
    <2> QED
      BY <1>1, <1>2, <1>5, <1>6, <1>7, <1>8, <1>9, <2>1, FillStep
  <1>10. CASE UNCHANGED <<control, owner, user>>
    <2>1. Goto(t, "start_loop", call[t])
      BY <1>1, <1>10 DEF Goto, user, Inv, AOType, UserType
    <2> QED
      BY <1>1, <1>2, <1>3, <1>5, <1>6, <1>7, <1>8, <1>10, <2>1, FillStep
  <1>11. CASE Scheduled(t)
    <2>1. PICK l \in {"start_wait", "idle"}, c \in Calls : Goto(t, l, c)
      BY <1>11, ScheduledTask
    <2>2. owner' = "nobody" /\ control' \in ControlType /\ control'.flag /\ control'.queued
      BY <1>11, ScheduledTask
    <2> QED
      BY <1>1, <1>2, <1>5, <1>6, <1>7, <1>8, <2>1, <2>2, FillStep
  <1> QED
    BY <1>1, <1>9, <1>10, <1>11

-----------------------------------------------------------------------------
(* The hardware's own loop *)

NoNewWriter == \A u \in Task : pc'[u] \in Writing => pc[u] \in Writing

LEMMA GotoWrites ==
  ASSUME AOType, NEW t \in Task, NEW l, NEW c, Goto(t, l, c),
         l \notin Writing \/ pc[t] \in Writing
  PROVE  NoNewWriter
  BY DEF NoNewWriter, Goto, AOType, UserType

LEMMA ReturnWrites ==
  ASSUME AOType, NEW t \in Task, Return(t)
  PROVE  NoNewWriter
  BY GotoWrites DEF Return, Writing

LEMMA UserWrites ==
  ASSUME UNCHANGED user
  PROVE  NoNewWriter
  BY DEF NoNewWriter, user

\* A step that configures and starts nothing, and adds nothing to the loop.
LEMMA WrapsKept ==
  ASSUME Inv, Wraps, conf'.mode = conf.mode, conf'.wrap = conf.wrap, conf'.stop = conf.stop,
         OwnLoop => circ' \in {circ, Empty} \/ (circ'.head = circ.head /\ circ'.tail = circ.tail),
         status' = status \/ status' # "stream_configured",
         NoNewWriter
  PROVE  Wraps'
  <1>1. SUFFICES ASSUME OwnLoop'
                 PROVE  /\ conf.stop = "inf" /\ me_circ_buf_values(circ') <= FifoSize
                        /\ status' # "stream_configured"
                        /\ \A u \in Task : pc'[u] \notin Writing
    <2>1. me_circ_buf_values(circ)' = me_circ_buf_values(circ')
      BY DEF me_circ_buf_values
    <2> QED
      BY <2>1 DEF Wraps
  <1>2. OwnLoop /\ Wraps
    BY <1>1 DEF OwnLoop
  <1>3. me_circ_buf_values(circ') = me_circ_buf_values(circ) \/ circ' = Empty
    BY <1>2 DEF me_circ_buf_values
  <1>4. me_circ_buf_values(circ') <= FifoSize
    BY <1>2, <1>3, EmptyType, SizesAssumption DEF Wraps
  <1> QED
    BY <1>2, <1>4 DEF Wraps, NoNewWriter

LEMMA WrapsStart ==
  ASSUME Inv, Wraps, LoneStarter, NEW t \in Task, stream_start(t)
  PROVE  Wraps'
  <1> DEFINE loops == /\ conf.mode # "continuous" /\ conf.stop = "inf"
                      /\ me_circ_buf_values(StartBuffer) <= FifoSize
  <1>1. SUFFICES ASSUME OwnLoop'
                 PROVE  /\ conf'.stop = "inf" /\ me_circ_buf_values(circ') <= FifoSize
                        /\ status' # "stream_configured"
                        /\ \A u \in Task : pc'[u] \notin Writing
    <2>1. me_circ_buf_values(circ)' = me_circ_buf_values(circ')
      BY DEF me_circ_buf_values
    <2> QED
      BY <2>1 DEF Wraps
  <1>2. PICK until : conf' = [conf EXCEPT !.until = until, !.mode = IF loops THEN "hw_wrap" ELSE @]
    BY DEF stream_start
  <1>3. conf'.stop = conf.stop /\ conf'.wrap = conf.wrap
        /\ conf'.mode = IF loops THEN "hw_wrap" ELSE conf.mode
    BY <1>2 DEF Inv, AOType, ConfType
  <1>4. loops \/ OwnLoop
    BY <1>1, <1>3 DEF OwnLoop
  <1>5. conf.mode # "continuous"
    BY <1>4 DEF OwnLoop
  <1>6. me_circ_buf_values(StartBuffer) = me_circ_buf_values(circ)
    BY <1>5, StartValues
  <1>7. conf.stop = "inf" /\ me_circ_buf_values(StartBuffer) <= FifoSize
    BY <1>4, <1>6 DEF Wraps
  <1>8. me_circ_buf_values(circ') = me_circ_buf_values(StartBuffer)
    <2>1. PICK n : circ' = Preloaded(StartBuffer, n)
      BY <1>5 DEF stream_start
    <2>2. circ \in CircType
      BY DEF Inv, AOType
    <2>3. circ'.head = StartBuffer.head /\ circ'.tail = StartBuffer.tail
      <3>1. StartBuffer = IF hw.on THEN circ ELSE [circ EXCEPT !.pre = 0, !.data = 0]
        BY <1>5 DEF StartBuffer
      <3>2. StartBuffer \in CircType
        BY <2>2, <3>1 DEF CircType
      <3> QED
        BY <2>1, <3>2 DEF Preloaded, CircType
    <2> QED
      BY <2>3 DEF me_circ_buf_values
  <1>9. status' = "run_wait" /\ "start" \in Op[t] /\ \E k : Goto(t, "start_fill", k)
    BY DEF stream_start, Called
  <1>10. \A u \in Task : pc'[u] \notin Writing
    <2>1. pc' = [pc EXCEPT ![t] = "start_fill"]
      BY <1>9 DEF Goto
    <2>2. pc'[t] = "start_fill" /\ \A u \in Task \ {t} : pc'[u] = pc[u]
      BY <2>1 DEF Inv, AOType, UserType
    <2>3. \A u \in Task \ {t} : pc[u] \notin Writing
      BY <1>9 DEF Inv, AOType, UserType, LoneStarter
    <2> QED
      BY <2>2, <2>3 DEF Writing
  <1> QED
    BY <1>3, <1>7, <1>8, <1>9, <1>10

LEMMA WrapsIoctl ==
  ASSUME Inv, Wraps, LoneStarter, NEW t \in Task, Ioctl(t)
  PROVE  Wraps'
  <1>1. AOType /\ conf \in ConfType /\ circ \in CircType
    BY DEF Inv, AOType
  <1>2. {"reset_wake", "single_wait", "read_wait", "stop_wait", "status_wait", "values_top"}
           \cap Writing = {}
    BY DEF Writing
  <1>3. CASE reset_subdevice(t)
    <2>1. Goto(t, "reset_wake", NoCall) /\ circ' = Empty /\ conf' = conf /\ status' = "none"
      BY <1>3 DEF reset_subdevice
    <2>2. NoNewWriter
      BY <1>1, <1>2, <2>1, GotoWrites
    <2> QED
      BY <2>1, <2>2, WrapsKept
  <1>4. CASE single_config(t)
    <2>1. PICK b : conf' = [conf EXCEPT !.trig = b]
      BY <1>4 DEF single_config
    <2>2. conf'.mode = conf.mode /\ conf'.wrap = conf.wrap /\ conf'.stop = conf.stop
      BY <1>1, <2>1 DEF ConfType
    <2>3. circ' = circ /\ status' = "single_configured" /\ UNCHANGED user
      BY <1>4 DEF single_config
    <2> QED
      BY <2>2, <2>3, UserWrites, WrapsKept
  <1>5. CASE single_write(t)
    <2>1. circ' = circ /\ conf' = conf /\ status' \in {"single_end", "single_run"}
      BY <1>5 DEF single_write
    <2>2. UNCHANGED user \/ \E k : Goto(t, "single_wait", k)
      BY <1>5 DEF single_write
    <2>3. NoNewWriter
      BY <1>1, <1>2, <2>2, GotoWrites, UserWrites
    <2> QED
      BY <2>1, <2>3, WrapsKept
  <1>6. CASE single_read(t)
    <2>1. circ' = circ /\ conf' = conf /\ status' = status
      BY <1>6 DEF single_read, soft
    <2>2. UNCHANGED user \/ \E k : Goto(t, "read_wait", k)
      BY <1>6 DEF single_read
    <2>3. NoNewWriter
      BY <1>1, <1>2, <2>2, GotoWrites, UserWrites
    <2> QED
      BY <2>1, <2>3, WrapsKept
  <1>7. CASE stream_config(t)
    <2>1. PICK a \in StreamArgs :
             conf' = [mode |-> stream_mode(a), wrap |-> stream_mode(a) = "hw_wrap",
                      trig |-> stream_waits(a), stop |-> a.stop.mode,
                      count |-> a.stop.count, until |-> 0]
      BY <1>7 DEF stream_config
    <2>2. conf'.mode = stream_mode(a) /\ conf'.wrap = (stream_mode(a) = "hw_wrap")
      BY <2>1
    <2> QED
      BY <2>2 DEF Wraps, OwnLoop
  <1>8. CASE stream_start(t)
    BY <1>8, WrapsStart
  <1>9. CASE stream_stop(t)
    <2>1. circ' \in {circ, Empty} /\ conf' = conf /\ status' \in {"end", "end_wait"}
      BY <1>9 DEF stream_stop, End
    <2>2. UNCHANGED user \/ \E k : Goto(t, "stop_wait", k)
      BY <1>9 DEF stream_stop
    <2>3. NoNewWriter
      BY <1>1, <1>2, <2>2, GotoWrites, UserWrites
    <2> QED
      BY <2>1, <2>3, WrapsKept
  <1>10. CASE stream_write(t)
    <2>1. circ' = circ /\ conf' = conf /\ status' = status
      BY <1>10 DEF stream_write, soft
    <2>2. conf.mode # "continuous" => status = "stream_configured"
      BY <1>10 DEF stream_write, LoopOnce
    <2>3. ~ OwnLoop
      BY <2>2 DEF Wraps, OwnLoop
    <2>4. ~ OwnLoop'
      BY <2>1, <2>3 DEF OwnLoop
    <2> QED
      BY <2>4 DEF Wraps
  <1>11. CASE stream_status(t) \/ stream_new_values(t)
    <2>1. circ' = circ /\ conf' = conf /\ status' = status
      BY <1>11 DEF stream_status, stream_new_values, soft
    <2>2. \E k : Goto(t, "status_wait", k) \/ Goto(t, "values_top", k)
      BY <1>11 DEF stream_status, stream_new_values
    <2>3. NoNewWriter
      BY <1>1, <1>2, <2>2, GotoWrites
    <2> QED
      BY <2>1, <2>3, WrapsKept
  <1> QED
    BY <1>3, <1>4, <1>5, <1>6, <1>7, <1>8, <1>9, <1>10, <1>11 DEF Ioctl

\* Whoever goes on in a call goes on writing only if it wrote.
LEMMA ProceedWrites ==
  ASSUME Inv, NEW t \in Task, Proceed(t) \/ wait_timeout(t)
  PROVE  NoNewWriter
  <1>1. AOType
    BY DEF Inv
  <1>2. CASE wait_sleep(t)
    BY <1>2, UserWrites DEF wait_sleep
  <1>3. CASE wait_ready(t) \/ wait_timeout(t)
    <2>1. PICK k : Resume(t, k)
      BY <1>3 DEF wait_ready, wait_timeout
    <2>2. pc[t] \in Waits
      BY <1>3 DEF wait_ready, wait_timeout, Waiting
    <2>3. AfterWait[pc[t]] \notin Writing \/ pc[t] \in Writing
      BY <2>2 DEF AfterWait, Waits, Writing
    <2>4. Return(t) \/ Goto(t, AfterWait[pc[t]], k)
      BY <2>1 DEF Resume
    <2> QED
      BY <1>1, <2>3, <2>4, GotoWrites, ReturnWrites
  <1>4. CASE write_lock(t) \/ write_copy(t) \/ write_check(t) \/ write_done(t)
    <2>1. pc[t] \in Writing
      BY <1>4 DEF write_lock, write_copy, write_check, write_done, Writing
    <2>2. \E l, k : Goto(t, l, k)
      BY <1>4 DEF write_lock, write_copy, write_check, write_done, Leave, Return
    <2> QED
      BY <1>1, <2>1, <2>2, GotoWrites
  <1>5. CASE start_fill(t) \/ start_loop(t)
    <2>1. \/ Return(t) \/ UNCHANGED user
          \/ \E l \in {"start_loop", "start_wait"} : \E k : Goto(t, l, k)
      BY <1>5 DEF start_fill, start_loop, Leave, Scheduled
    <2>2. {"start_loop", "start_wait"} \cap Writing = {}
      BY DEF Writing
    <2> QED
      BY <1>1, <2>1, <2>2, GotoWrites, ReturnWrites, UserWrites
  <1>6. CASE values_top(t) \/ values_check(t)
    <2>1. \/ Return(t) \/ \E l \in {"values_wait", "values_top"} : \E k : Goto(t, l, k)
      BY <1>6 DEF values_top, values_check
    <2>2. {"values_wait", "values_top"} \cap Writing = {}
      BY DEF Writing
    <2> QED
      BY <1>1, <2>1, <2>2, GotoWrites, ReturnWrites
  <1>7. CASE reset_wake(t) \/ single_check(t) \/ start_check(t) \/ stop_end(t)
    BY <1>1, <1>7, ReturnWrites DEF reset_wake, single_check, start_check, stop_end
  <1> QED
    BY <1>2, <1>3, <1>4, <1>5, <1>6, <1>7 DEF Proceed

LEMMA WrapsProceed ==
  ASSUME Inv, Wraps, NEW t \in Task, Proceed(t) \/ wait_timeout(t)
  PROVE  Wraps'
  <1>1. NoNewWriter /\ circ \in CircType
    BY ProceedWrites DEF Inv, AOType
  <1>2. CASE reset_wake(t) \/ values_top(t) \/ values_check(t) \/ wait_ready(t)
             \/ wait_sleep(t) \/ wait_timeout(t) \/ write_check(t)
    <2>1. UNCHANGED <<status, conf, circ>>
      BY <1>2 DEF reset_wake, values_top, values_check, wait_ready, wait_sleep,
                  wait_timeout, write_check, Resume, soft
    <2> QED
      BY <1>1, <2>1, WrapsKept
  <1>3. CASE single_check(t) \/ start_check(t) \/ stop_end(t)
    <2>1. /\ conf' = conf /\ circ' \in {circ, Empty}
          /\ status' = status \/ status' \in {"single_error", "timeout"}
      BY <1>3 DEF single_check, start_check, stop_end, End
    <2> QED
      BY <1>1, <2>1, WrapsKept
  <1>4. CASE start_fill(t)
    <2>1. conf' = conf /\ status' = status
      BY <1>4 DEF start_fill, soft
    <2>2. OwnLoop => circ' = circ
      BY <1>4 DEF start_fill, OwnLoop
    <2> QED
      BY <1>1, <2>1, <2>2, WrapsKept
  <1>5. CASE start_loop(t)
    <2>1. conf' = conf /\ status' = status
      BY <1>5 DEF start_loop, soft
    <2>2. ~ OwnLoop
      BY <1>5 DEF start_loop, Inv, Sections, LimitedLoop, OwnLoop
    <2> QED
      BY <1>1, <2>1, <2>2, WrapsKept
  <1>6. CASE write_lock(t) \/ write_done(t)
    <2>1. conf' = conf /\ status' = status
      BY <1>6 DEF write_lock, write_done, soft
    <2>2. circ'.head = circ.head /\ circ'.tail = circ.tail
      BY <1>1, <1>6 DEF write_lock, write_done, CircType
    <2> QED
      BY <1>1, <2>1, <2>2, WrapsKept
  <1>7. CASE write_copy(t)
    <2>1. conf' = conf /\ status' = status
      BY <1>7, WriterFits DEF soft
    <2>2. ~ OwnLoop
      BY <1>7 DEF write_copy, Wraps, Writing
    <2> QED
      BY <1>1, <2>1, <2>2, WrapsKept
  <1> QED
    BY <1>2, <1>3, <1>4, <1>5, <1>6, <1>7 DEF Proceed

LEMMA WrapsElse ==
  ASSUME Inv, Wraps, Control \/ Handler \/ hw_trigger \/ hw_convert \/ hw_underrun \/ hw_stop
  PROVE  Wraps'
  <1>1. CASE work_control_task
    <2>1. UNCHANGED <<conf, circ, user>>
      BY <1>1 DEF work_control_task
    <2>2. status' = status \/ status' # "stream_configured"
      BY <1>1 DEF work_control_task, control_single, control_run_wait, control_run,
                  control_end_wait, control_idle, Found
    <2> QED
      BY <2>1, <2>2, UserWrites, WrapsKept
  <1>2. CASE irq_fill /\ UNCHANGED <<conf, control, worker, user>>
    <2>1. status' = status \/ status' \in {"fifo_error", "end_wait"}
      BY <1>2 DEF irq_fill, Leaves
    <2>2. ~ OwnLoop
      BY <1>2 DEF irq_fill, Inv, Sections, OwnLoop
    <2> QED
      BY <1>2, <2>1, <2>2, UserWrites, WrapsKept
  <1>3. CASE \/ control_post \/ irq \/ irq_enter
             \/ hw_trigger \/ hw_convert \/ hw_underrun \/ hw_stop
    <2>1. UNCHANGED <<status, conf, circ, user>>
      BY <1>3 DEF control_post, irq, irq_enter, hw_trigger, hw_convert, hw_underrun, hw_stop,
                  Hardware, soft
    <2> QED
      BY <2>1, UserWrites, WrapsKept
  <1> QED
    BY <1>1, <1>2, <1>3 DEF Control, Handler, irq_handle

-----------------------------------------------------------------------------
(* The theorems *)

LEMMA InvInit ==
  ASSUME Init
  PROVE  Inv /\ Wraps
  <1>1. Empty \in CircType /\ Empty.pre = 0
    BY EmptyType
  <1>2. <<>> \in Seq(Int) /\ Len(<<>>) <= FifoSize /\ None \in Int
    BY SizesAssumption DEF None
  <1>3. \A t \in Task : pc[t] = "idle" /\ call[t] = NoCall
    BY DEF Init
  <1>4. UserType
    BY <1>3, NoCallType DEF Init, UserType, Writing
  <1>5. AOType
    BY <1>1, <1>2, <1>4 DEF Init, AOType, Status, Idle, ConfType, ControlType, WorkerType, HwType
  <1>6. Discipline /\ Sections /\ Levels /\ Writers
    BY <1>3 DEF Init, Discipline, Sections, Levels, Writers, Filling, Writing
  <1>7. Interrupts /\ Loaded /\ IdleIsStopped /\ OutputIsWatched /\ Wraps
    BY DEF Init, Interrupts, Loaded, IdleIsStopped, OutputIsWatched, Wraps, OwnLoop, Busy, Running
  <1>8. Prefixes
    BY <1>1, EmptyType DEF Init, Prefixes, Running, Failed
  <1> QED
    BY <1>5, <1>6, <1>7, <1>8 DEF Inv

LEMMA InvIoctl ==
  ASSUME Inv, Wraps, LoneStarter, NEW t \in Task, Ioctl(t)
  PROVE  Inv'
  BY InvReset, InvConfig, InvSingleWrite, InvRead, InvStart, InvStop, InvWrite, InvAsk DEF Ioctl

LEMMA InvProceed ==
  ASSUME Inv, NEW t \in Task, Proceed(t) \/ wait_timeout(t)
  PROVE  Inv'
  BY InvValues, InvChecks, InvStartFill, InvStartLoop, InvStopEnd, InvWrite, InvWriteLock,
     InvWriteCopy, InvWriteDone, InvWait DEF Proceed

LEMMA InvElse ==
  ASSUME Inv, Control \/ Handler
  PROVE  Inv'
  BY InvControl, InvPost, InvIrq, InvIrqEnter, InvIrqFill DEF Control, Handler, irq_handle

LEMMA InvStutter ==
  ASSUME Inv, Wraps, UNCHANGED vars
  PROVE  Inv' /\ Wraps'
  <1>1. UNCHANGED <<soft, circ, rest, owner, user>> /\ asleep' \subseteq Task /\ hw' = hw
    BY DEF vars, Inv, AOType
  <1>2. Inv'
    BY <1>1, Aside, Unmoved DEF Inv
  <1>3. Wraps'
    BY <1>1, UserWrites, WrapsKept DEF soft
  <1> QED
    BY <1>2, <1>3

LEMMA InvNext ==
  ASSUME Inv, Wraps, LoneStarter, [Next]_vars
  PROVE  Inv' /\ Wraps'
  <1>1. ASSUME NEW t \in Task, Ioctl(t)
        PROVE  Inv' /\ Wraps'
    BY <1>1, InvIoctl, WrapsIoctl
  <1>2. ASSUME NEW t \in Task, Proceed(t) \/ wait_timeout(t)
        PROVE  Inv' /\ Wraps'
    BY <1>2, InvProceed, WrapsProceed
  <1>3. CASE Control \/ Handler
    BY <1>3, InvElse, WrapsElse
  <1>4. CASE hw_trigger \/ hw_convert \/ hw_underrun \/ hw_stop
    BY <1>4, InvHardware, WrapsElse
  <1>5. CASE UNCHANGED vars
    BY <1>5, InvStutter
  <1> QED
    BY <1>1, <1>2, <1>3, <1>4, <1>5 DEF Next

LEMMA InvHolds ==
  ASSUME LoneStarter
  PROVE  Spec => [](Inv /\ Wraps)
  <1>1. Init => Inv /\ Wraps
    BY InvInit
  <1>2. (Inv /\ Wraps) /\ [Next]_vars => (Inv /\ Wraps)'
    BY InvNext
  <1> QED
    BY <1>1, <1>2, PTL DEF Spec

\* ao_stop_immediately (me4600_ao.c): when the status says that nothing runs, the state
\* machine is stopped and no trigger can start it, whichever way the output ended.
THEOREM StoppedHolds ==
  ASSUME LoneStarter
  PROVE  Spec => []IdleIsStopped
  <1>1. Inv /\ Wraps => IdleIsStopped
    BY DEF Inv
  <1> QED
    BY <1>1, InvHolds, PTL

\* The control task (me4600_ao.c: me4600_ao_work_control_task) is scheduled, or will schedule
\* itself, as long as an output waits or runs.
THEOREM WatchedHolds ==
  ASSUME LoneStarter
  PROVE  Spec => []OutputIsWatched
  <1>1. Inv /\ Wraps => OutputIsWatched
    BY DEF Inv
  <1> QED
    BY <1>1, InvHolds, PTL

\* Of the checks of stream_start that "should never" fail (me4600_ao.c:1643, 1729, 1750)
\* these never do, whatever was preloaded, in whichever mode and with whichever limit.
THEOREM StartHolds ==
  ASSUME LoneStarter
  PROVE  Spec => []StartNeverFails
  <1>1. Inv /\ Wraps => StartNeverFails
    BY DEF Inv, Prefixes, Levels, StartNeverFails
  <1> QED
    BY <1>1, InvHolds, PTL

-----------------------------------------------------------------------------
(* What is on its way *)

\* The buffer holds the values that were written last.
CellsIn(c) ==
    LET v == me_circ_buf_values(c) IN
    /\ v <= c.next
    /\ \A i \in 0 .. v - 1 : c.buf[(c.tail + i) % BufSize] = c.next - v + i

\* The number of the value that comes into the FIFO next.
PositionOf(c) == c.next - (me_circ_buf_values(c) - c.pre)

\* The FIFO holds the values in front of p.
InFifo(f, p) ==
    Len(f) <= p /\ \A i \in 1 .. Len(f) : f[i] = p - Len(f) + i - 1

\* A FIFO that is not enabled holds nothing of the stream.
Flows ==
    Streaming /\ conf.mode = "continuous" =>
        /\ ~ hw.wrap
        /\ circ.pre <= me_circ_buf_values(circ)
        /\ ~ hw.on => hw.fifo = <<>> /\ circ.pre = 0
        /\ InFifo(hw.fifo, PositionOf(circ))
        /\ hw.dac # None => hw.dac = PositionOf(circ) - Len(hw.fifo) - 1

\* Who fills it has enabled it; who sleeps in between does not preload.
OpenAt(t) ==
    /\ pc[t] \in Filling => hw.on
    /\ pc[t] \in {"write_copy", "write_done"} /\ call[t].how = "preload" => hw.on
    /\ pc[t] \in {"write_wait", "write_check"} => call[t].how # "preload"

Opened ==
    /\ hw.fsm \/ hw.armed => hw.on
    /\ isr = "fill" => hw.on
    /\ \A t \in Task : OpenAt(t)

Flow == CellsIn(circ) /\ Flows /\ Opened

LEMMA ModShift ==
  ASSUME NEW a \in Int, NEW b \in Int
  PROVE  ((a % BufSize) + b) % BufSize = (a + b) % BufSize
  <1>1. CASE BufSize = 2
    BY <1>1
  <1>2. CASE BufSize = 4
    BY <1>2
  <1>3. CASE BufSize = 8
    BY <1>3
  <1>4. CASE BufSize = 16
    BY <1>4
  <1> QED
    BY <1>1, <1>2, <1>3, <1>4, SizesAssumption

LEMMA ModLess ==
  ASSUME NEW a \in Int, NEW b \in Int
  PROVE  (b - (a % BufSize)) % BufSize = (b - a) % BufSize
  <1>1. CASE BufSize = 2
    BY <1>1
  <1>2. CASE BufSize = 4
    BY <1>2
  <1>3. CASE BufSize = 8
    BY <1>3
  <1>4. CASE BufSize = 16
    BY <1>4
  <1> QED
    BY <1>1, <1>2, <1>3, <1>4, SizesAssumption

LEMMA ModSmall ==
  ASSUME NEW a \in Int, - BufSize <= a, a < BufSize
  PROVE  a % BufSize = IF a < 0 THEN a + BufSize ELSE a
  <1>1. CASE BufSize = 2
    BY <1>1
  <1>2. CASE BufSize = 4
    BY <1>2
  <1>3. CASE BufSize = 8
    BY <1>3
  <1>4. CASE BufSize = 16
    BY <1>4
  <1> QED
    BY <1>1, <1>2, <1>3, <1>4, SizesAssumption

\* The place of the cell behind k values, and its distance from the first free one.
LEMMA CellOf ==
  ASSUME NEW c \in CircType, NEW k \in Nat, NEW n \in Nat, n <= me_circ_buf_space(c),
         k < me_circ_buf_values(c) + n
  PROVE  LET v == me_circ_buf_values(c)
             j == (c.tail + k) % BufSize IN
         /\ j \in 0 .. BufSize - 1
         /\ (j - c.head) % BufSize = IF k < v THEN k - v + BufSize ELSE k - v
         /\ k < v => k - v + BufSize >= n
  <1> DEFINE v == me_circ_buf_values(c)
             h == c.head
             u == c.tail
  <1>1. h \in 0 .. BufSize - 1 /\ u \in 0 .. BufSize - 1 /\ BufSize \in Nat /\ BufSize > 0
    BY SizesAssumption DEF CircType
  <1>2. v \in Nat /\ v < BufSize /\ me_circ_buf_space(c) \in Nat
    BY CircBounds, <1>1
  <1>3. v = (h - u) % BufSize /\ me_circ_buf_space(c) = (u - (h + 1)) % BufSize
    BY DEF me_circ_buf_values, me_circ_buf_space
  <1> HIDE DEF v, h, u
  <1>4. v + n < BufSize
    <2>1. v = IF h - u < 0 THEN h - u + BufSize ELSE h - u
      <3>1. h - u \in Int /\ - BufSize <= h - u /\ h - u < BufSize
        BY <1>1
      <3> DEFINE a == h - u
      <3> HIDE DEF a
      <3>2. a % BufSize = IF a < 0 THEN a + BufSize ELSE a
        BY <3>1, ModSmall DEF a
      <3> QED
        BY <1>3, <3>2 DEF a
    <2>2. me_circ_buf_space(c) = IF u - (h + 1) < 0 THEN u - (h + 1) + BufSize ELSE u - (h + 1)
      <3>1. u - (h + 1) \in Int /\ - BufSize <= u - (h + 1) /\ u - (h + 1) < BufSize
        BY <1>1
      <3> DEFINE a == u - (h + 1)
      <3> HIDE DEF a
      <3>2. a % BufSize = IF a < 0 THEN a + BufSize ELSE a
        BY <3>1, ModSmall DEF a
      <3> QED
        BY <1>3, <3>2 DEF a
    <2> QED
      BY <1>1, <1>2, <2>1, <2>2
  <1>5. (u + k) % BufSize \in 0 .. BufSize - 1
    BY <1>1, Cell
  <1>6. (((u + k) % BufSize) - h) % BufSize = (k - v) % BufSize
    <2>1. (((u + k) % BufSize) + (- h)) % BufSize = ((u + k) + (- h)) % BufSize
      <3> DEFINE a == u + k
                 b == - h
      <3>1. a \in Int /\ b \in Int
        BY <1>1
      <3> HIDE DEF a, b
      <3>2. ((a % BufSize) + b) % BufSize = (a + b) % BufSize
        BY <3>1, ModShift
      <3> QED
        BY <3>2 DEF a, b
    <2>2. (k - ((h - u) % BufSize)) % BufSize = (k - (h - u)) % BufSize
      <3> DEFINE a == h - u
      <3>1. a \in Int /\ k \in Int
        BY <1>1
      <3> HIDE DEF a
      <3>2. (k - (a % BufSize)) % BufSize = (k - a) % BufSize
        BY <3>1, ModLess
      <3> QED
        BY <3>2 DEF a
    <2>3. (u + k) + (- h) = k - (h - u)
      BY <1>1
    <2>4. ((u + k) % BufSize) + (- h) = ((u + k) % BufSize) - h
      BY <1>1, <1>5
    <2> QED
      BY <1>3, <2>1, <2>2, <2>3, <2>4
  <1>7. (k - v) % BufSize = IF k < v THEN k - v + BufSize ELSE k - v
    <2> DEFINE a == k - v
    <2>1. a \in Int /\ - BufSize <= a /\ a < BufSize
      BY <1>1, <1>2, <1>4 DEF v
    <2> HIDE DEF a
    <2>2. a % BufSize = IF a < 0 THEN a + BufSize ELSE a
      BY <2>1, ModSmall
    <2>3. a < 0 <=> k < v
      BY <1>2 DEF a
    <2> QED
      BY <2>2, <2>3 DEF a
  <1>8. k < v => k - v + BufSize >= n
    BY <1>1, <1>2, <1>4
  <1> QED
    BY <1>5, <1>6, <1>7, <1>8 DEF v, h, u

LEMMA StoredParts ==
  ASSUME NEW c \in CircType, NEW n \in Nat, n <= me_circ_buf_space(c)
  PROVE  LET d == Stored(c, n) IN
         /\ d.tail = c.tail /\ d.next = c.next + n /\ d.pre = c.pre
         /\ \A j \in 0 .. BufSize - 1 :
               d.buf[j] = IF (j - c.head) % BufSize < n THEN c.next + ((j - c.head) % BufSize)
                          ELSE c.buf[j]
  BY DEF Stored, CircType

LEMMA CellsStored ==
  ASSUME NEW c \in CircType, CellsIn(c), NEW n \in Nat, n <= me_circ_buf_space(c)
  PROVE  CellsIn(Stored(c, n)) /\ PositionOf(Stored(c, n)) = PositionOf(c)
  <1> DEFINE d == Stored(c, n)
             v == me_circ_buf_values(c)
             x(j) == (j - c.head) % BufSize
  <1>1. v \in Nat /\ c.next \in Nat /\ c.pre \in Nat
    BY CircBounds DEF CircType
  <1>2. me_circ_buf_values(d) = v + n /\ d.pre = c.pre
    BY StoredType
  <1>3. /\ d.tail = c.tail /\ d.next = c.next + n
        /\ \A j \in 0 .. BufSize - 1 :
              d.buf[j] = IF x(j) < n THEN c.next + x(j) ELSE c.buf[j]
    BY StoredParts
  <1>4. v <= c.next /\ \A i \in 0 .. v - 1 : c.buf[(c.tail + i) % BufSize] = c.next - v + i
    BY DEF CellsIn
  <1>5. ASSUME NEW k \in 0 .. (v + n) - 1
        PROVE  d.buf[(c.tail + k) % BufSize] = (c.next + n) - (v + n) + k
    <2> DEFINE j == (c.tail + k) % BufSize
    <2>1. k \in Nat /\ k < v + n
      BY <1>1, <1>5
    <2>2. /\ j \in 0 .. BufSize - 1
          /\ x(j) = IF k < v THEN k - v + BufSize ELSE k - v
          /\ k < v => k - v + BufSize >= n
      <3>1. /\ j \in 0 .. BufSize - 1
            /\ (j - c.head) % BufSize = IF k < v THEN k - v + BufSize ELSE k - v
            /\ k < v => k - v + BufSize >= n
        BY <2>1, CellOf
      <3> HIDE DEF j, v
      <3> QED
        BY <3>1 DEF x
    <2>4. k < v => c.buf[j] = c.next - v + k
      <3> HIDE DEF v
      <3>1. k < v => k \in 0 .. v - 1
        BY <1>1, <2>1
      <3> QED
        BY <1>4, <3>1
    <2> HIDE DEF d, v, x, j
    <2>3. d.buf[j] = IF x(j) < n THEN c.next + x(j) ELSE c.buf[j]
      BY <1>3, <2>2
    <2>5. CASE k < v
      <3>1. ~ (x(j) < n)
        BY <1>1, <2>1, <2>2, <2>5, SizesAssumption
      <3> QED
        BY <1>1, <2>1, <2>3, <2>4, <2>5, <3>1 DEF j
    <2>6. CASE ~ (k < v)
      <3>1. x(j) < n /\ x(j) = k - v
        BY <1>1, <2>1, <2>2, <2>6
      <3> QED
        BY <1>1, <2>1, <2>3, <3>1 DEF j
    <2> QED
      BY <2>5, <2>6
  <1> HIDE DEF d, v
  <1>6. CellsIn(d)
    <2>1. v + n <= c.next + n
      BY <1>1, <1>4
    <2> QED
      BY <1>2, <1>3, <1>5, <2>1 DEF CellsIn
  <1>7. PositionOf(d) = PositionOf(c)
    BY <1>1, <1>2, <1>3 DEF PositionOf, v
  <1> QED
    BY <1>6, <1>7 DEF d

LEMMA AdvancedParts ==
  ASSUME NEW c \in CircType, NEW n \in Nat
  PROVE  LET d == Advanced(c, n) IN
         /\ d.tail = (c.tail + n) % BufSize /\ d.next = c.next /\ d.head = c.head
         /\ d.pre = c.pre
         /\ \A j \in 0 .. BufSize - 1 :
               d.buf[j] = IF (j - c.tail) % BufSize < n THEN None ELSE c.buf[j]
  BY DEF Advanced, CircType

LEMMA CellsAdvanced ==
  ASSUME NEW c \in CircType, CellsIn(c), NEW n \in Nat, n <= me_circ_buf_values(c)
  PROVE  /\ CellsIn(Advanced(c, n)) /\ PositionOf(Advanced(c, n)) = PositionOf(c) + n
         /\ me_circ_buf_values(Advanced(c, n)) = me_circ_buf_values(c) - n
  <1> DEFINE d == Advanced(c, n)
             v == me_circ_buf_values(c)
             h == c.head
             u == c.tail
  <1>1. v \in Nat /\ v < BufSize /\ c.next \in Nat /\ c.pre \in Nat /\ BufSize \in Nat
    BY CircBounds, SizesAssumption DEF CircType
  <1>2. h \in Int /\ u \in Int
    BY SizesAssumption DEF CircType
  <1>3. /\ d.tail = (u + n) % BufSize /\ d.next = c.next /\ d.head = h
        /\ d.pre = c.pre
        /\ \A j \in 0 .. BufSize - 1 :
              d.buf[j] = IF (j - u) % BufSize < n THEN None ELSE c.buf[j]
    BY AdvancedParts
  <1>4. v <= c.next /\ \A i \in 0 .. v - 1 : c.buf[(u + i) % BufSize] = c.next - v + i
    BY DEF CellsIn
  <1>5. v = (h - u) % BufSize /\ me_circ_buf_values(d) = (d.head - d.tail) % BufSize
    BY DEF me_circ_buf_values
  <1> HIDE DEF d, v, h, u
  <1>6. me_circ_buf_values(d) = v - n
    <2>1. (h - ((u + n) % BufSize)) % BufSize = (h - (u + n)) % BufSize
      <3> DEFINE a == u + n
      <3>1. a \in Int
        BY <1>2
      <3> HIDE DEF a
      <3>2. (h - (a % BufSize)) % BufSize = (h - a) % BufSize
        BY <1>2, <3>1, ModLess
      <3> QED
        BY <3>2 DEF a
    <2>2. (((h - u) % BufSize) + (- n)) % BufSize = ((h - u) + (- n)) % BufSize
      <3> DEFINE a == h - u
                 b == - n
      <3>1. a \in Int /\ b \in Int
        BY <1>2
      <3> HIDE DEF a, b
      <3>2. ((a % BufSize) + b) % BufSize = (a + b) % BufSize
        BY <3>1, ModShift
      <3> QED
        BY <3>2 DEF a, b
    <2>3. (h - u) + (- n) = h - (u + n) /\ v + (- n) = v - n
      BY <1>1, <1>2
    <2>4. (v - n) % BufSize = v - n
      <3> DEFINE a == v - n
      <3>1. a \in Int /\ 0 <= a /\ - BufSize <= a /\ a < BufSize
        BY <1>1 DEF v
      <3> HIDE DEF a
      <3>2. a % BufSize = a
        BY <1>1, <3>1, ModSmall
      <3> QED
        BY <3>2 DEF a
    <2> QED
      BY <1>3, <1>5, <2>1, <2>2, <2>3, <2>4
  <1>7. ASSUME NEW i \in 0 .. (v - n) - 1
        PROVE  d.buf[(d.tail + i) % BufSize] = c.next - (v - n) + i
    <2> DEFINE k == n + i
               j == (u + k) % BufSize
    <2>1. i \in Nat /\ k \in Nat /\ n <= k /\ k < v /\ k \in 0 .. v - 1
      BY <1>1, <1>7
    <2>2. ((((u + n) % BufSize) + i) % BufSize) = ((u + n) + i) % BufSize
      <3> DEFINE a == u + n
      <3>1. a \in Int /\ i \in Int
        BY <1>2, <2>1
      <3> HIDE DEF a
      <3>2. ((a % BufSize) + i) % BufSize = (a + i) % BufSize
        BY <3>1, ModShift
      <3> QED
        BY <3>2 DEF a
    <2>3. (u + n) + i = u + k
      BY <1>2, <2>1
    <2>4. (d.tail + i) % BufSize = j
      BY <1>3, <2>2, <2>3
    <2> HIDE DEF k
    <2>5. j \in 0 .. BufSize - 1
      BY <1>2, <2>1, Cell
    <2>6. (j - u) % BufSize = k
      <3> DEFINE a == u + k
                 b == - u
      <3>1. a \in Int /\ b \in Int
        BY <1>2, <2>1
      <3>2. a + b = k
        BY <1>2, <2>1
      <3> HIDE DEF a, b
      <3>3. ((a % BufSize) + b) % BufSize = (a + b) % BufSize
        BY <3>1, ModShift
      <3>4. (j + b) % BufSize = k % BufSize
        BY <3>2, <3>3 DEF a
      <3>5. j + b = j - u
        BY <1>2, <2>5, <1>1 DEF b
      <3>6. k % BufSize = k
        BY <1>1, <2>1, ModSmall
      <3> QED
        BY <3>4, <3>5, <3>6
    <2>7. d.buf[j] = c.buf[j]
      <3>1. ~ (k < n)
        BY <2>1
      <3> QED
        BY <1>3, <2>5, <2>6, <3>1
    <2>8. c.buf[j] = c.next - v + k
      BY <1>4, <2>1
    <2>9. c.next - v + k = c.next - (v - n) + i
      BY <1>1, <2>1 DEF k
    <2> QED
      BY <2>4, <2>7, <2>8, <2>9
  <1>8. CellsIn(d)
    <2>1. v - n <= c.next
      BY <1>1, <1>4
    <2> QED
      BY <1>3, <1>6, <1>7, <2>1 DEF CellsIn
  <1>9. PositionOf(d) = PositionOf(c) + n
    BY <1>1, <1>3, <1>6 DEF PositionOf, v
  <1> QED
    BY <1>6, <1>8, <1>9 DEF d, v

\* What is read from the buffer into the FIFO continues what is there.
LEMMA Continued ==
  ASSUME NEW f \in Seq(Int), NEW p \in Int, InFifo(f, p), NEW s \in Seq(Int),
         \A i \in 1 .. Len(s) : s[i] = p + i - 1
  PROVE  InFifo(f \o s, p + Len(s)) /\ Len(f \o s) = Len(f) + Len(s)
  <1>1. Len(f) \in Nat /\ Len(s) \in Nat /\ Len(f \o s) = Len(f) + Len(s)
    OBVIOUS
  <1>2. Len(f) <= p /\ \A i \in 1 .. Len(f) : f[i] = p - Len(f) + i - 1
    BY DEF InFifo
  <1>3. ASSUME NEW i \in 1 .. (Len(f) + Len(s))
        PROVE  (f \o s)[i] = (p + Len(s)) - (Len(f) + Len(s)) + i - 1
    <2>1. CASE i <= Len(f)
      <3>1. (f \o s)[i] = f[i] /\ i \in 1 .. Len(f)
        BY <1>1, <2>1
      <3> QED
        BY <1>1, <1>2, <3>1
    <2>2. CASE i > Len(f)
      <3>1. (f \o s)[i] = s[i - Len(f)] /\ i - Len(f) \in 1 .. Len(s)
        BY <1>1, <2>2
      <3>2. s[i - Len(f)] = p + (i - Len(f)) - 1
        BY <3>1
      <3> QED
        BY <1>1, <3>1, <3>2
    <2> QED
      BY <1>1, <2>1, <2>2
  <1> QED
    BY <1>1, <1>2, <1>3 DEF InFifo

LEMMA Reads ==
  ASSUME NEW f \in Seq(Int), NEW c \in CircType, CellsIn(c), NEW count \in Int,
         NEW start \in Nat, start <= me_circ_buf_values(c),
         InFifo(f, c.next - me_circ_buf_values(c) + start),
         ao_write_data(f, c, count, start).n >= 0
  PROVE  LET w == ao_write_data(f, c, count, start)
             v == me_circ_buf_values(c) IN
         /\ w.n \in Nat /\ w.n <= v - start /\ Len(w.fifo) = Len(f) + w.n
         /\ InFifo(w.fifo, c.next - v + start + w.n)
  <1> DEFINE v == me_circ_buf_values(c)
             n == Least(count, v - start)
             s == [i \in 1 .. n |-> c.buf[(c.tail + start + i - 1) % BufSize]]
             w == Pushed(f, s)
             p == c.next - v + start
  <1>1. v \in Nat /\ c.next \in Nat /\ c.tail \in Int /\ v - start \in Int /\ v - start >= 0
    BY CircBounds, SizesAssumption DEF CircType
  <1>2. w = ao_write_data(f, c, count, start)
    BY DEF ao_write_data
  <1>3. n \in Int /\ n <= v - start
    <2> HIDE DEF v
    <2> QED
      BY <1>1, LeastOf
  <1>4. \A i \in 0 .. v - 1 : c.buf[(c.tail + i) % BufSize] = c.next - v + i
    BY DEF CellsIn
  <1>5. p \in Int
    <2> HIDE DEF v
    <2> QED
      BY <1>1
  <1>6. \A i \in 1 .. n : s[i] = p + i - 1
    <2> SUFFICES ASSUME NEW i \in 1 .. n
                 PROVE  c.buf[(c.tail + start + i - 1) % BufSize] = p + i - 1
      OBVIOUS
    <2> HIDE DEF v, n
    <2>1. start + i - 1 \in 0 .. v - 1
      BY <1>1, <1>3
    <2>2. c.tail + (start + i - 1) = c.tail + start + i - 1
      BY <1>1, <1>3
    <2>3. c.buf[(c.tail + (start + i - 1)) % BufSize] = c.next - v + (start + i - 1)
      BY <1>4, <2>1
    <2>4. c.next - v + (start + i - 1) = p + i - 1
      BY <1>1, <1>3
    <2> QED
      BY <2>2, <2>3, <2>4
  <1>7. s \in [1 .. n -> Int]
    <2>1. \A i \in 1 .. n : s[i] \in Int
      <3> HIDE DEF s, n, p
      <3> QED
        BY <1>3, <1>5, <1>6
    <2> QED
      BY <2>1
  <1> HIDE DEF s, n
  <1>8. /\ s \in Seq(Int) /\ Len(s) = IF n > 0 THEN n ELSE 0
        /\ n <= 0 => s = <<>>
    BY <1>3, <1>7, Copied
  <1>9. w.n = Len(s) /\ w.fifo = f \o s
    <2>1. w.n >= 0
      BY <1>2
    <2> QED
      BY <2>1 DEF Pushed
  <1>10. \A i \in 1 .. Len(s) : s[i] = p + i - 1
    <2> HIDE DEF p
    <2> QED
      BY <1>3, <1>6, <1>8
  <1>11. InFifo(f, p)
    OBVIOUS
  <1> HIDE DEF w, p
  <1>12. InFifo(w.fifo, p + w.n) /\ Len(w.fifo) = Len(f) + w.n
    BY <1>5, <1>8, <1>9, <1>10, <1>11, Continued
  <1>13. w.n \in Nat /\ w.n <= v - start
    BY <1>1, <1>3, <1>8, <1>9
  <1> QED
    BY <1>2, <1>12, <1>13 DEF p

LEMMA CellsSame ==
  ASSUME NEW c \in CircType, CellsIn(c), NEW d \in CircType, d.buf = c.buf, d.head = c.head,
         d.tail = c.tail, d.next = c.next
  PROVE  CellsIn(d) /\ me_circ_buf_values(d) = me_circ_buf_values(c)
  BY DEF CellsIn, me_circ_buf_values

LEMMA CellsPrimed ==
  CellsIn(circ)' <=> CellsIn(circ')
  BY DEF CellsIn, me_circ_buf_values

\* The stream and what is on its way are left alone.
LEMMA FlowSame ==
  ASSUME CellsIn(circ), Flows, conf'.mode = conf.mode, Streaming' => Streaming, circ' = circ,
         hw'.wrap = hw.wrap, hw'.on = hw.on, hw'.fifo = hw.fifo, hw'.dac = hw.dac
  PROVE  CellsIn(circ)' /\ Flows'
  <1>1. CellsIn(circ)'
    BY CellsPrimed
  <1> QED
    BY <1>1 DEF Flows, InFifo, PositionOf, me_circ_buf_values

\* There is no continuous stream.
LEMMA FlowNone ==
  ASSUME CellsIn(circ'), ~ (Streaming /\ conf.mode = "continuous")'
  PROVE  CellsIn(circ)' /\ Flows'
  BY CellsPrimed DEF Flows

LEMMA CellsEmpty ==
  /\ CellsIn(Empty) /\ PositionOf(Empty) = 0 /\ me_circ_buf_values(Empty) = 0
  /\ Empty.pre = 0
  <1>1. Empty.pre = 0 /\ Empty.next = 0 /\ me_circ_buf_values(Empty) = 0
    BY EmptyType DEF Empty
  <1>2. CellsIn(Empty) /\ PositionOf(Empty) = 0
    BY <1>1 DEF CellsIn, PositionOf
  <1> QED
    BY <1>1, <1>2

LEMMA FlowEmpty ==
  ASSUME circ' = Empty, hw'.fifo = <<>>, hw'.dac = None,
         (Streaming /\ conf.mode = "continuous")' => ~ hw'.wrap
  PROVE  CellsIn(circ)' /\ Flows'
  <1>1. InFifo(<<>>, 0)
    BY DEF InFifo
  <1>2. CellsIn(circ)'
    BY CellsEmpty, CellsPrimed
  <1>3. me_circ_buf_values(circ)' = 0 /\ PositionOf(circ)' = 0
    BY CellsEmpty DEF me_circ_buf_values, PositionOf
  <1> QED
    BY CellsEmpty, <1>1, <1>2, <1>3 DEF Flows, InFifo

\* Values go from the user to the buffer, and from the buffer to the FIFO.
LEMMA FlowMoved ==
  ASSUME Flows, Streaming, conf.mode = "continuous", hw'.wrap = hw.wrap, hw'.dac = hw.dac,
         CellsIn(circ'), circ'.pre <= me_circ_buf_values(circ'),
         ~ hw'.on => hw'.fifo = <<>> /\ circ'.pre = 0,
         InFifo(hw'.fifo, PositionOf(circ')),
         PositionOf(circ') - Len(hw'.fifo) = PositionOf(circ) - Len(hw.fifo)
  PROVE  CellsIn(circ)' /\ Flows'
  <1>1. CellsIn(circ)'
    BY CellsPrimed
  <1>2. PositionOf(circ)' = PositionOf(circ') /\ me_circ_buf_values(circ)' = me_circ_buf_values(circ')
        /\ InFifo(hw.fifo, PositionOf(circ))' = InFifo(hw'.fifo, PositionOf(circ'))
    BY DEF PositionOf, me_circ_buf_values, InFifo
  <1> QED
    BY <1>1, <1>2 DEF Flows

LEMMA RegisterFlow ==
  ASSUME NEW h \in HwType
  PROVE  \A g \in {h, Quiet(h), Enabled(h), Held(h), Released(h), Started(h), Halted(h),
                   ao_stop_immediately(h), [h EXCEPT !.armed = TRUE], [h EXCEPT !.rst = FALSE],
                   [h EXCEPT !.fsm = FALSE], Quiet([h EXCEPT !.stop = TRUE])} :
            g.wrap = h.wrap /\ g.on = h.on /\ g.fifo = h.fifo /\ g.dac = h.dac
  BY DEF HwType, Quiet, Enabled, Held, Released, Started, Halted, ao_stop_immediately

\* A step of the control task, a wait, a question, a trigger.
LEMMA FlowAside ==
  ASSUME Inv, CellsIn(circ), Flows, NEW t \in Task,
         \/ reset_wake(t) \/ single_read(t) \/ stream_write(t) \/ write_check(t)
         \/ stream_status(t) \/ stream_new_values(t) \/ values_top(t) \/ values_check(t)
         \/ wait_ready(t) \/ wait_sleep(t) \/ wait_timeout(t) \/ start_check(t)
  PROVE  CellsIn(circ)' /\ Flows'
  <1>1. hw \in HwType
    BY DEF Inv, AOType
  <1>2. CASE \/ reset_wake(t) \/ stream_write(t) \/ write_check(t)
             \/ stream_status(t) \/ stream_new_values(t) \/ values_top(t) \/ values_check(t)
             \/ wait_ready(t) \/ wait_sleep(t) \/ wait_timeout(t)
    <2>1. UNCHANGED <<status, conf, circ, hw>>
      BY <1>2 DEF reset_wake, stream_write, write_check, stream_status, stream_new_values,
                  values_top, values_check, wait_ready, wait_sleep, wait_timeout, Resume, soft
    <2> QED
      BY <2>1, FlowSame DEF Streaming
  <1>3. CASE single_read(t)
    <2>1. UNCHANGED <<status, conf, circ>> /\ hw' \in {hw, Started(hw)}
      BY <1>3 DEF single_read, soft
    <2>2. hw'.wrap = hw.wrap /\ hw'.on = hw.on /\ hw'.fifo = hw.fifo /\ hw'.dac = hw.dac
      BY <1>1, <2>1, RegisterFlow
    <2> QED
      BY <2>1, <2>2, FlowSame DEF Streaming
  <1>4. CASE start_check(t)
    <2>1. /\ UNCHANGED <<conf, circ>> /\ hw' \in {hw, ao_stop_immediately(hw)}
          /\ status' = status \/ status = "run_wait"
      BY <1>4 DEF start_check
    <2>2. hw'.wrap = hw.wrap /\ hw'.on = hw.on /\ hw'.fifo = hw.fifo /\ hw'.dac = hw.dac
      BY <1>1, <2>1, RegisterFlow
    <2> QED
      BY <2>1, <2>2, FlowSame DEF Streaming, Running
  <1> QED
    BY <1>2, <1>3, <1>4

LEMMA FlowControl ==
  ASSUME Inv, CellsIn(circ), Flows, Control \/ irq \/ irq_enter \/ hw_trigger \/ hw_underrun
                                    \/ hw_stop
  PROVE  CellsIn(circ)' /\ Flows'
  <1>1. hw \in HwType
    BY DEF Inv, AOType
  <1>2. CASE work_control_task
    <2>1. UNCHANGED <<conf, circ>>
      BY <1>2 DEF work_control_task
    <2>2. CASE status' \in {"single_end", "single_error"}
      BY <2>1, <2>2, FlowNone DEF Streaming, Running, Failed
    <2>3. CASE status' \notin {"single_end", "single_error"}
      <3>1. /\ hw' \in {hw, ao_stop_immediately(hw), Halted(hw)}
            /\ status' = status \/ status \in Running
        BY <1>2, <2>3 DEF work_control_task, control_single, control_run_wait, control_run,
                  control_end_wait, control_idle, Found, Running
      <3>2. hw'.wrap = hw.wrap /\ hw'.on = hw.on /\ hw'.fifo = hw.fifo /\ hw'.dac = hw.dac
        BY <1>1, <3>1, RegisterFlow
      <3> QED
        BY <2>1, <3>1, <3>2, FlowSame DEF Streaming
    <2> QED
      BY <2>2, <2>3
  <1>3. CASE control_post \/ irq
    <2>1. UNCHANGED <<status, conf, circ, hw>>
      BY <1>3 DEF control_post, irq, soft
    <2> QED
      BY <2>1, FlowSame DEF Streaming
  <1>4. CASE irq_enter \/ hw_trigger \/ hw_underrun \/ hw_stop
    <2>1. /\ UNCHANGED <<status, conf, circ>>
          /\ hw' \in {hw, Quiet(hw), [hw EXCEPT !.rst = FALSE], ao_stop_immediately(hw),
                      Started(hw), [hw EXCEPT !.fsm = FALSE]}
      <3>1. CASE irq_enter
        BY <3>1 DEF irq_enter, soft
      <3>2. CASE hw_trigger \/ hw_underrun \/ hw_stop
        BY <3>2 DEF hw_trigger, hw_underrun, hw_stop, Hardware, soft
      <3> QED
        BY <1>4, <3>1, <3>2
    <2>2. hw'.wrap = hw.wrap /\ hw'.on = hw.on /\ hw'.fifo = hw.fifo /\ hw'.dac = hw.dac
      <3>1. CASE hw' \in {hw, Quiet(hw), ao_stop_immediately(hw)}
        BY <1>1, <3>1 DEF HwType, Quiet, ao_stop_immediately, Halted
      <3>2. CASE hw' \in {[hw EXCEPT !.rst = FALSE], Started(hw), [hw EXCEPT !.fsm = FALSE]}
        BY <1>1, <3>2 DEF HwType, Started
      <3> QED
        BY <2>1, <3>1, <3>2
    <2> QED
      BY <2>1, <2>2, FlowSame DEF Streaming
  <1> QED
    BY <1>2, <1>3, <1>4 DEF Control

\* Single values and the ends of a stream.
LEMMA FlowReset ==
  ASSUME Inv, CellsIn(circ), Flows, NEW t \in Task,
         \/ reset_subdevice(t) \/ single_config(t) \/ single_write(t) \/ single_check(t)
         \/ stream_config(t) \/ stream_stop(t) \/ stop_end(t)
  PROVE  CellsIn(circ)' /\ Flows'
  <1>1. hw \in HwType /\ Rewritten(hw) \in HwType
    BY StoppedType DEF Inv, AOType
  <1>2. CASE reset_subdevice(t) \/ single_config(t) \/ single_write(t)
    <2>1. /\ status' \in {"none", "single_configured", "single_end", "single_run"}
          /\ circ' = circ \/ circ' = Empty
      BY <1>2 DEF reset_subdevice, single_config, single_write
    <2> QED
      BY <2>1, CellsEmpty, FlowNone DEF Streaming, Running, Failed
  <1>3. CASE single_check(t)
    <2>1. CASE status = "single_run"
      <3>1. status' = "single_error" /\ circ' = circ
        BY <1>3, <2>1 DEF single_check
      <3> QED
        BY <3>1, FlowNone DEF Streaming, Running, Failed
    <2>2. CASE status # "single_run"
      <3>1. UNCHANGED <<status, conf, circ, hw>>
        BY <1>3, <2>2 DEF single_check
      <3> QED
        BY <3>1, FlowSame DEF Streaming
    <2> QED
      BY <2>1, <2>2
  <1>4. CASE stream_config(t)
    <2>1. PICK a \in StreamArgs :
             /\ conf' = [mode |-> stream_mode(a), wrap |-> stream_mode(a) = "hw_wrap",
                         trig |-> stream_waits(a), stop |-> a.stop.mode,
                         count |-> a.stop.count, until |-> 0]
             /\ hw' = [Rewritten(hw) EXCEPT !.wrap = stream_mode(a) = "hw_wrap", !.dac = None]
      BY <1>4 DEF stream_config
    <2>2. circ' = Empty
      BY <1>4 DEF stream_config
    <2>3. Rewritten(hw).fifo = <<>>
      BY <1>1, StoppedType
    <2>4. /\ conf'.mode = stream_mode(a) /\ hw'.wrap = (stream_mode(a) = "hw_wrap")
          /\ hw'.fifo = <<>> /\ hw'.dac = None
      BY <1>1, <2>1, <2>3 DEF HwType
    <2> QED
      BY <2>2, <2>4, FlowEmpty
  <1>5. ASSUME NEW keep, End(keep), conf' = conf, Streaming' => Streaming
        PROVE  CellsIn(circ)' /\ Flows'
    <2>1. CASE keep
      <3>1. circ' = circ /\ hw' = ao_stop_immediately(hw)
        BY <1>5, <2>1 DEF End
      <3>2. hw'.wrap = hw.wrap /\ hw'.on = hw.on /\ hw'.fifo = hw.fifo /\ hw'.dac = hw.dac
        BY <1>1, <3>1, RegisterFlow
      <3> QED
        BY <1>5, <3>1, <3>2, FlowSame
    <2>2. CASE ~ keep
      <3>1. circ' = Empty /\ hw' = [Off(ao_stop_immediately(hw)) EXCEPT !.dac = None]
        BY <1>5, <2>2 DEF End
      <3>2. hw'.wrap = hw.wrap /\ hw'.fifo = <<>> /\ hw'.dac = None
        BY <1>1, <3>1 DEF HwType, Off, ao_stop_immediately, Halted, Quiet
      <3>3. (Streaming /\ conf.mode = "continuous")' => ~ hw'.wrap
        BY <1>5, <3>2 DEF Flows
      <3> QED
        BY <3>1, <3>2, <3>3, FlowEmpty
    <2> QED
      BY <2>1, <2>2
  <1>6. CASE stream_stop(t)
    <2>1. conf' = conf /\ Streaming
      BY <1>6 DEF stream_stop, Streaming, Running
    <2>2. CASE \E keep \in Keep : End(keep)
      BY <1>5, <2>1, <2>2
    <2>3. CASE UNCHANGED circ /\ hw' \in {hw, Quiet([hw EXCEPT !.stop = TRUE])}
      <3>1. hw'.wrap = hw.wrap /\ hw'.on = hw.on /\ hw'.fifo = hw.fifo /\ hw'.dac = hw.dac
        BY <1>1, <2>3, RegisterFlow
      <3> QED
        BY <2>1, <2>3, <3>1, FlowSame
    <2> QED
      BY <1>6, <2>2, <2>3 DEF stream_stop
  <1>7. CASE stop_end(t)
    <2>1. conf' = conf /\ (Streaming' => Streaming) /\ End(call[t].keep)
      BY <1>7 DEF stop_end, Streaming
    <2> QED
      BY <1>5, <2>1
  <1> QED
    BY <1>2, <1>3, <1>4, <1>6, <1>7

LEMMA FlowConvert ==
  ASSUME Inv, CellsIn(circ), Flows, hw_convert
  PROVE  CellsIn(circ)' /\ Flows'
  <1>1. UNCHANGED <<status, conf, circ>>
    BY DEF hw_convert, Hardware, soft
  <1>2. CASE ~ (Streaming /\ conf.mode = "continuous")
    BY <1>1, <1>2, FlowNone DEF Streaming
  <1>3. CASE Streaming /\ conf.mode = "continuous"
    <2> DEFINE p == PositionOf(circ)
               f == hw.fifo
    <2>1. /\ ~ hw.wrap /\ (~ hw.on => f = <<>>) /\ InFifo(f, p)
          /\ circ.pre <= me_circ_buf_values(circ) /\ (~ hw.on => circ.pre = 0)
      BY <1>3 DEF Flows
    <2>2. hw \in HwType /\ f \in Seq(Int) /\ f # <<>> /\ circ \in CircType
      BY DEF Inv, AOType, HwType, hw_convert
    <2>3. p \in Int
      BY <2>2, CircBounds DEF PositionOf, CircType
    <2>4. /\ Len(f) \in Nat /\ Len(f) > 0 /\ Len(f) <= p
          /\ \A i \in 1 .. Len(f) : f[i] = p - Len(f) + i - 1
      BY <2>1, <2>2 DEF InFifo
    <2>5. Head(f) = p - Len(f) /\ Head(f) # Alone
      <3>1. Head(f) = f[1] /\ 1 \in 1 .. Len(f)
        BY <2>2, <2>4
      <3> HIDE DEF p, f
      <3> QED
        BY <2>3, <2>4, <3>1 DEF Alone
    <2>6. hw' = [hw EXCEPT !.dac = Head(f), !.fifo = Tail(f)]
      BY <2>1, <2>2, <2>5 DEF hw_convert, Hardware, HwType
    <2>7. /\ hw'.dac = Head(f) /\ hw'.fifo = Tail(f) /\ hw'.wrap = hw.wrap /\ hw'.on = hw.on
      BY <2>2, <2>6 DEF HwType
    <2>8. /\ Tail(f) \in Seq(Int) /\ Len(Tail(f)) = Len(f) - 1
          /\ \A i \in 1 .. Len(f) - 1 : Tail(f)[i] = f[i + 1]
      BY <2>2
    <2>9. InFifo(Tail(f), p)
      <3>1. ASSUME NEW i \in 1 .. Len(f) - 1
            PROVE  Tail(f)[i] = p - (Len(f) - 1) + i - 1
        <4>1. Tail(f)[i] = f[i + 1] /\ i + 1 \in 1 .. Len(f)
          BY <2>4, <2>8
        <4>2. f[i + 1] = p - Len(f) + (i + 1) - 1
          BY <2>4, <4>1
        <4> HIDE DEF p, f
        <4> QED
          BY <2>3, <2>4, <4>1, <4>2
      <3>2. Len(f) - 1 <= p
        BY <2>3, <2>4
      <3> QED
        BY <2>8, <3>1, <3>2 DEF InFifo
    <2> HIDE DEF p, f
    <2>10. Head(f) = p - Len(Tail(f)) - 1
      BY <2>3, <2>4, <2>5, <2>8
    <2>11. PositionOf(circ)' = p /\ me_circ_buf_values(circ)' = me_circ_buf_values(circ)
      BY <1>1 DEF p, PositionOf, me_circ_buf_values
    <2>12. hw.on
      BY <2>1, <2>2
    <2>13. InFifo(hw.fifo, PositionOf(circ))'
      BY <2>7, <2>9, <2>11 DEF InFifo
    <2>14. Flows'
      BY <1>1, <2>1, <2>7, <2>10, <2>11, <2>12, <2>13 DEF Flows
    <2> QED
      BY <1>1, <2>14, CellsPrimed
  <1> QED
    BY <1>2, <1>3

LEMMA PositionAt ==
  ASSUME NEW c \in CircType, c.pre = 0
  PROVE  PositionOf(c) = c.next - me_circ_buf_values(c)
  <1>1. me_circ_buf_values(c) \in Int /\ c.next \in Int
    BY CircBounds DEF CircType
  <1> QED
    BY <1>1 DEF PositionOf

\* What is copied leaves the buffer and continues the FIFO.
LEMMA FlowPush ==
  ASSUME Inv, Flows, Streaming, conf.mode = "continuous",
         NEW c \in CircType, CellsIn(c), c.pre = 0, PositionOf(c) = PositionOf(circ),
         NEW count \in Int, ao_write_data(hw.fifo, c, count, 0).n >= 0
  PROVE  LET w == ao_write_data(hw.fifo, c, count, 0)
             d == Advanced(c, w.n) IN
         /\ w.n \in Nat /\ d \in CircType /\ CellsIn(d) /\ d.pre = 0
         /\ InFifo(w.fifo, PositionOf(d))
         /\ PositionOf(d) - Len(w.fifo) = PositionOf(circ) - Len(hw.fifo)
  <1> DEFINE w == ao_write_data(hw.fifo, c, count, 0)
             d == Advanced(c, w.n)
             v == me_circ_buf_values(c)
             p == PositionOf(c)
  <1>1. InFifo(hw.fifo, p) /\ hw.fifo \in Seq(Int)
    BY DEF Flows, Inv, AOType, HwType
  <1>2. v \in Nat /\ c.next \in Nat /\ p = c.next - v
    BY CircBounds, PositionAt DEF CircType
  <1>3. c.next - v + 0 = p /\ p \in Int
    <2> HIDE DEF v, p
    <2> QED
      BY <1>2
  <1>4. /\ w.n \in Nat /\ w.n <= v - 0 /\ Len(w.fifo) = Len(hw.fifo) + w.n
        /\ InFifo(w.fifo, c.next - v + 0 + w.n)
    <2>1. InFifo(hw.fifo, c.next - v + 0)
      BY <1>1, <1>3
    <2>2. 0 <= v /\ 0 \in Nat
      BY <1>2
    <2> QED
      BY <1>1, <2>1, <2>2, Reads
  <1> HIDE DEF w, v, p
  <1>5. InFifo(w.fifo, p + w.n) /\ w.n <= v
    BY <1>2, <1>3, <1>4
  <1>6. CellsIn(d) /\ PositionOf(d) = p + w.n /\ d \in CircType /\ d.pre = 0
    BY <1>4, <1>5, CellsAdvanced, AdvancedType DEF v, p
  <1> HIDE DEF d
  <1>7. PositionOf(d) - Len(w.fifo) = p - Len(hw.fifo)
    BY <1>1, <1>3, <1>4, <1>6
  <1> QED
    BY <1>4, <1>5, <1>6, <1>7 DEF w, d, p

LEMMA FlowStart ==
  ASSUME Inv, CellsIn(circ), Flows, NEW t \in Task, stream_start(t)
  PROVE  CellsIn(circ)' /\ Flows'
  <1> DEFINE c == StartBuffer
             count == Portion(Until(me_circ_buf_values(c)), FifoSize)
             first == IF hw.fifo = <<>> THEN ao_write_data(hw.fifo, c, count, c.pre)
                                        ELSE [n |-> 0, fifo |-> hw.fifo]
             d == IF conf.mode = "continuous" THEN Advanced(circ, circ.pre) ELSE circ
  <1>1. /\ status \in {"stream_configured", "timeout", "end"} /\ first.n >= 0
        /\ me_circ_buf_values(c) > 0 \/ c.pre > 0
        /\ circ' = IF conf.mode = "continuous" THEN [Advanced(c, first.n) EXCEPT !.pre = 0]
                                               ELSE Preloaded(c, first.n)
    BY DEF stream_start
  <1>2. Streaming /\ circ \in CircType /\ circ.pre \in Nat /\ hw \in HwType
    BY <1>1 DEF Streaming, Inv, AOType, CircType
  <1>3. c = IF hw.on THEN d ELSE [d EXCEPT !.pre = 0, !.data = 0]
    BY DEF StartBuffer
  <1>4. CASE conf.mode # "continuous"
    <2> HIDE DEF c, first
    <2>1. d = circ
      BY <1>4
    <2>2. /\ c \in CircType /\ c.buf = circ.buf /\ c.head = circ.head /\ c.tail = circ.tail
          /\ c.next = circ.next
      <3> HIDE DEF d
      <3> QED
        BY <1>2, <1>3, <2>1 DEF CircType
    <2>3. circ' = Preloaded(c, first.n)
      BY <1>1, <1>4
    <2>4. /\ circ'.buf = c.buf /\ circ'.head = c.head /\ circ'.tail = c.tail
          /\ circ'.next = c.next
      BY <2>2, <2>3 DEF Preloaded, CircType
    <2>5. CellsIn(circ')
      BY <2>2, <2>4 DEF CellsIn, me_circ_buf_values
    <2>6. conf'.mode # "continuous"
      BY <1>4 DEF stream_start, Inv, AOType, ConfType
    <2> QED
      BY <2>5, <2>6, FlowNone
  <1>5. CASE conf.mode = "continuous"
    <2>1. /\ ~ hw.wrap /\ circ.pre <= me_circ_buf_values(circ)
          /\ (~ hw.on => hw.fifo = <<>> /\ circ.pre = 0)
          /\ InFifo(hw.fifo, PositionOf(circ))
      BY <1>2, <1>5 DEF Flows
    <2>2. d = Advanced(circ, circ.pre)
      BY <1>5
    <2>3. /\ d \in CircType /\ CellsIn(d) /\ d.pre = circ.pre
          /\ PositionOf(d) = PositionOf(circ) + circ.pre
      BY <1>2, <2>1, <2>2, AdvancedType, CellsAdvanced
    <2> HIDE DEF d, c
    <2>4. /\ c \in CircType /\ c.pre = circ.pre /\ c.buf = d.buf /\ c.head = d.head
          /\ c.tail = d.tail /\ c.next = d.next
      BY <1>3, <2>1, <2>3 DEF CircType
    <2>5. CellsIn(c) /\ me_circ_buf_values(c) = me_circ_buf_values(d)
      BY <2>3, <2>4, CellsSame
    <2> DEFINE e == [Advanced(c, first.n) EXCEPT !.pre = 0]
    <2>6. circ' = e
      BY <1>1, <1>5
    <2>7. first.n \in Nat /\ e \in CircType /\ CellsIn(e) /\ e.pre = 0
          /\ InFifo(first.fifo, PositionOf(e))
          /\ PositionOf(e) - Len(first.fifo) = PositionOf(circ) - Len(hw.fifo)
      <3>1. CASE hw.fifo = <<>>
        <4>1. c.pre = 0 /\ circ.pre = 0
          BY <1>1, <1>5, <2>1, <2>4, <3>1 DEF Inv, Prefixes, Prefix
        <4>2. PositionOf(c) = PositionOf(circ)
          <5>1. PositionOf(d) = PositionOf(circ)
            <6>1. PositionOf(circ) \in Int
              BY <1>2, CircBounds DEF PositionOf, CircType
            <6> QED
              BY <2>3, <4>1, <6>1
          <5> QED
            BY <2>3, <2>4, <2>5, <5>1 DEF PositionOf
        <4> DEFINE w == ao_write_data(hw.fifo, c, count, 0)
        <4>3. first = w
          BY <3>1, <4>1
        <4>4. count \in Int /\ w.n >= 0
          <5>1. Until(me_circ_buf_values(c)) \in Nat
            <6>1. me_circ_buf_values(c) \in Nat /\ conf.count \in Nat
              BY <2>4, CircBounds DEF Inv, AOType, ConfType
            <6>2. conf.count * me_circ_buf_values(c) \in Nat
              BY <6>1
            <6> QED
              BY <6>1, <6>2 DEF Until
          <5> QED
            BY <1>1, <4>3, <5>1, PortionOf, HalfOf, SizesAssumption
        <4> HIDE DEF count, first
        <4>5. /\ w.n \in Nat /\ Advanced(c, w.n) \in CircType /\ CellsIn(Advanced(c, w.n))
              /\ Advanced(c, w.n).pre = 0
              /\ InFifo(w.fifo, PositionOf(Advanced(c, w.n)))
              /\ PositionOf(Advanced(c, w.n)) - Len(w.fifo) = PositionOf(circ) - Len(hw.fifo)
          BY <1>2, <1>5, <2>4, <2>5, <4>1, <4>2, <4>4, FlowPush
        <4>6. e = Advanced(c, w.n)
          BY <4>3, <4>5 DEF CircType
        <4> HIDE DEF e, w
        <4> QED
          BY <4>3, <4>5, <4>6
      <3>2. CASE hw.fifo # <<>>
        <4>1. first.n = 0 /\ first.fifo = hw.fifo
          BY <3>2
        <4> HIDE DEF first
        <4> DEFINE a == Advanced(c, 0)
        <4>2. a \in CircType /\ CellsIn(a) /\ me_circ_buf_values(a) = me_circ_buf_values(c)
          <5>1. me_circ_buf_values(c) \in Nat
            BY <2>4, CircBounds
          <5> QED
            BY <2>4, <2>5, <5>1, CellsAdvanced, AdvancedType
        <4>3. e = [a EXCEPT !.pre = 0] /\ a.next = c.next
          BY <2>4, <4>1, AdvancedParts
        <4> HIDE DEF a, e
        <4>4. /\ e \in CircType /\ e.pre = 0 /\ e.buf = a.buf /\ e.head = a.head
              /\ e.tail = a.tail /\ e.next = c.next
          BY <4>2, <4>3 DEF CircType
        <4>5. CellsIn(e) /\ me_circ_buf_values(e) = me_circ_buf_values(c)
          BY <4>2, <4>3, <4>4, CellsSame
        <4>6. PositionOf(e) = PositionOf(circ)
          <5>1. PositionOf(e) = c.next - me_circ_buf_values(c)
            BY <4>4, <4>5, PositionAt
          <5>2. /\ me_circ_buf_values(d) = me_circ_buf_values(circ) - circ.pre
                /\ d.next = circ.next
            BY <1>2, <2>1, <2>2, CellsAdvanced, AdvancedParts
          <5> QED
            BY <2>4, <2>5, <5>1, <5>2 DEF PositionOf
        <4> QED
          BY <2>1, <4>1, <4>4, <4>5, <4>6
      <3> QED
        BY <3>1, <3>2
    <2> HIDE DEF e
    <2>8. hw'.wrap = hw.wrap /\ hw'.dac = hw.dac /\ hw'.on /\ hw'.fifo = first.fifo
      <3> DEFINE f == first.fifo
                 ready == [Quiet(hw) EXCEPT !.on = TRUE, !.fifo = f, !.wrap = hw.wrap,
                                            !.halt = FALSE, !.stop = FALSE]
                 armed == IF BelowHalf(f) \/ hw.wrap THEN ready ELSE Enabled(ready)
      <3>1. hw' \in {[armed EXCEPT !.armed = TRUE], Started(armed)}
        <4>1. (conf.wrap \/ FALSE) = hw.wrap
          BY <1>2, <1>5, <2>1 DEF HwType, ConfType, Inv, AOType
        <4> HIDE DEF f
        <4> QED
          BY <1>5, <4>1 DEF stream_start, f, first, c, count
      <3> HIDE DEF f
      <3>2. /\ ready.wrap = hw.wrap /\ ready.dac = hw.dac /\ ready.on /\ ready.fifo = f
            /\ ready \in [fsm : BOOLEAN, armed : BOOLEAN, halt : BOOLEAN, stop : BOOLEAN,
                          on : BOOLEAN, wrap : BOOLEAN, irq : BOOLEAN, rst : BOOLEAN,
                          fifo : {f}, dac : Int]
        BY <1>2 DEF HwType, Quiet
      <3>3. armed = ready \/ armed = Enabled(ready)
        OBVIOUS
      <3> HIDE DEF ready, armed
      <3>4. /\ armed.wrap = hw.wrap /\ armed.dac = hw.dac /\ armed.on /\ armed.fifo = f
            /\ armed \in [fsm : BOOLEAN, armed : BOOLEAN, halt : BOOLEAN, stop : BOOLEAN,
                          on : BOOLEAN, wrap : BOOLEAN, irq : BOOLEAN, rst : BOOLEAN,
                          fifo : {f}, dac : Int]
        BY <3>2, <3>3 DEF Enabled
      <3>5. /\ hw'.wrap = hw.wrap /\ hw'.dac = hw.dac /\ hw'.on /\ hw'.fifo = f
        BY <3>1, <3>4 DEF Started
      <3> QED
        BY <3>5 DEF f
    <2> HIDE DEF first
    <2>9. e.pre <= me_circ_buf_values(e)
      BY <2>7, CircBounds
    <2> QED
      BY <1>2, <1>5, <2>6, <2>7, <2>8, <2>9, FlowMoved
  <1> QED
    BY <1>4, <1>5

LEMMA FlowStartFill ==
  ASSUME Inv, Flow, NEW t \in Task, start_fill(t)
  PROVE  CellsIn(circ)' /\ Flows'
  <1> DEFINE count == Portion(conf.until, Half)
             w == ao_write_data(hw.fifo, circ, count, circ.pre)
             fills == conf.mode # "hw_wrap" /\ call[t].half
             fails == fills /\ w.n < 0
  <1>1. /\ pc[t] = "start_fill" /\ UNCHANGED <<status, conf>>
        /\ circ' = IF ~ fills \/ fails THEN circ
                   ELSE IF conf.mode = "continuous" THEN Advanced(circ, w.n)
                   ELSE Preloaded(circ, w.n)
        /\ hw' = IF ~ fills THEN hw
                 ELSE IF fails THEN [hw EXCEPT !.fifo = w.fifo]
                 ELSE IfHalfFull([hw EXCEPT !.fifo = w.fifo])
    BY DEF start_fill, soft
  <1>2. /\ pc[t] \in Filling /\ status = "run_wait" /\ Streaming /\ hw.on /\ Prefix
        /\ CellsIn(circ) /\ Flows
    BY <1>1 DEF Inv, Sections, Prefixes, Filling, Flow, Opened, OpenAt, Streaming, Running
  <1>3. /\ circ \in CircType /\ circ.pre \in Nat /\ hw \in HwType /\ hw.fifo \in Seq(Int)
        /\ Len(hw.fifo) <= FifoSize /\ conf.until \in Nat
    BY DEF Inv, AOType, CircType, HwType, ConfType
  <1>4. CASE conf.mode # "continuous"
    <2>1. circ' = circ \/ circ' = Preloaded(circ, w.n)
      BY <1>1, <1>4
    <2> HIDE DEF w
    <2>2. /\ circ'.buf = circ.buf /\ circ'.head = circ.head /\ circ'.tail = circ.tail
          /\ circ'.next = circ.next
      BY <1>3, <2>1 DEF Preloaded, CircType
    <2>3. CellsIn(circ')
      BY <1>2, <2>2 DEF CellsIn, me_circ_buf_values
    <2> QED
      BY <1>1, <1>4, <2>3, FlowNone
  <1>5. CASE conf.mode = "continuous" /\ ~ fills
    BY <1>1, <1>2, <1>5, FlowSame DEF Streaming
  <1>6. CASE conf.mode = "continuous" /\ fills
    <2>1. circ.pre = 0
      BY <1>2, <1>6 DEF Prefix
    <2>2. count \in Nat /\ count <= Half
      BY <1>3, PortionOf, HalfOf
    <2> HIDE DEF count
    <2>3. Wrote(w, hw.fifo, count)
      BY <1>3, <2>2, WriteData
    <2>4. w.n >= 0
      <3>1. Len(hw.fifo) < Half
        BY <1>1, <1>6 DEF Inv, Levels
      <3>2. Len(hw.fifo) + count <= FifoSize
        BY <1>3, <2>2, <3>1, HalfOf
      <3> QED
        BY <2>3, <3>2 DEF Wrote
    <2>5. w = ao_write_data(hw.fifo, circ, count, 0)
      BY <2>1
    <2> DEFINE d == Advanced(circ, w.n)
    <2>6. /\ w.n \in Nat /\ d \in CircType /\ CellsIn(d) /\ d.pre = 0
          /\ InFifo(w.fifo, PositionOf(d))
          /\ PositionOf(d) - Len(w.fifo) = PositionOf(circ) - Len(hw.fifo)
      BY <1>2, <1>3, <1>6, <2>1, <2>2, <2>4, <2>5, FlowPush
    <2> HIDE DEF w
    <2>7. fills /\ ~ fails
      BY <1>6, <2>4, <2>6
    <2> HIDE DEF fills, fails
    <2>8. circ' = d
      BY <1>1, <1>6, <2>7
    <2>9. /\ hw'.wrap = hw.wrap /\ hw'.on = hw.on /\ hw'.dac = hw.dac /\ hw'.fifo = w.fifo
      <3>1. hw' = IfHalfFull([hw EXCEPT !.fifo = w.fifo])
        BY <1>1, <2>7
      <3> QED
        BY <1>3, <3>1 DEF IfHalfFull, Enabled, HwType
    <2> HIDE DEF d
    <2>10. d.pre <= me_circ_buf_values(d)
      BY <2>6, CircBounds
    <2> QED
      BY <1>2, <1>6, <2>6, <2>8, <2>9, <2>10, FlowMoved
  <1> QED
    BY <1>4, <1>5, <1>6

LEMMA FlowStartLoop ==
  ASSUME Inv, CellsIn(circ), NEW t \in Task, start_loop(t)
  PROVE  CellsIn(circ)' /\ Flows'
  <1>1. conf' = conf /\ conf.mode # "continuous"
    BY DEF start_loop, soft, Inv, Sections, LimitedLoop
  <1>2. circ \in CircType
    BY DEF Inv, AOType
  <1>3. /\ circ'.buf = circ.buf /\ circ'.head = circ.head /\ circ'.tail = circ.tail
        /\ circ'.next = circ.next
    BY <1>2 DEF start_loop, CircType
  <1>4. CellsIn(circ')
    BY <1>3 DEF CellsIn, me_circ_buf_values
  <1> QED
    BY <1>1, <1>4, FlowNone

LEMMA FlowWriteLock ==
  ASSUME Inv, CellsIn(circ), Flows, NEW t \in Task, write_lock(t)
  PROVE  CellsIn(circ)' /\ Flows'
  <1>1. UNCHANGED <<status, conf>> /\ circ \in CircType /\ hw \in HwType
    BY DEF write_lock, soft, Inv, AOType
  <1>2. CASE UNCHANGED <<hw, circ>>
    BY <1>1, <1>2, FlowSame DEF Streaming
  <1>3. CASE /\ ~ hw.on /\ hw' = [hw EXCEPT !.on = TRUE]
             /\ circ' = [circ EXCEPT !.pre = 0]
    <2>1. /\ circ' \in CircType /\ circ'.pre = 0 /\ circ'.buf = circ.buf
          /\ circ'.head = circ.head /\ circ'.tail = circ.tail /\ circ'.next = circ.next
      BY <1>1, <1>3 DEF CircType
    <2>2. CellsIn(circ') /\ me_circ_buf_values(circ') = me_circ_buf_values(circ)
      BY <1>1, <2>1, CellsSame
    <2>3. CASE ~ (Streaming /\ conf.mode = "continuous")
      BY <1>1, <2>2, <2>3, FlowNone DEF Streaming
    <2>4. CASE Streaming /\ conf.mode = "continuous"
      <3>1. circ.pre = 0 /\ InFifo(hw.fifo, PositionOf(circ))
        BY <1>3, <2>4 DEF Flows
      <3>2. PositionOf(circ') = PositionOf(circ)
        BY <2>1, <2>2, <3>1 DEF PositionOf
      <3>3. hw'.on /\ hw'.fifo = hw.fifo /\ hw'.wrap = hw.wrap /\ hw'.dac = hw.dac
        BY <1>1, <1>3 DEF HwType
      <3>4. circ'.pre <= me_circ_buf_values(circ')
        BY <2>1, CircBounds
      <3> QED
        BY <2>2, <2>4, <3>1, <3>2, <3>3, <3>4, FlowMoved
    <2> QED
      BY <2>3, <2>4
  <1> QED
    BY <1>2, <1>3 DEF write_lock

\* A writer fills the buffer, and serves the FIFO of a running stream.
LEMMA FlowWriteCopy ==
  ASSUME Inv, Flow, NEW t \in Task, write_copy(t)
  PROVE  CellsIn(circ)' /\ Flows'
  <1> DEFINE c == call[t]
             n == Least(c.left, me_circ_buf_space(circ))
             filled == ao_get_data_from_user(circ, c.left)
             serve == status = "run" /\ hw.fsm /\ conf.mode = "continuous" /\ BelowHalf(hw.fifo)
             w == ao_write_data(hw.fifo, filled, Half, 0)
  <1>1. c \in Calls /\ circ \in CircType /\ hw \in HwType /\ UNCHANGED <<status, conf>>
    BY WriterFits DEF Inv, AOType, UserType, soft
  <1>2. n \in Nat /\ n <= me_circ_buf_space(circ)
    <2>1. c.left \in Nat /\ me_circ_buf_space(circ) \in Nat
      BY <1>1, CircBounds DEF Calls
    <2> QED
      BY <2>1 DEF Least
  <1>3. CellsIn(circ) /\ Flows
    BY DEF Flow
  <1>4. /\ filled \in CircType /\ filled.pre = circ.pre
        /\ me_circ_buf_values(filled) = me_circ_buf_values(circ) + n
        /\ CellsIn(filled) /\ PositionOf(filled) = PositionOf(circ)
    BY <1>1, <1>2, <1>3, StoredType, CellsStored DEF ao_get_data_from_user
  <1> HIDE DEF filled
  <1>5. me_circ_buf_values(circ) \in Nat /\ me_circ_buf_values(filled) \in Nat
    BY <1>1, <1>4, CircBounds
  <1>6. CASE serve /\ w.n > 0
    <2>1. circ' = Advanced(filled, w.n) /\ hw' = [Held(hw) EXCEPT !.fifo = w.fifo]
      BY <1>6 DEF write_copy, filled
    <2>2. Streaming /\ conf.mode = "continuous" /\ hw.on /\ filled.pre = 0
      BY <1>4, <1>6 DEF Streaming, Running, Flow, Opened, Inv, Prefixes, Prefix
    <2>3. w.n >= 0 /\ Half \in Int
      <3>1. Wrote(w, hw.fifo, Half)
        <4>1. hw.fifo \in Seq(Int) /\ Len(hw.fifo) <= FifoSize /\ Half \in Int /\ 0 \in Nat
          BY HalfOf DEF Inv, AOType, HwType
        <4> QED
          BY <1>4, <4>1, WriteData
      <3> HIDE DEF w
      <3> QED
        BY <1>6, <3>1, HalfOf DEF Wrote
    <2> DEFINE d == Advanced(filled, w.n)
    <2>4. /\ w.n \in Nat /\ d \in CircType /\ CellsIn(d) /\ d.pre = 0
          /\ InFifo(w.fifo, PositionOf(d))
          /\ PositionOf(d) - Len(w.fifo) = PositionOf(circ) - Len(hw.fifo)
      BY <1>3, <1>4, <2>2, <2>3, FlowPush
    <2> HIDE DEF w
    <2>5. /\ hw'.wrap = hw.wrap /\ hw'.on = hw.on /\ hw'.dac = hw.dac /\ hw'.fifo = w.fifo
      <3>1. Held(hw) \in HwType /\ Held(hw).wrap = hw.wrap /\ Held(hw).on = hw.on
            /\ Held(hw).dac = hw.dac
        BY <1>1, RegisterFlow, RegisterType
      <3> QED
        BY <2>1, <3>1 DEF HwType
    <2>6. circ' = d
      BY <2>1
    <2> HIDE DEF d
    <2>7. d.pre <= me_circ_buf_values(d)
      BY <2>4, CircBounds
    <2> QED
      BY <1>3, <2>2, <2>4, <2>5, <2>6, <2>7, FlowMoved
  <1>7. CASE ~ (serve /\ w.n > 0)
    <2>1. circ' = filled /\ hw' = IF serve THEN Released(hw) ELSE hw
      BY <1>7 DEF write_copy, filled
    <2>2. hw'.wrap = hw.wrap /\ hw'.on = hw.on /\ hw'.fifo = hw.fifo /\ hw'.dac = hw.dac
      BY <1>1, <2>1, RegisterFlow
    <2> HIDE DEF serve, w
    <2>3. CASE Streaming /\ conf.mode = "continuous"
      <3>1. /\ circ.pre <= me_circ_buf_values(circ) /\ InFifo(hw.fifo, PositionOf(circ))
            /\ ~ hw.on => hw.fifo = <<>> /\ circ.pre = 0
        BY <1>3, <2>3 DEF Flows
      <3>2. circ'.pre <= me_circ_buf_values(circ')
        <4>1. circ.pre \in Nat
          BY <1>1 DEF CircType
        <4> QED
          BY <1>2, <1>4, <1>5, <2>1, <3>1, <4>1
      <3> QED
        BY <1>3, <1>4, <2>1, <2>2, <2>3, <3>1, <3>2, FlowMoved
    <2>4. CASE ~ (Streaming /\ conf.mode = "continuous")
      BY <1>1, <1>4, <2>1, <2>4, FlowNone DEF Streaming
    <2> QED
      BY <2>3, <2>4
  <1> QED
    BY <1>6, <1>7

\* Preloading copies values behind those that were copied before.
LEMMA FlowWriteDone ==
  ASSUME Inv, Flow, NEW t \in Task, write_done(t)
  PROVE  CellsIn(circ)' /\ Flows'
  <1> DEFINE w == ao_write_data_pooling(circ, FifoSize, circ.pre)
             v == me_circ_buf_values(circ)
  <1>1. /\ pc[t] = "write_done" /\ UNCHANGED <<status, conf>>
        /\ circ \in CircType /\ hw \in HwType /\ hw.fifo \in Seq(Int)
        /\ Len(hw.fifo) <= FifoSize
    BY DEF write_done, soft, Inv, AOType, HwType
  <1>2. CellsIn(circ) /\ Flows
    BY DEF Flow
  <1>3. CASE UNCHANGED <<hw, circ>>
    BY <1>1, <1>2, <1>3, FlowSame DEF Streaming
  <1>4. CASE /\ call[t].how = "preload" /\ hw' = [hw EXCEPT !.fifo = w.fifo]
             /\ circ' = [circ EXCEPT !.pre = @ + w.n, !.data = Counted(circ, w.n)]
    <2> HIDE DEF w
    <2>1. /\ circ'.buf = circ.buf /\ circ'.head = circ.head /\ circ'.tail = circ.tail
          /\ circ'.next = circ.next /\ circ'.pre = circ.pre + w.n
      BY <1>1, <1>4 DEF CircType
    <2>2. me_circ_buf_values(circ') = v /\ CellsIn(circ')
      BY <1>2, <2>1 DEF me_circ_buf_values, CellsIn
    <2>3. CASE ~ (Streaming /\ conf.mode = "continuous")
      BY <1>1, <2>2, <2>3, FlowNone DEF Streaming
    <2>4. CASE Streaming /\ conf.mode = "continuous"
      <3> DEFINE count == Least(FifoSize, FifoSize - Len(hw.fifo))
      <3>1. count \in Int /\ Len(hw.fifo) + count <= FifoSize
        <4> DEFINE m == Len(hw.fifo)
        <4>1. m \in Nat /\ FifoSize \in Nat
          BY <1>1, SizesAssumption
        <4> HIDE DEF m
        <4>2. /\ Least(FifoSize, FifoSize - m) \in Int
              /\ m + Least(FifoSize, FifoSize - m) <= FifoSize
          BY <4>1 DEF Least
        <4> QED
          BY <4>2 DEF m
      <3>2. w = ao_write_data(hw.fifo, circ, count, circ.pre)
        BY DEF ao_write_data_pooling, w
      <3> HIDE DEF count
      <3>3. circ.pre \in Nat /\ circ.pre <= v /\ hw.on /\ v \in Nat /\ circ.next \in Nat
        BY <1>1, <1>2, <1>4, <2>4, CircBounds DEF Flow, Flows, Opened, OpenAt, CircType
      <3>4. Wrote(w, hw.fifo, count)
        BY <1>1, <3>1, <3>2, <3>3, WriteData
      <3>5. w.n >= 0
        BY <3>1, <3>4 DEF Wrote
      <3> HIDE DEF v
      <3>6. InFifo(hw.fifo, circ.next - v + circ.pre)
        <4>1. PositionOf(circ) = circ.next - v + circ.pre
          BY <3>3 DEF PositionOf, v
        <4> QED
          BY <1>2, <2>4, <4>1 DEF Flows
      <3>7. /\ w.n \in Nat /\ w.n <= v - circ.pre /\ Len(w.fifo) = Len(hw.fifo) + w.n
            /\ InFifo(w.fifo, circ.next - v + circ.pre + w.n)
        BY <1>1, <1>2, <3>1, <3>2, <3>3, <3>5, <3>6, Reads DEF v
      <3>8. /\ PositionOf(circ') = circ.next - v + circ.pre + w.n
            /\ PositionOf(circ) = circ.next - v + circ.pre
        BY <2>1, <2>2, <3>3, <3>7 DEF PositionOf, v
      <3>9. circ'.pre <= me_circ_buf_values(circ')
        BY <2>1, <2>2, <3>3, <3>7
      <3>10. hw'.on /\ hw'.fifo = w.fifo /\ hw'.wrap = hw.wrap /\ hw'.dac = hw.dac
        BY <1>1, <1>4, <3>3 DEF HwType
      <3>11. PositionOf(circ') - Len(hw'.fifo) = PositionOf(circ) - Len(hw.fifo)
        BY <1>1, <3>3, <3>7, <3>8, <3>10
      <3> QED
        BY <1>2, <2>2, <2>4, <3>7, <3>8, <3>9, <3>10, <3>11, FlowMoved
    <2> QED
      BY <2>3, <2>4
  <1> QED
    BY <1>3, <1>4 DEF write_done

\* The handler takes the values behind what it took before.
LEMMA FlowIrqFill ==
  ASSUME Inv, Flow, irq_fill, conf' = conf
  PROVE  CellsIn(circ)' /\ Flows'
  <1> DEFINE loop == conf.mode = "sw_wrap"
             w == IF loop /\ status # "end_wait"
                  THEN ao_write_data_wraparound(circ, Wanted, circ.pre)
                  ELSE ao_write_data(hw.fifo, circ, Wanted, 0)
             c == IF w.n <= 0 THEN circ
                  ELSE IF loop
                  THEN [circ EXCEPT !.pre = (@ + w.n) % me_circ_buf_values(circ),
                                    !.data = Counted(circ, w.n)]
                  ELSE [Advanced(circ, w.n) EXCEPT !.data = Counted(circ, w.n)]
  <1>1. /\ isr = "fill" /\ circ' = c
        /\ \/ Leaves(c, w.n, w.fifo)
           \/ hw' = [hw EXCEPT !.fifo = w.fifo] /\ UNCHANGED <<status, counts>>
    BY DEF irq_fill
  <1>2. /\ circ \in CircType /\ hw \in HwType /\ hw.fifo \in Seq(Int) /\ Len(hw.fifo) <= FifoSize
        /\ circ.pre \in Nat /\ circ.data \in Nat /\ conf.until \in Nat
    BY DEF Inv, AOType, HwType, CircType, ConfType
  <1>3. /\ status \in Running /\ Len(hw.fifo) < Half /\ hw.on /\ Streaming
        /\ CellsIn(circ) /\ Flows /\ (loop \/ conf.mode = "continuous")
    BY <1>1 DEF Inv, AOType, ConfType, Sections, Levels, Flow, Opened, Streaming
  <1>4. CASE loop
    <2>1. circ' = circ \/ circ' = [circ EXCEPT !.pre = (@ + w.n) % me_circ_buf_values(circ),
                                               !.data = Counted(circ, w.n)]
      BY <1>1, <1>4
    <2> HIDE DEF w
    <2>2. /\ circ'.buf = circ.buf /\ circ'.head = circ.head /\ circ'.tail = circ.tail
          /\ circ'.next = circ.next
      BY <1>2, <2>1 DEF CircType
    <2>3. CellsIn(circ')
      BY <1>3, <2>2 DEF CellsIn, me_circ_buf_values
    <2> QED
      BY <1>4, <2>3, FlowNone
  <1>5. CASE ~ loop
    <2>1. conf.mode = "continuous" /\ circ.pre = 0
      BY <1>3, <1>5 DEF Inv, Prefixes, Prefix
    <2>2. Wanted \in Int /\ Wanted <= Half
      <3>1. conf.until - circ.data \in Int /\ Half \in Int
        BY <1>2, HalfOf
      <3> QED
        BY <3>1, LeastOf DEF Wanted
    <2>3. w = ao_write_data(hw.fifo, circ, Wanted, 0)
      BY <1>5
    <2> HIDE DEF w
    <2>4. w.n >= 0
      <3>1. Wrote(w, hw.fifo, Wanted)
        BY <1>2, <2>2, <2>3, WriteData
      <3>2. Len(hw.fifo) + Wanted <= FifoSize
        BY <1>2, <1>3, <2>2, HalfOf
      <3> QED
        BY <3>1, <3>2 DEF Wrote
    <2> DEFINE d == Advanced(circ, w.n)
    <2>5. /\ w.n \in Nat /\ d \in CircType /\ CellsIn(d) /\ d.pre = 0
          /\ InFifo(w.fifo, PositionOf(d))
          /\ PositionOf(d) - Len(w.fifo) = PositionOf(circ) - Len(hw.fifo)
      BY <1>2, <1>3, <2>1, <2>2, <2>3, <2>4, FlowPush
    <2>6. /\ hw'.wrap = hw.wrap /\ hw'.on = hw.on /\ hw'.dac = hw.dac /\ hw'.fifo = w.fifo
      <3> DEFINE h == [hw EXCEPT !.fifo = w.fifo]
      <3>1. h.wrap = hw.wrap /\ h.on = hw.on /\ h.dac = hw.dac /\ h.fifo = w.fifo /\ h \in HwType
        <4>1. Wrote(w, hw.fifo, Wanted)
          BY <1>2, <2>2, <2>3, WriteData
        <4> QED
          BY <1>2, <4>1 DEF HwType, Wrote
      <3>2. hw' \in {h, Enabled(h), [h EXCEPT !.irq = Board = "me4600"]}
        BY <1>1, <2>4 DEF Leaves
      <3> HIDE DEF h
      <3> QED
        BY <3>1, <3>2 DEF HwType, Enabled
    <2>7. CASE w.n = 0
      <3>1. circ' = circ /\ w.fifo = hw.fifo
        <4>1. Wrote(w, hw.fifo, Wanted)
          BY <1>2, <2>2, <2>3, WriteData
        <4> QED
          BY <1>1, <2>7, <4>1 DEF Wrote
      <3> QED
        BY <1>3, <2>6, <3>1, FlowSame
    <2>8. CASE w.n > 0
      <3>1. circ' = [d EXCEPT !.data = Counted(circ, w.n)]
        BY <1>1, <1>5, <2>5, <2>8
      <3> HIDE DEF d
      <3>2. Counted(circ, w.n) \in Nat
        BY <1>2, <2>5 DEF Counted
      <3>3. /\ circ' \in CircType /\ circ'.buf = d.buf /\ circ'.head = d.head
            /\ circ'.tail = d.tail /\ circ'.next = d.next /\ circ'.pre = 0
        BY <2>5, <3>1, <3>2 DEF CircType
      <3>4. CellsIn(circ') /\ me_circ_buf_values(circ') = me_circ_buf_values(d)
        BY <2>5, <3>3, CellsSame
      <3>5. PositionOf(circ') = PositionOf(d)
        BY <2>5, <3>3, <3>4 DEF PositionOf
      <3>6. circ'.pre <= me_circ_buf_values(circ')
        BY <3>3, CircBounds
      <3> QED
        BY <1>3, <2>1, <2>5, <2>6, <3>4, <3>5, <3>6, FlowMoved
    <2> QED
      BY <2>5, <2>7, <2>8
  <1> QED
    BY <1>4, <1>5

\* Who disables the FIFO stops the hardware and has the lock to himself.
LEMMA OpenedStep ==
  ASSUME Inv, Flow, hw'.fsm \/ hw'.armed => hw'.on, isr' = "fill" => hw'.on,
         hw.on => hw'.on \/ Free,
         \A u \in Task : (pc'[u] = pc[u] /\ call'[u] = call[u]) \/ OpenAt(u)'
  PROVE  Opened'
  <1>1. ASSUME NEW u \in Task PROVE OpenAt(u)'
    <2>1. CASE pc'[u] = pc[u] /\ call'[u] = call[u]
      <3>1. OpenAt(u)
        BY DEF Flow, Opened
      <3>2. Free => pc[u] \notin Inside
        BY FreeMeans
      <3> QED
        BY <2>1, <3>1, <3>2 DEF OpenAt, Inside
    <2> QED
      BY <1>1, <2>1
  <1> QED
    BY <1>1 DEF Opened

LEMMA OpenedGoto ==
  ASSUME Inv, Flow, hw'.fsm \/ hw'.armed => hw'.on, isr' = "fill" => hw'.on,
         hw.on => hw'.on \/ Free,
         NEW t \in Task, NEW l \in Location, NEW c \in Calls, Goto(t, l, c),
         l \in Filling => hw'.on,
         l \in {"write_copy", "write_done"} /\ c.how = "preload" => hw'.on,
         l \in {"write_wait", "write_check"} => c.how # "preload"
  PROVE  Opened'
  <1>1. pc \in [Task -> Location] /\ call \in [Task -> Calls]
    BY DEF Inv, AOType, UserType
  <1>2. pc'[t] = l /\ call'[t] = c
    BY <1>1 DEF Goto
  <1>3. \A u \in Task : u # t => pc'[u] = pc[u] /\ call'[u] = call[u]
    BY <1>1 DEF Goto
  <1>4. OpenAt(t)'
    BY <1>2 DEF OpenAt
  <1> QED
    BY <1>3, <1>4, OpenedStep

LEMMA OpenedReturn ==
  ASSUME Inv, Flow, hw'.fsm \/ hw'.armed => hw'.on, isr' = "fill" => hw'.on,
         hw.on => hw'.on \/ Free, NEW t \in Task, Return(t)
  PROVE  Opened'
  BY NoCallType, OpenedGoto DEF Return, Filling

\* The FIFO stays as it is, and the hardware is started by nobody.
LEMMA OpenedKept ==
  ASSUME Inv, Flow, UNCHANGED <<isr, user>>, hw'.on = hw.on,
         hw'.fsm \/ hw'.armed => hw.fsm \/ hw.armed
  PROVE  Opened'
  <1>1. (hw.fsm \/ hw.armed => hw.on) /\ (isr = "fill" => hw.on)
    BY DEF Flow, Opened
  <1> QED
    BY <1>1, OpenedStep DEF user

LEMMA OpenedHardware ==
  ASSUME Inv, Flow, hw_trigger \/ hw_convert \/ hw_underrun \/ hw_stop
  PROVE  Opened'
  <1>1. hw \in HwType
    BY DEF Inv, AOType
  <1>2. UNCHANGED <<isr, user>>
    BY DEF hw_trigger, hw_convert, hw_underrun, hw_stop, Hardware, rest
  <1>3. hw'.on = hw.on /\ (hw'.fsm \/ hw'.armed => hw.fsm \/ hw.armed)
    <2>1. CASE hw_trigger
      BY <1>1, <2>1 DEF hw_trigger, Hardware, Started, HwType
    <2>2. CASE hw_convert
      BY <1>1, <2>2 DEF hw_convert, Hardware, HwType
    <2>3. CASE hw_underrun \/ hw_stop
      BY <1>1, <2>3 DEF hw_underrun, hw_stop, Hardware, HwType
    <2> QED
      BY <2>1, <2>2, <2>3
  <1> QED
    BY <1>2, <1>3, OpenedKept

LEMMA OpenedControl ==
  ASSUME Inv, Flow, Control
  PROVE  Opened'
  <1>1. hw \in HwType
    BY DEF Inv, AOType
  <1>2. UNCHANGED <<isr, user>>
    BY DEF Control, work_control_task, control_post
  <1>3. CASE hw' = Off(ao_stop_immediately(hw)) /\ Free
    <2>1. ~ hw'.fsm /\ ~ hw'.armed
      BY <1>1, <1>3, StoppedType DEF Still
    <2>2. isr' # "fill"
      BY <1>2, <1>3, FreeMeans
    <2> QED
      BY <1>2, <1>3, <2>1, <2>2, OpenedStep DEF user
  <1>4. CASE hw' \in {hw, ao_stop_immediately(hw), Halted(hw)}
    <2>1. hw'.on = hw.on /\ (hw'.fsm \/ hw'.armed => hw.fsm \/ hw.armed)
      BY <1>1, <1>4, StoppedType DEF Still
    <2> QED
      BY <1>2, <2>1, OpenedKept
  <1>5. CASE work_control_task
    BY <1>3, <1>4, <1>5 DEF work_control_task, control_single, control_run_wait, control_run,
                            control_end_wait, control_idle, Found
  <1>6. CASE control_post
    BY <1>4, <1>6 DEF control_post
  <1> QED
    BY <1>5, <1>6 DEF Control

\* The handler fills the FIFO of a running state machine.
LEMMA OpenedHandler ==
  ASSUME Inv, Flow, Handler
  PROVE  Opened'
  <1>1. hw \in HwType /\ (hw.fsm \/ hw.armed => hw.on) /\ (isr = "fill" => hw.on)
    BY DEF Inv, AOType, Flow, Opened
  <1>2. UNCHANGED user
    BY DEF Handler, irq, irq_handle, irq_enter
  <1>3. CASE irq
    <2>1. hw' = hw /\ isr' = "enter"
      BY <1>3 DEF irq
    <2> QED
      BY <1>1, <1>2, <2>1, OpenedStep DEF user
  <1>4. CASE irq_enter
    <2>1. CASE hw.fsm /\ BelowHalf(hw.fifo)
      <3>1. hw' = Quiet(hw) /\ isr' = "fill"
        BY <1>4, <2>1 DEF irq_enter
      <3>2. hw'.on /\ hw.on
        BY <1>1, <2>1, <3>1, RegisterType
      <3> QED
        BY <1>2, <3>2, OpenedStep DEF user
    <2>2. CASE ~ (hw.fsm /\ BelowHalf(hw.fifo))
      <3>1. /\ isr' = "idle"
            /\ hw' \in {[hw EXCEPT !.rst = FALSE], ao_stop_immediately(hw)}
        BY <1>4, <2>2 DEF irq_enter
      <3>2. hw'.on = hw.on /\ (hw'.fsm \/ hw'.armed => hw.fsm \/ hw.armed)
        <4>1. CASE hw' = [hw EXCEPT !.rst = FALSE]
          BY <1>1, <4>1 DEF HwType
        <4>2. CASE hw' = ao_stop_immediately(hw)
          BY <1>1, <4>2, StoppedType DEF Still
        <4> QED
          BY <3>1, <4>1, <4>2
      <3> QED
        BY <1>1, <1>2, <3>1, <3>2, OpenedStep DEF user
    <2> QED
      BY <2>1, <2>2
  <1>5. CASE irq_fill
    <2>1. PICK f, n, c : \/ isr = "fill" /\ Leaves(c, n, f)
                         \/ isr = "fill" /\ hw' = [hw EXCEPT !.fifo = f]
      BY <1>5 DEF irq_fill
    <2> DEFINE h == [hw EXCEPT !.fifo = f]
    <2>2. hw' \in {h, Enabled(h), [h EXCEPT !.irq = Board = "me4600"]}
      BY <2>1 DEF Leaves
    <2>3. h.on = hw.on /\ h \in [fsm : BOOLEAN, armed : BOOLEAN, halt : BOOLEAN, stop : BOOLEAN,
                                 on : BOOLEAN, wrap : BOOLEAN, irq : BOOLEAN, rst : BOOLEAN,
                                 fifo : {f}, dac : Int]
      BY <1>1 DEF HwType
    <2> HIDE DEF h
    <2>4. hw'.on
      BY <1>1, <2>1, <2>2, <2>3 DEF Enabled
    <2> QED
      BY <1>2, <2>4, OpenedStep DEF user
  <1> QED
    BY <1>3, <1>4, <1>5 DEF Handler, irq_handle

LEMMA OpenedAside ==
  ASSUME Inv, Flow, NEW t \in Task,
         \/ reset_wake(t) \/ single_read(t) \/ stream_write(t) \/ write_check(t)
         \/ stream_status(t) \/ stream_new_values(t) \/ values_top(t) \/ values_check(t)
         \/ wait_ready(t) \/ wait_sleep(t) \/ wait_timeout(t) \/ start_check(t)
  PROVE  Opened'
  <1>1. /\ hw \in HwType /\ call[t] \in Calls /\ pc[t] \in Location
        /\ (hw.fsm \/ hw.armed => hw.on) /\ (isr = "fill" => hw.on) /\ OpenAt(t)
    BY DEF Inv, AOType, UserType, Flow, Opened
  <1>2. isr' = isr
    BY DEF reset_wake, single_read, stream_write, write_check, stream_status,
           stream_new_values, values_top, values_check, wait_ready, wait_sleep, wait_timeout,
           start_check, Resume, rest
  <1>3. hw' \in {hw, ao_stop_immediately(hw), Started(hw)}
        /\ (hw' = Started(hw) => hw' = hw \/ hw.armed)
    <2>1. CASE start_check(t)
      BY <1>1, <2>1, StoppedType DEF start_check, Still, Started, HwType
    <2>2. CASE ~ start_check(t)
      BY <2>2 DEF reset_wake, single_read, stream_write, write_check, stream_status,
           stream_new_values, values_top, values_check, wait_ready, wait_sleep, wait_timeout,
           Resume
    <2> QED
      BY <2>1, <2>2
  <1>4. hw'.on = hw.on /\ (hw'.fsm \/ hw'.armed => hw.fsm \/ hw.armed)
    <2>1. CASE hw' = hw \/ hw' = ao_stop_immediately(hw)
      BY <1>1, <2>1, StoppedType DEF Still
    <2>2. CASE hw' = Started(hw) /\ hw.armed
      BY <1>1, <2>2, RegisterType
    <2> QED
      BY <1>3, <2>1, <2>2
  <1>5. /\ hw'.fsm \/ hw'.armed => hw'.on
        /\ isr' = "fill" => hw'.on
        /\ hw.on => hw'.on \/ Free
    BY <1>1, <1>2, <1>4
  <1>6. ASSUME NEW l \in Location, NEW c \in Calls, Goto(t, l, c),
               \/ l \notin Filling \cup {"write_copy", "write_done", "write_wait", "write_check"}
               \/ /\ l \in {"write_copy", "write_check"} /\ c.how = call[t].how
                  /\ pc[t] \in {"write_check", "write_wait"}
        PROVE  Opened'
    <2>1. pc[t] \in {"write_check", "write_wait"} => call[t].how # "preload"
      BY <1>1 DEF OpenAt
    <2>2. l \notin Filling
      BY <1>6 DEF Filling
    <2> QED
      BY <1>5, <1>6, <2>1, <2>2, OpenedGoto
  <1>7. CASE Return(t)
    BY <1>5, <1>7, OpenedReturn
  <1>8. CASE UNCHANGED user
    BY <1>2, <1>4, <1>8, OpenedKept
  <1>9. CASE reset_wake(t) \/ start_check(t) \/ wait_sleep(t)
    BY <1>7, <1>8, <1>9 DEF reset_wake, start_check, wait_sleep
  <1>10. CASE single_read(t)
    <2>1. CASE \E timed \in Timed : Goto(t, "read_wait", [NoCall EXCEPT !.timed = timed])
      <3>1. PICK timed \in BOOLEAN : Goto(t, "read_wait", [NoCall EXCEPT !.timed = timed])
        BY <2>1, KindsAssumption
      <3>2. [NoCall EXCEPT !.timed = timed] \in Calls
        BY NoCallType DEF Calls
      <3>3. "read_wait" \in Location \ (Filling \cup {"write_copy", "write_done", "write_wait",
                                                      "write_check"})
        BY DEF Location, Waits, Filling
      <3> QED
        BY <1>6, <3>1, <3>2, <3>3
    <2> QED
      BY <1>8, <1>10, <2>1 DEF single_read
  <1>11. CASE stream_write(t)
    <2>1. PICK c \in Calls : Goto(t, "write_lock", c)
      <3>1. PICK how \in {"preload", "nonblocking", "blocking"}, n \in Chunk, timed \in Timed :
               Goto(t, "write_lock",
                    [NoCall EXCEPT !.left = n, !.timed = timed,
                          !.how = IF conf.mode = "hw_wrap" THEN "preload" ELSE how])
        BY <1>11 DEF stream_write
      <3>2. n \in Nat /\ timed \in BOOLEAN
        BY SizesAssumption, KindsAssumption
      <3> QED
        BY <3>1, <3>2, NoCallType DEF Calls
    <2>2. "write_lock" \in Location \ (Filling \cup {"write_copy", "write_done", "write_wait",
                                                     "write_check"})
      BY DEF Location, Filling
    <2> QED
      BY <1>6, <2>1, <2>2
  <1>12. CASE write_check(t)
    <2>1. "write_copy" \in Location
      BY DEF Location
    <2>2. pc[t] = "write_check" /\ (Goto(t, "write_copy", call[t]) \/ Return(t))
      BY <1>12 DEF write_check, Leave
    <2> QED
      BY <1>1, <1>6, <1>7, <2>1, <2>2
  <1>13. CASE stream_status(t)
    <2>1. PICK c \in Calls : Goto(t, "status_wait", c)
      <3>1. counts.start \in Nat /\ counts.stop \in Nat
        BY DEF Inv, AOType
      <3>2. ASSUME NEW how \in {"idle", "busy", "start", "stop"}, NEW old \in Nat
            PROVE  /\ [NoCall EXCEPT !.how = how] \in Calls
                   /\ [NoCall EXCEPT !.how = how, !.old = old] \in Calls
        BY NoCallType DEF Calls
      <3> QED
        BY <1>13, <3>1, <3>2 DEF stream_status
    <2>2. "status_wait" \in Location \ (Filling \cup {"write_copy", "write_done", "write_wait",
                                                      "write_check"})
      BY DEF Location, Waits, Filling
    <2> QED
      BY <1>6, <2>1, <2>2
  <1>14. CASE stream_new_values(t)
    <2>1. PICK screen \in BOOLEAN, report \in BOOLEAN, timed \in BOOLEAN :
             Goto(t, "values_top", [NoCall EXCEPT !.screen = screen, !.report = report,
                                                  !.timed = timed])
      BY <1>14, KindsAssumption DEF stream_new_values
    <2>2. [NoCall EXCEPT !.screen = screen, !.report = report, !.timed = timed] \in Calls
      BY NoCallType DEF Calls
    <2>3. "values_top" \in Location \ (Filling \cup {"write_copy", "write_done", "write_wait",
                                                     "write_check"})
      BY DEF Location, Filling
    <2> QED
      BY <1>6, <2>1, <2>2, <2>3
  <1>15. CASE values_top(t) \/ values_check(t)
    <2>1. /\ [call[t] EXCEPT !.snap = status, !.old = circ.tail] \in Calls
          /\ [call[t] EXCEPT !.snap = "none", !.old = 0] \in Calls
      <3>1. status \in Status /\ "none" \in Status /\ circ.tail \in Nat
        BY SizesAssumption DEF Inv, AOType, CircType, Status, Idle
      <3> QED
        BY <1>1, <3>1 DEF Calls
    <2>2. {"values_top", "values_wait"} \subseteq
             Location \ (Filling \cup {"write_copy", "write_done", "write_wait", "write_check"})
      BY DEF Location, Waits, Filling
    <2>3. \/ Return(t)
          \/ Goto(t, "values_wait", [call[t] EXCEPT !.snap = status, !.old = circ.tail])
          \/ Goto(t, "values_top", [call[t] EXCEPT !.snap = "none", !.old = 0])
      BY <1>15 DEF values_top, values_check
    <2> QED
      BY <1>6, <1>7, <2>1, <2>2, <2>3
  <1>16. CASE wait_ready(t) \/ wait_timeout(t)
    <2>1. PICK c \in Calls : Resume(t, c) /\ c.how = call[t].how
      <3>1. call[t] \in Calls /\ [call[t] EXCEPT !.late = TRUE] \in Calls
            /\ [call[t] EXCEPT !.late = TRUE].how = call[t].how
        BY <1>1 DEF Calls
      <3> QED
        BY <1>16, <3>1 DEF wait_ready, wait_timeout
    <2> DEFINE l == AfterWait[pc[t]]
    <2>2. pc[t] \in Waits
      BY <1>16 DEF wait_ready, wait_timeout, Waiting
    <2>3. /\ l \in Location
          /\ \/ l \notin Filling \cup {"write_copy", "write_done", "write_wait", "write_check"}
             \/ l = "write_check" /\ pc[t] = "write_wait"
      BY <2>2 DEF AfterWait, Waits, Location, Filling
    <2>4. Return(t) \/ Goto(t, l, c)
      BY <2>1 DEF Resume
    <2> HIDE DEF l
    <2> QED
      BY <1>6, <1>7, <2>1, <2>3, <2>4
  <1> QED
    BY <1>9, <1>10, <1>11, <1>12, <1>13, <1>14, <1>15, <1>16

\* The FIFO is disabled behind a stop.
LEMMA OpenedReset ==
  ASSUME Inv, Flow, NEW t \in Task,
         \/ reset_subdevice(t) \/ single_config(t) \/ single_write(t) \/ single_check(t)
         \/ stream_config(t) \/ stream_stop(t) \/ stop_end(t)
  PROVE  Opened'
  <1>1. hw \in HwType /\ (hw.fsm \/ hw.armed => hw.on)
    BY DEF Inv, AOType, Flow, Opened
  <1>2. Free /\ isr' # "fill"
    <2>1. Free /\ isr' = isr
      BY DEF reset_subdevice, single_config, single_write, single_check, stream_config,
             stream_stop, stop_end, rest
    <2> QED
      BY <2>1, FreeMeans
  <1>3. hw'.fsm \/ hw'.armed => hw'.on
    <2>1. CASE reset_subdevice(t) \/ single_config(t) \/ stream_config(t)
      <3>1. Rewritten(hw) \in HwType /\ Still(Rewritten(hw))
        BY <1>1, StoppedType
      <3>2. \/ hw' = [Rewritten(hw) EXCEPT !.dac = None]
            \/ hw' = [Rewritten(hw) EXCEPT !.rst = FALSE]
            \/ \E wrap \in BOOLEAN :
                  hw' = [Rewritten(hw) EXCEPT !.wrap = wrap, !.dac = None]
        BY <2>1 DEF reset_subdevice, single_config, stream_config
      <3> QED
        BY <3>1, <3>2 DEF HwType, Still
    <2>2. CASE single_write(t)
      <3>1. single_loaded(hw).on /\ single_loaded(hw) \in HwType
        <4>1. <<Alone>> \in Seq(Int)
          BY DEF Alone
        <4> QED
          BY <1>1, <4>1 DEF single_loaded, Quiet, HwType
      <3>2. hw' = Started(single_loaded(hw)) \/ hw' = [single_loaded(hw) EXCEPT !.armed = TRUE]
        BY <2>2 DEF single_write
      <3> QED
        BY <3>1, <3>2 DEF HwType, Started
    <2>3. CASE single_check(t)
      BY <1>1, <2>3, StoppedType DEF single_check, Still
    <2>4. ASSUME NEW keep, End(keep)
          PROVE  ~ hw'.fsm /\ ~ hw'.armed
      <3>1. ao_stop_immediately(hw) \in HwType /\ Still(ao_stop_immediately(hw))
        BY <1>1, StoppedType
      <3>2. Off(ao_stop_immediately(hw)) \in HwType /\ Still(Off(ao_stop_immediately(hw)))
        BY <3>1, StoppedType
      <3> QED
        BY <2>4, <3>1, <3>2 DEF End, Still, HwType
    <2>5. CASE stream_stop(t)
      <3>1. \/ \E keep \in Keep : End(keep)
            \/ hw' = hw \/ hw' = Quiet([hw EXCEPT !.stop = TRUE])
        BY <2>5 DEF stream_stop
      <3> QED
        BY <1>1, <2>4, <3>1 DEF Quiet, HwType
    <2>6. CASE stop_end(t)
      BY <2>4, <2>6 DEF stop_end
    <2> QED
      BY <2>1, <2>2, <2>3, <2>5, <2>6
  <1>4. ASSUME NEW l \in Location, NEW c \in Calls, Goto(t, l, c),
               l \notin Filling \cup {"write_copy", "write_done", "write_wait", "write_check"}
        PROVE  Opened'
    BY <1>2, <1>3, <1>4, OpenedGoto
  <1>5. CASE UNCHANGED user
    BY <1>2, <1>3, <1>5, OpenedStep DEF user
  <1>6. CASE Return(t)
    BY <1>2, <1>3, <1>6, OpenedReturn
  <1>7. {"reset_wake", "single_wait", "stop_wait"} \subseteq
           Location \ (Filling \cup {"write_copy", "write_done", "write_wait", "write_check"})
    BY DEF Location, Waits, Filling
  <1>8. CASE reset_subdevice(t)
    BY <1>4, <1>7, <1>8, NoCallType DEF reset_subdevice
  <1>9. CASE single_config(t) \/ stream_config(t)
    BY <1>5, <1>9 DEF single_config, stream_config
  <1>10. CASE single_check(t) \/ stop_end(t)
    BY <1>6, <1>10 DEF single_check, stop_end
  <1>11. ASSUME NEW keep \in BOOLEAN, NEW timed \in BOOLEAN
         PROVE  [NoCall EXCEPT !.keep = keep, !.timed = timed] \in Calls
                /\ [NoCall EXCEPT !.timed = timed] \in Calls
    BY NoCallType DEF Calls
  <1>12. CASE single_write(t)
    <2>1. \/ UNCHANGED user
          \/ \E timed \in BOOLEAN : Goto(t, "single_wait", [NoCall EXCEPT !.timed = timed])
      BY <1>12, KindsAssumption DEF single_write
    <2> QED
      BY <1>4, <1>5, <1>7, <1>11, <2>1
  <1>13. CASE stream_stop(t)
    <2>1. \/ UNCHANGED user
          \/ \E keep \in BOOLEAN, timed \in BOOLEAN :
                Goto(t, "stop_wait", [NoCall EXCEPT !.keep = keep, !.timed = timed])
      BY <1>13, KindsAssumption DEF stream_stop
    <2> QED
      BY <1>4, <1>5, <1>7, <1>11, <2>1
  <1> QED
    BY <1>8, <1>9, <1>10, <1>12, <1>13

\* Who starts or fills has the FIFO enabled.
LEMMA OpenedStart ==
  ASSUME Inv, Flow, NEW t \in Task, stream_start(t)
  PROVE  Opened'
  <1> DEFINE c == StartBuffer
             values == me_circ_buf_values(c)
             until == Until(values)
             first == IF hw.fifo = <<>>
                      THEN ao_write_data(hw.fifo, c, Portion(until, FifoSize), c.pre)
                      ELSE [n |-> 0, fifo |-> hw.fifo]
             loops == /\ conf.mode # "continuous" /\ conf.stop = "inf" /\ values <= FifoSize
             fifo == IF loops THEN ao_write_data(first.fifo, c, values, c.pre + first.n).fifo
                              ELSE first.fifo
             wrap == conf.wrap \/ loops
             ready == [Quiet(hw) EXCEPT !.on = TRUE, !.fifo = fifo, !.wrap = wrap,
                                        !.halt = FALSE, !.stop = FALSE]
             armed == IF BelowHalf(fifo) \/ wrap THEN ready ELSE Enabled(ready)
  <1>1. hw' \in {[armed EXCEPT !.armed = TRUE], Started(armed)} /\ hw \in HwType
    BY DEF stream_start, Inv, AOType
  <1>2. PICK k \in Calls : Goto(t, "start_fill", k)
    <2> HIDE DEF fifo
    <2>1. PICK block \in BOOLEAN, timed \in Timed :
             Goto(t, "start_fill", [NoCall EXCEPT !.half = BelowHalf(fifo),
                                                  !.block = block, !.timed = timed])
      BY DEF stream_start, fifo
    <2>2. [NoCall EXCEPT !.half = BelowHalf(fifo), !.block = block, !.timed = timed] \in Calls
      <3>1. BelowHalf(fifo) \in BOOLEAN
        BY DEF BelowHalf
      <3> QED
        BY <3>1, KindsAssumption, NoCallType DEF NoCall, Calls
    <2> QED
      BY <2>1, <2>2
  <1> HIDE DEF fifo
  <1>3. /\ ready.on
        /\ ready \in [fsm : BOOLEAN, armed : BOOLEAN, halt : BOOLEAN, stop : BOOLEAN,
                      on : BOOLEAN, wrap : BOOLEAN, irq : BOOLEAN, rst : BOOLEAN,
                      fifo : {fifo}, dac : Int]
    <2>1. wrap \in BOOLEAN
      OBVIOUS
    <2> HIDE DEF wrap
    <2> QED
      BY <1>1, <2>1 DEF HwType, Quiet
  <1>4. armed = ready \/ armed = Enabled(ready)
    OBVIOUS
  <1> HIDE DEF ready, armed
  <1>5. /\ armed.on
        /\ armed \in [fsm : BOOLEAN, armed : BOOLEAN, halt : BOOLEAN, stop : BOOLEAN,
                      on : BOOLEAN, wrap : BOOLEAN, irq : BOOLEAN, rst : BOOLEAN,
                      fifo : {fifo}, dac : Int]
    BY <1>3, <1>4 DEF Enabled
  <1>6. hw'.on
    BY <1>1, <1>5 DEF Started
  <1>7. "start_fill" \in Location
    BY DEF Location
  <1> QED
    BY <1>2, <1>6, <1>7, OpenedGoto

LEMMA OpenedFill ==
  ASSUME Inv, Flow, NEW t \in Task, start_fill(t) \/ start_loop(t)
  PROVE  Opened'
  <1>1. hw \in HwType /\ call[t] \in Calls /\ OpenAt(t) /\ pc[t] \in Filling
    BY DEF Inv, AOType, UserType, Flow, Opened, start_fill, start_loop, Filling
  <1>2. hw.on
    BY <1>1 DEF OpenAt
  <1>3. hw'.on
    <2>1. \/ hw' = hw
          \/ \E f : hw' = [hw EXCEPT !.fifo = f] \/ hw' = IfHalfFull([hw EXCEPT !.fifo = f])
      BY DEF start_fill, start_loop
    <2> QED
      BY <1>1, <1>2, <2>1 DEF IfHalfFull, Enabled, HwType
  <1>4. \/ Return(t) \/ Goto(t, "start_loop", call[t]) \/ UNCHANGED user
        \/ Goto(t, "start_wait", [NoCall EXCEPT !.timed = call[t].timed])
    BY DEF start_fill, start_loop, Leave, Scheduled
  <1>5. [NoCall EXCEPT !.timed = call[t].timed] \in Calls
    BY <1>1, NoCallType DEF Calls
  <1>6. "start_loop" \in Location /\ "start_wait" \in Location \ Filling
    BY DEF Location, Waits, Filling
  <1>7. CASE UNCHANGED user
    BY <1>3, <1>7, OpenedStep DEF user
  <1>8. CASE Return(t)
    BY <1>3, <1>8, OpenedReturn
  <1> QED
    BY <1>1, <1>3, <1>4, <1>5, <1>6, <1>7, <1>8, OpenedGoto

LEMMA OpenedWrite ==
  ASSUME Inv, Flow, NEW t \in Task, write_lock(t) \/ write_copy(t) \/ write_done(t)
  PROVE  Opened'
  <1>1. /\ hw \in HwType /\ call[t] \in Calls /\ OpenAt(t)
        /\ (hw.fsm \/ hw.armed => hw.on) /\ (isr = "fill" => hw.on)
    BY DEF Inv, AOType, UserType, Flow, Opened
  <1>2. isr' = isr
    BY DEF write_lock, write_copy, write_done, rest
  <1>3. {"write_copy", "write_done", "write_wait"} \subseteq Location \ Filling
    BY DEF Location, Waits, Filling
  <1>4. CASE write_lock(t)
    <2>1. /\ hw' = hw \/ hw' = [hw EXCEPT !.on = TRUE]
          /\ call[t].how = "preload" => hw' = [hw EXCEPT !.on = TRUE] \/ hw'.on
          /\ Goto(t, "write_copy", call[t])
      BY <1>4 DEF write_lock
    <2>2. /\ hw'.fsm = hw.fsm /\ hw'.armed = hw.armed /\ (hw.on => hw'.on)
          /\ call[t].how = "preload" => hw'.on
      BY <1>1, <2>1 DEF HwType
    <2>3. /\ hw'.fsm \/ hw'.armed => hw'.on
          /\ isr' = "fill" => hw'.on
      BY <1>1, <1>2, <2>2
    <2> QED
      BY <1>1, <1>3, <2>1, <2>2, <2>3, OpenedGoto
  <1>5. CASE write_copy(t)
    <2> DEFINE n == Least(call[t].left, me_circ_buf_space(circ))
               again == [call[t] EXCEPT !.left = call[t].left - n]
    <2>1. /\ pc[t] = "write_copy"
          /\ \/ \E f : hw' = [Held(hw) EXCEPT !.fifo = f]
             \/ hw' = hw \/ hw' = Released(hw)
      BY <1>5 DEF write_copy
    <2>2. hw'.fsm = hw.fsm /\ hw'.armed = hw.armed /\ hw'.on = hw.on
      <3>1. CASE \E f : hw' = [Held(hw) EXCEPT !.fifo = f]
        <4>1. /\ Held(hw) \in HwType /\ Held(hw).fsm = hw.fsm /\ Held(hw).armed = hw.armed
              /\ Held(hw).on = hw.on
          BY <1>1, RegisterType
        <4> QED
          BY <3>1, <4>1 DEF HwType
      <3>2. CASE hw' = hw \/ hw' = Released(hw)
        BY <1>1, <3>2, RegisterType
      <3> QED
        BY <2>1, <3>1, <3>2
    <2>3. n \in Nat /\ call[t].left - n \in Nat
      <3>1. call[t].left \in Nat /\ me_circ_buf_space(circ) \in Nat
        BY <1>1, CircBounds DEF Calls, Inv, AOType
      <3> QED
        BY <3>1 DEF Least
    <2>4. again \in Calls /\ again.how = call[t].how
      BY <1>1, <2>3 DEF Calls
    <2>5. \/ Goto(t, "write_copy", again) \/ Return(t) \/ Goto(t, "write_done", again)
          \/ Goto(t, "write_wait", again) /\ call[t].how = "blocking"
      BY <1>5 DEF write_copy, Leave
    <2> HIDE DEF again
    <2>6. call[t].how = "preload" => hw.on
      BY <1>1, <2>1 DEF OpenAt
    <2>7. /\ hw'.fsm \/ hw'.armed => hw'.on
          /\ isr' = "fill" => hw'.on
          /\ hw.on => hw'.on
      BY <1>1, <1>2, <2>2
    <2>8. CASE Return(t)
      BY <2>7, <2>8, OpenedReturn
    <2> QED
      BY <1>3, <2>2, <2>4, <2>5, <2>6, <2>7, <2>8, OpenedGoto
  <1>6. CASE write_done(t)
    <2>1. Return(t) /\ (hw' = hw \/ \E f : hw' = [hw EXCEPT !.fifo = f])
      BY <1>6 DEF write_done, Leave
    <2>2. hw'.fsm = hw.fsm /\ hw'.armed = hw.armed /\ hw'.on = hw.on
      BY <1>1, <2>1 DEF HwType
    <2> QED
      BY <1>1, <1>2, <2>1, <2>2, OpenedReturn
  <1> QED
    BY <1>4, <1>5, <1>6

-----------------------------------------------------------------------------
(* Nothing is lost *)

LEMMA FlowInit ==
  ASSUME Init
  PROVE  Flow
  <1>1. circ = Empty /\ status = "none"
    BY DEF Init
  <1>2. CellsIn(circ) /\ Flows
    BY <1>1, CellsEmpty DEF Flows, Streaming, Running, Failed
  <1>3. Opened
    BY DEF Init, Opened, OpenAt, Filling
  <1> QED
    BY <1>2, <1>3 DEF Flow

LEMMA FlowIoctl ==
  ASSUME Inv, Flow, NEW t \in Task, Ioctl(t)
  PROVE  Flow'
  <1>1. CellsIn(circ)' /\ Flows'
    BY FlowReset, FlowAside, FlowStart DEF Ioctl, Flow
  <1>2. Opened'
    BY OpenedReset, OpenedAside, OpenedStart DEF Ioctl
  <1> QED
    BY <1>1, <1>2 DEF Flow

LEMMA FlowProceed ==
  ASSUME Inv, Flow, NEW t \in Task, Proceed(t) \/ wait_timeout(t)
  PROVE  Flow'
  <1>1. CellsIn(circ)' /\ Flows'
    BY FlowAside, FlowReset, FlowStartFill, FlowStartLoop, FlowWriteLock, FlowWriteCopy,
       FlowWriteDone DEF Proceed, Flow
  <1>2. Opened'
    BY OpenedAside, OpenedReset, OpenedFill, OpenedWrite DEF Proceed
  <1> QED
    BY <1>1, <1>2 DEF Flow

LEMMA FlowElse ==
  ASSUME Inv, Flow,
         Control \/ Handler \/ hw_trigger \/ hw_convert \/ hw_underrun \/ hw_stop
  PROVE  Flow'
  <1>1. CASE irq_fill /\ UNCHANGED <<conf, control, worker, user>>
    BY <1>1, FlowIrqFill, OpenedHandler DEF Flow, Handler, irq_handle
  <1>2. CASE Control \/ irq \/ irq_enter \/ hw_trigger \/ hw_underrun \/ hw_stop
    BY <1>2, FlowControl, OpenedControl, OpenedHandler, OpenedHardware
       DEF Flow, Handler, irq_handle
  <1>3. CASE hw_convert
    BY <1>3, FlowConvert, OpenedHardware DEF Flow
  <1> QED
    BY <1>1, <1>2, <1>3 DEF Handler, irq_handle

LEMMA FlowStutter ==
  ASSUME Inv, Flow, UNCHANGED vars
  PROVE  Flow'
  <1>1. UNCHANGED <<status, conf, circ, hw, isr, user>>
    BY DEF vars, soft, rest
  <1>2. CellsIn(circ)' /\ Flows'
    BY <1>1, FlowSame DEF Flow, Streaming
  <1>3. Opened'
    BY <1>1, OpenedKept
  <1> QED
    BY <1>2, <1>3 DEF Flow

LEMMA FlowHolds ==
  ASSUME LoneStarter
  PROVE  Spec => [](Inv /\ Wraps /\ Flow)
  <1>1. Init => Inv /\ Wraps /\ Flow
    BY InvInit, FlowInit
  <1>2. (Inv /\ Wraps /\ Flow) /\ [Next]_vars => (Inv /\ Wraps /\ Flow)'
    <2> SUFFICES ASSUME Inv, Wraps, Flow, [Next]_vars
                 PROVE  Flow'
      BY InvNext
    <2> QED
      BY FlowIoctl, FlowProceed, FlowElse, FlowStutter DEF Next
  <1> QED
    BY <1>1, <1>2, PTL DEF Spec

\* What is on its way is a run of consecutive values that ends with the last one written.
LEMMA PipeOf ==
  ASSUME Inv, Flow, Streaming, conf.mode = "continuous"
  PROVE  /\ Pipe \in Seq(Int) /\ circ.next \in Int
         /\ \A i \in 1 .. Len(Pipe) : Pipe[i] = circ.next - Len(Pipe) + i - 1
         /\ hw.dac # None => circ.next - Len(Pipe) = hw.dac + 1
  <1> DEFINE v == me_circ_buf_values(circ)
             n == v - circ.pre
             s == [i \in 1 .. n |-> circ.buf[(circ.tail + circ.pre + i - 1) % BufSize]]
             p == PositionOf(circ)
  <1>1. /\ circ \in CircType /\ hw.fifo \in Seq(Int) /\ circ.pre \in Nat /\ circ.next \in Nat
        /\ circ.tail \in Int /\ v \in Nat /\ hw.dac \in Int
    BY CircBounds, SizesAssumption DEF Inv, AOType, HwType, CircType
  <1>2. /\ circ.pre <= v /\ InFifo(hw.fifo, p) /\ CellsIn(circ)
        /\ hw.dac # None => hw.dac = p - Len(hw.fifo) - 1
    BY DEF Flow, Flows
  <1>3. n \in Nat /\ p = circ.next - n /\ p \in Int
    BY <1>1, <1>2 DEF PositionOf
  <1>4. \A j \in 0 .. v - 1 : circ.buf[(circ.tail + j) % BufSize] = circ.next - v + j
    BY <1>2 DEF CellsIn
  <1>5. Pipe = hw.fifo \o s
    BY DEF Pipe
  <1> HIDE DEF v, p
  <1>6. ASSUME NEW i \in 1 .. n
        PROVE  s[i] = p + i - 1 /\ s[i] \in Int
    <2>1. circ.pre + i - 1 \in 0 .. v - 1
      BY <1>1, <1>2, <1>3
    <2>2. circ.tail + circ.pre + i - 1 = circ.tail + (circ.pre + i - 1)
      BY <1>1
    <2>3. s[i] = circ.buf[(circ.tail + (circ.pre + i - 1)) % BufSize]
      BY <2>2
    <2> HIDE DEF s
    <2>4. s[i] = circ.next - v + (circ.pre + i - 1)
      BY <1>4, <2>1, <2>3
    <2> QED
      BY <1>1, <1>3, <2>4
  <1>7. s \in [1 .. n -> Int]
    BY <1>6
  <1> HIDE DEF n, s
  <1>8. s \in Seq(Int) /\ Len(s) = n
    BY <1>3, <1>7, Copied
  <1>9. InFifo(Pipe, p + Len(s)) /\ Len(Pipe) = Len(hw.fifo) + Len(s)
    BY <1>1, <1>2, <1>3, <1>5, <1>6, <1>8, Continued
  <1>10. p + Len(s) = circ.next
    BY <1>1, <1>3, <1>8
  <1>11. Pipe \in Seq(Int)
    BY <1>1, <1>5, <1>8
  <1>12. hw.dac # None => circ.next - Len(Pipe) = hw.dac + 1
    <2>1. Len(hw.fifo) \in Nat
      BY <1>1
    <2>2. Len(Pipe) = Len(hw.fifo) + n
      BY <1>8, <1>9
    <2> DEFINE f == Len(hw.fifo)
               q == Len(Pipe)
               y == hw.dac
               x == circ.next
    <2>3. /\ f \in Nat /\ q = f + n /\ n \in Nat /\ p = x - n /\ x \in Nat /\ y \in Int
          /\ y # None => y = p - f - 1
      BY <1>1, <1>2, <1>3, <2>1, <2>2
    <2> HIDE DEF f, q, y, x
    <2>4. y # None => x - q = y + 1
      BY <2>3
    <2> QED
      BY <2>4 DEF q, x, y
  <1> QED
    BY <1>1, <1>9, <1>10, <1>11, <1>12 DEF InFifo

\* No value of a continuous stream is lost, repeated or overtaken between the user and the
\* converter (me4600_ao.c: ao_write_data and its callers, ao_get_data_from_user), for every
\* size of the FIFO and the buffer, every number of tasks and of values, every limit.
THEOREM NothingLostHolds ==
  ASSUME LoneStarter
  PROVE  Spec => []NothingLost
  <1>1. Inv /\ Flow => NothingLost
    <2> SUFFICES ASSUME Inv, Flow, conf.mode = "continuous", Pipe # <<>>, Streaming
                 PROVE  /\ \A i \in 1 .. Len(Pipe) - 1 : Pipe[i + 1] = Pipe[i] + 1
                        /\ Pipe[Len(Pipe)] + 1 = circ.next
                        /\ hw.dac # None => Pipe[1] = hw.dac + 1
      BY DEF NothingLost
    <2>1. /\ Pipe \in Seq(Int) /\ circ.next \in Int
          /\ \A i \in 1 .. Len(Pipe) : Pipe[i] = circ.next - Len(Pipe) + i - 1
          /\ hw.dac # None => circ.next - Len(Pipe) = hw.dac + 1
      BY PipeOf
    <2>2. Len(Pipe) \in Nat /\ Len(Pipe) > 0
      BY <2>1
    <2>3. /\ \A i \in 1 .. Len(Pipe) - 1 : Pipe[i + 1] = Pipe[i] + 1
          /\ Pipe[Len(Pipe)] + 1 = circ.next
      <3> DEFINE p == Pipe
                 n == Len(Pipe)
      <3>1. n \in Nat /\ n > 0 /\ \A i \in 1 .. n : p[i] = circ.next - n + i - 1
        BY <2>1, <2>2
      <3> HIDE DEF p, n
      <3>2. \A i \in 1 .. n - 1 : p[i + 1] = p[i] + 1
        <4> TAKE i \in 1 .. n - 1
        <4>1. i \in 1 .. n /\ i + 1 \in 1 .. n /\ i \in Int
          BY <3>1
        <4>2. p[i] = circ.next - n + i - 1 /\ p[i + 1] = circ.next - n + (i + 1) - 1
          BY <3>1, <4>1
        <4>3. circ.next - n + (i + 1) - 1 = (circ.next - n + i - 1) + 1
          BY <2>1, <3>1, <4>1
        <4> QED
          BY <4>2, <4>3
      <3>3. p[n] + 1 = circ.next
        <4>1. n \in 1 .. n /\ circ.next - n + n - 1 = circ.next - 1
          BY <2>1, <3>1
        <4>2. p[n] = circ.next - n + n - 1
          BY <3>1, <4>1
        <4>3. circ.next - 1 + 1 = circ.next
          BY <2>1
        <4> QED
          BY <4>1, <4>2, <4>3
      <3> QED
        BY <3>2, <3>3 DEF p, n
    <2>4. 1 \in 1 .. Len(Pipe)
      BY <2>2
    <2> QED
      BY <2>1, <2>2, <2>3, <2>4
  <1>2. Inv /\ Wraps /\ Flow => NothingLost
    BY <1>1
  <1> QED
    BY <1>2, FlowHolds, PTL

=============================================================================
