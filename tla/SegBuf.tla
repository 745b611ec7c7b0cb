------------------------------- MODULE SegBuf -------------------------------
(***************************************************************************)
(* The segmented buffer of meseg_buf.c.  An analog input's interrupt       *)
(* handler and control task put samples into it, the reading ioctl gets    *)
(* them.  The storage is a table of segments; head and tail are            *)
(* (chunk, offset) pairs that wrap independently of the three counters.    *)
(*                                                                         *)
(* Each operation is one step: the callers that change the buffer run      *)
(* under the subdevice's protector (StreamAI).                             *)
(***************************************************************************)
EXTENDS Integers, Sequences

CONSTANTS
    Value,      \* samples
    Zero,       \* the sample 0x0000, what kzalloc() and a failed get leave
    Geometry,   \* <<number_segments, values per segment>> of the buffers created
    CountMod,   \* the counters are unsigned: they wrap at this value
    NULL,
    MaxHeap     \* bound: allocations alive when a buffer is created

ASSUME ZeroAssumption     == Zero \in Value
ASSUME GeometryAssumption == Geometry \subseteq (Nat \ {0}) \X (Nat \ {0})
ASSUME CountAssumption    ==
    CountMod \in Nat /\ \A g \in Geometry : g[1] * g[2] < CountMod

VARIABLES
    buf,        \* me_seg_buf_t, or NULL
    heap,       \* number of live allocations made for the buffer
    result      \* error code and value returned by the last call

vars == <<buf, heap, result>>

-----------------------------------------------------------------------------
Cells(chunks, chunk_size) == (0 .. chunks - 1) \X (0 .. chunk_size - 1)

Total(b) == b.chunks_count * b.chunk_size

\* head or tail, one value further.
Advance(b, a) ==
    IF a[2] + 1 # b.chunk_size THEN <<a[1], a[2] + 1>>
    ELSE IF a[1] + 1 # b.chunks_count THEN <<a[1] + 1, 0>> ELSE <<0, 0>>

\* Mutant: the last segment is not wrapped to the first when stepping back.
StepBack_sticks(b, a) ==
    IF a[2] # 0 THEN <<a[1], a[2] - 1>>
    ELSE IF a[1] # 0 THEN <<a[1] - 1, b.chunk_size - 1>> ELSE <<0, b.chunk_size - 1>>

\* head, one value back.
StepBack(b, a) ==
    IF a[2] # 0 THEN <<a[1], a[2] - 1>>
    ELSE <<IF a[1] # 0 THEN a[1] - 1 ELSE b.chunks_count - 1, b.chunk_size - 1>>

Up(n)   == (n + 1) % CountMod
Down(n) == (n - 1) % CountMod

Return(op, e, v) == result' = [op |-> op, err |-> e, value |-> v]
Fail(op, e)      == Return(op, e, Zero) /\ UNCHANGED <<buf, heap>>

Init ==
    /\ buf = NULL
    /\ heap = 0
    /\ result = [op |-> "none", err |-> "SUCCESS", value |-> Zero]

-----------------------------------------------------------------------------
Access == {"get", "put", "unget", "rotate", "read"}

\* The allocations made before the one that failed: the structure, the table
\* of segments, then the segments.  chunks_count is the number of segments.
Allocations(chunks) == chunks + 2

\* Mutant: the segments and their table are forgotten.
Freed_struct(allocated) == IF allocated > 0 THEN 1 ELSE 0

\* destroy_seg_buffer() frees the segments and their table only when it counts
\* at least one segment.
Freed(allocated) ==
    IF allocated > 2 THEN allocated ELSE IF allocated > 0 THEN 1 ELSE 0

create_seg_buffer(g) ==
    /\ buf = NULL /\ heap < MaxHeap
    /\ buf' = [chunks_count |-> g[1], chunk_size |-> g[2],
               values_count |-> 0, reads_count |-> 0, writes_count |-> 0,
               head |-> <<0, 0>>, tail |-> <<0, 0>>,
               segment |-> [a \in Cells(g[1], g[2]) |-> Zero]]
    /\ heap' = heap + Allocations(g[1])
    /\ UNCHANGED result

\* One of the allocations fails; the error path destroys what there is.
create_fails(g) ==
    /\ buf = NULL /\ heap < MaxHeap
    /\ \E k \in 0 .. Allocations(g[1]) - 1 : heap' = heap + k - Freed(k)
    /\ UNCHANGED <<buf, result>>

destroy_seg_buffer ==
    /\ buf # NULL
    /\ buf' = NULL
    /\ heap' = heap - Freed(Allocations(buf.chunks_count))
    /\ UNCHANGED result

\* Mutant: the counters survive a reset.
reset_keeps_counts ==
    /\ buf # NULL
    /\ buf' = [buf EXCEPT !.head = <<0, 0>>, !.tail = <<0, 0>>, !.values_count = 0]
    /\ UNCHANGED <<heap, result>>

me_seg_buf_reset ==
    /\ buf # NULL
    /\ buf' = [buf EXCEPT !.head = <<0, 0>>, !.tail = <<0, 0>>, !.values_count = 0,
                          !.reads_count = 0, !.writes_count = 0]
    /\ UNCHANGED <<heap, result>>

\* Every access function checks for a NULL buffer first.
NoBuffer(op) == buf = NULL /\ Fail(op, "INVALID_POINTER")

me_seg_buf_get ==
    /\ buf # NULL
    /\ \/ buf.values_count = 0 /\ Fail("get", "UNDERFLOW")
       \/ /\ buf.values_count # 0
          /\ Return("get", "SUCCESS", buf.segment[buf.tail])
          /\ buf' = [buf EXCEPT !.tail = Advance(buf, @), !.values_count = @ - 1,
                                !.reads_count = Up(@)]
          /\ UNCHANGED heap

me_seg_buf_put(v) ==
    /\ buf # NULL
    /\ \/ buf.values_count = Total(buf) /\ Fail("put", "OVERFLOW")
       \/ /\ buf.values_count # Total(buf)
          /\ Return("put", "SUCCESS", Zero)
          /\ buf' = [buf EXCEPT !.segment[buf.head] = v, !.head = Advance(buf, @),
                                !.values_count = @ + 1, !.writes_count = Up(@)]
          /\ UNCHANGED heap

me_seg_buf_unget ==
    /\ buf # NULL
    /\ \/ buf.values_count = 0 /\ Fail("unget", "INTERNAL")
       \/ /\ buf.values_count # 0
          /\ Return("unget", "SUCCESS", Zero)
          /\ buf' = [buf EXCEPT !.head = StepBack(buf, @), !.values_count = @ - 1,
                                !.writes_count = Down(@)]
          /\ UNCHANGED heap

me_seg_buf_rotate ==
    /\ buf # NULL
    /\ \/ buf.values_count = 0 /\ Fail("rotate", "UNDERFLOW")
       \/ /\ buf.values_count # 0
          /\ LET v == buf.segment[buf.tail] IN
             /\ Return("rotate", "SUCCESS", v)
             /\ buf' = [buf EXCEPT !.segment[buf.head] = v,
                                   !.head = Advance(buf, @), !.tail = Advance(buf, @)]
          /\ UNCHANGED heap

me_seg_buf_read(pos) ==
    /\ buf # NULL
    /\ \/ buf.values_count = 0 /\ Fail("read", "UNDERFLOW")
       \/ buf.values_count # 0 /\ pos >= Total(buf) /\ Fail("read", "OVERFLOW")
       \/ /\ buf.values_count # 0 /\ pos < Total(buf)
          /\ Return("read", "SUCCESS", buf.segment[pos \div buf.chunk_size, pos % buf.chunk_size])
          /\ UNCHANGED <<buf, heap>>

\* Positions a caller may ask for: those of the largest buffer, and one past it.
Position == UNION {0 .. g[1] * g[2] : g \in Geometry}

Next ==
    \/ \E g \in Geometry : create_seg_buffer(g) \/ create_fails(g)
    \/ destroy_seg_buffer \/ me_seg_buf_reset
    \/ \E op \in Access : NoBuffer(op)
    \/ me_seg_buf_get \/ me_seg_buf_unget \/ me_seg_buf_rotate
    \/ \E v \in Value : me_seg_buf_put(v)
    \/ \E pos \in Position : me_seg_buf_read(pos)

Spec == Init /\ [][Next]_vars

-----------------------------------------------------------------------------
\* Type invariant: head and tail name a cell that exists.
BufType ==
    UNION {[chunks_count : {g[1]}, chunk_size : {g[2]}, values_count : 0 .. g[1] * g[2],
            reads_count : 0 .. CountMod - 1, writes_count : 0 .. CountMod - 1,
            head : Cells(g[1], g[2]), tail : Cells(g[1], g[2]),
            segment : [Cells(g[1], g[2]) -> Value]] : g \in Geometry}

ASSUME NullAssumption == NULL \notin BufType

TypeOK ==
    /\ buf \in BufType \cup {NULL}
    /\ heap \in Nat
    /\ result \in [op : Access \cup {"none"},
                   err : {"SUCCESS", "UNDERFLOW", "OVERFLOW", "INTERNAL",
                          "INVALID_POINTER"},
                   value : Value]

\* The distance from a to b along the ring of cells.
Linear(b, a)      == a[1] * b.chunk_size + a[2]
Distance(b, from, to) == (Linear(b, to) - Linear(b, from)) % Total(b)

\* The counters and the two positions describe the same queue: head is
\* values_count cells after tail, and writes_count, which readers use to see
\* that something arrived, is ahead of reads_count by exactly values_count.
CountsAgree ==
    buf # NULL =>
        /\ Distance(buf, buf.tail, buf.head) = buf.values_count % Total(buf)
        /\ (buf.writes_count - buf.reads_count) % CountMod = buf.values_count

\* Allocations that no buffer refers to any more.
Lost == heap - (IF buf = NULL THEN 0 ELSE Allocations(buf.chunks_count))

\* Memory is lost by a creation that fails only ("Creation failed. Clearing all.",
\* meseg_buf.c:101), and then only the table of segments; nothing is freed twice.
LostOnlyInFailure == [][Lost' # Lost => buf = NULL /\ buf' = NULL /\ Lost' = Lost + 1]_vars

\* The values between tail and head, oldest first.
Queued ==
    IF buf = NULL THEN <<>>
    ELSE [i \in 1 .. buf.values_count |->
            LET p == (Linear(buf, buf.tail) + i - 1) % Total(buf)
            IN  buf.segment[p \div buf.chunk_size, p % buf.chunk_size]]

Fifo == INSTANCE BoundedFifo WITH
            Size <- {g[1] * g[2] : g \in Geometry},
            queue <- Queued,
            size <- IF buf = NULL THEN 0 ELSE Total(buf)

\* The segmented buffer is a bounded FIFO queue: no value is lost, repeated or
\* reordered across the segment and buffer boundaries, whatever is mixed.
ImplementsFifo == Fifo!Spec
=============================================================================
