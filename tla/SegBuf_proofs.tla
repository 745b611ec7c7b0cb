--------------------------- MODULE SegBuf_proofs ---------------------------
(***************************************************************************)
(* The segmented buffer is a bounded FIFO queue for every set of segment   *)
(* geometries, every value that is stored and every width of the counters. *)
(*                                                                         *)
(* The invariant says without remainders what CountsAgree says with them:  *)
(* head is values_count cells after tail, or as many less a whole turn.    *)
(* The multiplications and remainders of the positions are dealt with      *)
(* once, in the lemmas about the ring of cells.                            *)
(***************************************************************************)
EXTENDS SegBuf, SequenceTheorems, TLAPS

-----------------------------------------------------------------------------
(* Arithmetic *)

LEMMA TimesSuccessor ==
  ASSUME NEW a \in Int, NEW n \in Int
  PROVE  (a + 1) * n = a * n + n
  OBVIOUS

LEMMA TimesMonotonic ==
  ASSUME NEW a \in Nat, NEW c \in Nat, NEW n \in Nat, a < c
  PROVE  a * n + n <= c * n
  OBVIOUS

LEMMA Division ==
  ASSUME NEW x \in Nat, NEW n \in Nat \ {0}
  PROVE  /\ x % n \in 0 .. n - 1
         /\ x \div n \in Nat
         /\ x = (x \div n) * n + (x % n)
  OBVIOUS

\* Quotient and remainder are the only ones.
LEMMA DivisionUnique ==
  ASSUME NEW a \in Nat, NEW n \in Nat \ {0}, NEW o \in 0 .. n - 1
  PROVE  (a * n + o) \div n = a /\ (a * n + o) % n = o
  <1> DEFINE x == a * n + o
             q == x \div n
             r == x % n
  <1>1. x \in Nat
    OBVIOUS
  <1>2. q \in Nat /\ r \in 0 .. n - 1 /\ x = q * n + r
    BY <1>1, Division
  <1> HIDE DEF q, r
  <1>3. ~(a < q)
    <2> SUFFICES ASSUME a < q PROVE FALSE
      OBVIOUS
    <2>1. a * n + n <= q * n
      BY <1>2, TimesMonotonic
    <2> QED
      BY <2>1, <1>2
  <1>4. ~(q < a)
    <2> SUFFICES ASSUME q < a PROVE FALSE
      OBVIOUS
    <2>1. q * n + n <= a * n
      BY <1>2, TimesMonotonic
    <2> QED
      BY <2>1, <1>2
  <1>5. q = a /\ r = o
    BY <1>2, <1>3, <1>4
  <1> QED
    BY <1>5 DEF q, r

\* Remainders of sums of two numbers below n, the only ones the ring forms.
LEMMA SmallRemainder ==
  ASSUME NEW n \in Nat \ {0}, NEW x \in 0 .. n - 1
  PROVE  x % n = x /\ (x + n) % n = x /\ (x - n) % n = x
  OBVIOUS

-----------------------------------------------------------------------------
(* The ring of cells *)

\* What the lemmas need to know of a buffer.
Shaped(b) == b.chunks_count \in Nat \ {0} /\ b.chunk_size \in Nat \ {0}

CellsOf(b) == Cells(b.chunks_count, b.chunk_size)

\* The cell at a position, as the code of Queued and of a read by position finds it.
At(b, p) == <<p \div b.chunk_size, p % b.chunk_size>>

Step(n, p) == IF p + 1 = n THEN 0 ELSE p + 1

\* A buffer has at least one cell.
LEMMA TotalPositive ==
  ASSUME NEW b, Shaped(b)
  PROVE  Total(b) \in Nat \ {0}
  BY DEF Shaped, Total

\* The position of a cell, and the cell at it.
LEMMA AtLinear ==
  ASSUME NEW b, Shaped(b), NEW a \in CellsOf(b)
  PROVE  /\ Linear(b, a) \in 0 .. Total(b) - 1
         /\ At(b, Linear(b, a)) = a
  <1> DEFINE n == b.chunk_size
             c == b.chunks_count
  <1>1. n \in Nat \ {0} /\ c \in Nat \ {0}
    BY DEF Shaped
  <1>2. a = <<a[1], a[2]>> /\ a[1] \in 0 .. c - 1 /\ a[2] \in 0 .. n - 1
    BY DEF CellsOf, Cells
  <1>3. Linear(b, a) = a[1] * n + a[2] /\ Total(b) = c * n
    BY DEF Linear, Total
  <1>4. At(b, Linear(b, a)) = <<(a[1] * n + a[2]) \div n, (a[1] * n + a[2]) % n>>
    BY <1>3 DEF At
  <1> HIDE DEF n, c
  <1>5. a[1] * n + n <= c * n /\ a[1] * n \in Nat
    BY <1>1, <1>2, TimesMonotonic
  <1>6. (a[1] * n + a[2]) \div n = a[1] /\ (a[1] * n + a[2]) % n = a[2]
    BY <1>1, <1>2, DivisionUnique
  <1>7. Linear(b, a) \in 0 .. Total(b) - 1
    BY <1>1, <1>2, <1>3, <1>5
  <1>8. At(b, Linear(b, a)) = a
    BY <1>2, <1>4, <1>6
  <1> QED
    BY <1>7, <1>8

\* The cell at a position, and its position.
LEMMA LinearAt ==
  ASSUME NEW b, Shaped(b), NEW p \in 0 .. Total(b) - 1
  PROVE  At(b, p) \in CellsOf(b) /\ Linear(b, At(b, p)) = p
  <1> DEFINE n == b.chunk_size
             c == b.chunks_count
             q == p \div n
             r == p % n
  <1>1. n \in Nat \ {0} /\ c \in Nat \ {0}
    BY DEF Shaped
  <1>2. p \in Nat /\ p < c * n
    BY <1>1, TotalPositive DEF Total
  <1>3. q \in Nat /\ r \in 0 .. n - 1 /\ p = q * n + r
    BY <1>1, <1>2, Division
  <1>4. At(b, p) = <<q, r>> /\ Linear(b, <<q, r>>) = q * n + r
    BY DEF At, Linear
  <1>5. CellsOf(b) = (0 .. c - 1) \X (0 .. n - 1)
    BY DEF CellsOf, Cells
  <1> HIDE DEF n, c, q, r
  <1>6. q < c
    <2> SUFFICES ASSUME ~(q < c) PROVE FALSE
      OBVIOUS
    <2>1. c * n <= q * n
      <3>1. CASE c = q
        BY <3>1, <1>1, <1>3
      <3>2. CASE c < q
        BY <3>2, <1>1, <1>3, TimesMonotonic
      <3> QED
        BY <3>1, <3>2, <1>1, <1>3
    <2> QED
      BY <2>1, <1>1, <1>2, <1>3
  <1> QED
    BY <1>1, <1>3, <1>4, <1>5, <1>6

\* Stepping on moves one position along the ring.
LEMMA AdvanceSteps ==
  ASSUME NEW b, Shaped(b), NEW a \in CellsOf(b)
  PROVE  /\ Advance(b, a) \in CellsOf(b)
         /\ Linear(b, Advance(b, a)) = Step(Total(b), Linear(b, a))
  <1> DEFINE n == b.chunk_size
             c == b.chunks_count
  <1>1. n \in Nat \ {0} /\ c \in Nat \ {0}
    BY DEF Shaped
  <1>2. a[1] \in 0 .. c - 1 /\ a[2] \in 0 .. n - 1 /\ CellsOf(b) = (0 .. c - 1) \X (0 .. n - 1)
    BY DEF CellsOf, Cells
  <1>3. Total(b) = c * n /\ \A x, y : Linear(b, <<x, y>>) = x * n + y
    BY DEF Linear, Total
  <1>4. Linear(b, a) = a[1] * n + a[2] /\ a[1] * n \in Nat
    BY <1>1, <1>2 DEF Linear
  <1>5. Advance(b, a) = IF a[2] + 1 # n THEN <<a[1], a[2] + 1>>
                        ELSE IF a[1] + 1 # c THEN <<a[1] + 1, 0>> ELSE <<0, 0>>
    BY DEF Advance
  <1> HIDE DEF n, c
  <1>6. a[1] * n + n <= c * n /\ (a[1] + 1) * n = a[1] * n + n
    BY <1>1, <1>2, TimesMonotonic, TimesSuccessor
  <1>7. CASE a[2] + 1 # n
    <2>1. Advance(b, a) = <<a[1], a[2] + 1>>
      BY <1>5, <1>7
    <2>2. Linear(b, Advance(b, a)) = a[1] * n + (a[2] + 1)
      BY <2>1, <1>3
    <2> QED
      BY <2>1, <2>2, <1>1, <1>2, <1>3, <1>4, <1>6, <1>7 DEF Step
  <1>8. CASE a[2] + 1 = n /\ a[1] + 1 # c
    <2>1. Advance(b, a) = <<a[1] + 1, 0>> /\ a[1] + 1 < c
      BY <1>1, <1>2, <1>5, <1>8
    <2>2. Linear(b, Advance(b, a)) = (a[1] + 1) * n
      BY <2>1, <1>1, <1>2, <1>3
    <2>3. (a[1] + 1) * n + n <= c * n
      BY <2>1, <1>1, <1>2, TimesMonotonic
    <2> QED
      BY <2>1, <2>2, <2>3, <1>1, <1>2, <1>3, <1>4, <1>6, <1>8 DEF Step
  <1>9. CASE a[2] + 1 = n /\ a[1] + 1 = c
    <2>1. Advance(b, a) = <<0, 0>>
      BY <1>5, <1>9
    <2>2. Linear(b, Advance(b, a)) = 0
      BY <2>1, <1>1, <1>3
    <2>3. c * n = a[1] * n + n
      BY <1>6, <1>9
    <2> QED
      BY <2>1, <2>2, <2>3, <1>1, <1>2, <1>3, <1>4, <1>9 DEF Step
  <1> QED
    BY <1>7, <1>8, <1>9

\* Stepping back undoes a step.
LEMMA StepBackSteps ==
  ASSUME NEW b, Shaped(b), NEW a \in CellsOf(b)
  PROVE  /\ StepBack(b, a) \in CellsOf(b)
         /\ Linear(b, StepBack(b, a)) =
              (IF Linear(b, a) = 0 THEN Total(b) - 1 ELSE Linear(b, a) - 1)
  <1> DEFINE n == b.chunk_size
             c == b.chunks_count
  <1>1. n \in Nat \ {0} /\ c \in Nat \ {0}
    BY DEF Shaped
  <1>2. a[1] \in 0 .. c - 1 /\ a[2] \in 0 .. n - 1 /\ CellsOf(b) = (0 .. c - 1) \X (0 .. n - 1)
    BY DEF CellsOf, Cells
  <1>3. Total(b) = c * n /\ \A x, y : Linear(b, <<x, y>>) = x * n + y
    BY DEF Linear, Total
  <1>4. Linear(b, a) = a[1] * n + a[2] /\ a[1] * n \in Nat
    BY <1>1, <1>2 DEF Linear
  <1>5. StepBack(b, a) = IF a[2] # 0 THEN <<a[1], a[2] - 1>>
                         ELSE <<IF a[1] # 0 THEN a[1] - 1 ELSE c - 1, n - 1>>
    BY DEF StepBack
  <1> HIDE DEF n, c
  <1>6. CASE a[2] # 0
    <2>1. StepBack(b, a) = <<a[1], a[2] - 1>>
      BY <1>5, <1>6
    <2>2. Linear(b, StepBack(b, a)) = a[1] * n + (a[2] - 1)
      BY <2>1, <1>3
    <2> QED
      BY <2>1, <2>2, <1>1, <1>2, <1>4, <1>6
  <1>7. CASE a[2] = 0 /\ a[1] # 0
    <2>1. StepBack(b, a) = <<a[1] - 1, n - 1>>
      BY <1>5, <1>7
    <2>2. Linear(b, StepBack(b, a)) = (a[1] - 1) * n + (n - 1)
      BY <2>1, <1>3
    <2>3. a[1] * n = (a[1] - 1) * n + n /\ (a[1] - 1) * n \in Nat
      BY <1>1, <1>2, <1>7, TimesSuccessor
    <2> QED
      BY <2>1, <2>2, <2>3, <1>1, <1>2, <1>4, <1>7
  <1>8. CASE a[2] = 0 /\ a[1] = 0
    <2>1. StepBack(b, a) = <<c - 1, n - 1>>
      BY <1>5, <1>8
    <2>2. Linear(b, StepBack(b, a)) = (c - 1) * n + (n - 1)
      BY <2>1, <1>3
    <2>3. c * n = (c - 1) * n + n /\ (c - 1) * n \in Nat
      BY <1>1, TimesSuccessor
    <2>4. Linear(b, a) = 0
      BY <1>1, <1>4, <1>8
    <2> QED
      BY <2>1, <2>2, <2>3, <2>4, <1>1, <1>2, <1>3
  <1> QED
    BY <1>6, <1>7, <1>8

-----------------------------------------------------------------------------
(* The invariant *)

BufOf(g) ==
    [chunks_count : {g[1]}, chunk_size : {g[2]}, values_count : 0 .. g[1] * g[2],
     reads_count : 0 .. CountMod - 1, writes_count : 0 .. CountMod - 1,
     head : Cells(g[1], g[2]), tail : Cells(g[1], g[2]),
     segment : [Cells(g[1], g[2]) -> Value]]

HeadAhead(b) ==
    \/ Linear(b, b.head) = Linear(b, b.tail) + b.values_count
    \/ Linear(b, b.head) = Linear(b, b.tail) + b.values_count - Total(b)

CountAhead(b) ==
    \/ b.writes_count = b.reads_count + b.values_count
    \/ b.writes_count = b.reads_count + b.values_count - CountMod

Sound(b) == HeadAhead(b) /\ CountAhead(b)

Inv ==
    /\ TypeOK
    /\ buf # NULL => Sound(buf) /\ heap >= Allocations(buf.chunks_count)

LEMMA BufTyped ==
  ASSUME NEW b
  PROVE  b \in BufType <=> \E g \in Geometry : b \in BufOf(g)
  BY DEF BufType, BufOf

\* What the type says of the fields of a buffer.
LEMMA BufFields ==
  ASSUME NEW g \in Geometry, NEW b \in BufOf(g)
  PROVE  /\ Shaped(b) /\ Total(b) = g[1] * g[2] /\ Total(b) < CountMod
         /\ b.chunks_count = g[1] /\ b.chunk_size = g[2] /\ CellsOf(b) = Cells(g[1], g[2])
         /\ b.values_count \in 0 .. Total(b)
         /\ b.reads_count \in 0 .. CountMod - 1 /\ b.writes_count \in 0 .. CountMod - 1
         /\ b.head \in CellsOf(b) /\ b.tail \in CellsOf(b)
         /\ b.segment \in [CellsOf(b) -> Value]
  <1>1. g[1] \in Nat \ {0} /\ g[2] \in Nat \ {0} /\ g[1] * g[2] < CountMod
    BY GeometryAssumption, CountAssumption
  <1> QED
    BY <1>1 DEF BufOf, Shaped, Total, CellsOf

\* The counters go round at CountMod.
LEMMA UpDown ==
  ASSUME NEW k \in 0 .. CountMod - 1
  PROVE  /\ Up(k) = (IF k + 1 = CountMod THEN 0 ELSE k + 1)
         /\ Down(k) = (IF k = 0 THEN CountMod - 1 ELSE k - 1)
  <1>1. CountMod \in Nat \ {0}
    BY CountAssumption
  <1>2. Up(k) = (IF k + 1 = CountMod THEN 0 ELSE k + 1)
    <2>1. CASE k + 1 # CountMod
      <3>1. k + 1 \in 0 .. CountMod - 1
        BY <2>1, <1>1
      <3> QED
        BY <2>1, <3>1, <1>1, SmallRemainder DEF Up
    <2>2. CASE k + 1 = CountMod
      BY <2>2, <1>1 DEF Up
    <2> QED
      BY <2>1, <2>2
  <1>3. Down(k) = (IF k = 0 THEN CountMod - 1 ELSE k - 1)
    <2>1. CASE k # 0
      <3>1. k - 1 \in 0 .. CountMod - 1
        BY <2>1, <1>1
      <3> QED
        BY <2>1, <3>1, <1>1, SmallRemainder DEF Down
    <2>2. CASE k = 0
      <3>1. CountMod - 1 \in 0 .. CountMod - 1 /\ k - 1 = (CountMod - 1) - CountMod
        BY <2>2, <1>1
      <3>2. (CountMod - 1 - CountMod) % CountMod = CountMod - 1
        BY <3>1, <1>1, SmallRemainder
      <3> QED
        BY <2>2, <3>1, <3>2 DEF Down
    <2> QED
      BY <2>1, <2>2
  <1> QED
    BY <1>2, <1>3

-----------------------------------------------------------------------------
(* What each access leaves of a buffer b *)

\* Buffers of one geometry count their positions alike.
SameRing(b, n) ==
    /\ n.chunks_count = b.chunks_count /\ n.chunk_size = b.chunk_size
    /\ Total(n) = Total(b) /\ \A a : Linear(n, a) = Linear(b, a)

got(b) ==
    [b EXCEPT !.tail = Advance(b, @), !.values_count = @ - 1, !.reads_count = Up(@)]

had(b, v) ==
    [b EXCEPT !.segment[b.head] = v, !.head = Advance(b, @),
              !.values_count = @ + 1, !.writes_count = Up(@)]

ungot(b) ==
    [b EXCEPT !.head = StepBack(b, @), !.values_count = @ - 1, !.writes_count = Down(@)]

rotated(b, v) ==
    [b EXCEPT !.segment[b.head] = v, !.head = Advance(b, @), !.tail = Advance(b, @)]

LEMMA GotFields ==
  ASSUME NEW g \in Geometry, NEW b \in BufOf(g), Sound(b), b.values_count # 0
  PROVE  LET n == got(b) IN
         /\ n \in BufOf(g) /\ Sound(n) /\ SameRing(b, n)
         /\ n.values_count = b.values_count - 1 /\ n.segment = b.segment
         /\ Linear(b, n.tail) = Step(Total(b), Linear(b, b.tail))
  <1> DEFINE n == got(b)
  <1>1. /\ Shaped(b) /\ b.values_count \in 1 .. Total(b)
        /\ b.reads_count \in 0 .. CountMod - 1 /\ b.writes_count \in 0 .. CountMod - 1
        /\ b.head \in CellsOf(b) /\ b.tail \in CellsOf(b) /\ CellsOf(b) = Cells(g[1], g[2])
        /\ Total(b) = g[1] * g[2] /\ Total(b) < CountMod /\ Total(b) \in Nat \ {0}
    BY BufFields, TotalPositive
  <1>2. /\ n.chunks_count = b.chunks_count /\ n.chunk_size = b.chunk_size
        /\ n.values_count = b.values_count - 1
        /\ n.reads_count = Up(b.reads_count) /\ n.writes_count = b.writes_count
        /\ n.head = b.head /\ n.tail = Advance(b, b.tail) /\ n.segment = b.segment
    BY DEF got, BufOf
  <1>3. /\ Advance(b, b.tail) \in CellsOf(b)
        /\ Linear(b, Advance(b, b.tail)) = Step(Total(b), Linear(b, b.tail))
    BY <1>1, AdvanceSteps
  <1>4. Up(b.reads_count) \in 0 .. CountMod - 1
    BY <1>1, UpDown, CountAssumption
  <1>5. n \in BufOf(g)
    <2>1. b.values_count - 1 \in 0 .. g[1] * g[2]
      BY <1>1
    <2> QED
      BY <2>1, <1>1, <1>3, <1>4 DEF got, BufOf
  <1>6. SameRing(b, n)
    BY <1>2 DEF SameRing, Total, Linear
  <1>7. HeadAhead(n)
    <2>1. Linear(b, b.head) \in 0 .. Total(b) - 1 /\ Linear(b, b.tail) \in 0 .. Total(b) - 1
      BY <1>1, AtLinear
    <2>2. HeadAhead(b)
      BY DEF Sound
    <2> QED
      BY <2>1, <2>2, <1>1, <1>2, <1>3, <1>6 DEF HeadAhead, SameRing, Step
  <1>8. CountAhead(n)
    BY <1>1, <1>2, UpDown, CountAssumption DEF Sound, CountAhead
  <1> QED
    BY <1>2, <1>3, <1>5, <1>6, <1>7, <1>8 DEF Sound

LEMMA HadFields ==
  ASSUME NEW g \in Geometry, NEW b \in BufOf(g), Sound(b), b.values_count # Total(b),
         NEW v \in Value
  PROVE  LET n == had(b, v) IN
         /\ n \in BufOf(g) /\ Sound(n) /\ SameRing(b, n)
         /\ n.values_count = b.values_count + 1 /\ n.tail = b.tail
         /\ n.segment = [b.segment EXCEPT ![b.head] = v]
  <1> DEFINE n == had(b, v)
  <1>1. /\ Shaped(b) /\ b.values_count \in 0 .. Total(b) - 1
        /\ b.reads_count \in 0 .. CountMod - 1 /\ b.writes_count \in 0 .. CountMod - 1
        /\ b.head \in CellsOf(b) /\ b.tail \in CellsOf(b) /\ CellsOf(b) = Cells(g[1], g[2])
        /\ Total(b) = g[1] * g[2] /\ Total(b) < CountMod /\ Total(b) \in Nat \ {0}
        /\ b.segment \in [CellsOf(b) -> Value]
    BY BufFields, TotalPositive
  <1>2. /\ n.chunks_count = b.chunks_count /\ n.chunk_size = b.chunk_size
        /\ n.values_count = b.values_count + 1
        /\ n.reads_count = b.reads_count /\ n.writes_count = Up(b.writes_count)
        /\ n.head = Advance(b, b.head) /\ n.tail = b.tail
        /\ n.segment = [b.segment EXCEPT ![b.head] = v]
    BY DEF had, BufOf
  <1>3. /\ Advance(b, b.head) \in CellsOf(b)
        /\ Linear(b, Advance(b, b.head)) = Step(Total(b), Linear(b, b.head))
    BY <1>1, AdvanceSteps
  <1>4. Up(b.writes_count) \in 0 .. CountMod - 1
    BY <1>1, UpDown, CountAssumption
  <1>5. n \in BufOf(g)
    <2>1. [b.segment EXCEPT ![b.head] = v] \in [CellsOf(b) -> Value]
      BY <1>1
    <2>2. b.values_count + 1 \in 0 .. g[1] * g[2]
      BY <1>1
    <2> QED
      BY <2>1, <2>2, <1>1, <1>3, <1>4 DEF had, BufOf
  <1>6. SameRing(b, n)
    BY <1>2 DEF SameRing, Total, Linear
  <1>7. HeadAhead(n)
    <2>1. Linear(b, b.head) \in 0 .. Total(b) - 1 /\ Linear(b, b.tail) \in 0 .. Total(b) - 1
      BY <1>1, AtLinear
    <2>2. HeadAhead(b)
      BY DEF Sound
    <2> QED
      BY <2>1, <2>2, <1>1, <1>2, <1>3, <1>6 DEF HeadAhead, SameRing, Step
  <1>8. CountAhead(n)
    BY <1>1, <1>2, UpDown, CountAssumption DEF Sound, CountAhead
  <1> QED
    BY <1>2, <1>5, <1>6, <1>7, <1>8 DEF Sound

LEMMA UngotFields ==
  ASSUME NEW g \in Geometry, NEW b \in BufOf(g), Sound(b), b.values_count # 0
  PROVE  LET n == ungot(b) IN
         /\ n \in BufOf(g) /\ Sound(n) /\ SameRing(b, n)
         /\ n.values_count = b.values_count - 1 /\ n.segment = b.segment
         /\ n.tail = b.tail
  <1> DEFINE n == ungot(b)
  <1>1. /\ Shaped(b) /\ b.values_count \in 1 .. Total(b)
        /\ b.reads_count \in 0 .. CountMod - 1 /\ b.writes_count \in 0 .. CountMod - 1
        /\ b.head \in CellsOf(b) /\ b.tail \in CellsOf(b) /\ CellsOf(b) = Cells(g[1], g[2])
        /\ Total(b) = g[1] * g[2] /\ Total(b) < CountMod /\ Total(b) \in Nat \ {0}
    BY BufFields, TotalPositive
  <1>2. /\ n.chunks_count = b.chunks_count /\ n.chunk_size = b.chunk_size
        /\ n.values_count = b.values_count - 1
        /\ n.reads_count = b.reads_count /\ n.writes_count = Down(b.writes_count)
        /\ n.head = StepBack(b, b.head) /\ n.tail = b.tail /\ n.segment = b.segment
    BY DEF ungot, BufOf
  <1>3. /\ StepBack(b, b.head) \in CellsOf(b)
        /\ Linear(b, StepBack(b, b.head)) =
             (IF Linear(b, b.head) = 0 THEN Total(b) - 1 ELSE Linear(b, b.head) - 1)
    BY <1>1, StepBackSteps
  <1>4. Down(b.writes_count) \in 0 .. CountMod - 1
    BY <1>1, UpDown, CountAssumption
  <1>5. n \in BufOf(g)
    <2>1. b.values_count - 1 \in 0 .. g[1] * g[2]
      BY <1>1
    <2> QED
      BY <2>1, <1>1, <1>3, <1>4 DEF ungot, BufOf
  <1>6. SameRing(b, n)
    BY <1>2 DEF SameRing, Total, Linear
  <1>7. HeadAhead(n)
    <2>1. Linear(b, b.head) \in 0 .. Total(b) - 1 /\ Linear(b, b.tail) \in 0 .. Total(b) - 1
      BY <1>1, AtLinear
    <2>2. HeadAhead(b)
      BY DEF Sound
    <2> QED
      BY <2>1, <2>2, <1>1, <1>2, <1>3, <1>6 DEF HeadAhead, SameRing
  <1>8. CountAhead(n)
    BY <1>1, <1>2, UpDown, CountAssumption DEF Sound, CountAhead
  <1> QED
    BY <1>2, <1>5, <1>6, <1>7, <1>8 DEF Sound

LEMMA RotatedFields ==
  ASSUME NEW g \in Geometry, NEW b \in BufOf(g), Sound(b), b.values_count # 0,
         NEW v \in Value
  PROVE  LET n == rotated(b, v) IN
         /\ n \in BufOf(g) /\ Sound(n) /\ SameRing(b, n)
         /\ n.values_count = b.values_count
         /\ n.segment = [b.segment EXCEPT ![b.head] = v]
         /\ Linear(b, n.tail) = Step(Total(b), Linear(b, b.tail))
  <1> DEFINE n == rotated(b, v)
  <1>1. /\ Shaped(b) /\ b.values_count \in 1 .. Total(b)
        /\ b.head \in CellsOf(b) /\ b.tail \in CellsOf(b) /\ CellsOf(b) = Cells(g[1], g[2])
        /\ Total(b) = g[1] * g[2] /\ Total(b) < CountMod /\ Total(b) \in Nat \ {0}
        /\ b.segment \in [CellsOf(b) -> Value]
    BY BufFields, TotalPositive
  <1>2. /\ n.chunks_count = b.chunks_count /\ n.chunk_size = b.chunk_size
        /\ n.values_count = b.values_count
        /\ n.reads_count = b.reads_count /\ n.writes_count = b.writes_count
        /\ n.head = Advance(b, b.head) /\ n.tail = Advance(b, b.tail)
        /\ n.segment = [b.segment EXCEPT ![b.head] = v]
    BY DEF rotated, BufOf
  <1>3. \A a \in {b.head, b.tail} :
            /\ Advance(b, a) \in CellsOf(b)
            /\ Linear(b, Advance(b, a)) = Step(Total(b), Linear(b, a))
    BY <1>1, AdvanceSteps
  <1>4. n \in BufOf(g)
    <2>1. [b.segment EXCEPT ![b.head] = v] \in [CellsOf(b) -> Value]
      BY <1>1
    <2> QED
      BY <2>1, <1>1, <1>3 DEF rotated, BufOf
  <1>5. SameRing(b, n)
    BY <1>2 DEF SameRing, Total, Linear
  <1>6. HeadAhead(n)
    <2>1. Linear(b, b.head) \in 0 .. Total(b) - 1 /\ Linear(b, b.tail) \in 0 .. Total(b) - 1
      BY <1>1, AtLinear
    <2>2. HeadAhead(b)
      BY DEF Sound
    <2> QED
      BY <2>1, <2>2, <1>1, <1>2, <1>3, <1>5 DEF HeadAhead, SameRing, Step
  <1>7. CountAhead(n)
    BY <1>2 DEF Sound, CountAhead
  <1> QED
    BY <1>2, <1>3, <1>4, <1>5, <1>6, <1>7 DEF Sound

-----------------------------------------------------------------------------
(* Every operation preserves the invariant *)

\* A buffer that exists has one of the geometries.
LEMMA GeometryOf ==
  ASSUME Inv, buf # NULL
  PROVE  \E g \in Geometry : buf \in BufOf(g) /\ Sound(buf)
  BY BufTyped DEF Inv, TypeOK

LEMMA InvCreate ==
  ASSUME Inv, NEW g \in Geometry, create_seg_buffer(g)
  PROVE  Inv' /\ Lost' = Lost /\ buf' # NULL
  <1>1. g[1] \in Nat \ {0} /\ g[2] \in Nat \ {0}
    BY GeometryAssumption
  <1>2. <<0, 0>> \in Cells(g[1], g[2]) /\ 0 \in 0 .. g[1] * g[2] /\ 0 \in 0 .. CountMod - 1
    <2>1. g[1] * g[2] \in Nat /\ CountMod \in Nat \ {0}
      BY <1>1, CountAssumption
    <2> QED
      BY <1>1, <2>1 DEF Cells
  <1>3. [a \in Cells(g[1], g[2]) |-> Zero] \in [Cells(g[1], g[2]) -> Value]
    BY ZeroAssumption
  <1>4. buf' \in BufOf(g)
    BY <1>1, <1>2, <1>3 DEF create_seg_buffer, BufOf
  <1>5. /\ buf'.head = <<0, 0>> /\ buf'.tail = <<0, 0>> /\ buf'.values_count = 0
        /\ buf'.reads_count = 0 /\ buf'.writes_count = 0 /\ buf'.chunks_count = g[1]
        /\ buf'.chunk_size = g[2]
    BY DEF create_seg_buffer
  <1>6. Linear(buf', <<0, 0>>) \in Nat
    BY <1>1, <1>5 DEF Linear
  <1>7. Sound(buf')
    BY <1>5, <1>6 DEF Sound, HeadAhead, CountAhead
  <1>8. heap \in Nat /\ heap' = heap + Allocations(g[1]) /\ Allocations(g[1]) \in Nat
    BY <1>1 DEF Inv, TypeOK, create_seg_buffer, Allocations
  <1>9. TypeOK'
    BY <1>4, <1>8, BufTyped DEF Inv, TypeOK, create_seg_buffer
  <1>10. buf' # NULL
    BY <1>4, BufTyped, NullAssumption
  <1>11. Lost' = Lost
    BY <1>5, <1>8, <1>10 DEF Lost, create_seg_buffer
  <1> QED
    BY <1>5, <1>7, <1>8, <1>9, <1>10, <1>11 DEF Inv

LEMMA InvCreateFails ==
  ASSUME Inv, NEW g \in Geometry, create_fails(g)
  PROVE  Inv'
  <1>1. PICK k \in 0 .. Allocations(g[1]) - 1 : heap' = heap + k - Freed(k)
    BY DEF create_fails
  <1>2. Allocations(g[1]) \in Nat
    BY GeometryAssumption DEF Allocations
  <1>3. k \in Nat /\ Freed(k) \in 0 .. k
    BY <1>1, <1>2 DEF Freed
  <1>4. heap' \in Nat
    BY <1>1, <1>3 DEF Inv, TypeOK
  <1> QED
    BY <1>4 DEF Inv, TypeOK, create_fails

LEMMA InvDestroy ==
  ASSUME Inv, destroy_seg_buffer
  PROVE  Inv' /\ Lost' = Lost
  <1>1. PICK g \in Geometry : buf \in BufOf(g)
    BY GeometryOf DEF destroy_seg_buffer
  <1>2. buf.chunks_count \in Nat \ {0}
    BY <1>1, BufFields DEF Shaped
  <1>3. Freed(Allocations(buf.chunks_count)) = Allocations(buf.chunks_count)
    BY <1>2 DEF Freed, Allocations
  <1>4. heap' = heap - Allocations(buf.chunks_count) /\ heap' \in Nat
    BY <1>2, <1>3 DEF Inv, TypeOK, destroy_seg_buffer, Allocations
  <1>5. Lost' = Lost
    BY <1>2, <1>4 DEF Lost, destroy_seg_buffer, Inv, TypeOK, Allocations
  <1> QED
    BY <1>4, <1>5 DEF Inv, TypeOK, destroy_seg_buffer

LEMMA InvReset ==
  ASSUME Inv, me_seg_buf_reset
  PROVE  Inv' /\ Lost' = Lost /\ buf' # NULL
  <1>1. PICK g \in Geometry : buf \in BufOf(g)
    BY GeometryOf DEF me_seg_buf_reset
  <1>2. g[1] \in Nat \ {0} /\ g[2] \in Nat \ {0}
    BY GeometryAssumption
  <1>3. <<0, 0>> \in Cells(g[1], g[2]) /\ 0 \in 0 .. g[1] * g[2] /\ 0 \in 0 .. CountMod - 1
    <2>1. g[1] * g[2] \in Nat /\ CountMod \in Nat \ {0}
      BY <1>2, CountAssumption
    <2> QED
      BY <1>2, <2>1 DEF Cells
  <1>4. buf' \in BufOf(g)
    BY <1>1, <1>3 DEF me_seg_buf_reset, BufOf
  <1>5. /\ buf'.head = <<0, 0>> /\ buf'.tail = <<0, 0>> /\ buf'.values_count = 0
        /\ buf'.reads_count = 0 /\ buf'.writes_count = 0
        /\ buf'.chunks_count = buf.chunks_count
    BY <1>1 DEF me_seg_buf_reset, BufOf
  <1>6. Linear(buf', <<0, 0>>) \in Nat
    BY <1>4, BufFields DEF Linear, Shaped
  <1>7. Sound(buf')
    BY <1>5, <1>6 DEF Sound, HeadAhead, CountAhead
  <1>8. TypeOK'
    BY <1>4, BufTyped DEF Inv, TypeOK, me_seg_buf_reset
  <1>9. buf' # NULL
    BY <1>4, BufTyped, NullAssumption
  <1> QED
    BY <1>5, <1>7, <1>8, <1>9 DEF Inv, Lost, me_seg_buf_reset

\* A buffer of the same geometry in place of buf, and a result that is typed.
LEMMA InvReplaced ==
  ASSUME Inv, buf # NULL, NEW g \in Geometry, NEW n \in BufOf(g), buf' = n,
         Sound(n), SameRing(buf, n), heap' = heap,
         NEW op \in Access, NEW v \in Value, Return(op, "SUCCESS", v)
  PROVE  Inv' /\ Lost' = Lost
  <1>1. buf' # NULL
    BY BufTyped, NullAssumption
  <1> QED
    BY <1>1, BufTyped DEF Inv, TypeOK, Return, SameRing, Lost

LEMMA InvFail ==
  ASSUME Inv, NEW op \in Access,
         NEW e \in {"UNDERFLOW", "OVERFLOW", "INTERNAL", "INVALID_POINTER"}, Fail(op, e)
  PROVE  Inv' /\ Lost' = Lost
  BY ZeroAssumption DEF Inv, TypeOK, Fail, Return, Lost

\* The cell at the tail holds a value, as every cell of the buffer does.
LEMMA CellValue ==
  ASSUME NEW g \in Geometry, NEW b \in BufOf(g), NEW a \in CellsOf(b)
  PROVE  b.segment[a] \in Value
  BY BufFields

LEMMA InvGet ==
  ASSUME Inv, me_seg_buf_get
  PROVE  Inv' /\ Lost' = Lost
  <1>1. PICK g \in Geometry : buf \in BufOf(g) /\ Sound(buf)
    BY GeometryOf DEF me_seg_buf_get
  <1>2. CASE buf.values_count = 0
    BY <1>2, InvFail DEF me_seg_buf_get, Access
  <1>3. CASE buf.values_count # 0
    <2>1. buf' = got(buf) /\ heap' = heap /\ Return("get", "SUCCESS", buf.segment[buf.tail])
      BY <1>3 DEF me_seg_buf_get, got
    <2>2. buf.segment[buf.tail] \in Value
      BY <1>1, CellValue, BufFields
    <2>3. got(buf) \in BufOf(g) /\ Sound(got(buf)) /\ SameRing(buf, got(buf))
      BY <1>1, <1>3, GotFields
    <2> QED
      BY <2>1, <2>2, <2>3, InvReplaced DEF me_seg_buf_get, Access
  <1> QED
    BY <1>2, <1>3

LEMMA InvPut ==
  ASSUME Inv, NEW v \in Value, me_seg_buf_put(v)
  PROVE  Inv' /\ Lost' = Lost
  <1>1. PICK g \in Geometry : buf \in BufOf(g) /\ Sound(buf)
    BY GeometryOf DEF me_seg_buf_put
  <1>2. CASE buf.values_count = Total(buf)
    BY <1>2, InvFail DEF me_seg_buf_put, Access
  <1>3. CASE buf.values_count # Total(buf)
    <2>1. buf' = had(buf, v) /\ heap' = heap /\ Return("put", "SUCCESS", Zero)
      BY <1>3 DEF me_seg_buf_put, had
    <2>2. had(buf, v) \in BufOf(g) /\ Sound(had(buf, v)) /\ SameRing(buf, had(buf, v))
      BY <1>1, <1>3, HadFields
    <2> QED
      BY <2>1, <2>2, ZeroAssumption, InvReplaced DEF me_seg_buf_put, Access
  <1> QED
    BY <1>2, <1>3

LEMMA InvUnget ==
  ASSUME Inv, me_seg_buf_unget
  PROVE  Inv' /\ Lost' = Lost
  <1>1. PICK g \in Geometry : buf \in BufOf(g) /\ Sound(buf)
    BY GeometryOf DEF me_seg_buf_unget
  <1>2. CASE buf.values_count = 0
    BY <1>2, InvFail DEF me_seg_buf_unget, Access
  <1>3. CASE buf.values_count # 0
    <2>1. buf' = ungot(buf) /\ heap' = heap /\ Return("unget", "SUCCESS", Zero)
      BY <1>3 DEF me_seg_buf_unget, ungot
    <2>2. ungot(buf) \in BufOf(g) /\ Sound(ungot(buf)) /\ SameRing(buf, ungot(buf))
      BY <1>1, <1>3, UngotFields
    <2> QED
      BY <2>1, <2>2, ZeroAssumption, InvReplaced DEF me_seg_buf_unget, Access
  <1> QED
    BY <1>2, <1>3

LEMMA InvRotate ==
  ASSUME Inv, me_seg_buf_rotate
  PROVE  Inv' /\ Lost' = Lost
  <1>1. PICK g \in Geometry : buf \in BufOf(g) /\ Sound(buf)
    BY GeometryOf DEF me_seg_buf_rotate
  <1>2. CASE buf.values_count = 0
    BY <1>2, InvFail DEF me_seg_buf_rotate, Access
  <1>3. CASE buf.values_count # 0
    <2> DEFINE v == buf.segment[buf.tail]
    <2>1. buf' = rotated(buf, v) /\ heap' = heap /\ Return("rotate", "SUCCESS", v)
      BY <1>3 DEF me_seg_buf_rotate, rotated
    <2>2. v \in Value
      BY <1>1, CellValue, BufFields
    <2>3. rotated(buf, v) \in BufOf(g) /\ Sound(rotated(buf, v)) /\ SameRing(buf, rotated(buf, v))
      BY <1>1, <1>3, <2>2, RotatedFields
    <2> HIDE DEF v
    <2> QED
      BY <2>1, <2>2, <2>3, InvReplaced DEF me_seg_buf_rotate, Access
  <1> QED
    BY <1>2, <1>3

\* A position below the size of the buffer names a cell.
LEMMA ReadValue ==
  ASSUME Inv, buf # NULL, NEW pos \in Nat, pos < Total(buf)
  PROVE  buf.segment[pos \div buf.chunk_size, pos % buf.chunk_size] \in Value
  <1>1. PICK g \in Geometry : buf \in BufOf(g)
    BY GeometryOf
  <1>2. Shaped(buf) /\ Total(buf) \in Nat \ {0}
    BY <1>1, BufFields, TotalPositive
  <1>3. At(buf, pos) \in CellsOf(buf)
    BY <1>2, LinearAt
  <1> QED
    BY <1>1, <1>3, CellValue DEF At

LEMMA InvRead ==
  ASSUME Inv, NEW pos \in Nat, me_seg_buf_read(pos)
  PROVE  Inv' /\ Lost' = Lost
  <1>1. CASE Fail("read", "UNDERFLOW")
    BY <1>1, InvFail DEF Access
  <1>2. CASE Fail("read", "OVERFLOW")
    BY <1>2, InvFail DEF Access
  <1>3. CASE /\ pos < Total(buf)
             /\ Return("read", "SUCCESS", buf.segment[pos \div buf.chunk_size, pos % buf.chunk_size])
             /\ UNCHANGED <<buf, heap>>
    BY <1>3, ReadValue DEF me_seg_buf_read, Inv, TypeOK, Return, Access, Lost
  <1> QED
    BY <1>1, <1>2, <1>3 DEF me_seg_buf_read

LEMMA PositionType == Position \subseteq Nat
  BY GeometryAssumption DEF Position

LEMMA InvInit == Init => Inv
  BY ZeroAssumption DEF Init, Inv, TypeOK, Access

LEMMA InvNext == Inv /\ [Next]_vars => Inv'
  <1> SUFFICES ASSUME Inv, [Next]_vars PROVE Inv'
    OBVIOUS
  <1>1. CASE \E g \in Geometry : create_seg_buffer(g)
    BY <1>1, InvCreate
  <1>2. CASE \E g \in Geometry : create_fails(g)
    BY <1>2, InvCreateFails
  <1>3. CASE destroy_seg_buffer
    BY <1>3, InvDestroy
  <1>4. CASE me_seg_buf_reset
    BY <1>4, InvReset
  <1>5. CASE \E op \in Access : NoBuffer(op)
    BY <1>5, InvFail DEF NoBuffer
  <1>6. CASE me_seg_buf_get
    BY <1>6, InvGet
  <1>7. CASE me_seg_buf_unget
    BY <1>7, InvUnget
  <1>8. CASE me_seg_buf_rotate
    BY <1>8, InvRotate
  <1>9. CASE \E v \in Value : me_seg_buf_put(v)
    BY <1>9, InvPut
  <1>10. CASE \E pos \in Position : me_seg_buf_read(pos)
    BY <1>10, InvRead, PositionType
  <1>11. CASE UNCHANGED vars
    BY <1>11 DEF vars, Inv, TypeOK
  <1> QED
    BY <1>1, <1>2, <1>3, <1>4, <1>5, <1>6, <1>7, <1>8, <1>9, <1>10, <1>11 DEF Next

LEMMA InvHolds == Spec => []Inv
  BY InvInit, InvNext, PTL DEF Spec

\* Every reachable buffer is well typed: head and tail always name a cell that
\* exists (meseg_buf.c steps them by hand).
THEOREM TypeHolds == Spec => []TypeOK
  <1>1. Inv => TypeOK
    BY DEF Inv
  <1> QED
    BY <1>1, InvHolds, PTL

\* The counters and the positions of a buffer describe the same queue, whatever
\* operations of meseg_buf.c were mixed and however often the counters wrapped.
THEOREM CountsHold == Spec => []CountsAgree
  <1>1. Inv => CountsAgree
    <2> SUFFICES ASSUME Inv, buf # NULL
                 PROVE  /\ Distance(buf, buf.tail, buf.head) = buf.values_count % Total(buf)
                        /\ (buf.writes_count - buf.reads_count) % CountMod = buf.values_count
      BY DEF CountsAgree
    <2>1. PICK g \in Geometry : buf \in BufOf(g) /\ Sound(buf)
      BY GeometryOf
    <2> DEFINE h == Linear(buf, buf.head)
               t == Linear(buf, buf.tail)
               n == Total(buf)
               k == buf.values_count
    <2>2. n \in Nat \ {0} /\ h \in 0 .. n - 1 /\ t \in 0 .. n - 1 /\ k \in 0 .. n /\ n < CountMod
      BY <2>1, BufFields, TotalPositive, AtLinear
    <2>3. h = t + k \/ h = t + k - n
      BY <2>1 DEF Sound, HeadAhead
    <2>4. buf.reads_count \in 0 .. CountMod - 1 /\ buf.writes_count \in 0 .. CountMod - 1
      BY <2>1, BufFields
    <2>5. \/ buf.writes_count = buf.reads_count + k
          \/ buf.writes_count = buf.reads_count + k - CountMod
      BY <2>1 DEF Sound, CountAhead
    <2>6. Distance(buf, buf.tail, buf.head) = (h - t) % n
      BY DEF Distance
    <2> HIDE DEF h, t, n, k
    <2>7. (h - t) % n = k % n
      <3>1. CASE h = t + k
        BY <3>1, <2>2
      <3>2. CASE h = t + k - n
        <4>1. h - t = k - n
          BY <3>2, <2>2
        <4>2. (k - n) % n = k % n
          <5>1. CASE k = n
            BY <5>1, <2>2
          <5>2. CASE k \in 0 .. n - 1
            BY <5>2, <2>2, SmallRemainder
          <5> QED
            BY <5>1, <5>2, <2>2
        <4> QED
          BY <4>1, <4>2
      <3> QED
        BY <2>3, <3>1, <3>2
    <2>8. (buf.writes_count - buf.reads_count) % CountMod = k
      <3>1. CountMod \in Nat \ {0} /\ k \in 0 .. CountMod - 1
        BY <2>2, CountAssumption
      <3>2. buf.writes_count - buf.reads_count \in {k, k - CountMod}
        BY <2>4, <2>5, <3>1
      <3>3. k % CountMod = k /\ (k - CountMod) % CountMod = k
        BY <3>1, SmallRemainder
      <3> QED
        BY <3>2, <3>3
    <2> QED
      BY <2>6, <2>7, <2>8 DEF n, k
  <1> QED
    BY <1>1, InvHolds, PTL

\* Memory is lost by a creation that fails only, and nothing is freed twice.
THEOREM LostHolds == Spec => LostOnlyInFailure
  <1>1. ASSUME Inv, [Next]_vars
        PROVE  [Lost' # Lost => buf = NULL /\ buf' = NULL /\ Lost' = Lost + 1]_vars
    <2>1. CASE \E g \in Geometry : create_fails(g)
      <3> PICK g \in Geometry : create_fails(g)
        BY <2>1
      <3>1. PICK k \in 0 .. Allocations(g[1]) - 1 : heap' = heap + k - Freed(k)
        BY DEF create_fails
      <3>2. k \in Nat /\ heap \in Nat
        BY <1>1, <3>1, GeometryAssumption DEF Allocations, Inv, TypeOK
      <3>3. buf = NULL /\ buf' = NULL
        BY DEF create_fails
      <3>4. Lost = heap /\ Lost' = heap'
        BY <3>2, <3>3, <1>1, InvCreateFails DEF Lost, Inv, TypeOK
      <3>5. k - Freed(k) \in {0, 1}
        BY <3>2 DEF Freed
      <3>6. k - Freed(k) \in Int /\ heap' = heap + (k - Freed(k))
        BY <3>1, <3>2 DEF Freed
      <3>7. Lost' = Lost \/ Lost' = Lost + 1
        BY <3>2, <3>4, <3>5, <3>6
      <3> QED
        BY <3>3, <3>7
    <2>2. CASE \E g \in Geometry : create_seg_buffer(g)
      BY <2>2, <1>1, InvCreate
    <2>3. CASE destroy_seg_buffer
      BY <2>3, <1>1, InvDestroy
    <2>4. CASE me_seg_buf_reset
      BY <2>4, <1>1, InvReset
    <2>5. CASE \E op \in Access : NoBuffer(op)
      BY <2>5, <1>1, InvFail DEF NoBuffer
    <2>6. CASE me_seg_buf_get \/ me_seg_buf_unget \/ me_seg_buf_rotate
      BY <2>6, <1>1, InvGet, InvUnget, InvRotate
    <2>7. CASE \E v \in Value : me_seg_buf_put(v)
      BY <2>7, <1>1, InvPut
    <2>8. CASE \E pos \in Position : me_seg_buf_read(pos)
      BY <2>8, <1>1, InvRead, PositionType
    <2> QED
      BY <2>1, <2>2, <2>3, <2>4, <2>5, <2>6, <2>7, <2>8, <1>1 DEF Next
  <1> QED
    BY <1>1, InvHolds, PTL DEF Spec, LostOnlyInFailure

-----------------------------------------------------------------------------
(* The bounded queue that the buffer implements *)

\* Position j places after t, on a ring of n.
Turned(n, t, j) == IF t + j < n THEN t + j ELSE t + j - n

QueueOf(b) ==
    [i \in 1 .. b.values_count |->
        b.segment[At(b, (Linear(b, b.tail) + i - 1) % Total(b))]]

\* The values of a buffer, in the order they leave it.
LEMMA QueueCells ==
  ASSUME NEW g \in Geometry, NEW b \in BufOf(g)
  PROVE  /\ QueueOf(b) \in Seq(Value)
         /\ Len(QueueOf(b)) = b.values_count
         /\ \A i \in 1 .. b.values_count :
               /\ QueueOf(b)[i] = b.segment[At(b, Turned(Total(b), Linear(b, b.tail), i - 1))]
               /\ Turned(Total(b), Linear(b, b.tail), i - 1) \in 0 .. Total(b) - 1
               /\ At(b, Turned(Total(b), Linear(b, b.tail), i - 1)) \in CellsOf(b)
  <1> DEFINE n == Total(b)
             t == Linear(b, b.tail)
             k == b.values_count
             q == QueueOf(b)
  <1>1. Shaped(b) /\ n \in Nat \ {0} /\ t \in 0 .. n - 1 /\ k \in 0 .. n
    BY BufFields, TotalPositive, AtLinear
  <1>2. q = [i \in 1 .. k |-> b.segment[At(b, (t + i - 1) % n)]]
    BY DEF QueueOf
  <1>3. \A p \in 0 .. n - 1 : At(b, p) \in CellsOf(b) /\ b.segment[At(b, p)] \in Value
    BY <1>1, LinearAt, CellValue
  <1> HIDE DEF n, t, k, q
  <1>4. ASSUME NEW i \in 1 .. k
        PROVE  /\ Turned(n, t, i - 1) \in 0 .. n - 1
               /\ (t + i - 1) % n = Turned(n, t, i - 1)
    <2>1. CASE t + (i - 1) < n
      <3>1. t + i - 1 \in 0 .. n - 1
        BY <2>1, <1>1
      <3>2. (t + i - 1) % n = t + i - 1
        BY <3>1, <1>1, SmallRemainder
      <3> QED
        BY <2>1, <3>1, <3>2, <1>1 DEF Turned
    <2>2. CASE ~(t + (i - 1) < n)
      <3>1. t + i - 1 - n \in 0 .. n - 1 /\ t + i - 1 = (t + i - 1 - n) + n
        BY <2>2, <1>1
      <3>2. (t + i - 1 - n + n) % n = t + i - 1 - n
        BY <3>1, <1>1, SmallRemainder
      <3>3. Turned(n, t, i - 1) = t + i - 1 - n
        BY <2>2, <1>1 DEF Turned
      <3> QED
        BY <3>1, <3>2, <3>3
    <2> QED
      BY <2>1, <2>2
  <1>5. q \in [1 .. k -> Value]
    BY <1>2, <1>3, <1>4
  <1>6. q \in Seq(Value) /\ Len(q) = k
    BY <1>1, <1>5, SeqDef
  <1>7. \A i \in 1 .. k : /\ q[i] = b.segment[At(b, Turned(n, t, i - 1))]
                          /\ Turned(n, t, i - 1) \in 0 .. n - 1
                          /\ At(b, Turned(n, t, i - 1)) \in CellsOf(b)
    BY <1>2, <1>3, <1>4
  <1> QED
    BY <1>6, <1>7 DEF n, t, k, q

LEMMA QueuedIs ==
  /\ Queued = (IF buf = NULL THEN <<>> ELSE QueueOf(buf))
  /\ Queued' = (IF buf' = NULL THEN <<>> ELSE QueueOf(buf'))
  BY DEF Queued, QueueOf, At

\* The next value that is put goes to the place after the last one of the queue.
LEMMA HeadIsNext ==
  ASSUME NEW g \in Geometry, NEW b \in BufOf(g), Sound(b)
  PROVE  /\ b.head = At(b, Turned(Total(b), Linear(b, b.tail), b.values_count))
         /\ Linear(b, b.head) = Turned(Total(b), Linear(b, b.tail), b.values_count)
  <1> DEFINE n == Total(b)
             t == Linear(b, b.tail)
             h == Linear(b, b.head)
             k == b.values_count
  <1>1. /\ Shaped(b) /\ n \in Nat \ {0} /\ t \in 0 .. n - 1 /\ h \in 0 .. n - 1
        /\ k \in 0 .. n /\ b.head = At(b, h)
    BY BufFields, TotalPositive, AtLinear
  <1>2. h = t + k \/ h = t + k - n
    BY DEF Sound, HeadAhead
  <1> HIDE DEF n, t, h, k
  <1>3. h = Turned(n, t, k)
    BY <1>1, <1>2 DEF Turned
  <1> QED
    BY <1>1, <1>3 DEF n, t, h, k

\* Two places of the ring less than a turn apart are different cells.
LEMMA PlacesDiffer ==
  ASSUME NEW b, Shaped(b), NEW t \in 0 .. Total(b) - 1,
         NEW i \in Nat, NEW j \in Nat, i < j, j < Total(b) + i, j <= Total(b)
  PROVE  At(b, Turned(Total(b), t, i)) # At(b, Turned(Total(b), t, j))
  <1> DEFINE n == Total(b)
             p == Turned(n, t, i)
             q == Turned(n, t, j)
  <1>1. n \in Nat \ {0}
    BY TotalPositive
  <1>2. p \in 0 .. n - 1 /\ q \in 0 .. n - 1 /\ p # q
    <2> HIDE DEF n
    <2> QED
      BY <1>1 DEF Turned, n
  <1>3. Linear(b, At(b, p)) = p /\ Linear(b, At(b, q)) = q
    BY <1>2, LinearAt
  <1> QED
    BY <1>2, <1>3

\* The size of the queue that buf stands for.
SizeOf == IF buf = NULL THEN 0 ELSE Total(buf)

\* A refusal leaves the queue alone.
LEMMA FailRefuses ==
  ASSUME NEW op, NEW e, Fail(op, e)
  PROVE  Fifo!Refuse(op, e)
  BY DEF Fail, Return, Fifo!Refuse, Fifo!Reply, Queued

LEMMA SimClear ==
  ASSUME NEW n \in {g[1] * g[2] : g \in Geometry} \cup {0},
         Queued' = <<>>, SizeOf' = n, result' = result
  PROVE  Fifo!Next
  <1>1. Fifo!Clear(n)
    BY DEF Fifo!Clear, SizeOf
  <1> QED
    BY <1>1 DEF Fifo!Next

\* A buffer without values stands for the empty queue.
LEMMA NoValues ==
  ASSUME NEW g \in Geometry, NEW b \in BufOf(g)
  PROVE  QueueOf(b) = <<>> <=> b.values_count = 0
  BY QueueCells, EmptySeq

LEMMA SimCreate ==
  ASSUME Inv, NEW g \in Geometry, create_seg_buffer(g)
  PROVE  Fifo!Next
  <1>1. Inv' /\ buf' # NULL
    BY InvCreate
  <1>2. PICK h \in Geometry : buf' \in BufOf(h)
    BY <1>1, BufTyped DEF Inv, TypeOK
  <1>3. buf'.chunks_count = g[1] /\ buf'.chunk_size = g[2] /\ buf'.values_count = 0
    BY DEF create_seg_buffer
  <1>4. Queued' = <<>>
    BY <1>1, <1>2, <1>3, NoValues, QueuedIs
  <1>5. SizeOf' = g[1] * g[2]
    BY <1>1, <1>3 DEF SizeOf, Total
  <1> QED
    BY <1>4, <1>5, SimClear DEF create_seg_buffer

LEMMA SimGone ==
  ASSUME buf' = NULL, result' = result
  PROVE  Fifo!Next
  <1>1. Queued' = <<>> /\ SizeOf' = 0
    BY DEF Queued, SizeOf
  <1> QED
    BY <1>1, SimClear

LEMMA SimReset ==
  ASSUME Inv, me_seg_buf_reset
  PROVE  Fifo!Next
  <1>1. PICK g \in Geometry : buf \in BufOf(g)
    BY GeometryOf DEF me_seg_buf_reset
  <1>2. /\ buf'.chunks_count = buf.chunks_count /\ buf'.chunk_size = buf.chunk_size
        /\ buf'.values_count = 0
    BY <1>1 DEF me_seg_buf_reset, BufOf
  <1>3. buf' # NULL /\ Inv'
    BY InvReset
  <1>4. PICK h \in Geometry : buf' \in BufOf(h)
    BY <1>3, BufTyped DEF Inv, TypeOK
  <1>5. Queued' = <<>>
    BY <1>2, <1>3, <1>4, NoValues, QueuedIs
  <1>6. SizeOf' = g[1] * g[2]
    BY <1>1, <1>2, <1>3, BufFields DEF SizeOf, Total
  <1> QED
    BY <1>5, <1>6, SimClear DEF me_seg_buf_reset

LEMMA SimNoBuffer ==
  ASSUME NEW op \in Access, NoBuffer(op)
  PROVE  Fifo!Next
  <1>1. Fifo!Refuse(op, "INVALID_POINTER")
    BY FailRefuses DEF NoBuffer
  <1>2. SizeOf = 0 /\ op \in Fifo!Access
    BY DEF NoBuffer, SizeOf, Access, Fifo!Access
  <1> QED
    BY <1>1, <1>2 DEF Fifo!Next, SizeOf

\* What the refusals and the reads of a buffer see of the queue.
LEMMA QueueSeen ==
  ASSUME Inv, buf # NULL
  PROVE  /\ SizeOf = Total(buf) /\ SizeOf > 0
         /\ Len(Queued) = buf.values_count
         /\ Queued = <<>> <=> buf.values_count = 0
  <1>1. PICK g \in Geometry : buf \in BufOf(g)
    BY GeometryOf
  <1> QED
    BY <1>1, BufFields, TotalPositive, QueueCells, NoValues, QueuedIs DEF SizeOf

LEMMA SimEmpty ==
  ASSUME Inv, buf # NULL, buf.values_count = 0,
         \/ \E op \in {"get", "rotate", "read"} : Fail(op, "UNDERFLOW")
         \/ Fail("unget", "INTERNAL")
  PROVE  Fifo!Next
  <1>1. SizeOf > 0 /\ Queued = <<>>
    BY QueueSeen
  <1>2. Fifo!Empty
    BY <1>1, FailRefuses DEF Fifo!Empty, SizeOf
  <1> QED
    BY <1>2 DEF Fifo!Next

LEMMA SimGet ==
  ASSUME Inv, me_seg_buf_get
  PROVE  Fifo!Next
  <1>1. PICK g \in Geometry : buf \in BufOf(g) /\ Sound(buf)
    BY GeometryOf DEF me_seg_buf_get
  <1>2. CASE buf.values_count = 0
    BY <1>2, SimEmpty DEF me_seg_buf_get
  <1>3. CASE buf.values_count # 0
    <2> DEFINE n == got(buf)
               q == QueueOf(buf)
               m == QueueOf(n)
               ring == Total(buf)
               t == Linear(buf, buf.tail)
               k == buf.values_count
    <2>1. /\ buf' = n /\ heap' = heap
          /\ Return("get", "SUCCESS", buf.segment[buf.tail])
      BY <1>3 DEF me_seg_buf_get, got
    <2>2. /\ n \in BufOf(g) /\ SameRing(buf, n) /\ n.values_count = k - 1
          /\ n.segment = buf.segment /\ Linear(buf, n.tail) = Step(ring, t)
      BY <1>1, <1>3, GotFields
    <2>3. buf # NULL /\ n # NULL
      BY <2>2, BufTyped, NullAssumption DEF me_seg_buf_get
    <2>4. Queued = q /\ Queued' = m
      BY <2>1, <2>3, QueuedIs
    <2>5. /\ ring \in Nat \ {0} /\ t \in 0 .. ring - 1 /\ k \in 1 .. ring
          /\ buf.tail = At(buf, t)
      BY <1>1, <1>3, BufFields, TotalPositive, AtLinear
    <2>6. /\ q \in Seq(Value) /\ Len(q) = k
          /\ \A i \in 1 .. k : q[i] = buf.segment[At(buf, Turned(ring, t, i - 1))]
      BY <1>1, QueueCells
    <2>7. /\ m \in Seq(Value) /\ Len(m) = k - 1
          /\ \A i \in 1 .. k - 1 :
                m[i] = buf.segment[At(buf, Turned(ring, Step(ring, t), i - 1))]
      <3>1. \A p : At(n, p) = At(buf, p)
        BY <2>2 DEF At, SameRing
      <3> QED
        BY <2>2, <3>1, QueueCells DEF SameRing
    <2> HIDE DEF n, q, m, ring, t, k
    <2>8. q # <<>> /\ Head(q) = buf.segment[buf.tail]
      <3>1. Turned(ring, t, 0) = t /\ Head(q) = q[1]
        BY <2>5, <2>6 DEF Turned
      <3> QED
        BY <3>1, <2>5, <2>6, EmptySeq
    <2>9. m = Tail(q)
      <3>1. /\ Tail(q) \in Seq(Value) /\ Len(Tail(q)) = k - 1
            /\ \A i \in 1 .. k - 1 : Tail(q)[i] = q[i + 1]
        BY <2>6, <2>8, HeadTailProperties
      <3>2. ASSUME NEW i \in 1 .. k - 1
            PROVE  m[i] = Tail(q)[i]
        <4>1. Turned(ring, Step(ring, t), i - 1) = Turned(ring, t, (i + 1) - 1)
          BY <2>5 DEF Turned, Step
        <4>2. i + 1 \in 1 .. k
          BY <2>5
        <4> QED
          BY <4>1, <4>2, <3>1, <2>6, <2>7
      <3> QED
        BY <3>1, <3>2, <2>7, SeqEqual
    <2>10. SizeOf' = SizeOf
      BY <2>1, <2>2, <2>3 DEF SizeOf, SameRing
    <2>11. Fifo!Get
      BY <2>1, <2>4, <2>8, <2>9, <2>10 DEF Fifo!Get, Fifo!Reply, Return, SizeOf
    <2> QED
      BY <2>11 DEF Fifo!Next
  <1> QED
    BY <1>2, <1>3

LEMMA SimPut ==
  ASSUME Inv, NEW v \in Value, me_seg_buf_put(v)
  PROVE  Fifo!Next
  <1>1. PICK g \in Geometry : buf \in BufOf(g) /\ Sound(buf)
    BY GeometryOf DEF me_seg_buf_put
  <1>2. CASE buf.values_count = Total(buf)
    <2>1. Len(Queued) = SizeOf /\ SizeOf > 0
      BY <1>2, QueueSeen DEF me_seg_buf_put
    <2>2. Fifo!Refuse("put", "OVERFLOW")
      BY <1>2, FailRefuses DEF me_seg_buf_put
    <2>3. Fifo!Full
      BY <2>1, <2>2 DEF Fifo!Full, SizeOf
    <2> QED
      BY <2>3 DEF Fifo!Next
  <1>3. CASE buf.values_count # Total(buf)
    <2> DEFINE n == had(buf, v)
               q == QueueOf(buf)
               m == QueueOf(n)
               ring == Total(buf)
               t == Linear(buf, buf.tail)
               k == buf.values_count
    <2>1. buf' = n /\ heap' = heap /\ Return("put", "SUCCESS", Zero)
      BY <1>3 DEF me_seg_buf_put, had
    <2>2. /\ n \in BufOf(g) /\ SameRing(buf, n) /\ n.values_count = k + 1 /\ n.tail = buf.tail
          /\ n.segment = [buf.segment EXCEPT ![buf.head] = v]
      BY <1>1, <1>3, HadFields
    <2>3. buf # NULL /\ n # NULL
      BY <2>2, BufTyped, NullAssumption DEF me_seg_buf_put
    <2>4. Queued = q /\ Queued' = m
      BY <2>1, <2>3, QueuedIs
    <2>5. /\ Shaped(buf) /\ ring \in Nat \ {0} /\ t \in 0 .. ring - 1 /\ k \in 0 .. ring - 1
          /\ buf.segment \in [CellsOf(buf) -> Value] /\ buf.head \in CellsOf(buf)
      BY <1>1, <1>3, BufFields, TotalPositive, AtLinear
    <2>6. /\ q \in Seq(Value) /\ Len(q) = k
          /\ \A i \in 1 .. k : /\ q[i] = buf.segment[At(buf, Turned(ring, t, i - 1))]
                               /\ At(buf, Turned(ring, t, i - 1)) \in CellsOf(buf)
      BY <1>1, QueueCells
    <2>7. /\ m \in Seq(Value) /\ Len(m) = k + 1
          /\ \A i \in 1 .. k + 1 : m[i] = n.segment[At(buf, Turned(ring, t, i - 1))]
      <3>1. \A p : At(n, p) = At(buf, p)
        BY <2>2 DEF At, SameRing
      <3>2. Total(n) = ring /\ Linear(n, n.tail) = t
        BY <2>2 DEF SameRing
      <3>3. /\ QueueOf(n) \in Seq(Value) /\ Len(QueueOf(n)) = k + 1
            /\ \A i \in 1 .. k + 1 :
                 QueueOf(n)[i] = n.segment[At(n, Turned(Total(n), Linear(n, n.tail), i - 1))]
        BY <2>2, QueueCells
      <3> HIDE DEF n, ring, t, k
      <3> QED
        BY <3>1, <3>2, <3>3
    <2>8. buf.head = At(buf, Turned(ring, t, k))
      BY <1>1, HeadIsNext
    <2>9. \A i \in 1 .. k : At(buf, Turned(ring, t, i - 1)) # buf.head
      BY <2>5, <2>8, PlacesDiffer
    <2>10. SizeOf' = SizeOf /\ SizeOf = ring
      BY <2>1, <2>2, <2>3 DEF SizeOf, SameRing
    <2> HIDE DEF n, q, m, ring, t, k
    <2>11. m = Append(q, v)
      <3>1. /\ Append(q, v) \in Seq(Value) /\ Len(Append(q, v)) = k + 1
            /\ \A i \in 1 .. k : Append(q, v)[i] = q[i]
            /\ Append(q, v)[k + 1] = v
        BY <2>6, AppendProperties
      <3>2. ASSUME NEW i \in 1 .. k + 1
            PROVE  m[i] = Append(q, v)[i]
        <4>1. CASE i \in 1 .. k
          <5>1. m[i] = n.segment[At(buf, Turned(ring, t, i - 1))]
            BY <2>7
          <5> QED
            BY <4>1, <5>1, <3>1, <2>2, <2>5, <2>6, <2>9
        <4>2. CASE i = k + 1
          <5>1. m[i] = n.segment[buf.head]
            BY <4>2, <2>5, <2>7, <2>8
          <5> QED
            BY <4>2, <5>1, <3>1, <2>2, <2>5
        <4>3. k \in Nat
          BY <2>5
        <4>4. i \in 1 .. k \/ i = k + 1
          BY <4>3
        <4> QED
          BY <4>1, <4>2, <4>4
      <3>3. Len(m) = Len(Append(q, v)) /\ \A i \in 1 .. Len(m) : m[i] = Append(q, v)[i]
        BY <3>1, <3>2, <2>7
      <3> QED
        BY <3>1, <3>3, <2>7, SeqEqual
    <2>12. Fifo!Put(v)
      BY <2>1, <2>4, <2>5, <2>6, <2>10, <2>11 DEF Fifo!Put, Fifo!Reply, Return, SizeOf
    <2> QED
      BY <2>12 DEF Fifo!Next
  <1> QED
    BY <1>2, <1>3

LEMMA SimUnget ==
  ASSUME Inv, me_seg_buf_unget
  PROVE  Fifo!Next
  <1>1. PICK g \in Geometry : buf \in BufOf(g) /\ Sound(buf)
    BY GeometryOf DEF me_seg_buf_unget
  <1>2. CASE buf.values_count = 0
    BY <1>2, SimEmpty DEF me_seg_buf_unget
  <1>3. CASE buf.values_count # 0
    <2> DEFINE n == ungot(buf)
               q == QueueOf(buf)
               m == QueueOf(n)
               ring == Total(buf)
               t == Linear(buf, buf.tail)
               k == buf.values_count
    <2>1. buf' = n /\ heap' = heap /\ Return("unget", "SUCCESS", Zero)
      BY <1>3 DEF me_seg_buf_unget, ungot
    <2>2. /\ n \in BufOf(g) /\ SameRing(buf, n) /\ n.values_count = k - 1
          /\ n.tail = buf.tail /\ n.segment = buf.segment
      BY <1>1, <1>3, UngotFields
    <2>3. buf # NULL /\ n # NULL
      BY <2>2, BufTyped, NullAssumption DEF me_seg_buf_unget
    <2>4. Queued = q /\ Queued' = m
      BY <2>1, <2>3, QueuedIs
    <2>5. k \in Nat \ {0}
      BY <1>1, <1>3, BufFields, TotalPositive
    <2>6. /\ q \in Seq(Value) /\ Len(q) = k
          /\ \A i \in 1 .. k : q[i] = buf.segment[At(buf, Turned(ring, t, i - 1))]
      BY <1>1, QueueCells
    <2>7. /\ m \in Seq(Value) /\ Len(m) = k - 1
          /\ \A i \in 1 .. k - 1 : m[i] = buf.segment[At(buf, Turned(ring, t, i - 1))]
      <3>1. \A p : At(n, p) = At(buf, p)
        BY <2>2 DEF At, SameRing
      <3> QED
        BY <2>2, <3>1, QueueCells DEF SameRing
    <2>8. SizeOf' = SizeOf
      BY <2>1, <2>2, <2>3 DEF SizeOf, SameRing
    <2> HIDE DEF n, q, m, ring, t, k
    <2>9. m = SubSeq(q, 1, k - 1)
      <3>1. \A i \in 1 .. k - 1 : q[i] \in Value
        BY <2>5, <2>6, ElementOfSeq
      <3>2. /\ SubSeq(q, 1, k - 1) \in Seq(Value) /\ Len(SubSeq(q, 1, k - 1)) = k - 1
            /\ \A i \in 1 .. k - 1 : SubSeq(q, 1, k - 1)[i] = q[i]
        BY <2>5, <3>1, SubSeqProperties
      <3>3. ASSUME NEW i \in 1 .. k - 1
            PROVE  m[i] = SubSeq(q, 1, k - 1)[i]
        <4>1. i \in 1 .. k
          BY <2>5
        <4> QED
          BY <4>1, <2>6, <2>7, <3>2
      <3>4. Len(m) = Len(SubSeq(q, 1, k - 1)) /\ \A i \in 1 .. Len(m) : m[i] = SubSeq(q, 1, k - 1)[i]
        BY <3>2, <3>3, <2>7
      <3> QED
        BY <3>2, <3>4, <2>7, SeqEqual
    <2>10. q # <<>>
      BY <2>5, <2>6, EmptySeq
    <2>11. Fifo!Unget
      BY <2>1, <2>4, <2>6, <2>8, <2>9, <2>10 DEF Fifo!Unget, Fifo!Front, Fifo!Reply, Return, SizeOf
    <2> QED
      BY <2>11 DEF Fifo!Next
  <1> QED
    BY <1>2, <1>3

LEMMA SimRead ==
  ASSUME Inv, NEW pos \in Nat, me_seg_buf_read(pos)
  PROVE  Fifo!Next
  <1>1. CASE buf.values_count = 0
    BY <1>1, SimEmpty DEF me_seg_buf_read
  <1>2. CASE buf.values_count # 0 /\ Fail("read", "OVERFLOW")
    <2>1. Fifo!OutOfRange
      BY <1>2, QueueSeen, FailRefuses DEF me_seg_buf_read, Fifo!OutOfRange
    <2> QED
      BY <2>1 DEF Fifo!Next
  <1>3. CASE buf.values_count # 0 /\ ~Fail("read", "OVERFLOW")
    <2> DEFINE v == buf.segment[pos \div buf.chunk_size, pos % buf.chunk_size]
    <2>1. pos < Total(buf) /\ Return("read", "SUCCESS", v) /\ UNCHANGED <<buf, heap>> /\ buf # NULL
      BY <1>3 DEF me_seg_buf_read
    <2>2. v \in Value
      BY <2>1, ReadValue
    <2> HIDE DEF v
    <2>3. Queued # <<>>
      BY <1>3, <2>1, QueueSeen
    <2>4. Queued' = Queued /\ SizeOf' = SizeOf
      BY <2>1, QueuedIs DEF SizeOf
    <2>5. Fifo!Read(v)
      BY <2>1, <2>3, <2>4 DEF Fifo!Read, Fifo!Reply, Return, SizeOf
    <2> QED
      BY <2>2, <2>5 DEF Fifo!Next
  <1> QED
    BY <1>1, <1>2, <1>3

LEMMA SimRotate ==
  ASSUME Inv, me_seg_buf_rotate
  PROVE  Fifo!Next
  <1>1. PICK g \in Geometry : buf \in BufOf(g) /\ Sound(buf)
    BY GeometryOf DEF me_seg_buf_rotate
  <1>2. CASE buf.values_count = 0
    BY <1>2, SimEmpty DEF me_seg_buf_rotate
  <1>3. CASE buf.values_count # 0
    <2> DEFINE v == buf.segment[buf.tail]
               n == rotated(buf, v)
               q == QueueOf(buf)
               m == QueueOf(n)
               ring == Total(buf)
               t == Linear(buf, buf.tail)
               k == buf.values_count
    <2>1. buf' = n /\ heap' = heap /\ Return("rotate", "SUCCESS", v)
      BY <1>3 DEF me_seg_buf_rotate, rotated
    <2>2. /\ Shaped(buf) /\ ring \in Nat \ {0} /\ t \in 0 .. ring - 1 /\ k \in 1 .. ring
          /\ buf.segment \in [CellsOf(buf) -> Value] /\ buf.head \in CellsOf(buf)
          /\ buf.tail \in CellsOf(buf) /\ buf.tail = At(buf, t) /\ v \in Value
      BY <1>1, <1>3, BufFields, TotalPositive, AtLinear
    <2>3. /\ n \in BufOf(g) /\ SameRing(buf, n) /\ n.values_count = k
          /\ n.segment = [buf.segment EXCEPT ![buf.head] = v]
          /\ Linear(buf, n.tail) = Step(ring, t)
      BY <1>1, <1>3, <2>2, RotatedFields
    <2>4. buf # NULL /\ n # NULL
      BY <2>3, BufTyped, NullAssumption DEF me_seg_buf_rotate
    <2>5. Queued = q /\ Queued' = m
      BY <2>1, <2>4, QueuedIs
    <2>6. /\ q \in Seq(Value) /\ Len(q) = k
          /\ \A i \in 1 .. k : /\ q[i] = buf.segment[At(buf, Turned(ring, t, i - 1))]
                               /\ At(buf, Turned(ring, t, i - 1)) \in CellsOf(buf)
      BY <1>1, QueueCells
    <2>7. /\ m \in Seq(Value) /\ Len(m) = k
          /\ \A i \in 1 .. k :
                m[i] = n.segment[At(buf, Turned(ring, Step(ring, t), i - 1))]
      <3>1. \A p : At(n, p) = At(buf, p)
        BY <2>3 DEF At, SameRing
      <3>2. Total(n) = ring /\ Linear(n, n.tail) = Step(ring, t)
        BY <2>3 DEF SameRing
      <3>3. /\ QueueOf(n) \in Seq(Value) /\ Len(QueueOf(n)) = k
            /\ \A i \in 1 .. k :
                 QueueOf(n)[i] = n.segment[At(n, Turned(Total(n), Linear(n, n.tail), i - 1))]
        BY <2>3, QueueCells
      <3> HIDE DEF n, ring, t, k
      <3> QED
        BY <3>1, <3>2, <3>3
    <2>8. buf.head = At(buf, Turned(ring, t, k))
      BY <1>1, HeadIsNext
    <2>9. \A i \in 1 .. k - 1 : At(buf, Turned(ring, t, i)) # buf.head
      BY <2>2, <2>8, PlacesDiffer
    <2>10. SizeOf' = SizeOf
      BY <2>1, <2>3, <2>4 DEF SizeOf, SameRing
    <2> HIDE DEF n, q, m, ring, t, k, v
    <2>11. \A i \in 1 .. k : Turned(ring, Step(ring, t), i - 1) = Turned(ring, t, i)
      BY <2>2 DEF Turned, Step
    <2>12. q # <<>> /\ Head(q) = v
      <3>1. Turned(ring, t, 0) = t /\ Head(q) = q[1]
        BY <2>2, <2>6 DEF Turned
      <3>2. q[1] = buf.segment[At(buf, Turned(ring, t, 0))]
        BY <2>2, <2>6
      <3> QED
        BY <3>1, <3>2, <2>2, <2>6, EmptySeq DEF v
    <2>13. m = Append(Tail(q), v)
      <3> DEFINE r == Append(Tail(q), v)
      <3>1. /\ Tail(q) \in Seq(Value) /\ Len(Tail(q)) = k - 1
            /\ \A i \in 1 .. k - 1 : Tail(q)[i] = q[i + 1]
        BY <2>6, <2>12, HeadTailProperties
      <3>2. /\ r \in Seq(Value) /\ Len(r) = (k - 1) + 1
            /\ \A i \in 1 .. k - 1 : r[i] = Tail(q)[i]
            /\ r[(k - 1) + 1] = v
        BY <3>1, <2>2, AppendProperties
      <3>3. (k - 1) + 1 = k /\ k \in Nat
        BY <2>2
      <3> HIDE DEF r
      <3>4. ASSUME NEW i \in 1 .. k
            PROVE  m[i] = r[i]
        <4>1. m[i] = n.segment[At(buf, Turned(ring, t, i))]
          BY <2>7, <2>11
        <4>2. CASE i \in 1 .. k - 1
          <5>1. i + 1 \in 1 .. k /\ (i + 1) - 1 = i
            BY <4>2, <3>3
          <5>2. /\ q[i + 1] = buf.segment[At(buf, Turned(ring, t, i))]
                /\ At(buf, Turned(ring, t, i)) \in CellsOf(buf)
            BY <5>1, <2>6
          <5>3. m[i] = buf.segment[At(buf, Turned(ring, t, i))]
            BY <4>1, <4>2, <5>2, <2>2, <2>3, <2>9
          <5> QED
            BY <4>2, <5>2, <5>3, <3>1, <3>2
        <4>3. CASE i = k
          <5>1. m[i] = n.segment[buf.head]
            BY <4>1, <4>3, <2>8
          <5> QED
            BY <4>3, <5>1, <2>2, <2>3, <3>2, <3>3
        <4>4. i \in 1 .. k - 1 \/ i = k
          BY <3>3
        <4> QED
          BY <4>2, <4>3, <4>4
      <3>5. Len(m) = Len(r) /\ \A i \in 1 .. Len(m) : m[i] = r[i]
        BY <3>2, <3>3, <3>4, <2>7
      <3>6. m = r
        BY <3>2, <3>5, <2>7, SeqEqual
      <3> QED
        BY <3>6 DEF r
    <2>14. Fifo!Rotate
      BY <2>1, <2>5, <2>10, <2>12, <2>13 DEF Fifo!Rotate, Fifo!Reply, Return, SizeOf
    <2> QED
      BY <2>14 DEF Fifo!Next
  <1> QED
    BY <1>2, <1>3

LEMMA FifoInit == Init => Fifo!Init
  BY DEF Init, Fifo!Init, Queued

LEMMA FifoNext == Inv /\ [Next]_vars => [Fifo!Next]_(Fifo!vars)
  <1> SUFFICES ASSUME Inv, [Next]_vars PROVE [Fifo!Next]_(Fifo!vars)
    OBVIOUS
  <1>1. CASE \E g \in Geometry : create_seg_buffer(g)
    BY <1>1, SimCreate
  <1>2. CASE \E g \in Geometry : create_fails(g)
    BY <1>2, SimGone DEF create_fails
  <1>3. CASE destroy_seg_buffer
    BY <1>3, SimGone DEF destroy_seg_buffer
  <1>4. CASE me_seg_buf_reset
    BY <1>4, SimReset
  <1>5. CASE \E op \in Access : NoBuffer(op)
    BY <1>5, SimNoBuffer
  <1>6. CASE me_seg_buf_get
    BY <1>6, SimGet
  <1>7. CASE me_seg_buf_unget
    BY <1>7, SimUnget
  <1>8. CASE me_seg_buf_rotate
    BY <1>8, SimRotate
  <1>9. CASE \E v \in Value : me_seg_buf_put(v)
    BY <1>9, SimPut
  <1>10. CASE \E pos \in Position : me_seg_buf_read(pos)
    BY <1>10, SimRead, PositionType
  <1>11. CASE UNCHANGED vars
    <2>1. Queued' = Queued /\ SizeOf' = SizeOf /\ result' = result
      BY <1>11, QueuedIs DEF vars, SizeOf
    <2> QED
      BY <2>1 DEF Fifo!vars, SizeOf
  <1> QED
    BY <1>1, <1>2, <1>3, <1>4, <1>5, <1>6, <1>7, <1>8, <1>9, <1>10, <1>11 DEF Next

\* The segmented buffer of meseg_buf.c is a bounded queue: for every geometry,
\* no value is lost, repeated or reordered where a segment or the buffer ends.
THEOREM FifoImplemented == Spec => ImplementsFifo
  BY InvHolds, FifoInit, FifoNext, PTL DEF Spec, ImplementsFifo, Fifo!Spec

=============================================================================
