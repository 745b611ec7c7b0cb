------------------------ MODULE BoardMethods_proofs -------------------------
(***************************************************************************)
(* What the methods of a board do, for every board and any number of       *)
(* tasks: the rules by which a program is judged, and the ports, relays,   *)
(* 8255 and counters judged by them.  Boards_proofs goes on from here.     *)
(*                                                                         *)
(* A method is a program of accesses, sections and tests, and between any  *)
(* two of its steps others take theirs.  A situation is what a task holds  *)
(* (h, locks), knows (f, facts about the registers and the value it has    *)
(* loaded), owes (o, a wake-up) and has still to do (P, its program).  It  *)
(* is Good for a board when it is one of a set of situations closed under  *)
(* steps: every fact is one that others cannot make false as long as the   *)
(* locks are held (Steady), every step is allowed to the task (MayWrite)   *)
(* and leaves what others may rely on (Polite), a lock is given back only  *)
(* when the bonds between the registers it protects hold again (Closes),   *)
(* and a task that is done holds, knows and owes nothing.                  *)
(*                                                                         *)
(* BoardInv, the inductive invariant, says that every task is in a good    *)
(* situation whose facts hold, that every register has a value it may have *)
(* and that a bond holds whenever nobody holds the lock it lives under.    *)
(*                                                                         *)
(* A program is put together by rules.  Does(b, u, h, f, o, P, h2, f2, o2) *)
(* says that P leads from the locks, facts and notes h, f, o to h2, f2, o2 *)
(* whatever follows it: DoesThen for a sequence, DoesUnder for a section,  *)
(* DoesTest for a test, DoesTry for a lock that is only tried for,         *)
(* DoesAwait for a wait, and one rule for each kind of access.             *)
(***************************************************************************)
EXTENDS Boards, TLAPS

-----------------------------------------------------------------------------
(* Programs.                                                               *)

Program(P) == \E S : P \in Seq(S)

\* A step put in front of a program is its head, and what was left is its tail.
LEMMA StepProgram ==
    ASSUME NEW s, NEW Q, Program(Q)
    PROVE  /\ Program(<<s>> \o Q) /\ <<s>> \o Q # <<>>
           /\ Head(<<s>> \o Q) = s /\ Tail(<<s>> \o Q) = Q
           /\ \A n \in DOMAIN Q : n + 1 \in DOMAIN (<<s>> \o Q) /\ (<<s>> \o Q)[n + 1] = Q[n]
           /\ 1 \in DOMAIN (<<s>> \o Q) /\ (<<s>> \o Q)[1] = s
<1>1. PICK S : Q \in Seq(S) BY DEF Program
<1> DEFINE V == S \cup {s}
<1>2. Q \in Seq(V) /\ <<s>> \in Seq(V) BY <1>1
<1>3. <<s>> \o Q \in Seq(V) BY <1>2
<1>4. Len(<<s>> \o Q) = 1 + Len(Q) /\ Len(Q) \in Nat BY <1>2
<1>5. \A n \in 1 .. 1 + Len(Q) : (<<s>> \o Q)[n] = IF n = 1 THEN s ELSE Q[n - 1] BY <1>2
<1>6. Head(<<s>> \o Q) = s BY <1>2, <1>4, <1>5
<1>7. Tail(<<s>> \o Q) = Q
  <2>1. Tail(<<s>> \o Q) \in Seq(V) /\ Len(Tail(<<s>> \o Q)) = Len(Q) BY <1>3, <1>4
  <2>2. \A n \in 1 .. Len(Q) : Tail(<<s>> \o Q)[n] = (<<s>> \o Q)[n + 1] BY <1>3, <1>4
  <2>3. \A n \in 1 .. Len(Q) : Tail(<<s>> \o Q)[n] = Q[n] BY <2>2, <1>5, <1>4
  <2> QED BY <2>1, <2>3, <1>2
<1>8. <<s>> \o Q # <<>> BY <1>4
<1>9. DOMAIN Q = 1 .. Len(Q) /\ DOMAIN (<<s>> \o Q) = 1 .. 1 + Len(Q) BY <1>2, <1>3, <1>4
<1> QED BY <1>3, <1>4, <1>5, <1>6, <1>7, <1>8, <1>9 DEF Program

\* Programs are put together to programs ...
LEMMA JoinPrograms ==
    ASSUME NEW P, NEW Q, Program(P), Program(Q)
    PROVE  Program(P \o Q)
<1>1. PICK S : P \in Seq(S) BY DEF Program
<1>2. PICK V : Q \in Seq(V) BY DEF Program
<1>3. P \in Seq(S \cup V) /\ Q \in Seq(S \cup V) BY <1>1, <1>2
<1> QED BY <1>3 DEF Program

\* ... in whatever grouping ...
LEMMA Associative ==
    ASSUME NEW P, NEW Q, NEW R, Program(P), Program(Q), Program(R)
    PROVE  (P \o Q) \o R = P \o (Q \o R)
<1>1. PICK S : P \in Seq(S) BY DEF Program
<1>2. PICK V : Q \in Seq(V) BY DEF Program
<1>3. PICK X : R \in Seq(X) BY DEF Program
<1> DEFINE U == (S \cup V) \cup X
<1>4. P \in Seq(U) /\ Q \in Seq(U) /\ R \in Seq(U) BY <1>1, <1>2, <1>3
<1> HIDE DEF U
<1> QED BY <1>4

\* ... a single step and no step at all are programs ...
LEMMA OneStep ==
    ASSUME NEW s
    PROVE  Program(<<s>>) /\ Program(<<>>)
<1>1. <<s>> \in Seq({s}) /\ <<>> \in Seq({s}) OBVIOUS
<1> QED BY <1>1 DEF Program

\* ... and putting no step before or after a program changes nothing.
LEMMA NothingMore ==
    ASSUME NEW P, Program(P)
    PROVE  P \o <<>> = P /\ <<>> \o P = P
BY DEF Program

-----------------------------------------------------------------------------
(* Who may touch what.                                                     *)

NoLock == <<"nobody", 0>>

\* The subdevice of a counter.
SubOf(b, n) == IF b = "me1400ab" THEN n \div 3 ELSE IF b = "me1400cd" THEN n - 12 ELSE n

\* The lock under which a register is changed.
Of(b, r) ==
    CASE r[1] \in {"ctrl", "copy", "chip"} -> CtrlLock
      [] r[1] \in {"port", "mirror"} -> IF b = "me1400" THEN CtrlLock ELSE Lock(r[2])
      [] r[1] \in {"status", "count", "ext", "mode", "pin"} -> Lock(r[2])
      [] r[1] = "relay"    -> Lock(0)
      [] r[1] = "intcsr"   -> IntcsrLock
      [] r[1] = "irq_mode" -> IrqModeLock
      [] r[1] = "irq_ctrl" -> IrqCtrlLock
      [] r[1] = "clock"    -> IF b = "me1400ab" THEN ClkLock ELSE NoLock
      [] r[1] \in {"low8", "high8"} -> Lock(SubOf(b, r[2]))
      [] OTHER -> NoLock

\* What tasks change with the interrupt masked, and the handler without the
\* lock.
Masked(r)  == r[1] \in {"status", "count", "irq_mode", "irq_ctrl"}
Handled(r) == r[1] \in {"irq_mode", "irq_ctrl"}

MayWrite(b, u, h, r) ==
    \/ Of(b, r) = NoLock
    \/ /\ Of(b, r) \in h \/ (u = "isr" /\ Handled(r))
       /\ Masked(r) => u = "isr" \/ IrqLine \in h

Keeps(b, u, h, r) ==
    /\ Of(b, r) # NoLock
    /\ \/ Of(b, r) \in h /\ (Handled(r) => IrqLine \in h)
       \/ u = "isr" /\ Masked(r)

\* Bits of a shared register that belong to a subdevice.
Numbers  == {0, 1, 2}
Mine(i)  == ModeBits(i) \cup LineEn(i)
Shared(b, r) == (r = Ctrl /\ b \notin {"me8100", "me8100b"}) \/ r = Intcsr
MyClock  == LineClock(2)

\* What others do while a task holds the locks h.
Rely(b, u, h, R, W, R2, W2) ==
    /\ \A r \in Registers(b) : Keeps(b, u, h, r) => R2[r] = R[r] /\ W2[r] = W[r]
    /\ \A r \in Registers(b), i \in Numbers :
         Shared(b, r) /\ Lock(i) \in h => R2[r] \cap Mine(i) = R[r] \cap Mine(i)
    /\ b = "me1400cd" /\ Lock(2) \in h /\ IrqLine \in h /\ Enable \subseteq R2[MyClock]
         => Enable \subseteq R[MyClock]

\* What a task does to others.
Polite(b, u, h, R, W, R2, W2) ==
    /\ \A r \in Registers(b) : R2[r] # R[r] \/ W2[r] # W[r] => MayWrite(b, u, h, r)
    /\ \A r \in Registers(b), i \in Numbers :
         Shared(b, r) /\ Lock(i) \notin h => R2[r] \cap Mine(i) = R[r] \cap Mine(i)

-----------------------------------------------------------------------------
(* What always holds of the registers, and what holds when a lock is free. *)

Outs == Out(0) \cup Out(1) \cup Out(2)
OutsOnly == {"me1000", "me0600_dio", "me1400"}

Universe(b, r) ==
    CASE r[1] \in {"port", "mirror"} -> IF b = "me1000" THEN Pins(32)
                                        ELSE IF b \in {"me8100", "me8100b"} THEN Pins(16) ELSE Pins(8)
      [] r[1] = "relay"  -> Pins(8)
      [] r[1] = "mode"   -> Edges
      [] r[1] = "ext"    -> Edges \cup Acknowledge
      [] r[1] = "pin"    -> Enable \cup ClockEn
      [] r[1] = "status" -> Statuses
      [] r[1] = "count"  -> AnyCount
      [] r[1] = "rised"  -> Up \cup Off
      [] r[1] = "filter" -> Filtering
      [] r[1] \in {"pattern", "mask"} -> Arguments
      [] r[1] = "ctr"    -> UNION {ModeBit(x) : x \in ModeSet}
      [] r[1] \in {"low8", "high8"} -> Bytes
      [] OTHER           -> Outs

Bounded(b, r) ==
    \/ r[1] \in {"mirror", "relay", "mode", "ext", "pin", "status", "count", "rised",
                 "filter", "pattern", "mask", "ctr", "low8", "high8"}
    \/ r[1] = "port" /\ b \notin {"me8100", "me8100b"}
    \/ r = Ctrl /\ b \in OutsOnly

\* The registers of which RegistersAgree speaks at every moment.
Exact(b, r) ==
    ~ \/ b \in {"me0900_do", "me0900_di"}
      \/ b \in {"me8100", "me8100b"} /\ r[1] = "port"
      \/ b = "me8100b" /\ r[1] \in {"ctrl", "copy"}
      \/ b = "me1400cd" /\ r = MyClock
      \/ b = "me1400" /\ (r[1] = "port" \/ r = Chip \/ r \in {Mirror(1), Mirror(2)})

FineAt(b, r, v, w) ==
    /\ Bounded(b, r) => v \subseteq Universe(b, r)
    /\ r = Intcsr => <<"pci", 0>> \in v
    /\ Exact(b, r) => w = v
    /\ b = "me0900_di" => w = {} /\ v = Pins(8)

Fine(b, R, W) == \A r \in Registers(b) : FineAt(b, r, R[r], W[r])

Line0(i)  == <<"line", i>>
Whole(n)  == <<"bytes", n>>
Copied    == <<"copy", 0>>
Latched   == <<"chip", 0>>

Bonds(b) ==
    CASE b = "me0600_irq" -> {Line0(0), Line0(1)}
      [] b = "me4600_irq" -> {Line0(0)}
      [] b = "me1400ab"   -> {Line0(2), Whole(0), Whole(3)}
      [] b = "me1400cd"   -> {Line0(2), Whole(12), Whole(13)}
      [] b = "me4600_ctr" -> {Whole(0), Whole(1)}
      [] b = "me8100"     -> {Copied}
      [] b = "me1400"     -> {Latched}
      [] OTHER            -> {}

Home(b, x) == CASE x[1] = "line"  -> Lock(x[2])
                [] x[1] = "bytes" -> Of(b, <<"low8", x[2]>>)
                [] OTHER          -> CtrlLock

\* The line may interrupt.
Live(b, i, R) == CASE b = "me0600_irq" -> LineEn(i) \subseteq R[Intcsr]
                   [] b = "me4600_irq" -> R[External(i)] \cap Edges # {}
                   [] b = "me1400ab"   -> Enable \subseteq R[Pin(i)]
                   [] OTHER            -> Enable \subseteq R[MyClock]

Bond(b, x, R, W) ==
    CASE x[1] = "line"  ->
           /\ Live(b, x[2], R) => R[Status(x[2])] = Run
           /\ b # "me1400cd" => (R[Status(x[2])] = Run => Live(b, x[2], R))
           /\ b = "me4600_irq" => R[External(x[2])] \ Acknowledge = R[EdgeMode(x[2])]
      [] x[1] = "bytes" -> R[<<"low8", x[2]>>] = R[<<"high8", x[2]>>]
      [] x[1] = "copy"  -> R[Copy] = R[Ctrl]
      [] OTHER          -> /\ W[Chip] = R[Ctrl] /\ R[Chip] = ModeByte(W[Chip])
                           /\ R[Port(0)] = W[Port(0)] /\ R[Port(0)] = R[Mirror(0)]

\* Subdevices whose locks are taken with the interrupt masked.
Guarded(b, i) == Line0(i) \in Bonds(b)

-----------------------------------------------------------------------------
(* What a task knows: facts about the registers and the value it loaded,   *)
(* and notes about what it has still to do.                                *)

But(r, c)   == <<"but", r, c>>              \* the value is that of r but for the bits c
With(r, m)  == <<"with", r, m>>             \* the value has the bits m of r
Is(r, m, v) == <<"is", r, m, v>>            \* of the bits m register r has v
Near(r, q, c) == <<"near", r, q, c>>        \* two registers are the same but for c
Firm(x)     == <<"bond", x>>
Room(i)     == <<"room", Count(i)>>
Stage(n, i) == <<"stage", n, i>>            \* an 8255 between two modes ...
Written(c, v) == <<"written", c, v>>        \* ... or between a mirror and its port

ChipStage(n, i, R, W) ==
    CASE n = 1 -> R[Port(0)] = W[Port(0)] /\ R[Port(0)] = R[Mirror(0)]
      [] n = 2 -> R[Mirror(0)] = IF i = 0 THEN {} ELSE W[Port(0)]
      [] OTHER -> /\ W[Chip] = R[Ctrl] /\ R[Chip] = ModeByte(W[Chip])
                  /\ R[Port(0)] = {} /\ W[Port(0)] = R[Mirror(0)]

Holds(b, k, R, W, T) ==
    CASE k[1] = "but"  -> T \ k[3] = R[k[2]] \ k[3]
      [] k[1] = "with" -> T \cap k[3] = R[k[2]] \cap k[3]
      [] k[1] = "is"   -> R[k[2]] \cap k[3] = k[4]
      [] k[1] = "near" -> R[k[2]] \ k[4] = R[k[3]] \ k[4]
      [] k[1] = "bond" -> Bond(b, k[2], R, W)
      [] k[1] = "room" -> \A v \in R[k[2]] : v[2] < MaxIrqs
      [] k[1] = "stage" -> ChipStage(k[2], k[3], R, W)
      [] OTHER         -> /\ W[Chip] = R[Ctrl] /\ R[Chip] = ModeByte(W[Chip])
                          /\ R[Port(0)] = W[Port(0)] /\ T \ k[2] = R[Port(0)] \ k[2]
                          /\ R[Mirror(0)] = (R[Port(0)] \ k[2]) \cup k[3]

Local(b, f, R, W, T) == Fine(b, R, W) /\ \A k \in f : Holds(b, k, R, W, T)

Stable(b, u, h, k) ==
    \A R, W, T, R2, W2 :
      Rely(b, u, h, R, W, R2, W2) /\ Holds(b, k, R, W, T) => Holds(b, k, R2, W2, T)

Owed(i, m)  == <<"owed", i, m>>
Turned      == <<"turned", 0, {}>>
Window      == <<"window", 0, {}>>
Waking(i, m) == [do |-> "wake", queue |-> Queue(i), reg |-> Status(i), bits |-> m]

\* Subdevices with a stop that wakes nobody.
Silent(b, i) == b = "me8200_ex" \/ (b = "me8200" /\ i = 0)

Stirs(b, i, R, R2) ==
    \/ Count(i) \in Registers(b) /\ R2[Count(i)] # R[Count(i)]
    \/ Resets(i) \in Registers(b) /\ R2[Resets(i)] # R[Resets(i)]
    \/ Rised(i) \in Registers(b) /\ ~(R2[Rised(i)] \subseteq R[Rised(i)])

-----------------------------------------------------------------------------
(* The effect of a step on the registers and the value.                    *)

Changes(b, r, R, R2, v) == R2[r] = v /\ \A q \in Registers(b) : q # r => R2[q] = R[q]
Keep(b, R, R2) == \A q \in Registers(b) : R2[q] = R[q]

Effect(b, s, R, W, T, R2, W2, T2) ==
    CASE s.do = "load"  -> T2 = R[s.reg] /\ R2 = R /\ W2 = W
      [] s.do = "also"  -> T2 = T \cup R[s.reg] /\ R2 = R /\ W2 = W
      [] s.do = "given" -> T2 = s.value /\ R2 = R /\ W2 = W
      [] s.do \in {"read", "wake"} -> T2 = T /\ R2 = R /\ W2 = W
      [] s.do = "store" -> /\ T2 = T
                           /\ Changes(b, s.reg, R, R2, (T \ s.clear) \cup Level(s.reg, s.clear, s.set))
                           /\ Changes(b, s.reg, W, W2, (W[s.reg] \ s.clear) \cup s.set)
      [] s.do = "put"   -> /\ T2 = T /\ Changes(b, s.reg, R, R2, Level(s.reg, s.clear, s.set))
                           /\ Changes(b, s.reg, W, W2, (W[s.reg] \ s.clear) \cup s.set)
      [] s.do = "bump"  -> /\ T2 = T /\ Changes(b, s.reg, R, R2, Next1(R[s.reg]))
                           /\ Changes(b, s.reg, W, W2, Next1(W[s.reg]))
      [] s.do = "mode"  -> /\ T2 = T /\ R2[s.reg] = s.code[R[s.from]]
                           /\ \A q \in Registers(b) : q \in s.ports => R2[q] = {}
                           /\ \A q \in Registers(b) : q # s.reg /\ q \notin s.ports => R2[q] = R[q]
                           /\ W2[s.reg] = W[s.from] /\ W2[s.own] = {}
                           /\ \A q \in Registers(b) : q # s.reg /\ q # s.own => W2[q] = W[q]
      [] s.do = "restore" -> /\ T2 = T /\ Keep(b, W, W2)
                             /\ Changes(b, s.reg, R, R2, IF R[s.from] = {} THEN R[s.reg] ELSE R[s.from])

Accesses == {"load", "also", "given", "read", "wake", "store", "put", "bump", "mode", "restore"}

\* The registers a step names are those of the board.
Named(b, s) ==
    CASE s.do \in {"load", "also", "store", "put", "bump"} -> s.reg \in Registers(b)
      [] s.do = "mode"    -> /\ s.reg \in Registers(b) /\ s.from \in Registers(b) /\ s.own \in Registers(b)
                             /\ s.ports \subseteq Registers(b) /\ s.reg \notin s.ports /\ s.own # s.reg
      [] s.do = "restore" -> s.reg \in Registers(b) /\ s.from \in Registers(b)
      [] OTHER            -> TRUE

\* Notes: a wake-up that is owed is owed until it is done.
Notes(b, u, h, f, o, s, o2, R, W, T, R2, W2, T2) ==
    /\ \A i \in Numbers : Stirs(b, i, R, R2) => Silent(b, i) \/ \E m : Owed(i, m) \in o2
    /\ b = "me1400cd" =>
         /\ Turned \in o2 => (Turned \in o /\ T2 = T) \/ T2 = R[MyClock]
         /\ Turned \in o2 => Keep(b, R, R2)
         /\ Window \in o /\ Window \notin o2 => Enable \subseteq R2[MyClock]
         /\ Enable \subseteq R[MyClock] /\ ~(Enable \subseteq R2[MyClock])
              => Window \in o2 \/ ClkLock \in h
         /\ ~(Enable \subseteq R[MyClock]) /\ Enable \subseteq R2[MyClock]
              => Lock(2) \in h \/ (Turned \in o /\ Enable \subseteq T)

Moves(b, u, h, f, o, s, f2, o2) ==
    /\ s.do \in Accesses /\ Named(b, s)
    /\ \A i, m : Owed(i, m) \in o => Owed(i, m) \in o2 \/ s = Waking(i, m)
    /\ \A R, W, T, R2, W2, T2 :
         Local(b, f, R, W, T) /\ Effect(b, s, R, W, T, R2, W2, T2) =>
           /\ Local(b, f2, R2, W2, T2)
           /\ Polite(b, u, h, R, W, R2, W2)
           /\ Notes(b, u, h, f, o, s, o2, R, W, T, R2, W2, T2)

\* A write to a port is for an output.
Aimed(b, f, s) ==
    s.do \in {"store", "put"} =>
      \A i : s.reg = Port(i) /\ s.set # {} /\ Ctrl \in Registers(b) /\ b \notin {"me8100", "me8100b"}
             /\ ~(b = "me6000" /\ i # 0) =>
        \A R, W, T : Local(b, f, R, W, T) => R[Ctrl] \cap ModeBits(i) = Out(i)

Decides(b, f, s) ==
    \A i : WritesTo(i, s.body) /\ ~(b = "me6000" /\ i # 0) =>
      \A R, W, T : Local(b, f, R, W, T) =>
        ((T \cap s.mask) \in s.in <=> R[Ctrl] \cap ModeBits(i) = Out(i))

Entails(b, f, f2) == \A R, W, T : Local(b, f, R, W, T) => Local(b, f2, R, W, T)

\* What is known once a lock is taken, and has to be when it is given back.
Opens(b, f, l, f2) ==
    \A R, W, T : /\ Local(b, f, R, W, T)
                 /\ \A x \in Bonds(b) : Home(b, x) = l => Bond(b, x, R, W)
                 => Local(b, f2, R, W, T)
Closes(b, f, l, f2) ==
    \A R, W, T : Local(b, f, R, W, T) =>
      Local(b, f2, R, W, T) /\ \A x \in Bonds(b) : Home(b, x) = l => Bond(b, x, R, W)

MarksStay(o, o2) == o \subseteq o2 /\ (Turned \in o2 => Turned \in o) /\ (Window \in o2 => Window \in o)

\* What a task waits for.
Legal(b, s) ==
    \E i \in Numbers :
      /\ s.queue = Queue(i) /\ s.news \subseteq {Count(i), Resets(i)} /\ s.news \subseteq Registers(b)
      /\ s.bits # {} => s.reg = Rised(i) /\ s.reg \in Registers(b)
      /\ Silent(b, i) => s.bits = Off

-----------------------------------------------------------------------------
(* A set of situations a program can be in, each with the steps that lead  *)
(* to others of the set.                                                   *)

\* Named, for the provers.
Empty   == {}
Masking == {IrqLine}

\* Nothing is in Empty.
LEMMA Void == \A x : x \notin Empty
BY DEF Empty

GoesAccess(b, u, Z, h, f, o, s, Q) ==
    /\ Aimed(b, f, s)
    /\ \E f2, o2 : Moves(b, u, h, f, o, s, f2, o2) /\ <<h, f2, o2, Q>> \in Z
GoesTake(b, Z, h, f, o, s, Q) ==
    /\ s.do = "take" /\ s.lock \notin h /\ s.lock # IrqLine
    /\ \E f2 : Opens(b, f, s.lock, f2) /\ <<h \cup {s.lock}, f2, o, Q>> \in Z
GoesGive(b, Z, h, f, o, s, Q) ==
    /\ s.do = "give" /\ s.lock \in h /\ s.lock # IrqLine
    /\ \E f2 : Closes(b, f, s.lock, f2) /\ <<h \ {s.lock}, f2, o, Q>> \in Z
GoesMask(u, Z, h, f, o, s, Q) ==
    s.do = "mask" /\ u = "task" /\ h = Empty /\ f = Empty /\ <<Masking, Empty, o, Q>> \in Z
GoesUnmask(u, Z, h, f, o, s, Q) ==
    s.do = "unmask" /\ u = "task" /\ h = Masking /\ f = Empty /\ <<Empty, Empty, o, Q>> \in Z
GoesTest(b, Z, h, f, o, s, Q) ==
    /\ s.do = "test" /\ Decides(b, f, s)
    /\ \E f1, o1, f2, o2 :
         /\ \A R, W, T : Local(b, f, R, W, T) /\ (T \cap s.mask) \in s.in => Local(b, f1, R, W, T)
         /\ \A R, W, T : Local(b, f, R, W, T) /\ (T \cap s.mask) \notin s.in => Local(b, f2, R, W, T)
         /\ MarksStay(o, o1) /\ MarksStay(o, o2)
         /\ <<h, f1, o1, s.body \o Q>> \in Z /\ <<h, f2, o2, Q>> \in Z
GoesTry(b, Z, h, f, o, s, Q) ==
    /\ s.do = "try" /\ s.lock \notin h /\ s.lock # IrqLine
    /\ \E f1, f2 : /\ Opens(b, f, s.lock, f1) /\ Entails(b, f, f2)
                   /\ <<h \cup {s.lock}, f1, o, s.body \o Q>> \in Z /\ <<h, f2, o, Q>> \in Z
GoesAwait(b, u, Z, h, f, o, s, Q) ==
    /\ s.do = "await" /\ h = Empty /\ f = Empty /\ o = Empty /\ u = "task" /\ Legal(b, s)
    /\ <<Empty, Empty, Empty, Q>> \in Z /\ <<Empty, Empty, Empty, s.late>> \in Z

Goes(b, u, Z, h, f, o, s, Q) ==
    \/ GoesAccess(b, u, Z, h, f, o, s, Q)
    \/ GoesTake(b, Z, h, f, o, s, Q)
    \/ GoesGive(b, Z, h, f, o, s, Q)
    \/ GoesMask(u, Z, h, f, o, s, Q)
    \/ GoesUnmask(u, Z, h, f, o, s, Q)
    \/ GoesTest(b, Z, h, f, o, s, Q)
    \/ GoesTry(b, Z, h, f, o, s, Q)
    \/ GoesAwait(b, u, Z, h, f, o, s, Q)

Steady(b, u, h, f) ==
    /\ \A k \in f : Stable(b, u, h, k)
    /\ \A i \in Numbers : Guarded(b, i) /\ Lock(i) \in h => u = "isr" \/ IrqLine \in h

Keeping(b, u, h, f, o) ==
    /\ \A i, m : Owed(i, m) \in o =>
         /\ i \in Numbers
         /\ \A R, W, T : Local(b, f, R, W, T) => m \subseteq R[Status(i)]
    /\ Turned \in o => ClkLock \in h
    /\ Window \in o => u = "isr" /\ Lock(2) \in h

\* The second byte of a counter follows the first.
Paired(b, h, f, P) ==
    \A n \in 0 .. 14 : Whole(n) \in Bonds(b) /\ Home(b, Whole(n)) \in h =>
      \/ \A R, W, T : Local(b, f, R, W, T) => Bond(b, Whole(n), R, W)
      \/ P # <<>> /\ Head(P).do = "put" /\ Head(P).reg = <<"high8", n>>

Ok(b, u, Z, h, f, o, P) ==
    /\ Program(P) /\ Steady(b, u, h, f) /\ Keeping(b, u, h, f, o) /\ Paired(b, h, f, P)
    /\ \A i, m : Owed(i, m) \in o => \E n \in DOMAIN P : P[n] = Waking(i, m)
    /\ P = <<>> => h = Empty /\ f = Empty /\ o = Empty
    /\ P # <<>> => Goes(b, u, Z, h, f, o, Head(P), Tail(P))

Closed(b, u, Z) == \A h, f, o, P : <<h, f, o, P>> \in Z => Ok(b, u, Z, h, f, o, P)

Good(b, u, h, f, o, P) == \E Z : <<h, f, o, P>> \in Z /\ Closed(b, u, Z)

\* A program leads from one situation to another, whatever comes after it.
Does(b, u, h, f, o, P, h2, f2, o2) ==
    /\ Program(P)
    /\ \A Q : Good(b, u, h2, f2, o2, Q) => Good(b, u, h, f, o, P \o Q)

-----------------------------------------------------------------------------
(* Rules.                                                                  *)

\* A step that leads into a set of situations leads into every larger set.
LEMMA GoesOn ==
    ASSUME NEW b, NEW u, NEW Z, NEW Z2, Z \subseteq Z2, NEW h, NEW f, NEW o, NEW s, NEW Q,
           Goes(b, u, Z, h, f, o, s, Q)
    PROVE  Goes(b, u, Z2, h, f, o, s, Q)
<1>1. CASE GoesAccess(b, u, Z, h, f, o, s, Q) BY <1>1 DEF Goes, GoesAccess
<1>2. CASE GoesTake(b, Z, h, f, o, s, Q) BY <1>2 DEF Goes, GoesTake
<1>3. CASE GoesGive(b, Z, h, f, o, s, Q) BY <1>3 DEF Goes, GoesGive
<1>4. CASE GoesMask(u, Z, h, f, o, s, Q) BY <1>4 DEF Goes, GoesMask
<1>5. CASE GoesUnmask(u, Z, h, f, o, s, Q) BY <1>5 DEF Goes, GoesUnmask
<1>6. CASE GoesTest(b, Z, h, f, o, s, Q)
  <2>1. PICK f1, o1, f2, o2 :
         /\ \A R, W, T : Local(b, f, R, W, T) /\ (T \cap s.mask) \in s.in => Local(b, f1, R, W, T)
         /\ \A R, W, T : Local(b, f, R, W, T) /\ (T \cap s.mask) \notin s.in => Local(b, f2, R, W, T)
         /\ MarksStay(o, o1) /\ MarksStay(o, o2)
         /\ <<h, f1, o1, s.body \o Q>> \in Z /\ <<h, f2, o2, Q>> \in Z
    BY <1>6 DEF GoesTest
  <2>2. <<h, f1, o1, s.body \o Q>> \in Z2 /\ <<h, f2, o2, Q>> \in Z2 BY <2>1
  <2>3. GoesTest(b, Z2, h, f, o, s, Q) BY <1>6, <2>1, <2>2, Zenon DEF GoesTest
  <2> QED BY <2>3 DEF Goes
<1>7. CASE GoesTry(b, Z, h, f, o, s, Q) BY <1>7 DEF Goes, GoesTry
<1>8. CASE GoesAwait(b, u, Z, h, f, o, s, Q) BY <1>8 DEF Goes, GoesAwait
<1> QED BY <1>1, <1>2, <1>3, <1>4, <1>5, <1>6, <1>7, <1>8 DEF Goes

\* A situation that is in order within a set is in order within every larger set.
LEMMA OkOn ==
    ASSUME NEW b, NEW u, NEW Z, NEW Z2, Z \subseteq Z2, NEW h, NEW f, NEW o, NEW P,
           Ok(b, u, Z, h, f, o, P)
    PROVE  Ok(b, u, Z2, h, f, o, P)
BY GoesOn DEF Ok

\* A good situation is one of a closed set, within which it is in order.
LEMMA Unfold ==
    ASSUME NEW b, NEW u, NEW h, NEW f, NEW o, NEW P, Good(b, u, h, f, o, P)
    PROVE  \E Z : Closed(b, u, Z) /\ <<h, f, o, P>> \in Z /\ Ok(b, u, Z, h, f, o, P)
BY DEF Good, Closed

\* Every situation of a closed set is good.
LEMMA Known ==
    ASSUME NEW b, NEW u, NEW Z, Closed(b, u, Z), NEW h, NEW f, NEW o, NEW P, <<h, f, o, P>> \in Z
    PROVE  Good(b, u, h, f, o, P)
BY DEF Good

\* A situation that is in order within a closed set is good.
LEMMA Fold ==
    ASSUME NEW b, NEW u, NEW Z, Closed(b, u, Z), NEW h, NEW f, NEW o, NEW P, Ok(b, u, Z, h, f, o, P)
    PROVE  Good(b, u, h, f, o, P)
<1> DEFINE Y == Z \cup {<<h, f, o, P>>}
<1>1. Z \subseteq Y /\ <<h, f, o, P>> \in Y OBVIOUS
<1>2. ASSUME NEW h1, NEW f1, NEW o1, NEW P1, <<h1, f1, o1, P1>> \in Y
      PROVE  Ok(b, u, Z, h1, f1, o1, P1)
  <2>1. CASE <<h1, f1, o1, P1>> \in Z BY <2>1 DEF Closed
  <2>2. CASE <<h1, f1, o1, P1>> \notin Z
    <3>1. <<h1, f1, o1, P1>> = <<h, f, o, P>> BY <1>2, <2>2
    <3>2. h1 = h /\ f1 = f /\ o1 = o /\ P1 = P BY <3>1
    <3> QED BY <3>2
  <2> QED BY <2>1, <2>2
<1> HIDE DEF Y
<1>3. Closed(b, u, Y) BY <1>1, <1>2, OkOn DEF Closed
<1> QED BY <1>1, <1>3 DEF Good

\* Two closed sets together are closed.
LEMMA Both ==
    ASSUME NEW b, NEW u, NEW Z, NEW Y, Closed(b, u, Z), Closed(b, u, Y)
    PROVE  Closed(b, u, Z \cup Y)
<1>1. Z \subseteq Z \cup Y /\ Y \subseteq Z \cup Y OBVIOUS
<1> QED BY <1>1, OkOn DEF Closed

\* What is asked of a situation, whatever comes next.
Fit(b, u, h, f, o) ==
    /\ Steady(b, u, h, f) /\ Keeping(b, u, h, f, o)
    /\ \A n \in 0 .. 14 : Whole(n) \in Bonds(b) /\ Home(b, Whole(n)) \in h =>
         \A R, W, T : Local(b, f, R, W, T) => Bond(b, Whole(n), R, W)

\* A program is good when its first step leads to good situations and no wake-up is forgotten.
LEMMA Lead ==
    ASSUME NEW b, NEW u, NEW Z, Closed(b, u, Z), NEW h, NEW f, NEW o, NEW s, NEW Q, Program(Q),
           Fit(b, u, h, f, o), Goes(b, u, Z, h, f, o, s, Q),
           \A i, m : Owed(i, m) \in o => s = Waking(i, m) \/ \E n \in DOMAIN Q : Q[n] = Waking(i, m)
    PROVE  Good(b, u, h, f, o, <<s>> \o Q)
<1> DEFINE P == <<s>> \o Q
<1>1. /\ Program(P) /\ P # <<>> /\ Head(P) = s /\ Tail(P) = Q
      /\ \A n \in DOMAIN Q : n + 1 \in DOMAIN P /\ P[n + 1] = Q[n]
      /\ 1 \in DOMAIN P /\ P[1] = s
  BY StepProgram
<1> HIDE DEF P
<1>2. \A i, m : Owed(i, m) \in o => \E n \in DOMAIN P : P[n] = Waking(i, m) BY <1>1
<1>3. Goes(b, u, Z, h, f, o, Head(P), Tail(P)) BY <1>1
<1>4. Paired(b, h, f, P) BY DEF Fit, Paired
<1>5. Ok(b, u, Z, h, f, o, P) BY <1>1, <1>2, <1>3, <1>4 DEF Fit, Ok
<1>6. Good(b, u, h, f, o, P) BY <1>5, Fold
<1> QED BY <1>6 DEF P

\* A task that is done, holds nothing, relies on nothing and owes nothing is good.
LEMMA Done ==
    ASSUME NEW b, NEW u
    PROVE  Good(b, u, Empty, Empty, Empty, <<>>)
<1>1. Closed(b, u, {}) BY DEF Closed
<1>2. Ok(b, u, {}, Empty, Empty, Empty, <<>>)
  BY OneStep, Void DEF Ok, Steady, Keeping, Paired
<1> QED BY <1>1, <1>2, Fold

\* A good program is a program, and every wake-up its task owes is one of its steps.
LEMMA Whence ==
    ASSUME NEW b, NEW u, NEW h, NEW f, NEW o, NEW Q, Good(b, u, h, f, o, Q)
    PROVE  /\ Program(Q)
           /\ \A i, m : Owed(i, m) \in o => \E n \in DOMAIN Q : Q[n] = Waking(i, m)
<1>1. PICK Z : Ok(b, u, Z, h, f, o, Q) BY Unfold
<1> QED BY <1>1 DEF Ok

\* Programs that fit end to end do their work one after the other.
LEMMA DoesThen ==
    ASSUME NEW b, NEW u, NEW h, NEW f, NEW o, NEW P, NEW h1, NEW f1, NEW o1, NEW Q, NEW h2, NEW f2, NEW o2,
           Does(b, u, h, f, o, P, h1, f1, o1), Does(b, u, h1, f1, o1, Q, h2, f2, o2)
    PROVE  Does(b, u, h, f, o, P \o Q, h2, f2, o2)
<1>1. Program(P) /\ Program(Q) /\ Program(P \o Q) BY JoinPrograms DEF Does
<1>2. ASSUME NEW X, Good(b, u, h2, f2, o2, X)
      PROVE  Good(b, u, h, f, o, (P \o Q) \o X)
  <2>1. Program(X) BY <1>2, Whence
  <2>2. Good(b, u, h1, f1, o1, Q \o X) BY <1>2 DEF Does
  <2>3. Good(b, u, h, f, o, P \o (Q \o X)) BY <2>2 DEF Does
  <2>4. (P \o Q) \o X = P \o (Q \o X) BY <2>1, <1>1, Associative
  <2> QED BY <2>3, <2>4
<1> QED BY <1>1, <1>2 DEF Does

\* No step does nothing.
LEMMA DoesNothing ==
    ASSUME NEW b, NEW u, NEW h, NEW f, NEW o
    PROVE  Does(b, u, h, f, o, <<>>, h, f, o)
<1>1. Program(<<>>) BY OneStep
<1>2. ASSUME NEW X, Good(b, u, h, f, o, X)
      PROVE  Good(b, u, h, f, o, <<>> \o X)
  BY <1>2, Whence, NothingMore
<1> QED BY <1>1, <1>2 DEF Does

\* A program that ends with nothing held, known or owed is good.
LEMMA DoesAll ==
    ASSUME NEW b, NEW u, NEW h, NEW f, NEW o, NEW P, Does(b, u, h, f, o, P, Empty, Empty, Empty)
    PROVE  Good(b, u, h, f, o, P)
<1>1. Good(b, u, h, f, o, P \o <<>>) BY Done DEF Does
<1> QED BY <1>1, NothingMore DEF Does

\* A single access that is aimed and moves the facts and notes along does just that.
LEMMA DoesAccess ==
    ASSUME NEW b, NEW u, NEW h, NEW f, NEW o, NEW s, NEW f2, NEW o2,
           Fit(b, u, h, f, o), Aimed(b, f, s), Moves(b, u, h, f, o, s, f2, o2)
    PROVE  Does(b, u, h, f, o, <<s>>, h, f2, o2)
<1>1. ASSUME NEW Q, Good(b, u, h, f2, o2, Q)
      PROVE  Good(b, u, h, f, o, <<s>> \o Q)
  <2>1. PICK Z : Closed(b, u, Z) /\ <<h, f2, o2, Q>> \in Z BY <1>1, Unfold
  <2>2. GoesAccess(b, u, Z, h, f, o, s, Q) BY <2>1 DEF GoesAccess
  <2>3. \A i, m : Owed(i, m) \in o => s = Waking(i, m) \/ \E n \in DOMAIN Q : Q[n] = Waking(i, m)
    BY <1>1, Whence DEF Moves
  <2> QED BY <1>1, <2>1, <2>2, <2>3, Lead, Whence DEF Goes
<1> QED BY <1>1, OneStep DEF Does

\* To take a lock adds it to the locks held, and the facts of an open section to those known.
LEMMA DoesTake ==
    ASSUME NEW b, NEW u, NEW h, NEW f, NEW o, NEW l, NEW f2, l \notin h, l # IrqLine,
           Fit(b, u, h, f, o), Opens(b, f, l, f2)
    PROVE  Does(b, u, h, f, o, Take(l), h \cup {l}, f2, o)
<1> DEFINE s == [do |-> "take", lock |-> l]
<1>1. ASSUME NEW Q, Good(b, u, h \cup {l}, f2, o, Q)
      PROVE  Good(b, u, h, f, o, <<s>> \o Q)
  <2>1. PICK Z : Closed(b, u, Z) /\ <<h \cup {l}, f2, o, Q>> \in Z BY <1>1, Unfold
  <2>2. GoesTake(b, Z, h, f, o, s, Q) BY <2>1 DEF GoesTake
  <2>3. \A i, m : Owed(i, m) \in o => s = Waking(i, m) \/ \E n \in DOMAIN Q : Q[n] = Waking(i, m)
    BY <1>1, Whence
  <2> QED BY <1>1, <2>1, <2>2, <2>3, Lead, Whence DEF Goes
<1> QED BY <1>1, OneStep DEF Does, Take

\* To give a lock back takes it away, when the bonds it is the home of hold again.
LEMMA DoesGive ==
    ASSUME NEW b, NEW u, NEW h, NEW f, NEW o, NEW l, NEW f2, l \notin h, l # IrqLine,
           Fit(b, u, h \cup {l}, f, o), Closes(b, f, l, f2)
    PROVE  Does(b, u, h \cup {l}, f, o, Give(l), h, f2, o)
<1> DEFINE s == [do |-> "give", lock |-> l]
<1>1. ASSUME NEW Q, Good(b, u, h, f2, o, Q)
      PROVE  Good(b, u, h \cup {l}, f, o, <<s>> \o Q)
  <2>1. PICK Z : Closed(b, u, Z) /\ <<h, f2, o, Q>> \in Z BY <1>1, Unfold
  <2>2. (h \cup {l}) \ {l} = h OBVIOUS
  <2>3. GoesGive(b, Z, h \cup {l}, f, o, s, Q) BY <2>1, <2>2 DEF GoesGive
  <2>4. \A i, m : Owed(i, m) \in o => s = Waking(i, m) \/ \E n \in DOMAIN Q : Q[n] = Waking(i, m)
    BY <1>1, Whence
  <2> QED BY <1>1, <2>1, <2>3, <2>4, Lead, Whence DEF Goes
<1> QED BY <1>1, OneStep DEF Does, Give

\* A section under a lock.
LEMMA DoesUnder ==
    ASSUME NEW b, NEW u, NEW h, NEW f, NEW o, NEW l, NEW f1, NEW P, NEW f2, NEW o2, NEW f3,
           l \notin h, l # IrqLine, Fit(b, u, h, f, o), Opens(b, f, l, f1),
           Does(b, u, h \cup {l}, f1, o, P, h \cup {l}, f2, o2),
           Fit(b, u, h \cup {l}, f2, o2), Closes(b, f2, l, f3)
    PROVE  Does(b, u, h, f, o, Under(l, P), h, f3, o2)
<1>1. Does(b, u, h, f, o, Take(l), h \cup {l}, f1, o) BY DoesTake
<1>2. Does(b, u, h \cup {l}, f2, o2, Give(l), h, f3, o2) BY DoesGive
<1>3. Does(b, u, h, f, o, Take(l) \o P, h \cup {l}, f2, o2) BY <1>1, DoesThen
<1>4. Does(b, u, h, f, o, (Take(l) \o P) \o Give(l), h, f3, o2) BY <1>2, <1>3, DoesThen
<1> QED BY <1>4 DEF Under

\* The interrupt is masked around it.
LEMMA DoesProtect ==
    ASSUME NEW b, NEW l, NEW P, NEW o2,
           Does(b, "task", Masking, Empty, Empty, Under(l, P), Masking, Empty, o2),
           Fit(b, "task", Masking, Empty, o2)
    PROVE  Does(b, "task", Empty, Empty, Empty, Protect(l, P), Empty, Empty, o2)
<1> DEFINE s == [do |-> "mask"]
<1> DEFINE v == [do |-> "unmask"]
<1>1. ASSUME NEW Q, Good(b, "task", Masking, Empty, Empty, Q)
      PROVE  Good(b, "task", Empty, Empty, Empty, <<s>> \o Q)
  <2>1. PICK Z : Closed(b, "task", Z) /\ <<Masking, Empty, Empty, Q>> \in Z BY <1>1, Unfold
  <2>3. GoesMask("task", Z, Empty, Empty, Empty, s, Q) BY <2>1 DEF GoesMask
  <2>4. Fit(b, "task", Empty, Empty, Empty) BY Void DEF Fit, Steady, Keeping
  <2> QED BY <1>1, <2>1, <2>3, <2>4, Lead, Whence DEF Goes
<1>2. ASSUME NEW Q, Good(b, "task", Empty, Empty, o2, Q)
      PROVE  Good(b, "task", Masking, Empty, o2, <<v>> \o Q)
  <2>1. PICK Z : Closed(b, "task", Z) /\ <<Empty, Empty, o2, Q>> \in Z BY <1>2, Unfold
  <2>3. GoesUnmask("task", Z, Masking, Empty, o2, v, Q) BY <2>1 DEF GoesUnmask
  <2>5. \A i, m : Owed(i, m) \in o2 => \E n \in DOMAIN Q : Q[n] = Waking(i, m)
    BY <1>2, Whence
  <2>4. \A i, m : Owed(i, m) \in o2 => v = Waking(i, m) \/ \E n \in DOMAIN Q : Q[n] = Waking(i, m)
    BY <2>5
  <2> QED BY <1>2, <2>1, <2>3, <2>4, Lead, Whence DEF Goes
<1>3. Does(b, "task", Empty, Empty, Empty, Mask, Masking, Empty, Empty)
  BY <1>1, OneStep DEF Does, Mask
<1>4. Does(b, "task", Masking, Empty, o2, Unmask, Empty, Empty, o2)
  BY <1>2, OneStep DEF Does, Unmask
<1>5. Does(b, "task", Empty, Empty, Empty, Mask \o Under(l, P), Masking, Empty, o2)
  BY <1>3, DoesThen
<1>6. Does(b, "task", Empty, Empty, Empty, (Mask \o Under(l, P)) \o Unmask, Empty, Empty, o2)
  BY <1>4, <1>5, DoesThen
<1> QED BY <1>6 DEF Protect

\* A test adds what it tells to the facts of either branch.
LEMMA DoesTest ==
    ASSUME NEW b, NEW u, NEW h, NEW f, NEW o, NEW mask, NEW in, NEW body, NEW f1, NEW o1, NEW f2, NEW o2,
           Fit(b, u, h, f, o), Decides(b, f, [do |-> "test", mask |-> mask, in |-> in, body |-> body]),
           \A R, W, T : Local(b, f, R, W, T) /\ (T \cap mask) \in in => Local(b, f1, R, W, T),
           \A R, W, T : Local(b, f, R, W, T) /\ (T \cap mask) \notin in => Local(b, f2, R, W, T),
           MarksStay(o, o1), MarksStay(o, o2), Does(b, u, h, f1, o1, body, h, f2, o2)
    PROVE  Does(b, u, h, f, o, Test(mask, in, body), h, f2, o2)
<1> DEFINE s == [do |-> "test", mask |-> mask, in |-> in, body |-> body]
<1>1. ASSUME NEW Q, Good(b, u, h, f2, o2, Q)
      PROVE  Good(b, u, h, f, o, <<s>> \o Q)
  <2>1. PICK Z : Closed(b, u, Z) /\ <<h, f2, o2, Q>> \in Z BY <1>1, Unfold
  <2>2. Good(b, u, h, f1, o1, body \o Q) BY <1>1 DEF Does
  <2>3. PICK Y : Closed(b, u, Y) /\ <<h, f1, o1, body \o Q>> \in Y BY <2>2, Unfold
  <2> DEFINE X == Z \cup Y
  <2>4. Closed(b, u, X) BY <2>1, <2>3, Both
  <2>5. <<h, f2, o2, Q>> \in X /\ <<h, f1, o1, body \o Q>> \in X BY <2>1, <2>3
  <2>6. s.do = "test" /\ s.mask = mask /\ s.in = in /\ s.body = body OBVIOUS
  <2>7. Decides(b, f, s) OBVIOUS
  <2> HIDE DEF X, s
  <2>8. GoesTest(b, X, h, f, o, s, Q) BY <2>5, <2>6, <2>7, Zenon DEF GoesTest
  <2>9. \A i, m : Owed(i, m) \in o => s = Waking(i, m) \/ \E n \in DOMAIN Q : Q[n] = Waking(i, m)
    BY <1>1, Whence DEF MarksStay
  <2> QED BY <1>1, <2>4, <2>8, <2>9, Lead, Whence DEF Goes
<1> QED BY <1>1, OneStep DEF Does, Test

\* A lock that a handler only tries for: it has the section, or goes on without it.
LEMMA DoesTry ==
    ASSUME NEW b, NEW u, NEW h, NEW f, NEW l, NEW body, NEW f1, NEW f2, l \notin h, l # IrqLine,
           Fit(b, u, h, f, Empty), Opens(b, f, l, f1), Entails(b, f, f2),
           Does(b, u, h \cup {l}, f1, Empty, body, h, f2, Empty)
    PROVE  Does(b, u, h, f, Empty, Try(l, body), h, f2, Empty)
<1> DEFINE s == [do |-> "try", lock |-> l, body |-> body]
<1>1. ASSUME NEW Q, Good(b, u, h, f2, Empty, Q)
      PROVE  Good(b, u, h, f, Empty, <<s>> \o Q)
  <2>1. PICK Z : Closed(b, u, Z) /\ <<h, f2, Empty, Q>> \in Z BY <1>1, Unfold
  <2>2. Good(b, u, h \cup {l}, f1, Empty, body \o Q) BY <1>1 DEF Does
  <2>3. PICK Y : Closed(b, u, Y) /\ <<h \cup {l}, f1, Empty, body \o Q>> \in Y BY <2>2, Unfold
  <2> DEFINE X == Z \cup Y
  <2>4. Closed(b, u, X) BY <2>1, <2>3, Both
  <2>5. <<h, f2, Empty, Q>> \in X /\ <<h \cup {l}, f1, Empty, body \o Q>> \in X BY <2>1, <2>3
  <2>6. s.do = "try" /\ s.lock = l /\ s.body = body OBVIOUS
  <2> HIDE DEF X, s
  <2>7. GoesTry(b, X, h, f, Empty, s, Q) BY <2>5, <2>6 DEF GoesTry
  <2> QED BY <1>1, <2>4, <2>7, Lead, Whence DEF Goes
<1> QED BY <1>1, OneStep DEF Does, Try

\* A task may sleep when it holds and owes nothing, whichever way it goes on.
LEMMA DoesAwait ==
    ASSUME NEW b, NEW news, NEW r, NEW bits, NEW queue, NEW late,
           Legal(b, [do |-> "await", news |-> news, reg |-> r, bits |-> bits, queue |-> queue, late |-> late]),
           Does(b, "task", Empty, Empty, Empty, late, Empty, Empty, Empty)
    PROVE  Does(b, "task", Empty, Empty, Empty, Await(news, r, bits, queue, late), Empty, Empty, Empty)
<1> DEFINE s == [do |-> "await", news |-> news, reg |-> r, bits |-> bits, queue |-> queue, late |-> late]
<1>1. ASSUME NEW Q, Good(b, "task", Empty, Empty, Empty, Q)
      PROVE  Good(b, "task", Empty, Empty, Empty, <<s>> \o Q)
  <2>1. PICK Z : Closed(b, "task", Z) /\ <<Empty, Empty, Empty, Q>> \in Z BY <1>1, Unfold
  <2>2. Good(b, "task", Empty, Empty, Empty, late) BY DoesAll
  <2>3. PICK Y : Closed(b, "task", Y) /\ <<Empty, Empty, Empty, late>> \in Y BY <2>2, Unfold
  <2> DEFINE X == Z \cup Y
  <2>4. Closed(b, "task", X) BY <2>1, <2>3, Both
  <2>5. <<Empty, Empty, Empty, Q>> \in X /\ <<Empty, Empty, Empty, late>> \in X BY <2>1, <2>3
  <2>6. s.do = "await" /\ s.late = late OBVIOUS
  <2>7. Legal(b, s) OBVIOUS
  <2> HIDE DEF X, s
  <2>8. GoesAwait(b, "task", X, Empty, Empty, Empty, s, Q) BY <2>5, <2>6, <2>7 DEF GoesAwait
  <2>9. Fit(b, "task", Empty, Empty, Empty) BY Void DEF Fit, Steady, Keeping
  <2> QED BY <1>1, <2>4, <2>8, <2>9, Lead, Whence DEF Goes
<1> QED BY <1>1, OneStep DEF Does, Await

-----------------------------------------------------------------------------
(* Situations of all the tasks together.                                   *)

Who(t) == IF t = Isr THEN "isr" ELSE "task"

Comes(s, R, v) ==
    \/ \E r \in s.news : ~(R[r] \subseteq v)
    \/ s.bits # {} /\ s.bits \cap R[s.reg] # {}

Apart(P, H) ==
    /\ \A t, v \in Task : t # v => \A l \in H[t] : l = IrqLine \/ l \notin H[v]
    /\ P[Isr] # <<>> => \A t \in Task : IrqLine \notin H[t]

Bonded(b, R, W, H) ==
    \A x \in Bonds(b) : Bond(b, x, R, W) \/ \E t \in Task : Home(b, x) \in H[t]

Sleeping(P, A) == \A t \in A : t \in Task /\ P[t] # <<>> /\ Head(P[t]).do = "await"

Heard(b, R, P, T, A, O) ==
    \A t \in A : Comes(Head(P[t]), R, T[t]) =>
      \E i \in Numbers :
        /\ Head(P[t]).queue = Queue(i)
        /\ \/ Silent(b, i) /\ Head(P[t]).bits = Off
           \/ \E v \in Task : \E m : Owed(i, m) \in O[v]

Clocked(b, R, T, O) ==
    b = "me1400cd" =>
      \A t \in Task : Turned \in O[t] /\ Enable \subseteq T[t] =>
        Enable \subseteq R[MyClock] \/ Window \in O[Isr]

Sure(b, R, W, P, T, H, F, O) ==
    \A t \in Task : /\ Good(b, Who(t), H[t], F[t], O[t], P[t])
                    /\ \A k \in F[t] : Holds(b, k, R, W, T[t])

Sit(b, R, W, P, T, H, A, F, O) ==
    /\ Fine(b, R, W) /\ Sure(b, R, W, P, T, H, F, O) /\ Apart(P, H)
    /\ Bonded(b, R, W, H) /\ Sleeping(P, A) /\ Heard(b, R, P, T, A, O) /\ Clocked(b, R, T, O)

\* What a situation tells of one task.
LEMMA Tells ==
    ASSUME NEW b, NEW u, NEW h, NEW f, NEW o, NEW P, Good(b, u, h, f, o, P)
    PROVE  /\ Steady(b, u, h, f) /\ Keeping(b, u, h, f, o) /\ Paired(b, h, f, P)
           /\ \A i, m : Owed(i, m) \in o => \E n \in DOMAIN P : P[n] = Waking(i, m)
           /\ P = <<>> => h = Empty /\ f = Empty /\ o = Empty
           /\ P # <<>> => \E Z : Closed(b, u, Z) /\ Goes(b, u, Z, h, f, o, Head(P), Tail(P))
<1>1. PICK Z : Closed(b, u, Z) /\ Ok(b, u, Z, h, f, o, P) BY Unfold
<1> QED BY <1>1 DEF Ok

\* A task that is about to wait.
LEMMA WaitsFor ==
    ASSUME NEW b, NEW u, NEW h, NEW f, NEW o, NEW P, Good(b, u, h, f, o, P),
           P # <<>>, Head(P).do = "await"
    PROVE  /\ h = Empty /\ f = Empty /\ o = Empty /\ u = "task" /\ Legal(b, Head(P))
           /\ Good(b, u, Empty, Empty, Empty, Tail(P)) /\ Good(b, u, Empty, Empty, Empty, Head(P).late)
<1>1. PICK Z : Closed(b, u, Z) /\ Goes(b, u, Z, h, f, o, Head(P), Tail(P)) BY Tells
<1>2. GoesAwait(b, u, Z, h, f, o, Head(P), Tail(P))
  <2>1. ~GoesAccess(b, u, Z, h, f, o, Head(P), Tail(P)) BY DEF GoesAccess, Moves, Accesses
  <2> QED BY <2>1, <1>1 DEF Goes, GoesTake, GoesGive, GoesMask, GoesUnmask, GoesTest, GoesTry
<1> QED BY <1>1, <1>2, Known DEF GoesAwait

\* No register has the processor's interrupt line for its lock.
LEMMA Locks ==
    /\ \A b, x : Home(b, x) # IrqLine /\ Home(b, x) # IrqModeLock /\ Home(b, x) # IrqCtrlLock
    /\ \A b, r : Of(b, r) # IrqLine
    /\ \A b, r : Handled(r) => Of(b, r) \in {IrqModeLock, IrqCtrlLock, NoLock}
BY DEF Home, Of, IrqLine, IrqModeLock, IrqCtrlLock, Lock, CtrlLock, NoLock, IntcsrLock, ClkLock,
   Handled,
       IrqMode, IrqCtrl, Intcsr

\* A polite step of one task is what another relies on.
LEMMA Interferes ==
    ASSUME NEW b, NEW R, NEW W, NEW R2, NEW W2, NEW u, NEW h, NEW v, NEW g,
           Polite(b, u, h, R, W, R2, W2), u = "isr" \/ u = "task", v = "isr" \/ v = "task",
           \A l \in h : l = IrqLine \/ l \notin g,
           u = "isr" => IrqLine \notin g /\ v = "task",
           v = "isr" => IrqLine \notin h /\ u = "task",
           b = "me1400cd" /\ Lock(2) \in g /\ IrqLine \in g /\ Enable \subseteq R2[MyClock]
             => Enable \subseteq R[MyClock]
    PROVE  Rely(b, v, g, R, W, R2, W2)
<1>1. ASSUME NEW r \in Registers(b), Keeps(b, v, g, r)
      PROVE  R2[r] = R[r] /\ W2[r] = W[r]
  <2>1. ~MayWrite(b, u, h, r) BY <1>1, Locks DEF Keeps, MayWrite
  <2> QED BY <2>1 DEF Polite
<1>2. ASSUME NEW r \in Registers(b), NEW i \in Numbers, Shared(b, r), Lock(i) \in g
      PROVE  R2[r] \cap Mine(i) = R[r] \cap Mine(i)
  <2>1. Lock(i) \notin h BY <1>2 DEF Lock, IrqLine
  <2> QED BY <2>1, <1>2 DEF Polite
<1> QED BY <1>1, <1>2 DEF Rely

\* The registers of a counter: its mode and the two halves of its value.
LEMMA CounterHas ==
    \A n \in Nat : Counter(n) = {<<"ctr", n>>, <<"low8", n>>, <<"high8", n>>}
BY DEF Counter, Ctr, Low8, High8

\* A bond is not disturbed by a task that does not hold its lock.
LEMMA FirmStable ==
    ASSUME NEW b \in BoardNames, NEW u, NEW h, NEW x \in Bonds(b), Home(b, x) \in h,
           b = "me1400cd" /\ x[1] = "line" => IrqLine \in h
    PROVE  Stable(b, u, h, Firm(x))
<1> SUFFICES ASSUME NEW R, NEW W, NEW R2, NEW W2,
                    Rely(b, u, h, R, W, R2, W2), Bond(b, x, R, W)
             PROVE  Bond(b, x, R2, W2)
  <2>1. \A R, W, T : Holds(b, Firm(x), R, W, T) <=> Bond(b, x, R, W) BY DEF Holds, Firm
  <2> QED BY <2>1 DEF Stable
<1>0. \A r \in Registers(b) : Of(b, r) \in h /\ ~Handled(r) /\ Of(b, r) # NoLock
                                => R2[r] = R[r] /\ W2[r] = W[r]
  BY DEF Rely, Keeps
<1> DEFINE i == x[2]
<1>1. CASE x[1] = "line"
  <2>1. i \in Numbers /\ Lock(i) \in h /\ Line0(i) \in Bonds(b)
    BY <1>1 DEF Home, Bonds, Numbers, Line0, Whole, Copied, Latched, BoardNames
  <2>2. Status(i) \in Registers(b)
    BY <2>1 DEF Bonds, Registers, Line, Line0, Whole, Copied, Latched, BoardNames
  <2>3. Of(b, Status(i)) = Lock(i) /\ ~Handled(Status(i)) /\ Lock(i) # NoLock
    BY DEF Of, Status, Lock, NoLock, Handled
  <2>4. R2[Status(i)] = R[Status(i)] BY <1>0, <2>1, <2>2, <2>3
  <2>5. CASE b = "me0600_irq"
    <3>1. Intcsr \in Registers(b) /\ Shared(b, Intcsr) BY <2>5 DEF Registers, Shared
    <3>2. R2[Intcsr] \cap Mine(i) = R[Intcsr] \cap Mine(i) BY <3>1, <2>1 DEF Rely
    <3>3. Live(b, i, R2) = Live(b, i, R) BY <3>2, <2>5 DEF Live, Mine
    <3> QED BY <1>1, <2>4, <3>3, <2>5 DEF Bond
  <2>6. CASE b = "me4600_irq"
    <3>0. i = 0 BY <2>6, <2>1 DEF Bonds, Line0
    <3>1. External(i) \in Registers(b) /\ EdgeMode(i) \in Registers(b) BY <3>0, <2>6 DEF Registers
    <3>2. Of(b, External(i)) = Lock(i) /\ Of(b, EdgeMode(i)) = Lock(i) /\ ~Handled(External(i)) /\ ~Handled(EdgeMode(i))
      BY <2>6 DEF Of, External, EdgeMode, Lock, Handled
    <3>3. R2[External(i)] = R[External(i)] /\ R2[EdgeMode(i)] = R[EdgeMode(i)]
      BY <1>0, <2>1, <2>3, <3>1, <3>2
    <3>4. Live(b, i, R2) = Live(b, i, R) BY <3>3, <2>6 DEF Live
    <3> QED BY <1>1, <2>4, <3>3, <3>4, <2>6 DEF Bond
  <2>7. CASE b = "me1400ab"
    <3>0. i = 2 BY <2>7, <2>1 DEF Bonds, Line0, Whole
    <3>1. Pin(i) \in Registers(b) BY <3>0, <2>7 DEF Registers
    <3>2. Of(b, Pin(i)) = Lock(i) /\ ~Handled(Pin(i)) BY <2>7 DEF Of, Pin, Lock, Handled
    <3>3. R2[Pin(i)] = R[Pin(i)] BY <1>0, <2>1, <2>3, <3>1, <3>2
    <3>4. Live(b, i, R2) = Live(b, i, R) BY <3>3, <2>7 DEF Live
    <3> QED BY <1>1, <2>4, <3>4, <2>7 DEF Bond
  <2>8. CASE b = "me1400cd"
    <3>0. i = 2 BY <2>8, <2>1 DEF Bonds, Line0, Whole
    <3>1. Enable \subseteq R2[MyClock] => Enable \subseteq R[MyClock]
      BY <3>0, <2>8, <2>1, <1>1 DEF Rely
    <3>2. Live(b, i, R2) => Live(b, i, R) BY <3>1, <2>8 DEF Live
    <3> QED BY <1>1, <2>4, <3>2, <2>8 DEF Bond
  <2> QED BY <2>1, <2>5, <2>6, <2>7, <2>8 DEF Bonds, BoardNames, Line0, Whole, Copied, Latched
<1>2. CASE x[1] = "bytes"
  <2>1. <<"low8", i>> \in Registers(b) /\ <<"high8", i>> \in Registers(b)
    <3>1. CASE b = "me4600_ctr"
      <4>1. i = 0 \/ i = 1 BY <3>1, <1>2 DEF Bonds, Whole
      <4> QED BY <4>1, <3>1, CounterHas DEF Registers
    <3>2. CASE b = "me1400ab"
      <4>1. i = 0 \/ i = 3 BY <3>2, <1>2 DEF Bonds, Whole, Line0
      <4> QED BY <4>1, <3>2, CounterHas DEF Registers
    <3>3. CASE b = "me1400cd"
      <4>1. i = 12 \/ i = 13 BY <3>3, <1>2 DEF Bonds, Whole, Line0
      <4> QED BY <4>1, <3>3, CounterHas DEF Registers
    <3> QED BY <1>2, <3>1, <3>2, <3>3 DEF Bonds, Line0, Copied, Latched, BoardNames
  <2>2. Of(b, <<"low8", i>>) = Of(b, <<"high8", i>>) /\ ~Handled(<<"low8", i>>) /\ ~Handled(<<"high8", i>>)
        /\ Of(b, <<"low8", i>>) # NoLock
    BY DEF Of, Handled, NoLock, Intcsr, IrqMode, IrqCtrl, Lock
  <2>3. Home(b, x) = Of(b, <<"low8", i>>) BY <1>2 DEF Home
  <2>4. R2[<<"low8", i>>] = R[<<"low8", i>>] /\ R2[<<"high8", i>>] = R[<<"high8", i>>]
    BY <1>0, <2>1, <2>2, <2>3
  <2> QED BY <2>4, <1>2 DEF Bond
<1>3. CASE x[1] = "copy"
  <2>1. b = "me8100" BY <1>3 DEF Bonds, Line0, Whole, Copied, Latched, BoardNames
  <2>2. Copy \in Registers(b) /\ Ctrl \in Registers(b) BY <2>1 DEF Registers, Control, Ctrl
  <2>3. Of(b, Copy) = CtrlLock /\ Of(b, Ctrl) = CtrlLock /\ ~Handled(Copy) /\ ~Handled(Ctrl) /\ CtrlLock # NoLock
    BY DEF Of, Handled, NoLock, CtrlLock, Copy, Ctrl
  <2>4. CtrlLock \in h BY <1>3 DEF Home
  <2>5. R2[Copy] = R[Copy] /\ R2[Ctrl] = R[Ctrl] BY <1>0, <2>2, <2>3, <2>4
  <2> QED BY <2>5, <1>3 DEF Bond
<1>4. CASE x[1] = "chip"
  <2>1. b = "me1400" BY <1>4 DEF Bonds, Line0, Whole, Copied, Latched, BoardNames
  <2>2. {Chip, Ctrl, Port(0), Mirror(0)} \subseteq Registers(b)
    BY <2>1 DEF Registers, ChipPorts, SubsOf
  <2>3. \A r \in {Chip, Ctrl, Port(0), Mirror(0)} : Of(b, r) = CtrlLock /\ ~Handled(r)
    BY <2>1 DEF Of, Handled, CtrlLock, Chip, Ctrl, Port, Mirror
  <2>4. CtrlLock \in h /\ CtrlLock # NoLock BY <1>4 DEF Home, CtrlLock, NoLock
  <2>5. \A r \in {Chip, Ctrl, Port(0), Mirror(0)} : R2[r] = R[r] /\ W2[r] = W[r]
    BY <1>0, <2>2, <2>3, <2>4
  <2> QED BY <2>5, <1>4 DEF Bond
<1> QED BY <1>1, <1>2, <1>3, <1>4 DEF Bonds, Line0, Whole, Copied, Latched, BoardNames

-----------------------------------------------------------------------------
(* Steps of one task among the others.                                     *)

\* A task that works does not sleep.
LEMMA Awake ==
    ASSUME NEW b, NEW R, NEW W, NEW P, NEW T, NEW H, NEW A, NEW F, NEW O, Sit(b, R, W, P, T, H, A, F, O),
           NEW t \in Task
    PROVE  /\ t \in A => P[t] # <<>> /\ Head(P[t]).do = "await"
           /\ Local(b, F[t], R, W, T[t]) /\ Good(b, Who(t), H[t], F[t], O[t], P[t])
           /\ P[t] = <<>> => H[t] = Empty /\ F[t] = Empty /\ O[t] = Empty
<1>1. Good(b, Who(t), H[t], F[t], O[t], P[t]) BY DEF Sit, Sure
<1>2. Local(b, F[t], R, W, T[t]) BY DEF Sit, Sure, Local
<1> QED BY <1>1, <1>2, Tells DEF Sit, Sleeping

\* On an ME-1400C the line is not enabled behind the back of a thread that
\* has its lock.
LEMMA ClockKept ==
    ASSUME NEW R, NEW W, NEW P, NEW T, NEW H, NEW A, NEW F, NEW O,
           Sit("me1400cd", R, W, P, T, H, A, F, O), NEW t \in Task, NEW R2,
           ~(Enable \subseteq R[MyClock]), Enable \subseteq R2[MyClock],
           ~(Enable \subseteq R[MyClock]) /\ Enable \subseteq R2[MyClock]
              => Lock(2) \in H[t] \/ (Turned \in O[t] /\ Enable \subseteq T[t])
    PROVE  Lock(2) \in H[t] \/ (Lock(2) \in H[Isr] /\ P[Isr] # <<>>)
<1>1. CASE Turned \in O[t] /\ Enable \subseteq T[t]
  <2>1. Window \in O[Isr] BY <1>1 DEF Sit, Clocked
  <2>2. Isr \in Task BY IsrAssumption
  <2>3. Good("me1400cd", Who(Isr), H[Isr], F[Isr], O[Isr], P[Isr]) BY <2>2, Awake
  <2>4. Keeping("me1400cd", Who(Isr), H[Isr], F[Isr], O[Isr]) /\ (P[Isr] = <<>> => O[Isr] = Empty)
    BY <2>3, Tells
  <2> QED BY <2>1, <2>4, Void DEF Keeping
<1> QED BY <1>1

\* A wake-up that is owed is still owed after a step, unless the step is that wake-up.
LEMMA StillOwed ==
    ASSUME NEW b, NEW u, NEW h, NEW f, NEW o, NEW s, NEW f2, NEW o2, Moves(b, u, h, f, o, s, f2, o2)
    PROVE  \A i, m : Owed(i, m) \in o => Owed(i, m) \in o2 \/ s = Waking(i, m)
BY DEF Moves

\* A task makes a step that reads or writes.
Passes1(b, R, W, P, T, H, A, F, O, t, R2, W2, T2, P2, V2, A2) ==
    /\ b \in BoardNames /\ Sit(b, R, W, P, T, H, A, F, O) /\ t \in Task
    /\ P[t] # <<>> /\ Head(P[t]).do \in Accesses
    /\ Effect(b, Head(P[t]), R, W, T[t], R2, W2, T2)
    /\ P2[t] = Tail(P[t]) /\ (Tail(P[t]) # <<>> => V2[t] = T2)
    /\ \A v \in Task : v # t => P2[v] = P[v] /\ V2[v] = T[v]
    /\ A2 \subseteq A
    /\ Head(P[t]).do = "wake" /\ Head(P[t]).bits \subseteq R[Head(P[t]).reg]
         => \A v \in A2 : Head(P[v]).queue # Head(P[t]).queue

\* A task's access takes all the tasks from situations that fit to situations that fit.
LEMMA AccessStep ==
    ASSUME NEW b, NEW R, NEW W, NEW P, NEW T, NEW H, NEW A, NEW F, NEW O, NEW t,
           NEW R2, NEW W2, NEW T2, NEW P2, NEW V2, NEW A2,
           Passes1(b, R, W, P, T, H, A, F, O, t, R2, W2, T2, P2, V2, A2)
    PROVE  \E F2, O2 : Sit(b, R2, W2, P2, V2, H, A2, F2, O2)
<1> SUFFICES
      ASSUME b \in BoardNames, Sit(b, R, W, P, T, H, A, F, O), t \in Task,
             P[t] # <<>>, Head(P[t]).do \in Accesses,
             Effect(b, Head(P[t]), R, W, T[t], R2, W2, T2),
             P2[t] = Tail(P[t]), Tail(P[t]) # <<>> => V2[t] = T2,
             \A v \in Task : v # t => P2[v] = P[v] /\ V2[v] = T[v],
             A2 \subseteq A,
             Head(P[t]).do = "wake" /\ Head(P[t]).bits \subseteq R[Head(P[t]).reg]
               => \A v \in A2 : Head(P[v]).queue # Head(P[t]).queue
      PROVE  \E F2, O2 : Sit(b, R2, W2, P2, V2, H, A2, F2, O2)
  BY DEF Passes1
<1> DEFINE u == Who(t)
<1> DEFINE h == H[t]
<1> DEFINE s == Head(P[t])
<1> DEFINE Q == Tail(P[t])
<1>a. Good(b, u, h, F[t], O[t], P[t]) /\ Local(b, F[t], R, W, T[t]) BY Awake
<1>b. PICK Z : Closed(b, u, Z) /\ Goes(b, u, Z, h, F[t], O[t], s, Q) BY <1>a, Tells
<1>c. GoesAccess(b, u, Z, h, F[t], O[t], s, Q)
  <2>1. s.do \notin {"take", "give", "mask", "unmask", "test", "try", "await"} BY DEF Accesses
  <2> QED
    BY <2>1, <1>b DEF Goes, GoesTake, GoesGive, GoesMask, GoesUnmask, GoesTest, GoesTry, GoesAwait
<1>d. PICK f2, o2 : Moves(b, u, h, F[t], O[t], s, f2, o2) /\ <<h, f2, o2, Q>> \in Z
  BY <1>c DEF GoesAccess
<1>e. Good(b, u, h, f2, o2, Q) BY <1>b, <1>d, Known
<1>f. /\ Local(b, f2, R2, W2, T2) /\ Polite(b, u, h, R, W, R2, W2)
      /\ Notes(b, u, h, F[t], O[t], s, o2, R, W, T[t], R2, W2, T2)
  BY <1>a, <1>d DEF Moves
<1>g. \A i, m : Owed(i, m) \in O[t] => Owed(i, m) \in o2 \/ s = Waking(i, m) BY <1>d, StillOwed
<1>h. Keeping(b, u, h, f2, o2) /\ (Q = <<>> => f2 = Empty /\ o2 = Empty)
  <2> HIDE DEF u, h, Q
  <2> QED BY <1>e, Tells
<1>i. Keeping(b, u, h, F[t], O[t]) BY <1>a, Tells
<1>j. b = "me1400cd" /\ ~(Enable \subseteq R[MyClock]) /\ Enable \subseteq R2[MyClock]
        => Lock(2) \in h \/ (Lock(2) \in H[Isr] /\ P[Isr] # <<>>)
  BY <1>f, ClockKept DEF Notes
<1>k. Who(t) \in {"isr", "task"} /\ (Who(t) = "isr" <=> t = Isr) BY DEF Who
<1>l. Apart(P, H) /\ Bonded(b, R, W, H) /\ Sleeping(P, A) /\ Heard(b, R, P, T, A, O) /\ Clocked(b, R, T, O)
  BY DEF Sit
<1>m. Isr \in Task BY IsrAssumption
<1> DEFINE F2 == [v \in Task |-> IF v = t THEN f2 ELSE F[v]]
<1> DEFINE O2 == [v \in Task |-> IF v = t THEN o2 ELSE O[v]]
<1>n. /\ F2[t] = f2 /\ O2[t] = o2
      /\ \A v \in Task : v # t => F2[v] = F[v] /\ O2[v] = O[v]
  OBVIOUS
<1> HIDE DEF F2, O2
<1>1. Fine(b, R2, W2) BY <1>f DEF Local
<1>2. Sure(b, R2, W2, P2, V2, H, F2, O2)
  <2> SUFFICES ASSUME NEW v \in Task
               PROVE  /\ Good(b, Who(v), H[v], F2[v], O2[v], P2[v])
                      /\ \A k \in F2[v] : Holds(b, k, R2, W2, V2[v])
    BY DEF Sure
  <2>1. CASE v = t
    <3>1. Good(b, Who(v), H[v], F2[v], O2[v], P2[v]) BY <2>1, <1>e, <1>n
    <3>2. CASE Q = <<>> BY <3>1, <3>2, <2>1, <1>h, <1>n, Void
    <3>3. CASE Q # <<>> BY <3>1, <3>3, <2>1, <1>f, <1>n DEF Local
    <3> QED BY <3>2, <3>3
  <2>2. CASE v # t
    <3>1. Good(b, Who(v), H[v], F[v], O[v], P[v]) /\ Local(b, F[v], R, W, T[v]) BY Awake
    <3>2. Steady(b, Who(v), H[v], F[v]) /\ (P[v] = <<>> => F[v] = Empty) BY <3>1, Tells
    <3>3. CASE P[v] = <<>> BY <3>3, <3>1, <3>2, <2>2, <1>n, Void
    <3>4. CASE P[v] # <<>>
      <4>1. \A l \in h : l = IrqLine \/ l \notin H[v] BY <2>2, <1>l DEF Apart
      <4>2. u = "isr" => IrqLine \notin H[v] /\ Who(v) = "task" BY <2>2, <1>l DEF Apart, Who
      <4>3. Who(v) = "isr" => IrqLine \notin h /\ u = "task" BY <2>2, <3>4, <1>l DEF Apart, Who
      <4>4. b = "me1400cd" /\ Lock(2) \in H[v] /\ IrqLine \in H[v] /\ Enable \subseteq R2[MyClock]
              => Enable \subseteq R[MyClock]
        <5> SUFFICES ASSUME b = "me1400cd", Lock(2) \in H[v], IrqLine \in H[v], Enable \subseteq R2[MyClock],
                            ~(Enable \subseteq R[MyClock])
                     PROVE  FALSE
          OBVIOUS
        <5>1. Lock(2) \in h \/ (Lock(2) \in H[Isr] /\ P[Isr] # <<>>) BY <1>j
        <5>2. Lock(2) # IrqLine BY DEF Lock, IrqLine
        <5>3. Lock(2) \notin h BY <4>1, <5>2
        <5> QED BY <5>1, <5>3, <1>l DEF Apart
      <4>5. Who(v) = "isr" \/ Who(v) = "task" BY DEF Who
      <4>6. u = "isr" \/ u = "task" BY DEF Who
      <4> HIDE DEF u, h
      <4>7. Rely(b, Who(v), H[v], R, W, R2, W2)
        BY <4>1, <4>2, <4>3, <4>4, <4>5, <4>6, <1>f, Interferes
      <4>8. \A k \in F[v] : Holds(b, k, R2, W2, T[v]) BY <4>7, <3>1, <3>2 DEF Steady, Stable, Local
      <4> QED BY <4>8, <3>1, <2>2, <1>n
    <3> QED BY <3>3, <3>4
  <2> QED BY <2>1, <2>2
<1>3. Apart(P2, H)
  <2>1. P2[Isr] # <<>> => P[Isr] # <<>> BY <1>m
  <2> QED BY <2>1, <1>l DEF Apart
<1>4. Bonded(b, R2, W2, H)
  <2> SUFFICES ASSUME NEW x \in Bonds(b), \A v \in Task : Home(b, x) \notin H[v]
               PROVE  Bond(b, x, R2, W2)
    BY DEF Bonded
  <2> DEFINE g == {Home(b, x), IrqLine}
  <2>1. Bond(b, x, R, W) BY <1>l DEF Bonded
  <2>2. ASSUME NEW r \in Registers(b), Keeps(b, "task", g, r)
        PROVE  R2[r] = R[r] /\ W2[r] = W[r]
    <3>1. Of(b, r) = Home(b, x) /\ Of(b, r) # NoLock BY <2>2, Locks DEF Keeps
    <3>2. ~Handled(r) BY <3>1, Locks
    <3>3. ~MayWrite(b, u, h, r) BY <3>1, <3>2 DEF MayWrite
    <3> QED BY <3>3, <1>f DEF Polite
  <2>3. ASSUME NEW r \in Registers(b), NEW i \in Numbers, Shared(b, r), Lock(i) \in g
        PROVE  R2[r] \cap Mine(i) = R[r] \cap Mine(i)
    <3>1. Lock(i) = Home(b, x) BY <2>3 DEF Lock, IrqLine
    <3> QED BY <3>1, <2>3, <1>f DEF Polite
  <2>4. b = "me1400cd" /\ Lock(2) \in g /\ Enable \subseteq R2[MyClock] => Enable \subseteq R[MyClock]
    <3>1. Lock(2) # IrqLine BY DEF Lock, IrqLine
    <3> QED BY <3>1, <1>j, <1>m
  <2>5. Rely(b, "task", g, R, W, R2, W2) BY <2>2, <2>3, <2>4 DEF Rely
  <2>6. Stable(b, "task", g, Firm(x)) BY FirmStable
  <2>7. \A X, Y, V : Holds(b, Firm(x), X, Y, V) <=> Bond(b, x, X, Y) BY DEF Holds, Firm
  <2> HIDE DEF g
  <2>8. Holds(b, Firm(x), R, W, T[t]) BY <2>1, <2>7
  <2>9. Holds(b, Firm(x), R2, W2, T[t]) BY <2>5, <2>6, <2>8 DEF Stable
  <2> QED BY <2>7, <2>9
<1>5. Sleeping(P2, A2)
  <2>1. t \notin A BY <1>l DEF Sleeping, Accesses
  <2> QED BY <2>1, <1>l DEF Sleeping
<1>6. Heard(b, R2, P2, V2, A2, O2)
  <2> SUFFICES ASSUME NEW v \in A2, Comes(Head(P2[v]), R2, V2[v])
               PROVE  \E i \in Numbers :
                        /\ Head(P2[v]).queue = Queue(i)
                        /\ \/ Silent(b, i) /\ Head(P2[v]).bits = Off
                           \/ \E w \in Task : \E m : Owed(i, m) \in O2[w]
    BY DEF Heard
  <2>1. v \in Task /\ v # t /\ P[v] # <<>> /\ Head(P[v]).do = "await" BY <1>l DEF Sleeping, Accesses
  <2>2. P2[v] = P[v] /\ V2[v] = T[v] BY <2>1
  <2> DEFINE z == Head(P[v])
  <2>3. Legal(b, z) BY <2>1, Awake, WaitsFor
  <2>4. CASE Comes(z, R, T[v])
    <3>1. PICK i \in Numbers :
            /\ z.queue = Queue(i)
            /\ \/ Silent(b, i) /\ z.bits = Off
               \/ \E w \in Task : \E m : Owed(i, m) \in O[w]
      BY <2>4, <1>l DEF Heard
    <3>2. CASE Silent(b, i) /\ z.bits = Off BY <3>1, <3>2, <2>2
    <3>3. CASE \E w \in Task : \E m : Owed(i, m) \in O[w]
      <4>0. PICK w \in Task : \E m : Owed(i, m) \in O[w] BY <3>3
      <4>1. PICK m : Owed(i, m) \in O[w] BY <4>0
      <4>2. CASE w # t BY <4>1, <4>2, <3>1, <2>2, <1>n
      <4>3. CASE w = t /\ Owed(i, m) \in o2 BY <4>1, <4>3, <3>1, <2>2, <1>n
      <4>4. CASE w = t /\ Owed(i, m) \notin o2
        <5>1. s = Waking(i, m) BY <4>1, <4>4, <1>g
        <5>2. s.do = "wake" /\ s.bits = m /\ s.reg = Status(i) /\ s.queue = Queue(i)
          BY <5>1 DEF Waking
        <5>3. m \subseteq R[Status(i)] BY <4>1, <4>4, <1>i, <1>a DEF Keeping
        <5> QED BY <5>2, <5>3, <3>1
      <4> QED BY <4>2, <4>3, <4>4
    <3> QED BY <3>1, <3>2, <3>3
  <2>5. CASE ~Comes(z, R, T[v])
    <3>1. PICK i \in Numbers :
            /\ z.queue = Queue(i) /\ z.news \subseteq {Count(i), Resets(i)} /\ z.news \subseteq Registers(b)
            /\ z.bits # {} => z.reg = Rised(i) /\ z.reg \in Registers(b)
            /\ Silent(b, i) => z.bits = Off
      BY <2>3 DEF Legal
    <3>2. Stirs(b, i, R, R2)
      <4>1. Comes(z, R2, T[v]) BY <2>2
      <4>2. CASE \E r \in z.news : ~(R2[r] \subseteq T[v])
        <5>1. PICK r \in z.news : ~(R2[r] \subseteq T[v]) BY <4>2
        <5>2. R[r] \subseteq T[v] BY <2>5, <5>1 DEF Comes
        <5>3. R2[r] # R[r] BY <5>1, <5>2
        <5> QED BY <5>1, <5>3, <3>1 DEF Stirs
      <4>3. CASE z.bits # {} /\ z.bits \cap R2[z.reg] # {}
        <5>1. z.bits \cap R[z.reg] = {} BY <2>5, <4>3 DEF Comes
        <5>2. ~(R2[z.reg] \subseteq R[z.reg]) BY <5>1, <4>3
        <5> QED BY <5>2, <4>3, <3>1 DEF Stirs
      <4> QED BY <4>1, <4>2, <4>3 DEF Comes
    <3>3. Silent(b, i) \/ \E m : Owed(i, m) \in o2 BY <3>2, <1>f DEF Notes
    <3> QED BY <3>1, <3>3, <2>2, <1>n
  <2> QED BY <2>4, <2>5
<1>7. Clocked(b, R2, V2, O2)
  <2> SUFFICES ASSUME b = "me1400cd", NEW v \in Task, Turned \in O2[v], Enable \subseteq V2[v]
               PROVE  Enable \subseteq R2[MyClock] \/ Window \in O2[Isr]
    BY DEF Clocked
  <2>0. MyClock \in Registers(b) BY DEF MyClock, LineClock, Clock, Registers, ClkReg
  <2>1. CASE v = t
    <3>1. Turned \in o2 /\ Q # <<>> BY <2>1, <1>n, <1>h, Void
    <3>2. V2[v] = T2 BY <3>1, <2>1
    <3>3. R2[MyClock] = R[MyClock] BY <3>1, <2>0, <1>f DEF Notes, Keep
    <3>4. CASE T2 = R[MyClock] BY <3>2, <3>3, <3>4
    <3>5. CASE Turned \in O[t] /\ T2 = T[t]
      <4>1. Enable \subseteq R[MyClock] \/ Window \in O[Isr] BY <3>5, <3>2, <1>l DEF Clocked
      <4>2. CASE t = Isr BY <4>1, <4>2, <3>3, <1>f, <1>n DEF Notes
      <4>3. CASE t # Isr BY <4>1, <4>3, <3>3, <1>n, <1>m
      <4> QED BY <4>2, <4>3
    <3> QED BY <3>1, <3>4, <3>5, <1>f DEF Notes
  <2>2. CASE v # t
    <3>1. Turned \in O[v] /\ V2[v] = T[v] BY <2>2, <1>n
    <3>2. Enable \subseteq R[MyClock] \/ Window \in O[Isr] BY <3>1, <1>l DEF Clocked
    <3>3. CASE Window \in O[Isr]
      <4>1. CASE t = Isr BY <3>3, <4>1, <1>f, <1>n DEF Notes
      <4>2. CASE t # Isr BY <3>3, <4>2, <1>n, <1>m
      <4> QED BY <4>1, <4>2
    <3>4. CASE Enable \subseteq R[MyClock] /\ ~(Enable \subseteq R2[MyClock])
      <4>1. Window \in o2 \/ ClkLock \in h BY <3>4, <1>f DEF Notes
      <4>2. CASE Window \in o2
        <5>1. t = Isr BY <4>2, <1>h, <1>k DEF Keeping
        <5> QED BY <4>2, <5>1, <1>n
      <4>3. CASE ClkLock \in h
        <5>1. Keeping(b, Who(v), H[v], F[v], O[v]) BY Awake, Tells
        <5>2. ClkLock \in H[v] BY <5>1, <3>1 DEF Keeping
        <5>3. ClkLock # IrqLine BY DEF ClkLock, IrqLine
        <5> QED BY <5>2, <5>3, <4>3, <2>2, <1>l DEF Apart
      <4> QED BY <4>1, <4>2, <4>3
    <3> QED BY <3>2, <3>3, <3>4
  <2> QED BY <2>1, <2>2
<1>8. Sit(b, R2, W2, P2, V2, H, A2, F2, O2) BY <1>1, <1>2, <1>3, <1>4, <1>5, <1>6, <1>7 DEF Sit
<1> QED BY <1>8

\* A task goes on, and the registers stay as they are.
Passes2(b, R, W, P, T, H, A, F, O, t, h2, f2, o2, Q, P2, V2, H2, A2) ==
    /\ Sit(b, R, W, P, T, H, A, F, O)
    /\ t \in Task
    /\ Good(b, Who(t), h2, f2, o2, Q)
    /\ Local(b, f2, R, W, T[t])
    /\ P2[t] = Q
    /\ Q # <<>> => V2[t] = T[t]
    /\ H2[t] = h2
    /\ \A v \in Task : v # t => P2[v] = P[v] /\ V2[v] = T[v] /\ H2[v] = H[v]
    /\ A2 \subseteq A
    /\ t \notin A2
    /\ \A l \in h2 : l \in H[t] \/ l = IrqLine \/ \A v \in Task : l \notin H[v]
    /\ P2[Isr] # <<>> => \A v \in Task : IrqLine \notin H2[v]
    /\ \A x \in Bonds(b) : Home(b, x) \in H[t] /\ Home(b, x) \notin h2 => Bond(b, x, R, W)
    /\ O[t] \subseteq o2
    /\ Turned \in o2 => Turned \in O[t]

\* So does a step that touches no register.
LEMMA QuietStep ==
    ASSUME NEW b, NEW R, NEW W, NEW P, NEW T, NEW H, NEW A, NEW F, NEW O, NEW t,
           NEW h2, NEW f2, NEW o2, NEW Q, NEW P2, NEW V2, NEW H2, NEW A2,
           Passes2(b, R, W, P, T, H, A, F, O, t, h2, f2, o2, Q, P2, V2, H2, A2)
    PROVE  \E F2, O2 : Sit(b, R, W, P2, V2, H2, A2, F2, O2)
<1> SUFFICES
      ASSUME Sit(b, R, W, P, T, H, A, F, O),
             t \in Task,
             Good(b, Who(t), h2, f2, o2, Q),
             Local(b, f2, R, W, T[t]),
             P2[t] = Q,
             Q # <<>> => V2[t] = T[t],
             H2[t] = h2,
             \A v \in Task : v # t => P2[v] = P[v] /\ V2[v] = T[v] /\ H2[v] = H[v],
             A2 \subseteq A,
             t \notin A2,
             \A l \in h2 : l \in H[t] \/ l = IrqLine \/ \A v \in Task : l \notin H[v],
             P2[Isr] # <<>> => \A v \in Task : IrqLine \notin H2[v],
             \A x \in Bonds(b) : Home(b, x) \in H[t] /\ Home(b, x) \notin h2 => Bond(b, x, R, W),
             O[t] \subseteq o2,
             Turned \in o2 => Turned \in O[t]
      PROVE  \E F2, O2 : Sit(b, R, W, P2, V2, H2, A2, F2, O2)
  BY DEF Passes2
<1>l. /\ Fine(b, R, W) /\ Apart(P, H) /\ Bonded(b, R, W, H) /\ Sleeping(P, A)
      /\ Heard(b, R, P, T, A, O) /\ Clocked(b, R, T, O)
  BY DEF Sit
<1>m. Isr \in Task BY IsrAssumption
<1>h. Q = <<>> => f2 = Empty /\ o2 = Empty BY Tells
<1> DEFINE F2 == [v \in Task |-> IF v = t THEN f2 ELSE F[v]]
<1> DEFINE O2 == [v \in Task |-> IF v = t THEN o2 ELSE O[v]]
<1>n. /\ F2[t] = f2 /\ O2[t] = o2
      /\ \A v \in Task : v # t => F2[v] = F[v] /\ O2[v] = O[v]
  OBVIOUS
<1> HIDE DEF F2, O2
<1>o. \A v \in Task : O[v] \subseteq O2[v] BY <1>n
<1>2. Sure(b, R, W, P2, V2, H2, F2, O2)
  <2> SUFFICES ASSUME NEW v \in Task
               PROVE  /\ Good(b, Who(v), H2[v], F2[v], O2[v], P2[v])
                      /\ \A k \in F2[v] : Holds(b, k, R, W, V2[v])
    BY DEF Sure
  <2>1. CASE v = t
    <3>1. Good(b, Who(v), H2[v], F2[v], O2[v], P2[v]) BY <2>1, <1>n
    <3>2. CASE Q = <<>> BY <3>1, <3>2, <2>1, <1>h, <1>n, Void
    <3>3. CASE Q # <<>> BY <3>1, <3>3, <2>1, <1>n DEF Local
    <3> QED BY <3>2, <3>3
  <2>2. CASE v # t
    <3>1. Good(b, Who(v), H[v], F[v], O[v], P[v]) /\ Local(b, F[v], R, W, T[v]) BY Awake
    <3> QED BY <3>1, <2>2, <1>n DEF Local
  <2> QED BY <2>1, <2>2
<1>3. Apart(P2, H2)
  <2>1. ASSUME NEW v \in Task, NEW w \in Task, v # w, NEW l \in H2[v]
        PROVE  l = IrqLine \/ l \notin H2[w]
    <3>1. CASE v = t BY <2>1, <3>1, <1>l DEF Apart
    <3>2. CASE w = t
      <4>1. H2[v] = H[v] BY <2>1, <3>2
      <4> QED BY <2>1, <3>2, <4>1, <1>l DEF Apart
    <3>3. CASE v # t /\ w # t BY <2>1, <3>3, <1>l DEF Apart
    <3> QED BY <3>1, <3>2, <3>3
  <2> QED BY <2>1 DEF Apart
<1>4. Bonded(b, R, W, H2)
  <2> SUFFICES ASSUME NEW x \in Bonds(b), \A v \in Task : Home(b, x) \notin H2[v]
               PROVE  Bond(b, x, R, W)
    BY DEF Bonded
  <2>1. CASE \E v \in Task : Home(b, x) \in H[v]
    <3>1. PICK v \in Task : Home(b, x) \in H[v] BY <2>1
    <3>2. v = t BY <3>1
    <3> QED BY <3>1, <3>2
  <2>2. CASE \A v \in Task : Home(b, x) \notin H[v] BY <2>2, <1>l DEF Bonded
  <2> QED BY <2>1, <2>2
<1>5. Sleeping(P2, A2) BY <1>l DEF Sleeping
<1>6. Heard(b, R, P2, V2, A2, O2)
  <2> SUFFICES ASSUME NEW v \in A2, Comes(Head(P2[v]), R, V2[v])
               PROVE  \E i \in Numbers :
                        /\ Head(P2[v]).queue = Queue(i)
                        /\ \/ Silent(b, i) /\ Head(P2[v]).bits = Off
                           \/ \E w \in Task : \E m : Owed(i, m) \in O2[w]
    BY DEF Heard
  <2>1. v \in Task /\ v # t /\ v \in A BY <1>l DEF Sleeping
  <2>2. P2[v] = P[v] /\ V2[v] = T[v] BY <2>1
  <2>3. PICK i \in Numbers :
          /\ Head(P[v]).queue = Queue(i)
          /\ \/ Silent(b, i) /\ Head(P[v]).bits = Off
             \/ \E w \in Task : \E m : Owed(i, m) \in O[w]
    BY <2>1, <2>2, <1>l DEF Heard
  <2> QED BY <2>2, <2>3, <1>o
<1>7. Clocked(b, R, V2, O2)
  <2> SUFFICES ASSUME b = "me1400cd", NEW v \in Task, Turned \in O2[v], Enable \subseteq V2[v]
               PROVE  Enable \subseteq R[MyClock] \/ Window \in O2[Isr]
    BY DEF Clocked
  <2>1. Turned \in O[v] /\ V2[v] = T[v]
    <3>1. CASE v = t BY <3>1, <1>n, <1>h, Void
    <3>2. CASE v # t BY <3>2, <1>n
    <3> QED BY <3>1, <3>2
  <2> QED BY <2>1, <1>l, <1>o, <1>m DEF Clocked
<1>8. Sit(b, R, W, P2, V2, H2, A2, F2, O2) BY <1>l, <1>2, <1>3, <1>4, <1>5, <1>6, <1>7 DEF Sit
<1> QED BY <1>8

\* A task falls asleep: what it waits for has not come.
LEMMA SleepStep ==
    ASSUME NEW b, NEW R, NEW W, NEW P, NEW T, NEW H, NEW A, NEW F, NEW O,
           Sit(b, R, W, P, T, H, A, F, O), NEW t \in Task, P[t] # <<>>, Head(P[t]).do = "await",
           ~Comes(Head(P[t]), R, T[t])
    PROVE  Sit(b, R, W, P, T, H, A \cup {t}, F, O)
<1>1. Sleeping(P, A \cup {t}) BY DEF Sit, Sleeping
<1>2. Heard(b, R, P, T, A \cup {t}, O) BY DEF Sit, Heard
<1> QED BY <1>1, <1>2 DEF Sit

-----------------------------------------------------------------------------
(* The invariant: the registers of a board, and the tasks in a situation.  *)

Typed(b, R, W, P, T, H, A) ==
    /\ b \in Board /\ b \in BoardNames
    /\ R = [r \in Registers(b) |-> R[r]] /\ W = [r \in Registers(b) |-> W[r]]
    /\ P = [t \in Task |-> P[t]] /\ T = [t \in Task |-> T[t]] /\ H = [t \in Task |-> H[t]]
    /\ A \subseteq Task

Fits(b, R, W, P, T, H, A) ==
    Typed(b, R, W, P, T, H, A) /\ \E F, O : Sit(b, R, W, P, T, H, A, F, O)

\* Only what a task t has is changed.
Turns(P, t, Q, P2) ==
    P2[t] = Q /\ (\A v \in Task : v # t => P2[v] = P[v]) /\ P2 = [v \in Task |-> P2[v]]

\* An EXCEPT at one task turns that task's program only.
LEMMA ExceptTurns ==
    ASSUME NEW P, P = [v \in Task |-> P[v]], NEW t \in Task, NEW Q, NEW P2, P2 = [P EXCEPT ![t] = Q]
    PROVE  Turns(P, t, Q, P2)
BY DEF Turns

BoardInv ==
    \E b, R, W, P, T, H, A :
      /\ b = board /\ R = reg /\ W = want /\ P = todo /\ T = tmp /\ H = held /\ A = asleep
      /\ Fits(b, R, W, P, T, H, A)

\* Accesses.
Accessed(b, R, W, P, T, H, A, t, R2, W2, T2, P2, V, V2, A2) ==
    /\ Fits(b, R, W, P, T, H, A)
    /\ t \in Task
    /\ P[t] # <<>>
    /\ Head(P[t]).do \in Accesses
    /\ Effect(b, Head(P[t]), R, W, T[t], R2, W2, T2)
    /\ R2 = [r \in Registers(b) |-> R2[r]]
    /\ W2 = [r \in Registers(b) |-> W2[r]]
    /\ Turns(P, t, Tail(P[t]), P2)
    /\ Turns(T, t, V, V2)
    /\ Tail(P[t]) # <<>> => V = T2
    /\ A2 \subseteq A
    /\ Head(P[t]).do = "wake" /\ Head(P[t]).bits \subseteq R[Head(P[t]).reg]
         => \A v \in A2 : Head(P[v]).queue # Head(P[t]).queue

\* An access of a task whose program is good keeps the tasks in good situations ...
LEMMA AccessFits ==
    ASSUME NEW b, NEW R, NEW W, NEW P, NEW T, NEW H, NEW A, NEW t,
           NEW R2, NEW W2, NEW T2, NEW P2, NEW V, NEW V2, NEW A2,
           Accessed(b, R, W, P, T, H, A, t, R2, W2, T2, P2, V, V2, A2)
    PROVE  Fits(b, R2, W2, P2, V2, H, A2)
<1> SUFFICES
      ASSUME Fits(b, R, W, P, T, H, A),
             t \in Task,
             P[t] # <<>>,
             Head(P[t]).do \in Accesses,
             Effect(b, Head(P[t]), R, W, T[t], R2, W2, T2),
             R2 = [r \in Registers(b) |-> R2[r]],
             W2 = [r \in Registers(b) |-> W2[r]],
             Turns(P, t, Tail(P[t]), P2),
             Turns(T, t, V, V2),
             Tail(P[t]) # <<>> => V = T2,
             A2 \subseteq A,
             Head(P[t]).do = "wake" /\ Head(P[t]).bits \subseteq R[Head(P[t]).reg]
         => \A v \in A2 : Head(P[v]).queue # Head(P[t]).queue
      PROVE  Fits(b, R2, W2, P2, V2, H, A2)
  BY DEF Accessed
<1>1. PICK F, O : Sit(b, R, W, P, T, H, A, F, O) BY DEF Fits
<1>2. b \in BoardNames BY DEF Fits, Typed
<1>3. P2[t] = Tail(P[t]) /\ \A v \in Task : v # t => P2[v] = P[v] /\ V2[v] = T[v]
  BY DEF Turns
<1>4. Tail(P[t]) # <<>> => V2[t] = T2 BY DEF Turns
<1>7. Passes1(b, R, W, P, T, H, A, F, O, t, R2, W2, T2, P2, V2, A2)
  BY <1>1, <1>2, <1>3, <1>4 DEF Passes1
<1>5. \E F2, O2 : Sit(b, R2, W2, P2, V2, H, A2, F2, O2) BY <1>7, AccessStep
<1>6. Typed(b, R2, W2, P2, V2, H, A2) BY DEF Fits, Typed, Turns
<1> QED BY <1>5, <1>6 DEF Fits

\* What a step is good for is known of its task.
LEMMA FitsTells ==
    ASSUME NEW b, NEW R, NEW W, NEW P, NEW T, NEW H, NEW A, Fits(b, R, W, P, T, H, A), NEW t \in Task
    PROVE  \E F, O :
             /\ Sit(b, R, W, P, T, H, A, F, O) /\ Local(b, F[t], R, W, T[t])
             /\ t \in A => P[t] # <<>> /\ Head(P[t]).do = "await"
             /\ P[t] = <<>> => H[t] = Empty /\ F[t] = Empty /\ O[t] = Empty
             /\ P[t] # <<>> =>
                  \E Z : Closed(b, Who(t), Z) /\ Goes(b, Who(t), Z, H[t], F[t], O[t], Head(P[t]), Tail(P[t]))
<1>1. PICK F, O : Sit(b, R, W, P, T, H, A, F, O) BY DEF Fits
<1>2. /\ Local(b, F[t], R, W, T[t]) /\ Good(b, Who(t), H[t], F[t], O[t], P[t])
      /\ t \in A => P[t] # <<>> /\ Head(P[t]).do = "await"
      /\ P[t] = <<>> => H[t] = Empty /\ F[t] = Empty /\ O[t] = Empty
  BY <1>1, Awake
<1>3. P[t] # <<>> =>
        \E Z : Closed(b, Who(t), Z) /\ Goes(b, Who(t), Z, H[t], F[t], O[t], Head(P[t]), Tail(P[t]))
  BY <1>2, Tells
<1> QED BY <1>1, <1>2, <1>3

\* Steps that leave the registers alone.
Quieted(b, R, W, P, T, H, A, F, O, t, h2, f2, o2, Q, P2, V, V2, H2, A2) ==
    /\ Typed(b, R, W, P, T, H, A)
    /\ Sit(b, R, W, P, T, H, A, F, O)
    /\ t \in Task
    /\ Good(b, Who(t), h2, f2, o2, Q)
    /\ Local(b, f2, R, W, T[t])
    /\ Turns(P, t, Q, P2)
    /\ Turns(T, t, V, V2)
    /\ Turns(H, t, h2, H2)
    /\ Q # <<>> => V = T[t]
    /\ A2 \subseteq A
    /\ t \notin A2
    /\ \A l \in h2 : l \in H[t] \/ l = IrqLine \/ \A v \in Task : l \notin H[v]
    /\ P2[Isr] # <<>> => \A v \in Task : IrqLine \notin H2[v]
    /\ \A x \in Bonds(b) : Home(b, x) \in H[t] /\ Home(b, x) \notin h2 => Bond(b, x, R, W)
    /\ O[t] \subseteq o2
    /\ Turned \in o2 => Turned \in O[t]

\* ... and so does a step on locks, or a choice of where to go on.
LEMMA QuietFits ==
    ASSUME NEW b, NEW R, NEW W, NEW P, NEW T, NEW H, NEW A, NEW F, NEW O, NEW t,
           NEW h2, NEW f2, NEW o2, NEW Q, NEW P2, NEW V, NEW V2, NEW H2, NEW A2,
           Quieted(b, R, W, P, T, H, A, F, O, t, h2, f2, o2, Q, P2, V, V2, H2, A2)
    PROVE  Fits(b, R, W, P2, V2, H2, A2)
<1> SUFFICES
      ASSUME Typed(b, R, W, P, T, H, A),
             Sit(b, R, W, P, T, H, A, F, O),
             t \in Task,
             Good(b, Who(t), h2, f2, o2, Q),
             Local(b, f2, R, W, T[t]),
             Turns(P, t, Q, P2),
             Turns(T, t, V, V2),
             Turns(H, t, h2, H2),
             Q # <<>> => V = T[t],
             A2 \subseteq A,
             t \notin A2,
             \A l \in h2 : l \in H[t] \/ l = IrqLine \/ \A v \in Task : l \notin H[v],
             P2[Isr] # <<>> => \A v \in Task : IrqLine \notin H2[v],
             \A x \in Bonds(b) : Home(b, x) \in H[t] /\ Home(b, x) \notin h2 => Bond(b, x, R, W),
             O[t] \subseteq o2,
             Turned \in o2 => Turned \in O[t]
      PROVE  Fits(b, R, W, P2, V2, H2, A2)
  BY DEF Quieted
<1>3. /\ P2[t] = Q /\ H2[t] = h2
      /\ \A v \in Task : v # t => P2[v] = P[v] /\ V2[v] = T[v] /\ H2[v] = H[v]
  BY DEF Turns
<1>4. Q # <<>> => V2[t] = T[t] BY DEF Turns
<1>7. Passes2(b, R, W, P, T, H, A, F, O, t, h2, f2, o2, Q, P2, V2, H2, A2) BY <1>3, <1>4 DEF Passes2
<1>5. \E F2, O2 : Sit(b, R, W, P2, V2, H2, A2, F2, O2) BY <1>7, QuietStep
<1>6. Typed(b, R, W, P2, V2, H2, A2) BY DEF Typed, Turns
<1> QED BY <1>5, <1>6 DEF Fits

-----------------------------------------------------------------------------
(* The actions.                                                            *)

\* A sequence is empty when its length is zero.
LEMMA EmptySeq ==
    ASSUME NEW S, NEW P \in Seq(S)
    PROVE  P = <<>> <=> Len(P) = 0
OBVIOUS

\* A sequence of one element is over after it.
LEMMA OneMore ==
    ASSUME NEW S, NEW P \in Seq(S), P # <<>>
    PROVE  Len(P) = 1 <=> Tail(P) = <<>>
<1>1. Len(P) \in Nat /\ Len(P) # 0 BY EmptySeq
<1>2. Tail(P) \in Seq(S) /\ Len(Tail(P)) = Len(P) - 1 BY <1>1
<1>3. Tail(P) = <<>> <=> Len(Tail(P)) = 0 BY <1>2, EmptySeq
<1>4. Len(Tail(P)) = 0 <=> Len(P) = 1 BY <1>1, <1>2
<1> QED BY <1>3, <1>4

\* An access names a register of the board, and the last step is the one with none behind it.
LEMMA FitsNamed ==
    ASSUME NEW b, NEW R, NEW W, NEW P, NEW T, NEW H, NEW A, Fits(b, R, W, P, T, H, A), NEW t \in Task,
           P[t] # <<>>
    PROVE  /\ Head(P[t]).do \in Accesses => Named(b, Head(P[t]))
           /\ Len(P[t]) = 1 <=> Tail(P[t]) = <<>>
<1>1. PICK F, O : /\ Sit(b, R, W, P, T, H, A, F, O)
                  /\ \E Z : /\ Closed(b, Who(t), Z)
                            /\ Goes(b, Who(t), Z, H[t], F[t], O[t], Head(P[t]), Tail(P[t]))
  BY FitsTells
<1>2. PICK Z : Goes(b, Who(t), Z, H[t], F[t], O[t], Head(P[t]), Tail(P[t])) BY <1>1
<1>3. ASSUME Head(P[t]).do \in Accesses PROVE Named(b, Head(P[t]))
  <2>1. Head(P[t]).do \notin {"take", "give", "mask", "unmask", "test", "try", "await"}
    BY <1>3 DEF Accesses
  <2>2. GoesAccess(b, Who(t), Z, H[t], F[t], O[t], Head(P[t]), Tail(P[t]))
    BY <2>1, <1>2 DEF Goes, GoesTake, GoesGive, GoesMask, GoesUnmask, GoesTest, GoesTry, GoesAwait
  <2> QED BY <2>2 DEF GoesAccess, Moves
<1>4. Program(P[t]) BY <1>1, Awake, Whence
<1>5. PICK S : P[t] \in Seq(S) BY <1>4 DEF Program
<1>6. Len(P[t]) = 1 <=> Tail(P[t]) = <<>> BY <1>5, OneMore
<1> QED BY <1>3, <1>6

\* An EXCEPT at one register changes that register only.
LEMMA ExceptChanges ==
    ASSUME NEW b, NEW R, R = [r \in Registers(b) |-> R[r]], NEW q \in Registers(b), NEW v, NEW R2,
           R2 = [R EXCEPT ![q] = v]
    PROVE  Changes(b, q, R, R2, v) /\ R2 = [r \in Registers(b) |-> R2[r]]
BY DEF Changes

\* The registers are read.
Looks == {"load", "also", "given", "read"}

\* A step that only looks at registers keeps the invariant.
LEMMA LookFits ==
    ASSUME BoardInv, NEW t \in Task, todo[t] # <<>>, Head(todo[t]).do \in Looks,
           NEW V, NEW T2, tmp' = [tmp EXCEPT ![t] = V], Tail(todo[t]) # <<>> => V = T2,
           Effect(board, Head(todo[t]), reg, want, tmp[t], reg, want, T2),
           todo' = [todo EXCEPT ![t] = Tail(todo[t])], UNCHANGED <<board, reg, want, held, asleep>>
    PROVE  BoardInv'
<1>1. Fits(board, reg, want, todo, tmp, held, asleep) BY DEF BoardInv
<1>2. Turns(todo, t, Tail(todo[t]), todo') /\ Turns(tmp, t, V, tmp')
  BY <1>1, ExceptTurns DEF Fits, Typed
<1>3. Head(todo[t]).do \in Accesses /\ Head(todo[t]).do # "wake" BY DEF Looks, Accesses
<1>4. reg = [r \in Registers(board) |-> reg[r]] /\ want = [r \in Registers(board) |-> want[r]]
  BY <1>1 DEF Fits, Typed
<1>5. Accessed(board, reg, want, todo, tmp, held, asleep, t, reg, want, T2, todo', V, tmp', asleep)
  BY <1>1, <1>2, <1>3, <1>4 DEF Accessed
<1>6. Fits(board, reg, want, todo', tmp', held, asleep) BY <1>5, AccessFits
<1> QED BY <1>6 DEF BoardInv

\* So do load(), load_also(), given() and read() ...
LEMMA InvLook ==
    ASSUME BoardInv, NEW t \in Task, load(t) \/ load_also(t) \/ given(t) \/ read(t)
    PROVE  BoardInv'
<1>0. Fits(board, reg, want, todo, tmp, held, asleep) BY DEF BoardInv
<1>1. CASE load(t)
  <2>1. todo[t] # <<>> /\ Head(todo[t]).do = "load" BY <1>1 DEF load, Doing, Idle
  <2>2. Len(todo[t]) = 1 <=> Tail(todo[t]) = <<>> BY <1>0, <2>1, FitsNamed
  <2> DEFINE V == IF Len(todo[t]) = 1 THEN {} ELSE reg[Head(todo[t]).reg]
  <2>3. tmp' = [tmp EXCEPT ![t] = V] BY <1>1 DEF load
  <2>4. Tail(todo[t]) # <<>> => V = reg[Head(todo[t]).reg] BY <2>2
  <2> HIDE DEF V
  <2>5. Effect(board, Head(todo[t]), reg, want, tmp[t], reg, want, reg[Head(todo[t]).reg])
    BY <2>1 DEF Effect, Keep
  <2>6. Head(todo[t]).do \in Looks BY <2>1 DEF Looks
  <2>7. todo' = [todo EXCEPT ![t] = Tail(todo[t])] /\ UNCHANGED <<board, reg, want, held, asleep>>
    BY <1>1 DEF load
  <2> QED BY <2>1, <2>3, <2>4, <2>5, <2>6, <2>7, LookFits
<1>2. CASE load_also(t)
  <2>1. todo[t] # <<>> /\ Head(todo[t]).do = "also" BY <1>2 DEF load_also, Doing, Idle
  <2> DEFINE V == tmp[t] \cup reg[Head(todo[t]).reg]
  <2>3. tmp' = [tmp EXCEPT ![t] = V] BY <1>2 DEF load_also
  <2>5. Effect(board, Head(todo[t]), reg, want, tmp[t], reg, want, V)
    BY <2>1 DEF Effect, Keep
  <2> HIDE DEF V
  <2>6. Head(todo[t]).do \in Looks BY <2>1 DEF Looks
  <2>7. todo' = [todo EXCEPT ![t] = Tail(todo[t])] /\ UNCHANGED <<board, reg, want, held, asleep>>
    BY <1>2 DEF load_also
  <2> QED BY <2>1, <2>3, <2>5, <2>6, <2>7, LookFits
<1>3. CASE given(t)
  <2>1. todo[t] # <<>> /\ Head(todo[t]).do = "given" BY <1>3 DEF given, Doing, Idle
  <2> DEFINE V == Head(todo[t]).value
  <2>3. tmp' = [tmp EXCEPT ![t] = V] BY <1>3 DEF given
  <2>5. Effect(board, Head(todo[t]), reg, want, tmp[t], reg, want, V)
    BY <2>1 DEF Effect, Keep
  <2> HIDE DEF V
  <2>6. Head(todo[t]).do \in Looks BY <2>1 DEF Looks
  <2>7. todo' = [todo EXCEPT ![t] = Tail(todo[t])] /\ UNCHANGED <<board, reg, want, held, asleep>>
    BY <1>3 DEF given
  <2> QED BY <2>1, <2>3, <2>5, <2>6, <2>7, LookFits
<1>4. CASE read(t)
  <2>1. todo[t] # <<>> /\ Head(todo[t]).do = "read" BY <1>4 DEF read, Doing, Idle
  <2> DEFINE V == IF Tail(todo[t]) = <<>> THEN {} ELSE tmp[t]
  <2>3. tmp' = [tmp EXCEPT ![t] = V] BY <1>4 DEF read, Proceed
  <2>4. Tail(todo[t]) # <<>> => V = tmp[t] OBVIOUS
  <2>5. Effect(board, Head(todo[t]), reg, want, tmp[t], reg, want, tmp[t])
    BY <2>1 DEF Effect, Keep
  <2> HIDE DEF V
  <2>6. Head(todo[t]).do \in Looks BY <2>1 DEF Looks
  <2>7. todo' = [todo EXCEPT ![t] = Tail(todo[t])] /\ UNCHANGED <<board, reg, want, held, asleep>>
    BY <1>4 DEF read, Proceed
  <2> QED BY <2>1, <2>3, <2>4, <2>5, <2>6, <2>7, LookFits
<1> QED BY <1>1, <1>2, <1>3, <1>4

\* The registers are written.
Writes == {"store", "put", "bump", "mode", "restore"}

\* A step that writes a register keeps the invariant when its effect is the one of the model.
LEMMA WriteFits ==
    ASSUME BoardInv, NEW t \in Task, todo[t] # <<>>, Head(todo[t]).do \in Writes,
           Proceed(t, Tail(todo[t])), UNCHANGED <<board, held, asleep>>,
           Effect(board, Head(todo[t]), reg, want, tmp[t], reg', want', tmp[t]),
           reg' = [r \in Registers(board) |-> reg'[r]], want' = [r \in Registers(board) |-> want'[r]]
    PROVE  BoardInv'
<1> DEFINE V == IF Tail(todo[t]) = <<>> THEN {} ELSE tmp[t]
<1>1. Fits(board, reg, want, todo, tmp, held, asleep) BY DEF BoardInv
<1>a. todo' = [todo EXCEPT ![t] = Tail(todo[t])] /\ tmp' = [tmp EXCEPT ![t] = V] BY DEF Proceed
<1>b. Tail(todo[t]) # <<>> => V = tmp[t] OBVIOUS
<1> HIDE DEF V
<1>2. Turns(todo, t, Tail(todo[t]), todo') /\ Turns(tmp, t, V, tmp')
  BY <1>1, <1>a, ExceptTurns DEF Fits, Typed
<1>3. Head(todo[t]).do \in Accesses /\ Head(todo[t]).do # "wake" BY DEF Writes, Accesses
<1>5. Accessed(board, reg, want, todo, tmp, held, asleep, t, reg', want', tmp[t], todo', V, tmp', asleep)
  BY <1>1, <1>2, <1>3, <1>b DEF Accessed
<1>6. Fits(board, reg', want', todo', tmp', held, asleep) BY <1>5, AccessFits
<1> QED BY <1>6 DEF BoardInv

\* So do store() ...
LEMMA InvStore ==
    ASSUME BoardInv, NEW t \in Task, store(t)
    PROVE  BoardInv'
<1> DEFINE s == Head(todo[t])
<1>0. Fits(board, reg, want, todo, tmp, held, asleep) BY DEF BoardInv
<1>1. todo[t] # <<>> /\ s.do = "store" /\ Proceed(t, Tail(todo[t])) /\ UNCHANGED <<board, held, asleep>>
  BY DEF store, Doing, Idle
<1>2. s.reg \in Registers(board) BY <1>0, <1>1, FitsNamed DEF Named, Accesses
<1>3. reg = [r \in Registers(board) |-> reg[r]] /\ want = [r \in Registers(board) |-> want[r]]
  BY <1>0 DEF Fits, Typed
<1> DEFINE v == (tmp[t] \ s.clear) \cup Level(s.reg, s.clear, s.set)
<1> DEFINE w == (want[s.reg] \ s.clear) \cup s.set
<1>4. reg' = [reg EXCEPT ![s.reg] = v] /\ want' = [want EXCEPT ![s.reg] = w] BY DEF store, Asked
<1>7. Changes(board, s.reg, reg, reg', v) /\ Changes(board, s.reg, want, want', w)
        => Effect(board, s, reg, want, tmp[t], reg', want', tmp[t])
  BY <1>1 DEF Effect
<1> HIDE DEF v, w
<1>5. Changes(board, s.reg, reg, reg', v) /\ reg' = [r \in Registers(board) |-> reg'[r]]
  BY <1>2, <1>3, <1>4, ExceptChanges
<1>6. Changes(board, s.reg, want, want', w) /\ want' = [r \in Registers(board) |-> want'[r]]
  BY <1>2, <1>3, <1>4, ExceptChanges
<1>8. s.do \in Writes BY <1>1 DEF Writes
<1> QED BY <1>1, <1>5, <1>6, <1>7, <1>8, WriteFits

\* ... put() ...
LEMMA InvPut ==
    ASSUME BoardInv, NEW t \in Task, put(t)
    PROVE  BoardInv'
<1> DEFINE s == Head(todo[t])
<1>0. Fits(board, reg, want, todo, tmp, held, asleep) BY DEF BoardInv
<1>1. todo[t] # <<>> /\ s.do = "put" /\ Proceed(t, Tail(todo[t])) /\ UNCHANGED <<board, held, asleep>>
  BY DEF put, Doing, Idle
<1>2. s.reg \in Registers(board) BY <1>0, <1>1, FitsNamed DEF Named, Accesses
<1>3. reg = [r \in Registers(board) |-> reg[r]] /\ want = [r \in Registers(board) |-> want[r]]
  BY <1>0 DEF Fits, Typed
<1> DEFINE v == Level(s.reg, s.clear, s.set)
<1> DEFINE w == (want[s.reg] \ s.clear) \cup s.set
<1>4. reg' = [reg EXCEPT ![s.reg] = v] /\ want' = [want EXCEPT ![s.reg] = w] BY DEF put, Asked
<1>7. Changes(board, s.reg, reg, reg', v) /\ Changes(board, s.reg, want, want', w)
        => Effect(board, s, reg, want, tmp[t], reg', want', tmp[t])
  BY <1>1 DEF Effect
<1> HIDE DEF v, w
<1>5. Changes(board, s.reg, reg, reg', v) /\ reg' = [r \in Registers(board) |-> reg'[r]]
  BY <1>2, <1>3, <1>4, ExceptChanges
<1>6. Changes(board, s.reg, want, want', w) /\ want' = [r \in Registers(board) |-> want'[r]]
  BY <1>2, <1>3, <1>4, ExceptChanges
<1>8. s.do \in Writes BY <1>1 DEF Writes
<1> QED BY <1>1, <1>5, <1>6, <1>7, <1>8, WriteFits

\* ... bump() ...
LEMMA InvBump ==
    ASSUME BoardInv, NEW t \in Task, bump(t)
    PROVE  BoardInv'
<1> DEFINE s == Head(todo[t])
<1>0. Fits(board, reg, want, todo, tmp, held, asleep) BY DEF BoardInv
<1>1. todo[t] # <<>> /\ s.do = "bump" /\ Proceed(t, Tail(todo[t])) /\ UNCHANGED <<board, held, asleep>>
  BY DEF bump, Doing, Idle
<1>2. s.reg \in Registers(board) BY <1>0, <1>1, FitsNamed DEF Named, Accesses
<1>3. reg = [r \in Registers(board) |-> reg[r]] /\ want = [r \in Registers(board) |-> want[r]]
  BY <1>0 DEF Fits, Typed
<1> DEFINE v == Next1(reg[s.reg])
<1> DEFINE w == Next1(want[s.reg])
<1>4. reg' = [reg EXCEPT ![s.reg] = v] /\ want' = [want EXCEPT ![s.reg] = w] BY DEF bump
<1>7. Changes(board, s.reg, reg, reg', v) /\ Changes(board, s.reg, want, want', w)
        => Effect(board, s, reg, want, tmp[t], reg', want', tmp[t])
  BY <1>1 DEF Effect
<1> HIDE DEF v, w
<1>5. Changes(board, s.reg, reg, reg', v) /\ reg' = [r \in Registers(board) |-> reg'[r]]
  BY <1>2, <1>3, <1>4, ExceptChanges
<1>6. Changes(board, s.reg, want, want', w) /\ want' = [r \in Registers(board) |-> want'[r]]
  BY <1>2, <1>3, <1>4, ExceptChanges
<1>8. s.do \in Writes BY <1>1 DEF Writes
<1> QED BY <1>1, <1>5, <1>6, <1>7, <1>8, WriteFits

\* ... restore() ...
LEMMA InvRestore ==
    ASSUME BoardInv, NEW t \in Task, restore(t)
    PROVE  BoardInv'
<1> DEFINE s == Head(todo[t])
<1>0. Fits(board, reg, want, todo, tmp, held, asleep) BY DEF BoardInv
<1>1. todo[t] # <<>> /\ s.do = "restore" /\ Proceed(t, Tail(todo[t])) /\ UNCHANGED <<board, held, asleep, want>>
  BY DEF restore, Doing, Idle
<1>2. s.reg \in Registers(board) BY <1>0, <1>1, FitsNamed DEF Named, Accesses
<1>3. reg = [r \in Registers(board) |-> reg[r]] /\ want = [r \in Registers(board) |-> want[r]]
  BY <1>0 DEF Fits, Typed
<1> DEFINE v == IF reg[s.from] = {} THEN reg[s.reg] ELSE reg[s.from]
<1>4. reg' = [reg EXCEPT ![s.reg] = v] BY DEF restore
<1>7. Changes(board, s.reg, reg, reg', v) => Effect(board, s, reg, want, tmp[t], reg', want', tmp[t])
  BY <1>1 DEF Effect, Keep
<1> HIDE DEF v
<1>5. Changes(board, s.reg, reg, reg', v) /\ reg' = [r \in Registers(board) |-> reg'[r]]
  BY <1>2, <1>3, <1>4, ExceptChanges
<1>8. s.do \in Writes BY <1>1 DEF Writes
<1> QED BY <1>1, <1>3, <1>5, <1>7, <1>8, WriteFits

\* ... change_mode() ...
LEMMA InvMode ==
    ASSUME BoardInv, NEW t \in Task, change_mode(t)
    PROVE  BoardInv'
<1> DEFINE s == Head(todo[t])
<1>0. Fits(board, reg, want, todo, tmp, held, asleep) BY DEF BoardInv
<1>1. todo[t] # <<>> /\ s.do = "mode" /\ Proceed(t, Tail(todo[t])) /\ UNCHANGED <<board, held, asleep>>
  BY DEF change_mode, Doing, Idle
<1>2. /\ s.reg \in Registers(board) /\ s.from \in Registers(board) /\ s.own \in Registers(board)
      /\ s.ports \subseteq Registers(board) /\ s.reg \notin s.ports /\ s.own # s.reg
  BY <1>0, <1>1, FitsNamed DEF Named, Accesses
<1>3. reg = [r \in Registers(board) |-> reg[r]] /\ want = [r \in Registers(board) |-> want[r]]
  BY <1>0 DEF Fits, Typed
<1>4. reg' = [r \in Registers(board) |-> CASE r = s.reg -> s.code[reg[s.from]]
                                           [] r \in s.ports -> {}
                                           [] OTHER -> reg[r]]
  BY <1>3 DEF change_mode
<1>5. reg'[s.reg] = s.code[reg[s.from]] BY <1>2, <1>4
<1>6. \A q \in Registers(board) : q \in s.ports => reg'[q] = {} BY <1>2, <1>4
<1>7. \A q \in Registers(board) : q # s.reg /\ q \notin s.ports => reg'[q] = reg[q] BY <1>4
<1>8. want' = [want EXCEPT ![s.reg] = want[s.from], ![s.own] = {}] BY DEF change_mode
<1>9. /\ want'[s.reg] = want[s.from] /\ want'[s.own] = {}
      /\ \A q \in Registers(board) : q # s.reg /\ q # s.own => want'[q] = want[q]
      /\ want' = [r \in Registers(board) |-> want'[r]]
  BY <1>2, <1>3, <1>8
<1>10. reg' = [r \in Registers(board) |-> reg'[r]] BY <1>4
<1>11. Effect(board, s, reg, want, tmp[t], reg', want', tmp[t])
  BY <1>1, <1>5, <1>6, <1>7, <1>9 DEF Effect
<1>12. s.do \in Writes BY <1>1 DEF Writes
<1> QED BY <1>1, <1>9, <1>10, <1>11, <1>12, WriteFits

\* ... and wake_up(), which pays what is owed.
LEMMA InvWake ==
    ASSUME BoardInv, NEW t \in Task, wake_up(t)
    PROVE  BoardInv'
<1> DEFINE s == Head(todo[t])
<1> DEFINE V == IF Tail(todo[t]) = <<>> THEN {} ELSE tmp[t]
<1>1. Fits(board, reg, want, todo, tmp, held, asleep) BY DEF BoardInv
<1>0. todo[t] # <<>> /\ s.do = "wake" /\ Proceed(t, Tail(todo[t])) /\ UNCHANGED <<board, reg, want, held>>
  BY DEF wake_up, Doing, Idle
<1>a. todo' = [todo EXCEPT ![t] = Tail(todo[t])] /\ tmp' = [tmp EXCEPT ![t] = V] BY <1>0 DEF Proceed
<1>b. Tail(todo[t]) # <<>> => V = tmp[t] OBVIOUS
<1>c. asleep' \subseteq asleep /\ (s.bits \subseteq reg[s.reg] => \A v \in asleep' : Head(todo[v]).queue # s.queue)
  BY DEF wake_up, Wakes, Sleepers
<1> HIDE DEF V
<1>2. Turns(todo, t, Tail(todo[t]), todo') /\ Turns(tmp, t, V, tmp')
  BY <1>1, <1>a, ExceptTurns DEF Fits, Typed
<1>3. Head(todo[t]).do \in Accesses BY <1>0 DEF Accesses
<1>d. Effect(board, s, reg, want, tmp[t], reg, want, tmp[t]) BY <1>0 DEF Effect, Keep
<1>e. reg = [r \in Registers(board) |-> reg[r]] /\ want = [r \in Registers(board) |-> want[r]]
  BY <1>1 DEF Fits, Typed
<1>5. Accessed(board, reg, want, todo, tmp, held, asleep, t, reg, want, tmp[t], todo', V, tmp', asleep')
  BY <1>0, <1>1, <1>2, <1>3, <1>b, <1>c, <1>d, <1>e DEF Accessed
<1>6. Fits(board, reg, want, todo', tmp', held, asleep') BY <1>5, AccessFits
<1> QED BY <1>0, <1>6 DEF BoardInv

\* Steps that take and give locks, and decide.
LEMMA InvTake ==
    ASSUME BoardInv, NEW t \in Task, take(t)
    PROVE  BoardInv'
<1> DEFINE s == Head(todo[t])
<1> DEFINE Q == Tail(todo[t])
<1> DEFINE V == IF Q = <<>> THEN {} ELSE tmp[t]
<1>0. /\ todo[t] # <<>> /\ s.do = "take" /\ Holders(s.lock) = {}
      /\ todo' = [todo EXCEPT ![t] = Q] /\ tmp' = [tmp EXCEPT ![t] = V]
      /\ held' = [held EXCEPT ![t] = held[t] \cup {s.lock}] /\ UNCHANGED <<board, reg, want, asleep>>
  BY DEF take, Doing, Idle, Proceed
<1>v. Q # <<>> => V = tmp[t] OBVIOUS
<1> HIDE DEF V
<1>1. Fits(board, reg, want, todo, tmp, held, asleep) BY DEF BoardInv
<1>2. PICK F, O : /\ Sit(board, reg, want, todo, tmp, held, asleep, F, O)
                  /\ Local(board, F[t], reg, want, tmp[t])
                  /\ t \in asleep => s.do = "await"
                  /\ \E Z : Closed(board, Who(t), Z) /\ Goes(board, Who(t), Z, held[t], F[t], O[t], s, Q)
  BY <1>0, <1>1, FitsTells
<1>3. PICK Z : Closed(board, Who(t), Z) /\ Goes(board, Who(t), Z, held[t], F[t], O[t], s, Q) BY <1>2
<1>4. GoesTake(board, Z, held[t], F[t], O[t], s, Q)
  BY <1>0, <1>3 DEF Goes, GoesAccess, Moves, Accesses, GoesGive, GoesMask, GoesUnmask, GoesTest,
     GoesTry, GoesAwait
<1>5. PICK f2 : Opens(board, F[t], s.lock, f2) /\ <<held[t] \cup {s.lock}, f2, O[t], Q>> \in Z
  BY <1>4 DEF GoesTake
<1>6. Good(board, Who(t), held[t] \cup {s.lock}, f2, O[t], Q) BY <1>3, <1>5, Known
<1>7. \A v \in Task : s.lock \notin held[v] BY <1>0 DEF Holders
<1>8. \A x \in Bonds(board) : Home(board, x) = s.lock => Bond(board, x, reg, want)
  BY <1>2, <1>7 DEF Sit, Bonded
<1>9. Local(board, f2, reg, want, tmp[t]) BY <1>2, <1>5, <1>8 DEF Opens
<1>10. Turns(held, t, held[t] \cup {s.lock}, held') BY <1>0, <1>1, ExceptTurns DEF Fits, Typed
<1>11. todo'[Isr] # <<>> => \A v \in Task : IrqLine \notin held'[v]
  <2>1. todo'[Isr] # <<>> => todo[Isr] # <<>> BY <1>0, <1>1, IsrAssumption DEF Fits, Typed
  <2>2. s.lock # IrqLine BY <1>4 DEF GoesTake
  <2>3. todo[Isr] # <<>> => \A v \in Task : IrqLine \notin held[v] BY <1>2 DEF Sit, Apart
  <2> QED BY <2>1, <2>2, <2>3, <1>10 DEF Turns
<1>12. t \notin asleep' BY <1>0, <1>2
<1>13. asleep' \subseteq asleep BY <1>0
<1> DEFINE g == held[t] \cup {s.lock}
<1>14. \A l \in g : l \in held[t] \/ l = IrqLine \/ \A v \in Task : l \notin held[v] BY <1>7
<1>15. \A x \in Bonds(board) : Home(board, x) \in held[t] /\ Home(board, x) \notin g => Bond(board, x, reg, want)
  OBVIOUS
<1>16. Good(board, Who(t), g, f2, O[t], Q) /\ Turns(held, t, g, held') BY <1>6, <1>10
<1> HIDE DEF g, s, Q
<1>17. Turns(todo, t, Q, todo') /\ Turns(tmp, t, V, tmp') BY <1>0, <1>1, ExceptTurns DEF Fits, Typed
<1>18. Typed(board, reg, want, todo, tmp, held, asleep) BY <1>1 DEF Fits
<1>19. Quieted(board, reg, want, todo, tmp, held, asleep, F, O, t, g, f2, O[t], Q, todo', V, tmp', held', asleep')
  BY <1>v, <1>2, <1>9, <1>11, <1>12, <1>13, <1>14, <1>15, <1>16, <1>17, <1>18 DEF Quieted
<1>20. Fits(board, reg, want, todo', tmp', held', asleep') BY <1>19, QuietFits
<1> QED BY <1>0, <1>20 DEF BoardInv

\* The same for giving a lock back ...
LEMMA InvGive ==
    ASSUME BoardInv, NEW t \in Task, give(t)
    PROVE  BoardInv'
<1> DEFINE s == Head(todo[t])
<1> DEFINE Q == Tail(todo[t])
<1> DEFINE V == IF Q = <<>> THEN {} ELSE tmp[t]
<1>0. /\ todo[t] # <<>> /\ s.do = "give"
      /\ todo' = [todo EXCEPT ![t] = Q] /\ tmp' = [tmp EXCEPT ![t] = V]
      /\ held' = [v \in Task |-> held[v] \ {s.lock}] /\ UNCHANGED <<board, reg, want, asleep>>
  BY DEF give, Doing, Idle, Proceed
<1>v. Q # <<>> => V = tmp[t] OBVIOUS
<1> HIDE DEF V
<1>1. Fits(board, reg, want, todo, tmp, held, asleep) BY DEF BoardInv
<1>2. PICK F, O : /\ Sit(board, reg, want, todo, tmp, held, asleep, F, O)
                  /\ Local(board, F[t], reg, want, tmp[t])
                  /\ t \in asleep => s.do = "await"
                  /\ \E Z : Closed(board, Who(t), Z) /\ Goes(board, Who(t), Z, held[t], F[t], O[t], s, Tail(todo[t]))
  BY <1>0, <1>1, FitsTells
<1>3. PICK Z : Closed(board, Who(t), Z) /\ Goes(board, Who(t), Z, held[t], F[t], O[t], s, Tail(todo[t])) BY <1>2
<1>4. GoesGive(board, Z, held[t], F[t], O[t], s, Q)
  BY <1>0, <1>3 DEF Goes, GoesAccess, Moves, Accesses, GoesTake, GoesMask, GoesUnmask, GoesTest,
     GoesTry, GoesAwait
<1>5. PICK f2 : Closes(board, F[t], s.lock, f2) /\ <<held[t] \ {s.lock}, f2, O[t], Q>> \in Z
  BY <1>4 DEF GoesGive
<1> DEFINE g == held[t] \ {s.lock}
<1>6. Good(board, Who(t), g, f2, O[t], Q) BY <1>3, <1>5, Known
<1>7. s.lock \in held[t] /\ s.lock # IrqLine BY <1>4 DEF GoesGive
<1>8. \A v \in Task : v # t => s.lock \notin held[v] BY <1>2, <1>7 DEF Sit, Apart
<1>9. Local(board, f2, reg, want, tmp[t]) BY <1>2, <1>5 DEF Closes
<1>10. Turns(held, t, g, held')
  <2>1. \A v \in Task : v # t => held'[v] = held[v] BY <1>0, <1>8
  <2> QED BY <2>1, <1>0 DEF Turns
<1>11. todo'[Isr] # <<>> => \A v \in Task : IrqLine \notin held'[v]
  <2>1. todo'[Isr] # <<>> => todo[Isr] # <<>> BY <1>0, <1>1, IsrAssumption DEF Fits, Typed
  <2>3. todo[Isr] # <<>> => \A v \in Task : IrqLine \notin held[v] BY <1>2 DEF Sit, Apart
  <2> QED BY <2>1, <2>3, <1>0
<1>12. t \notin asleep' /\ asleep' \subseteq asleep BY <1>0, <1>2
<1>14. \A l \in g : l \in held[t] \/ l = IrqLine \/ \A v \in Task : l \notin held[v] OBVIOUS
<1>15. \A x \in Bonds(board) : Home(board, x) \in held[t] /\ Home(board, x) \notin g => Bond(board, x, reg, want)
  BY <1>2, <1>5 DEF Closes
<1> HIDE DEF g, s, Q
<1>17. Turns(todo, t, Q, todo') /\ Turns(tmp, t, V, tmp') BY <1>0, <1>1, ExceptTurns DEF Fits, Typed
<1>18. Typed(board, reg, want, todo, tmp, held, asleep) BY <1>1 DEF Fits
<1>19. Quieted(board, reg, want, todo, tmp, held, asleep, F, O, t, g, f2, O[t], Q, todo', V, tmp', held', asleep')
  BY <1>v, <1>2, <1>6, <1>9, <1>10, <1>11, <1>12, <1>14, <1>15, <1>17, <1>18 DEF Quieted
<1>20. Fits(board, reg, want, todo', tmp', held', asleep') BY <1>19, QuietFits
<1> QED BY <1>0, <1>20 DEF BoardInv

\* ... for a test ...
LEMMA InvTest ==
    ASSUME BoardInv, NEW t \in Task, test(t)
    PROVE  BoardInv'
<1> DEFINE s == Head(todo[t])
<1> DEFINE Q == (IF Passes(t) THEN s.body ELSE <<>>) \o Tail(todo[t])
<1> DEFINE V == IF Q = <<>> THEN {} ELSE tmp[t]
<1>0. /\ todo[t] # <<>> /\ s.do = "test"
      /\ todo' = [todo EXCEPT ![t] = Q] /\ tmp' = [tmp EXCEPT ![t] = V]
      /\ UNCHANGED <<board, reg, want, held, asleep>>
  BY DEF test, Doing, Idle, Proceed
<1>v. Q # <<>> => V = tmp[t] OBVIOUS
<1> HIDE DEF V
<1>1. Fits(board, reg, want, todo, tmp, held, asleep) BY DEF BoardInv
<1>2. PICK F, O : /\ Sit(board, reg, want, todo, tmp, held, asleep, F, O)
                  /\ Local(board, F[t], reg, want, tmp[t])
                  /\ t \in asleep => s.do = "await"
                  /\ \E Z : Closed(board, Who(t), Z) /\ Goes(board, Who(t), Z, held[t], F[t], O[t], s, Tail(todo[t]))
  BY <1>0, <1>1, FitsTells
<1>3. PICK Z : Closed(board, Who(t), Z) /\ Goes(board, Who(t), Z, held[t], F[t], O[t], s, Tail(todo[t])) BY <1>2
<1>4. GoesTest(board, Z, held[t], F[t], O[t], s, Tail(todo[t]))
  BY <1>0, <1>3 DEF Goes, GoesAccess, Moves, Accesses, GoesTake, GoesGive, GoesMask, GoesUnmask,
     GoesTry, GoesAwait
<1>5. PICK f1, o1, f2, o2 :
        /\ \A R, W, T : Local(board, F[t], R, W, T) /\ (T \cap s.mask) \in s.in => Local(board, f1, R, W, T)
        /\ \A R, W, T : Local(board, F[t], R, W, T) /\ (T \cap s.mask) \notin s.in => Local(board, f2, R, W, T)
        /\ MarksStay(O[t], o1) /\ MarksStay(O[t], o2)
        /\ <<held[t], f1, o1, s.body \o Tail(todo[t])>> \in Z /\ <<held[t], f2, o2, Tail(todo[t])>> \in Z
  BY <1>4 DEF GoesTest
<1>6. \E f, o : /\ Good(board, Who(t), held[t], f, o, Q) /\ Local(board, f, reg, want, tmp[t])
                /\ O[t] \subseteq o /\ (Turned \in o => Turned \in O[t])
  <2>1. CASE Passes(t)
    <3>1. Q = s.body \o Tail(todo[t]) BY <2>1
    <3>2. Good(board, Who(t), held[t], f1, o1, Q) BY <3>1, <1>3, <1>5, Known
    <3>3. Local(board, f1, reg, want, tmp[t]) BY <2>1, <1>2, <1>5 DEF Passes
    <3> QED BY <3>2, <3>3, <1>5 DEF MarksStay
  <2>2. CASE ~Passes(t)
    <3>0. Program(Tail(todo[t]))
      <4>1. Good(board, Who(t), held[t], f2, o2, Tail(todo[t])) BY <1>3, <1>5, Known
      <4> QED BY <4>1, Whence
    <3>1. Q = Tail(todo[t]) BY <2>2, <3>0, NothingMore
    <3>2. Good(board, Who(t), held[t], f2, o2, Q) BY <3>1, <1>3, <1>5, Known
    <3>3. Local(board, f2, reg, want, tmp[t]) BY <2>2, <1>2, <1>5 DEF Passes
    <3> QED BY <3>2, <3>3, <1>5 DEF MarksStay
  <2> QED BY <2>1, <2>2
<1>7. PICK f, o : /\ Good(board, Who(t), held[t], f, o, Q) /\ Local(board, f, reg, want, tmp[t])
                  /\ O[t] \subseteq o /\ (Turned \in o => Turned \in O[t])
  BY <1>6
<1>10. Turns(held, t, held[t], held') BY <1>0, <1>1 DEF Turns, Fits, Typed
<1>11. todo'[Isr] # <<>> => \A v \in Task : IrqLine \notin held'[v]
  <2>1. todo'[Isr] # <<>> => todo[Isr] # <<>> BY <1>0, <1>1, IsrAssumption DEF Fits, Typed
  <2>3. todo[Isr] # <<>> => \A v \in Task : IrqLine \notin held[v] BY <1>2 DEF Sit, Apart
  <2> QED BY <2>1, <2>3, <1>0
<1>12. t \notin asleep' /\ asleep' \subseteq asleep BY <1>0, <1>2
<1> HIDE DEF s, Q
<1>17. Turns(todo, t, Q, todo') /\ Turns(tmp, t, V, tmp') BY <1>0, <1>1, ExceptTurns DEF Fits, Typed
<1>18. Typed(board, reg, want, todo, tmp, held, asleep) BY <1>1 DEF Fits
<1>19. Quieted(board, reg, want, todo, tmp, held, asleep, F, O, t, held[t], f, o, Q, todo', V, tmp', held', asleep')
  BY <1>v, <1>2, <1>7, <1>10, <1>11, <1>12, <1>17, <1>18 DEF Quieted
<1>20. Fits(board, reg, want, todo', tmp', held', asleep') BY <1>19, QuietFits
<1> QED BY <1>0, <1>20 DEF BoardInv

\* ... for disabling the interrupt ...
LEMMA InvMask ==
    ASSUME BoardInv, NEW t \in Task, disable_irq(t)
    PROVE  BoardInv'
<1> DEFINE s == Head(todo[t])
<1> DEFINE Q == Tail(todo[t])
<1> DEFINE V == IF Q = <<>> THEN {} ELSE tmp[t]
<1>0. /\ todo[t] # <<>> /\ s.do = "mask" /\ todo[Isr] = <<>>
      /\ todo' = [todo EXCEPT ![t] = Q] /\ tmp' = [tmp EXCEPT ![t] = V]
      /\ held' = [held EXCEPT ![t] = held[t] \cup {IrqLine}] /\ UNCHANGED <<board, reg, want, asleep>>
  BY DEF disable_irq, Doing, Idle, Proceed
<1>v. Q # <<>> => V = tmp[t] OBVIOUS
<1> HIDE DEF V
<1>1. Fits(board, reg, want, todo, tmp, held, asleep) BY DEF BoardInv
<1>2. PICK F, O : /\ Sit(board, reg, want, todo, tmp, held, asleep, F, O)
                  /\ Local(board, F[t], reg, want, tmp[t])
                  /\ t \in asleep => s.do = "await"
                  /\ \E Z : Closed(board, Who(t), Z) /\ Goes(board, Who(t), Z, held[t], F[t], O[t], s, Tail(todo[t]))
  BY <1>0, <1>1, FitsTells
<1>3. PICK Z : Closed(board, Who(t), Z) /\ Goes(board, Who(t), Z, held[t], F[t], O[t], s, Tail(todo[t])) BY <1>2
<1>4. GoesMask(Who(t), Z, held[t], F[t], O[t], s, Q)
  BY <1>0, <1>3 DEF Goes, GoesAccess, Moves, Accesses, GoesTake, GoesGive, GoesUnmask, GoesTest,
     GoesTry, GoesAwait
<1>5. held[t] = Empty /\ F[t] = Empty /\ <<Masking, Empty, O[t], Q>> \in Z /\ t # Isr
  BY <1>4 DEF GoesMask, Who
<1>6. Good(board, Who(t), Masking, Empty, O[t], Q) BY <1>3, <1>5, Known
<1>9. Local(board, Empty, reg, want, tmp[t]) BY <1>2, <1>5
<1>10. Turns(held, t, Masking, held')
  <2>1. held[t] \cup {IrqLine} = Masking BY <1>5 DEF Empty, Masking
  <2> QED BY <2>1, <1>0, <1>1, ExceptTurns DEF Fits, Typed
<1>11. todo'[Isr] # <<>> => \A v \in Task : IrqLine \notin held'[v]
  BY <1>0, <1>1, <1>5, IsrAssumption DEF Fits, Typed
<1>12. t \notin asleep' /\ asleep' \subseteq asleep BY <1>0, <1>2
<1>14. \A l \in Masking : l \in held[t] \/ l = IrqLine \/ \A v \in Task : l \notin held[v]
  BY DEF Masking
<1>15. \A x \in Bonds(board) : Home(board, x) \in held[t] /\ Home(board, x) \notin Masking => Bond(board, x, reg, want)
  BY <1>5, Void
<1> HIDE DEF s, Q
<1>17. Turns(todo, t, Q, todo') /\ Turns(tmp, t, V, tmp') BY <1>0, <1>1, ExceptTurns DEF Fits, Typed
<1>18. Typed(board, reg, want, todo, tmp, held, asleep) BY <1>1 DEF Fits
<1>19. Quieted(board, reg, want, todo, tmp, held, asleep, F, O, t, Masking, Empty, O[t], Q, todo', V, tmp', held', asleep')
  BY <1>v, <1>2, <1>6, <1>9, <1>10, <1>11, <1>12, <1>14, <1>15, <1>17, <1>18 DEF Quieted
<1>20. Fits(board, reg, want, todo', tmp', held', asleep') BY <1>19, QuietFits
<1> QED BY <1>0, <1>20 DEF BoardInv

\* ... for enabling it again ...
LEMMA InvUnmask ==
    ASSUME BoardInv, NEW t \in Task, enable_irq(t)
    PROVE  BoardInv'
<1> DEFINE s == Head(todo[t])
<1> DEFINE Q == Tail(todo[t])
<1> DEFINE V == IF Q = <<>> THEN {} ELSE tmp[t]
<1>0. /\ todo[t] # <<>> /\ s.do = "unmask"
      /\ todo' = [todo EXCEPT ![t] = Q] /\ tmp' = [tmp EXCEPT ![t] = V]
      /\ held' = [held EXCEPT ![t] = held[t] \ {IrqLine}] /\ UNCHANGED <<board, reg, want, asleep>>
  BY DEF enable_irq, Doing, Idle, Proceed
<1>v. Q # <<>> => V = tmp[t] OBVIOUS
<1> HIDE DEF V
<1>1. Fits(board, reg, want, todo, tmp, held, asleep) BY DEF BoardInv
<1>2. PICK F, O : /\ Sit(board, reg, want, todo, tmp, held, asleep, F, O)
                  /\ Local(board, F[t], reg, want, tmp[t])
                  /\ t \in asleep => s.do = "await"
                  /\ \E Z : Closed(board, Who(t), Z) /\ Goes(board, Who(t), Z, held[t], F[t], O[t], s, Tail(todo[t]))
  BY <1>0, <1>1, FitsTells
<1>3. PICK Z : Closed(board, Who(t), Z) /\ Goes(board, Who(t), Z, held[t], F[t], O[t], s, Tail(todo[t])) BY <1>2
<1>4. GoesUnmask(Who(t), Z, held[t], F[t], O[t], s, Q)
  BY <1>0, <1>3 DEF Goes, GoesAccess, Moves, Accesses, GoesTake, GoesGive, GoesMask, GoesTest,
     GoesTry, GoesAwait
<1>5. held[t] = Masking /\ F[t] = Empty /\ <<Empty, Empty, O[t], Q>> \in Z /\ t # Isr
  BY <1>4 DEF GoesUnmask, Who
<1>6. Good(board, Who(t), Empty, Empty, O[t], Q) BY <1>3, <1>5, Known
<1>9. Local(board, Empty, reg, want, tmp[t]) BY <1>2, <1>5
<1>10. Turns(held, t, Empty, held')
  <2>1. held[t] \ {IrqLine} = Empty BY <1>5 DEF Empty, Masking
  <2> QED BY <2>1, <1>0, <1>1, ExceptTurns DEF Fits, Typed
<1>11. todo'[Isr] # <<>> => \A v \in Task : IrqLine \notin held'[v]
  <2>1. todo'[Isr] # <<>> => todo[Isr] # <<>> BY <1>0, <1>1, IsrAssumption DEF Fits, Typed
  <2>3. todo[Isr] # <<>> => \A v \in Task : IrqLine \notin held[v] BY <1>2 DEF Sit, Apart
  <2> QED BY <2>1, <2>3, <1>10, Void DEF Turns
<1>12. t \notin asleep' /\ asleep' \subseteq asleep BY <1>0, <1>2
<1>15. \A x \in Bonds(board) : Home(board, x) \in held[t] /\ Home(board, x) \notin Empty => Bond(board, x, reg, want)
  BY <1>5, Locks DEF Masking
<1> HIDE DEF s, Q
<1>17. Turns(todo, t, Q, todo') /\ Turns(tmp, t, V, tmp') BY <1>0, <1>1, ExceptTurns DEF Fits, Typed
<1>18. Typed(board, reg, want, todo, tmp, held, asleep) BY <1>1 DEF Fits
<1>19. Quieted(board, reg, want, todo, tmp, held, asleep, F, O, t, Empty, Empty, O[t], Q, todo', V, tmp', held', asleep')
  BY <1>v, <1>2, <1>6, <1>9, <1>10, <1>11, <1>12, <1>15, Void, <1>17, <1>18 DEF Quieted
<1>20. Fits(board, reg, want, todo', tmp', held', asleep') BY <1>19, QuietFits
<1> QED BY <1>0, <1>20 DEF BoardInv

\* ... and for a handler that tries for a lock.
LEMMA InvTry ==
    ASSUME BoardInv, NEW t \in Task, try_lock(t)
    PROVE  BoardInv'
<1> DEFINE s == Head(todo[t])
<1> DEFINE free == Holders(s.lock) = {}
<1> DEFINE Q == (IF free THEN s.body ELSE <<>>) \o Tail(todo[t])
<1> DEFINE V == IF Q = <<>> THEN {} ELSE tmp[t]
<1> DEFINE g == IF free THEN held[t] \cup {s.lock} ELSE held[t]
<1>0. /\ todo[t] # <<>> /\ s.do = "try"
      /\ todo' = [todo EXCEPT ![t] = Q] /\ tmp' = [tmp EXCEPT ![t] = V]
      /\ held' = (IF free THEN [held EXCEPT ![t] = held[t] \cup {s.lock}] ELSE held)
      /\ UNCHANGED <<board, reg, want, asleep>>
  BY DEF try_lock, Doing, Idle, Proceed
<1>v. Q # <<>> => V = tmp[t] OBVIOUS
<1> HIDE DEF V
<1>1. Fits(board, reg, want, todo, tmp, held, asleep) BY DEF BoardInv
<1>2. PICK F, O : /\ Sit(board, reg, want, todo, tmp, held, asleep, F, O)
                  /\ Local(board, F[t], reg, want, tmp[t])
                  /\ t \in asleep => s.do = "await"
                  /\ \E Z : Closed(board, Who(t), Z) /\ Goes(board, Who(t), Z, held[t], F[t], O[t], s, Tail(todo[t]))
  BY <1>0, <1>1, FitsTells
<1>3. PICK Z : Closed(board, Who(t), Z) /\ Goes(board, Who(t), Z, held[t], F[t], O[t], s, Tail(todo[t])) BY <1>2
<1>4. GoesTry(board, Z, held[t], F[t], O[t], s, Tail(todo[t]))
  BY <1>0, <1>3 DEF Goes, GoesAccess, Moves, Accesses, GoesTake, GoesGive, GoesMask, GoesUnmask,
     GoesTest, GoesAwait
<1>5. PICK f1, f2 :
        /\ Opens(board, F[t], s.lock, f1) /\ Entails(board, F[t], f2) /\ s.lock # IrqLine
        /\ <<held[t] \cup {s.lock}, f1, O[t], s.body \o Tail(todo[t])>> \in Z
        /\ <<held[t], f2, O[t], Tail(todo[t])>> \in Z
  BY <1>4 DEF GoesTry
<1>6. \E f : Good(board, Who(t), g, f, O[t], Q) /\ Local(board, f, reg, want, tmp[t])
  <2>1. CASE free
    <3>1. Q = s.body \o Tail(todo[t]) /\ g = held[t] \cup {s.lock} BY <2>1
    <3>2. Good(board, Who(t), g, f1, O[t], Q) BY <3>1, <1>3, <1>5, Known
    <3>3. \A v \in Task : s.lock \notin held[v] BY <2>1 DEF Holders
    <3>4. \A x \in Bonds(board) : Home(board, x) = s.lock => Bond(board, x, reg, want)
      BY <1>2, <3>3 DEF Sit, Bonded
    <3>5. Local(board, f1, reg, want, tmp[t]) BY <3>4, <1>2, <1>5 DEF Opens
    <3> QED BY <3>2, <3>5
  <2>2. CASE ~free
    <3>0. Program(Tail(todo[t]))
      <4>1. Good(board, Who(t), held[t], f2, O[t], Tail(todo[t])) BY <1>3, <1>5, Known
      <4> QED BY <4>1, Whence
    <3>1. Q = Tail(todo[t]) /\ g = held[t] BY <2>2, <3>0, NothingMore
    <3>2. Good(board, Who(t), g, f2, O[t], Q) BY <3>1, <1>3, <1>5, Known
    <3>3. Local(board, f2, reg, want, tmp[t]) BY <1>2, <1>5 DEF Entails
    <3> QED BY <3>2, <3>3
  <2> QED BY <2>1, <2>2
<1>7. PICK f : Good(board, Who(t), g, f, O[t], Q) /\ Local(board, f, reg, want, tmp[t]) BY <1>6
<1>10. Turns(held, t, g, held')
  <2>1. CASE free BY <2>1, <1>0, <1>1, ExceptTurns DEF Fits, Typed
  <2>2. CASE ~free BY <2>2, <1>0, <1>1 DEF Fits, Typed, Turns
  <2> QED BY <2>1, <2>2
<1>11. todo'[Isr] # <<>> => \A v \in Task : IrqLine \notin held'[v]
  <2>1. todo'[Isr] # <<>> => todo[Isr] # <<>> BY <1>0, <1>1, IsrAssumption DEF Fits, Typed
  <2>3. todo[Isr] # <<>> => \A v \in Task : IrqLine \notin held[v] BY <1>2 DEF Sit, Apart
  <2>4. \A v \in Task : held'[v] \subseteq held[v] \cup {s.lock} BY <1>10 DEF Turns
  <2> QED BY <2>1, <2>3, <2>4, <1>5
<1>12. t \notin asleep' /\ asleep' \subseteq asleep BY <1>0, <1>2
<1>14. \A l \in g : l \in held[t] \/ l = IrqLine \/ \A v \in Task : l \notin held[v] BY DEF Holders
<1>15. \A x \in Bonds(board) : Home(board, x) \in held[t] /\ Home(board, x) \notin g => Bond(board, x, reg, want)
  OBVIOUS
<1> HIDE DEF g, s, Q, free
<1>17. Turns(todo, t, Q, todo') /\ Turns(tmp, t, V, tmp') BY <1>0, <1>1, ExceptTurns DEF Fits, Typed
<1>18. Typed(board, reg, want, todo, tmp, held, asleep) BY <1>1 DEF Fits
<1>19. Quieted(board, reg, want, todo, tmp, held, asleep, F, O, t, g, f, O[t], Q, todo', V, tmp', held', asleep')
  BY <1>v, <1>2, <1>7, <1>10, <1>11, <1>12, <1>14, <1>15, <1>17, <1>18 DEF Quieted
<1>20. Fits(board, reg, want, todo', tmp', held', asleep') BY <1>19, QuietFits
<1> QED BY <1>0, <1>20 DEF BoardInv

\* A wait is over, by what was waited for or by a time-out.
LEMMA InvGoOn ==
    ASSUME BoardInv, NEW t \in Task, Doing(t, "await"), NEW Q, Q \in {Tail(todo[t]), Head(todo[t]).late},
           Proceed(t, Q), asleep' = asleep \ {t}, UNCHANGED <<board, reg, want, held>>
    PROVE  BoardInv'
<1> DEFINE s == Head(todo[t])
<1> DEFINE V == IF Q = <<>> THEN {} ELSE tmp[t]
<1>0. /\ todo[t] # <<>> /\ s.do = "await"
      /\ todo' = [todo EXCEPT ![t] = Q] /\ tmp' = [tmp EXCEPT ![t] = V]
  BY DEF Doing, Idle, Proceed
<1>v. Q # <<>> => V = tmp[t] OBVIOUS
<1> HIDE DEF V
<1>1. Fits(board, reg, want, todo, tmp, held, asleep) BY DEF BoardInv
<1>2. PICK F, O : Sit(board, reg, want, todo, tmp, held, asleep, F, O) BY <1>1 DEF Fits
<1>3. Good(board, Who(t), held[t], F[t], O[t], todo[t]) /\ Local(board, F[t], reg, want, tmp[t])
  BY <1>2, Awake
<1>4. /\ held[t] = Empty /\ F[t] = Empty /\ O[t] = Empty
      /\ Good(board, Who(t), Empty, Empty, Empty, Tail(todo[t])) /\ Good(board, Who(t), Empty, Empty, Empty, s.late)
  BY <1>0, <1>3, WaitsFor
<1>6. Good(board, Who(t), Empty, Empty, Empty, Q) BY <1>4
<1>9. Local(board, Empty, reg, want, tmp[t]) BY <1>3, <1>4
<1>10. Turns(held, t, Empty, held') BY <1>1, <1>4 DEF Turns, Fits, Typed
<1>11. todo'[Isr] # <<>> => \A v \in Task : IrqLine \notin held'[v]
  <2>1. todo'[Isr] # <<>> => todo[Isr] # <<>> BY <1>0, <1>1, IsrAssumption DEF Fits, Typed
  <2>3. todo[Isr] # <<>> => \A v \in Task : IrqLine \notin held[v] BY <1>2 DEF Sit, Apart
  <2> QED BY <2>1, <2>3
<1>12. t \notin asleep' /\ asleep' \subseteq asleep OBVIOUS
<1>15. \A x \in Bonds(board) : Home(board, x) \in held[t] /\ Home(board, x) \notin Empty => Bond(board, x, reg, want)
  BY <1>4
<1>16. O[t] \subseteq Empty /\ (Turned \in Empty => Turned \in O[t]) BY <1>4
<1> HIDE DEF s
<1>17. Turns(todo, t, Q, todo') /\ Turns(tmp, t, V, tmp') BY <1>0, <1>1, ExceptTurns DEF Fits, Typed
<1>18. Typed(board, reg, want, todo, tmp, held, asleep) BY <1>1 DEF Fits
<1>19. Quieted(board, reg, want, todo, tmp, held, asleep, F, O, t, Empty, Empty, Empty, Q, todo', V, tmp', held', asleep')
  BY <1>v, <1>2, <1>6, <1>9, <1>10, <1>11, <1>12, <1>15, <1>16, Void, <1>17, <1>18 DEF Quieted
<1>20. Fits(board, reg, want, todo', tmp', held', asleep') BY <1>19, QuietFits
<1> QED BY <1>0, <1>20 DEF BoardInv

\* A task that begins to wait, is woken up or leaves keeps the invariant.
LEMMA InvAwait ==
    ASSUME BoardInv, NEW t \in Task, wait_event(t) \/ leave(t)
    PROVE  BoardInv'
<1>1. CASE leave(t)
  <2>1. Doing(t, "await") /\ Proceed(t, Head(todo[t]).late) /\ asleep' = asleep \ {t}
    BY <1>1 DEF leave
  <2>2. UNCHANGED <<board, reg, want, held>> BY <1>1 DEF leave
  <2> QED BY <2>1, <2>2, InvGoOn
<1>2. CASE wait_event(t) /\ Come(t)
  <2>1. Doing(t, "await") /\ Proceed(t, Tail(todo[t])) /\ asleep' = asleep \ {t}
    BY <1>2 DEF wait_event
  <2>2. UNCHANGED <<board, reg, want, held>> BY <1>2 DEF wait_event
  <2> QED BY <2>1, <2>2, InvGoOn
<1>3. CASE wait_event(t) /\ ~Come(t)
  <2>1. /\ todo[t] # <<>> /\ Head(todo[t]).do = "await" /\ asleep' = asleep \cup {t}
        /\ UNCHANGED <<board, reg, want, todo, tmp, held>>
    BY <1>3 DEF wait_event, Doing, Idle
  <2>2. ~Comes(Head(todo[t]), reg, tmp[t]) BY <1>3 DEF Come, Comes
  <2>3. Fits(board, reg, want, todo, tmp, held, asleep) BY DEF BoardInv
  <2>4. PICK F, O : Sit(board, reg, want, todo, tmp, held, asleep, F, O) BY <2>3 DEF Fits
  <2>5. Sit(board, reg, want, todo, tmp, held, asleep \cup {t}, F, O) BY <2>1, <2>2, <2>4, SleepStep
  <2>6. Fits(board, reg, want, todo, tmp, held, asleep \cup {t}) BY <2>3, <2>5 DEF Fits, Typed
  <2> QED BY <2>1, <2>6 DEF BoardInv
<1> QED BY <1>1, <1>2, <1>3

\* Every step of every task keeps the invariant.
LEMMA InvStep ==
    ASSUME BoardInv, NEW t \in Task, Step(t)
    PROVE  BoardInv'
BY InvTake, InvGive, InvLook, InvStore, InvPut, InvTest, InvMode, InvRestore, InvBump, InvMask,
   InvUnmask,
   InvTry, InvAwait, InvWake DEF Step

-----------------------------------------------------------------------------
(* Methods are called, and the handler runs.                               *)

Harmless(b, P) == P \in {Refused, <<>>} \/ Good(b, "task", Empty, Empty, Empty, P)

\* A method is called: the invariant is kept when its program is harmless.
LEMMA InvCall ==
    ASSUME BoardInv, NEW t \in Task, NEW Q, Call(t, Q), Harmless(board, Q)
    PROVE  BoardInv'
<1> DEFINE V == tmp[t]
<1>0. /\ todo[t] = <<>> /\ t # Isr /\ Q \notin {Refused, <<>>}
      /\ todo' = [todo EXCEPT ![t] = Q] /\ UNCHANGED <<board, reg, want, tmp, held, asleep>>
  BY DEF Call, Idle
<1>1. Fits(board, reg, want, todo, tmp, held, asleep) BY DEF BoardInv
<1>2. PICK F, O : /\ Sit(board, reg, want, todo, tmp, held, asleep, F, O)
                  /\ Local(board, F[t], reg, want, tmp[t])
                  /\ t \in asleep => todo[t] # <<>>
                  /\ held[t] = Empty /\ F[t] = Empty /\ O[t] = Empty
  BY <1>0, <1>1, FitsTells
<1>6. Good(board, Who(t), Empty, Empty, Empty, Q) BY <1>0 DEF Harmless, Who
<1>9. Local(board, Empty, reg, want, tmp[t]) BY <1>2
<1>10. Turns(held, t, Empty, held') BY <1>0, <1>1, <1>2 DEF Turns, Fits, Typed
<1>11. todo'[Isr] # <<>> => \A v \in Task : IrqLine \notin held'[v]
  <2>1. todo'[Isr] # <<>> => todo[Isr] # <<>> BY <1>0, <1>1, IsrAssumption DEF Fits, Typed
  <2>3. todo[Isr] # <<>> => \A v \in Task : IrqLine \notin held[v] BY <1>2 DEF Sit, Apart
  <2> QED BY <2>1, <2>3, <1>0
<1>12. t \notin asleep' /\ asleep' \subseteq asleep BY <1>0, <1>2
<1>15. \A x \in Bonds(board) : Home(board, x) \in held[t] /\ Home(board, x) \notin Empty => Bond(board, x, reg, want)
  BY <1>2
<1>16. O[t] \subseteq Empty /\ (Turned \in Empty => Turned \in O[t]) BY <1>2
<1>17. Turns(todo, t, Q, todo') /\ Turns(tmp, t, V, tmp')
  BY <1>0, <1>1, ExceptTurns DEF Fits, Typed, Turns
<1>18. Typed(board, reg, want, todo, tmp, held, asleep) BY <1>1 DEF Fits
<1>v. Q # <<>> => V = tmp[t] OBVIOUS
<1> HIDE DEF V
<1>19. Quieted(board, reg, want, todo, tmp, held, asleep, F, O, t, Empty, Empty, Empty, Q, todo', V, tmp', held', asleep')
  BY <1>v, <1>2, <1>6, <1>9, <1>10, <1>11, <1>12, <1>15, <1>16, Void, <1>17, <1>18 DEF Quieted
<1>20. Fits(board, reg, want, todo', tmp', held', asleep') BY <1>19, QuietFits
<1> QED BY <1>0, <1>20 DEF BoardInv

\* What a handler finds: room for one more interrupt, and a line that was
\* started.
Room1(i)  == {Room(i)}
Status1(i) == {Room(i), Is(Status(i), Statuses, Run)}
Found(b, i) == IF Guarded(b, i) THEN Status1(i) ELSE Room1(i)

\* The handler runs: the invariant is kept when its program is good.
LEMMA InvInterrupt ==
    ASSUME BoardInv, NEW Q, Interrupt(Q), NEW i, Good(board, "isr", Empty, Found(board, i), Empty, Q),
           Local(board, Found(board, i), reg, want, tmp[Isr])
    PROVE  BoardInv'
<1> DEFINE t == Isr
<1> DEFINE V == tmp[t]
<1>t. t \in Task BY IsrAssumption
<1>0. /\ todo[t] = <<>> /\ Holders(IrqLine) = {}
      /\ todo' = [todo EXCEPT ![t] = Q] /\ UNCHANGED <<board, reg, want, tmp, held, asleep>>
  BY DEF Interrupt, Idle
<1>1. Fits(board, reg, want, todo, tmp, held, asleep) BY DEF BoardInv
<1>2. PICK F, O : /\ Sit(board, reg, want, todo, tmp, held, asleep, F, O)
                  /\ t \in asleep => todo[t] # <<>>
                  /\ held[t] = Empty /\ F[t] = Empty /\ O[t] = Empty
  BY <1>0, <1>1, <1>t, FitsTells
<1>6. Good(board, Who(t), Empty, Found(board, i), Empty, Q) BY <1>0 DEF Who
<1>10. Turns(held, t, Empty, held') BY <1>0, <1>1, <1>2 DEF Turns, Fits, Typed
<1>11. todo'[Isr] # <<>> => \A v \in Task : IrqLine \notin held'[v] BY <1>0 DEF Holders
<1>12. t \notin asleep' /\ asleep' \subseteq asleep BY <1>0, <1>2
<1>15. \A x \in Bonds(board) : Home(board, x) \in held[t] /\ Home(board, x) \notin Empty => Bond(board, x, reg, want)
  BY <1>2
<1>16. O[t] \subseteq Empty /\ (Turned \in Empty => Turned \in O[t]) BY <1>2
<1>17. Turns(todo, t, Q, todo') /\ Turns(tmp, t, V, tmp')
  BY <1>0, <1>1, <1>t, ExceptTurns DEF Fits, Typed, Turns
<1>18. Typed(board, reg, want, todo, tmp, held, asleep) BY <1>1 DEF Fits
<1>v. Q # <<>> => V = tmp[t] OBVIOUS
<1> HIDE DEF V
<1>19. Quieted(board, reg, want, todo, tmp, held, asleep, F, O, t, Empty, Found(board, i), Empty, Q, todo', V, tmp',
               held', asleep')
  BY <1>t, <1>v, <1>2, <1>6, <1>10, <1>11, <1>12, <1>15, <1>16, Void, <1>17, <1>18 DEF Quieted
<1>20. Fits(board, reg, want, todo', tmp', held', asleep') BY <1>19, QuietFits
<1> QED BY <1>0, <1>20 DEF BoardInv

-----------------------------------------------------------------------------
(* Rules for the accesses.                                                 *)

\* A write to one register.
NewOf(s, v, T) == CASE s.do = "store" -> (T \ s.clear) \cup Level(s.reg, s.clear, s.set)
                    [] s.do = "put"   -> Level(s.reg, s.clear, s.set)
                    [] OTHER          -> Next1(v)
NewAsked(s, w) == IF s.do = "bump" THEN Next1(w) ELSE (w \ s.clear) \cup s.set

WriteEffect(b, s, R, W, T, R2, W2) ==
    Changes(b, s.reg, R, R2, NewOf(s, R[s.reg], T)) /\ Changes(b, s.reg, W, W2, NewAsked(s, W[s.reg]))

\* What a write must not do.
Sound(b, u, h, f, s) ==
    \A R, W, T : Local(b, f, R, W, T) =>
      /\ FineAt(b, s.reg, NewOf(s, R[s.reg], T), NewAsked(s, W[s.reg]))
      /\ \A i \in Numbers : Shared(b, s.reg) /\ Lock(i) \notin h
           => NewOf(s, R[s.reg], T) \cap Mine(i) = R[s.reg] \cap Mine(i)

\* Waiters it may concern are going to be woken.
Calm(b, s, o) ==
    \A i \in Numbers :
      /\ s.reg \in {Count(i), Resets(i)} => Silent(b, i) \/ \E m : Owed(i, m) \in o
      /\ s.reg = Rised(i) => s.set = {} \/ Silent(b, i) \/ \E m : Owed(i, m) \in o

Leads(b, f, s, f2) ==
    \A R, W, T, R2, W2 : Local(b, f, R, W, T) /\ WriteEffect(b, s, R, W, T, R2, W2)
      => \A k \in f2 : Holds(b, k, R2, W2, T)

WriteOk(b, u, h, f, o, s, f2, o2) ==
    /\ s.do \in {"store", "put", "bump"}
    /\ s.do # "put" => \A i : s.reg # Rised(i)
    /\ s.reg \in Registers(b) /\ MayWrite(b, u, h, s.reg) /\ (b = "me1400cd" => s.reg # MyClock)
    /\ Fit(b, u, h, f, o) /\ Aimed(b, f, s) /\ Sound(b, u, h, f, s) /\ Calm(b, s, o2) /\ Leads(b, f, s, f2)
    /\ o \subseteq o2 /\ Turned \notin o2

\* A write that is allowed, and keeps what others rely on, does its work.
LEMMA DoesWrite ==
    ASSUME NEW b, NEW u, NEW h, NEW f, NEW o, NEW s, NEW f2, NEW o2, WriteOk(b, u, h, f, o, s, f2, o2)
    PROVE  Does(b, u, h, f, o, <<s>>, h, f2, o2)
<1>0. /\ s.do \in {"store", "put", "bump"}
      /\ s.do # "put" => \A i : s.reg # Rised(i)
      /\ s.reg \in Registers(b) /\ MayWrite(b, u, h, s.reg) /\ (b = "me1400cd" => s.reg # MyClock)
      /\ Fit(b, u, h, f, o) /\ Aimed(b, f, s) /\ Sound(b, u, h, f, s) /\ Calm(b, s, o2) /\ Leads(b, f, s, f2)
      /\ o \subseteq o2 /\ Turned \notin o2
  BY DEF WriteOk
<1>1. s.do \in Accesses BY <1>0 DEF Accesses
<1>2. Named(b, s) BY <1>0 DEF Named
<1>3. ASSUME NEW R, NEW W, NEW T, NEW R2, NEW W2, NEW T2,
             Local(b, f, R, W, T), Effect(b, s, R, W, T, R2, W2, T2)
      PROVE  /\ Local(b, f2, R2, W2, T2) /\ Polite(b, u, h, R, W, R2, W2)
             /\ Notes(b, u, h, f, o, s, o2, R, W, T, R2, W2, T2)
  <2>1. T2 = T /\ WriteEffect(b, s, R, W, T, R2, W2)
    BY <1>0, <1>3 DEF Effect, WriteEffect, NewOf, NewAsked
  <2>2. /\ R2[s.reg] = NewOf(s, R[s.reg], T) /\ W2[s.reg] = NewAsked(s, W[s.reg])
        /\ \A q \in Registers(b) : q # s.reg => R2[q] = R[q] /\ W2[q] = W[q]
    BY <2>1 DEF WriteEffect, Changes
  <2>3. /\ FineAt(b, s.reg, R2[s.reg], W2[s.reg])
        /\ \A i \in Numbers : Shared(b, s.reg) /\ Lock(i) \notin h => R2[s.reg] \cap Mine(i) = R[s.reg] \cap Mine(i)
    BY <1>0, <1>3, <2>2 DEF Sound
  <2>4. Fine(b, R2, W2) BY <1>3, <2>2, <2>3 DEF Fine, Local
  <2>5. \A k \in f2 : Holds(b, k, R2, W2, T) BY <1>0, <1>3, <2>1 DEF Leads
  <2>6. Polite(b, u, h, R, W, R2, W2) BY <1>0, <2>2, <2>3 DEF Polite
  <2>7. ASSUME NEW i \in Numbers, Stirs(b, i, R, R2)
        PROVE  Silent(b, i) \/ \E m : Owed(i, m) \in o2
    <3>1. CASE Count(i) \in Registers(b) /\ R2[Count(i)] # R[Count(i)]
      <4>1. s.reg = Count(i) BY <1>0, <3>1, <2>2
      <4> QED BY <1>0, <4>1 DEF Calm
    <3>2. CASE Resets(i) \in Registers(b) /\ R2[Resets(i)] # R[Resets(i)]
      <4>1. s.reg = Resets(i) BY <1>0, <3>2, <2>2
      <4> QED BY <1>0, <4>1 DEF Calm
    <3>3. CASE Rised(i) \in Registers(b) /\ ~(R2[Rised(i)] \subseteq R[Rised(i)])
      <4>1. s.reg = Rised(i) BY <1>0, <3>3, <2>2
      <4>2. s.do = "put" BY <1>0, <4>1
      <4>3. R2[Rised(i)] = s.set BY <4>1, <4>2, <2>2 DEF NewOf, Level, ActiveLow, Rised
      <4>4. s.set # {} BY <4>3, <3>3
      <4> QED BY <1>0, <4>1, <4>4 DEF Calm
    <3> QED BY <2>7, <3>1, <3>2, <3>3 DEF Stirs
  <2>8. b = "me1400cd" => R2[MyClock] = R[MyClock]
    BY <1>0, <2>2 DEF MyClock, LineClock, Clock, Registers, ClkReg
  <2>9. Notes(b, u, h, f, o, s, o2, R, W, T, R2, W2, T2)
    BY <1>0, <2>7, <2>8 DEF Notes
  <2> QED BY <2>1, <2>4, <2>5, <2>6, <2>9 DEF Local
<1>4. Moves(b, u, h, f, o, s, f2, o2) BY <1>0, <1>1, <1>2, <1>3 DEF Moves
<1> QED BY <1>0, <1>4, DoesAccess

\* Steps that only look.
Seen(s, R, T) == CASE s.do = "load"  -> R[s.reg]
                   [] s.do = "also"  -> T \cup R[s.reg]
                   [] s.do = "given" -> s.value
                   [] OTHER          -> T
Shows(b, f, s, f2) == \A R, W, T : Local(b, f, R, W, T) => \A k \in f2 : Holds(b, k, R, W, Seen(s, R, T))

LookOk(b, u, h, f, o, s, f2) ==
    /\ s.do \in {"load", "also", "given", "read"}
    /\ s.do \in {"load", "also"} => s.reg \in Registers(b)
    /\ Fit(b, u, h, f, o) /\ Turned \notin o /\ Shows(b, f, s, f2)

\* A look at a register that leads to facts which last does its work.
LEMMA DoesLook ==
    ASSUME NEW b, NEW u, NEW h, NEW f, NEW o, NEW s, NEW f2, LookOk(b, u, h, f, o, s, f2)
    PROVE  Does(b, u, h, f, o, <<s>>, h, f2, o)
<1>0. /\ s.do \in {"load", "also", "given", "read"}
      /\ s.do \in {"load", "also"} => s.reg \in Registers(b)
      /\ Fit(b, u, h, f, o) /\ Turned \notin o /\ Shows(b, f, s, f2)
  BY DEF LookOk
<1>2. ASSUME NEW R, NEW W, NEW T, NEW R2, NEW W2, NEW T2,
             Local(b, f, R, W, T), Effect(b, s, R, W, T, R2, W2, T2)
      PROVE  /\ Local(b, f2, R2, W2, T2) /\ Polite(b, u, h, R, W, R2, W2)
             /\ Notes(b, u, h, f, o, s, o, R, W, T, R2, W2, T2)
  <2>1. R2 = R /\ W2 = W /\ T2 = Seen(s, R, T) BY <1>0, <1>2 DEF Effect, Seen
  <2>2. \A k \in f2 : Holds(b, k, R2, W2, T2) BY <1>0, <1>2, <2>1 DEF Shows
  <2>3. Local(b, f2, R2, W2, T2) BY <1>2, <2>1, <2>2 DEF Local
  <2>4. Polite(b, u, h, R, W, R2, W2) BY <2>1 DEF Polite
  <2>5. Notes(b, u, h, f, o, s, o, R, W, T, R2, W2, T2) BY <1>0, <2>1 DEF Notes, Stirs
  <2> QED BY <2>3, <2>4, <2>5
<1>3. Aimed(b, f, s) BY <1>0 DEF Aimed
<1>4. Moves(b, u, h, f, o, s, f2, o) BY <1>0, <1>2 DEF Moves, Accesses, Named
<1> QED BY <1>0, <1>3, <1>4, DoesAccess

\* A read for the caller leaves facts and notes alone.
LEMMA DoesRead ==
    ASSUME NEW b, NEW u, NEW h, NEW f, NEW o, NEW r, NEW pins, Fit(b, u, h, f, o), Turned \notin o
    PROVE  Does(b, u, h, f, o, Read(r, pins), h, f, o)
<1> DEFINE s == [do |-> "read", reg |-> r, pins |-> pins]
<1>1. s.do = "read" OBVIOUS
<1> HIDE DEF s
<1>2. Shows(b, f, s, f) BY <1>1 DEF Shows, Seen, Local
<1>4. LookOk(b, u, h, f, o, s, f) BY <1>1, <1>2 DEF LookOk
<1>3. Does(b, u, h, f, o, <<s>>, h, f, o) BY <1>4, DoesLook
<1> QED BY <1>3 DEF Read, s

\* A load leads from what is known of the register to facts about the value loaded.
LEMMA DoesLoad ==
    ASSUME NEW b, NEW u, NEW h, NEW f, NEW o, NEW r, NEW f2, r \in Registers(b),
           Fit(b, u, h, f, o), Turned \notin o,
           \A R, W, T : Local(b, f, R, W, T) => \A k \in f2 : Holds(b, k, R, W, R[r])
    PROVE  Does(b, u, h, f, o, Load(r), h, f2, o)
<1> DEFINE s == [do |-> "load", reg |-> r]
<1>1. s.do = "load" /\ s.reg = r OBVIOUS
<1> HIDE DEF s
<1>2. Shows(b, f, s, f2) BY <1>1 DEF Shows, Seen
<1>4. LookOk(b, u, h, f, o, s, f2) BY <1>1, <1>2 DEF LookOk
<1>3. Does(b, u, h, f, o, <<s>>, h, f2, o) BY <1>4, DoesLook
<1> QED BY <1>3 DEF Load, s

\* A value nothing is to be known of.
LEMMA DoesGlance ==
    ASSUME NEW b, NEW u, NEW h, NEW f, NEW o, NEW r, r \in Registers(b), Fit(b, u, h, f, o), Turned \notin o
    PROVE  Does(b, u, h, f, o, Load(r), h, Empty, o)
<1>1. \A R, W, T : Local(b, f, R, W, T) => \A k \in Empty : Holds(b, k, R, W, R[r]) BY Void
<1> QED BY <1>1, DoesLoad

\* The same for a load of a second register ...
LEMMA DoesLoadAlso ==
    ASSUME NEW b, NEW u, NEW h, NEW f, NEW o, NEW r, r \in Registers(b), Fit(b, u, h, f, o), Turned \notin o
    PROVE  Does(b, u, h, f, o, LoadAlso(r), h, Empty, o)
<1> DEFINE s == [do |-> "also", reg |-> r]
<1>1. s.do = "also" /\ s.reg = r OBVIOUS
<1> HIDE DEF s
<1>2. Shows(b, f, s, Empty) BY Void DEF Shows
<1>4. LookOk(b, u, h, f, o, s, Empty) BY <1>1, <1>2 DEF LookOk
<1>3. Does(b, u, h, f, o, <<s>>, h, Empty, o) BY <1>4, DoesLook
<1> QED BY <1>3 DEF LoadAlso, s

\* ... and for a value the caller gives.
LEMMA DoesGiven ==
    ASSUME NEW b, NEW u, NEW h, NEW f, NEW o, NEW v, Fit(b, u, h, f, o), Turned \notin o
    PROVE  Does(b, u, h, f, o, Given(v), h, Empty, o)
<1> DEFINE s == [do |-> "given", value |-> v]
<1>1. s.do = "given" OBVIOUS
<1> HIDE DEF s
<1>2. Shows(b, f, s, Empty) BY Void DEF Shows
<1>4. LookOk(b, u, h, f, o, s, Empty) BY <1>1, <1>2 DEF LookOk
<1>3. Does(b, u, h, f, o, <<s>>, h, Empty, o) BY <1>4, DoesLook
<1> QED BY <1>3 DEF Given, s

\* A wake-up that was owed.
LEMMA DoesWake ==
    ASSUME NEW b, NEW u, NEW h, NEW f, NEW o, NEW i, NEW m, NEW o2, Fit(b, u, h, f, o),
           \A j, n : Owed(j, n) \in o => Owed(j, n) \in o2 \/ (j = i /\ n = m),
           Turned \notin o2, Window \notin o
    PROVE  Does(b, u, h, f, o, WakeIf(Queue(i), Status(i), m), h, f, o2)
<1> DEFINE s == Waking(i, m)
<1>1. s.do = "wake" BY DEF Waking
<1>0. s = Waking(i, m) OBVIOUS
<1> HIDE DEF s
<1>2. ASSUME NEW R, NEW W, NEW T, NEW R2, NEW W2, NEW T2,
             Local(b, f, R, W, T), Effect(b, s, R, W, T, R2, W2, T2)
      PROVE  /\ Local(b, f, R2, W2, T2) /\ Polite(b, u, h, R, W, R2, W2)
             /\ Notes(b, u, h, f, o, s, o2, R, W, T, R2, W2, T2)
  <2>1. R2 = R /\ W2 = W /\ T2 = T BY <1>1, <1>2 DEF Effect
  <2>3. Local(b, f, R2, W2, T2) BY <1>2, <2>1
  <2>4. Polite(b, u, h, R, W, R2, W2) BY <2>1 DEF Polite
  <2>5. Notes(b, u, h, f, o, s, o2, R, W, T, R2, W2, T2) BY <2>1 DEF Notes, Stirs
  <2> QED BY <2>3, <2>4, <2>5
<1>3. Aimed(b, f, s) BY <1>1 DEF Aimed
<1>5. \A j, n : Owed(j, n) \in o => Owed(j, n) \in o2 \/ s = Waking(j, n) BY <1>0
<1>4. Moves(b, u, h, f, o, s, f, o2) BY <1>1, <1>2, <1>5 DEF Moves, Accesses, Named
<1>6. Does(b, u, h, f, o, <<s>>, h, f, o2) BY <1>3, <1>4, DoesAccess
<1> QED BY <1>6, <1>0 DEF WakeIf, Waking

\* A lock that has no bond.
Bare(b, l) == \A x \in Bonds(b) : Home(b, x) # l

\* A section under a lock no bond lives under.
LEMMA DoesSection ==
    ASSUME NEW b, NEW u, NEW h, NEW f, NEW o, NEW l, NEW P, NEW f2, NEW o2, NEW f3,
           l \notin h, l # IrqLine, Bare(b, l), Fit(b, u, h, f, o),
           Does(b, u, h \cup {l}, f, o, P, h \cup {l}, f2, o2),
           Fit(b, u, h \cup {l}, f2, o2), f3 \subseteq f2
    PROVE  Does(b, u, h, f, o, Under(l, P), h, f3, o2)
<1>1. Opens(b, f, l, f) BY DEF Opens
<1>2. Closes(b, f2, l, f3) BY DEF Closes, Bare, Local
<1> QED BY <1>1, <1>2, DoesUnder

-----------------------------------------------------------------------------
(* Facts that others cannot change.                                        *)

\* Nobody changes what is known of a register that the locks held protect.
LEMMA StableOwn ==
    ASSUME NEW b, NEW u, NEW h, NEW r \in Registers(b), Keeps(b, u, h, r), NEW c, NEW v
    PROVE  Stable(b, u, h, But(r, c)) /\ Stable(b, u, h, With(r, c)) /\ Stable(b, u, h, Is(r, c, v))
<1>1. \A R, W, R2, W2 : Rely(b, u, h, R, W, R2, W2) => R2[r] = R[r] BY DEF Rely
<1>2. Stable(b, u, h, But(r, c)) BY <1>1 DEF Stable, Holds, But
<1>3. Stable(b, u, h, With(r, c)) BY <1>1 DEF Stable, Holds, With
<1>4. Stable(b, u, h, Is(r, c, v)) BY <1>1 DEF Stable, Holds, Is
<1> QED BY <1>2, <1>3, <1>4

\* Nor what is known of two such registers.
LEMMA StableNear ==
    ASSUME NEW b, NEW u, NEW h, NEW r \in Registers(b), NEW q \in Registers(b),
           Keeps(b, u, h, r), Keeps(b, u, h, q), NEW c
    PROVE  Stable(b, u, h, Near(r, q, c))
<1>1. \A R, W, R2, W2 : Rely(b, u, h, R, W, R2, W2) => R2[r] = R[r] /\ R2[q] = R[q] BY DEF Rely
<1> QED BY <1>1 DEF Stable, Holds, Near

\* Nor the bits of a shared register that belong to the subdevice whose lock is held.
LEMMA StableShared ==
    ASSUME NEW b, NEW u, NEW h, NEW r \in Registers(b), NEW i \in Numbers, Shared(b, r), Lock(i) \in h,
           NEW m, m \subseteq Mine(i), NEW v
    PROVE  Stable(b, u, h, With(r, m)) /\ Stable(b, u, h, Is(r, m, v))
<1>1. \A R, W, R2, W2 : Rely(b, u, h, R, W, R2, W2) => R2[r] \cap Mine(i) = R[r] \cap Mine(i)
  BY DEF Rely
<1>2. \A R, W, R2, W2 : Rely(b, u, h, R, W, R2, W2) => R2[r] \cap m = R[r] \cap m BY <1>1
<1>3. Stable(b, u, h, With(r, m)) BY <1>2 DEF Stable, Holds, With
<1>4. Stable(b, u, h, Is(r, m, v)) BY <1>2 DEF Stable, Holds, Is
<1> QED BY <1>3, <1>4

\* Only the handler counts interrupts: the room it has found is still there.
LEMMA StableRoom ==
    ASSUME NEW b, NEW h, NEW i, Count(i) \in Registers(b)
    PROVE  Stable(b, "isr", h, Room(i))
<1>1. Keeps(b, "isr", h, Count(i)) BY DEF Keeps, Of, Masked, Count, NoLock, Lock
<1>2. \A R, W, R2, W2 : Rely(b, "isr", h, R, W, R2, W2) => R2[Count(i)] = R[Count(i)]
  BY <1>1 DEF Rely
<1> QED BY <1>2 DEF Stable, Holds, Room

\* Boards without interrupt lines and counters.
NoTies(b) == \A n : Line0(n) \notin Bonds(b) /\ Whole(n) \notin Bonds(b)

\* Where nothing ties the tasks to each other, stable facts are all that is asked.
LEMMA FitFree ==
    ASSUME NEW b, NEW u, NEW h, NEW f, NoTies(b), \A k \in f : Stable(b, u, h, k)
    PROVE  Fit(b, u, h, f, Empty)
<1>1. Steady(b, u, h, f) BY DEF Steady, NoTies, Guarded
<1>2. Keeping(b, u, h, f, Empty) BY Void DEF Keeping
<1> QED BY <1>1, <1>2 DEF Fit, NoTies

-----------------------------------------------------------------------------
(* WriteOk.                                                                 *)

\* A port that is written is an output.
Aim(b, f, r, set) ==
    \A i : r = Port(i) /\ set # {} /\ Ctrl \in Registers(b) /\ b \notin {"me8100", "me8100b"}
           /\ ~(b = "me6000" /\ i # 0) =>
      \A R, W, T : Local(b, f, R, W, T) => R[Ctrl] \cap ModeBits(i) = Out(i)

Owing(b, o, i) == Silent(b, i) \/ \E m : Owed(i, m) \in o

PutOk(b, u, h, f, o, r, all, set, f2, o2) ==
    /\ r \in Registers(b) /\ MayWrite(b, u, h, r) /\ (b = "me1400cd" => r # MyClock)
    /\ (\A i : r # <<"low", i>>) /\ ~Shared(b, r)
    /\ Fit(b, u, h, f, o) /\ Aim(b, f, r, set)
    /\ \A v, w : FineAt(b, r, v, w) => FineAt(b, r, set, (w \ all) \cup set)
    /\ \A i \in Numbers : r \in {Count(i), Resets(i)} \/ (r = Rised(i) /\ set # {}) => Owing(b, o2, i)
    /\ \A R, W, T, R2, W2 :
         /\ Local(b, f, R, W, T) /\ Changes(b, r, R, R2, set) /\ Changes(b, r, W, W2, (W[r] \ all) \cup set)
         => \A k \in f2 : Holds(b, k, R2, W2, T)
    /\ o \subseteq o2 /\ Turned \notin o2

\* A register is overwritten.
LEMMA DoesPut ==
    ASSUME NEW b, NEW u, NEW h, NEW f, NEW o, NEW r, NEW all, NEW set, NEW f2, NEW o2,
           PutOk(b, u, h, f, o, r, all, set, f2, o2)
    PROVE  Does(b, u, h, f, o, Put(r, all, set), h, f2, o2)
<1> DEFINE s == [do |-> "put", reg |-> r, clear |-> all, set |-> set]
<1>1. s.do = "put" /\ s.reg = r /\ s.clear = all /\ s.set = set OBVIOUS
<1> HIDE DEF s
<1>2. /\ r \in Registers(b) /\ MayWrite(b, u, h, r) /\ (b = "me1400cd" => r # MyClock)
      /\ (\A i : r # <<"low", i>>) /\ ~Shared(b, r)
      /\ Fit(b, u, h, f, o) /\ Aim(b, f, r, set) /\ o \subseteq o2 /\ Turned \notin o2
      /\ \A v, w : FineAt(b, r, v, w) => FineAt(b, r, set, (w \ all) \cup set)
  BY DEF PutOk
<1>3. ~ActiveLow(r)
  <2>1. r[1] # "low"
    BY <1>2 DEF Registers, Relay, Low, Port, Intcsr, Line, Status, Count, Resets, External,
       EdgeMode,
          Counter, Ctr, Low8, High8, Control, Copy, Mirror, Pinned, Rised, Filter, Pattern, MaskOf, IrqMode, IrqCtrl,
          Power, ChipPorts, Ctrl, Chip, ClkReg, Pin
  <2> QED BY <2>1 DEF ActiveLow
<1>4. \A v, T : NewOf(s, v, T) = set BY <1>1, <1>3 DEF NewOf, Level
<1>5. \A w : NewAsked(s, w) = (w \ all) \cup set BY <1>1 DEF NewAsked
<1>6. Aimed(b, f, s) BY <1>1, <1>2 DEF Aimed, Aim
<1>7. Sound(b, u, h, f, s)
  <2>1. ASSUME NEW R, NEW W, NEW T, Local(b, f, R, W, T)
        PROVE  FineAt(b, r, set, (W[r] \ all) \cup set)
    <3>1. FineAt(b, r, R[r], W[r]) BY <2>1, <1>2 DEF Local, Fine
    <3> QED BY <3>1, <1>2
  <2> QED BY <2>1, <1>1, <1>2, <1>4, <1>5 DEF Sound
<1>8. Calm(b, s, o2) BY <1>1 DEF PutOk, Calm, Owing
<1>9. Leads(b, f, s, f2)
  <2>1. ASSUME NEW R, NEW W, NEW T, NEW R2, NEW W2, Local(b, f, R, W, T), WriteEffect(b, s, R, W, T, R2, W2)
        PROVE  \A k \in f2 : Holds(b, k, R2, W2, T)
    <3>1. Changes(b, r, R, R2, set) /\ Changes(b, r, W, W2, (W[r] \ all) \cup set)
      BY <2>1, <1>1, <1>4, <1>5 DEF WriteEffect
    <3> QED BY <2>1, <3>1 DEF PutOk
  <2> QED BY <2>1 DEF Leads
<1>10. WriteOk(b, u, h, f, o, s, f2, o2) BY <1>1, <1>2, <1>6, <1>7, <1>8, <1>9 DEF WriteOk
<1>11. Does(b, u, h, f, o, <<s>>, h, f2, o2) BY <1>10, DoesWrite
<1> QED BY <1>11 DEF Put, s

\* A value that was loaded goes back with some bits changed.
StoreOk(b, u, h, f, o, r, c, clear, set) ==
    /\ r \in Registers(b) /\ MayWrite(b, u, h, r) /\ (b = "me1400cd" => r # MyClock)
    /\ (\A i : r # <<"low", i>> /\ r # Rised(i) /\ r # Count(i) /\ r # Resets(i))
    /\ Fit(b, u, h, f, o) /\ Aim(b, f, r, set)
    /\ But(r, c) \in f /\ c \subseteq clear
    /\ \A v, w : FineAt(b, r, v, w) => FineAt(b, r, (v \ clear) \cup set, (w \ clear) \cup set)
    /\ \A j \in Numbers : Shared(b, r) /\ Lock(j) \notin h => (clear \cup set) \cap Mine(j) = {}
    /\ Turned \notin o

StoreLeads(b, f, r, clear, set, f2) ==
    \A R, W, T, R2, W2 :
      /\ Local(b, f, R, W, T) /\ Changes(b, r, R, R2, (R[r] \ clear) \cup set)
      /\ Changes(b, r, W, W2, (W[r] \ clear) \cup set)
      => \A k \in f2 : Holds(b, k, R2, W2, T)

\* The loaded value is written back with bits cleared and set, leading to given facts ...
LEMMA DoesStoreTo ==
    ASSUME NEW b, NEW u, NEW h, NEW f, NEW o, NEW r, NEW c, NEW clear, NEW set, NEW f2,
           StoreOk(b, u, h, f, o, r, c, clear, set), StoreLeads(b, f, r, clear, set, f2)
    PROVE  Does(b, u, h, f, o, Store(r, clear, set), h, f2, o)
<1> DEFINE s == [do |-> "store", reg |-> r, clear |-> clear, set |-> set]
<1>1. s.do = "store" /\ s.reg = r /\ s.clear = clear /\ s.set = set OBVIOUS
<1> HIDE DEF s
<1>2. /\ r \in Registers(b) /\ MayWrite(b, u, h, r) /\ (b = "me1400cd" => r # MyClock)
      /\ (\A i : r # <<"low", i>> /\ r # Rised(i) /\ r # Count(i) /\ r # Resets(i))
      /\ Fit(b, u, h, f, o) /\ Aim(b, f, r, set) /\ But(r, c) \in f /\ c \subseteq clear /\ Turned \notin o
  BY DEF StoreOk
<1>3. ~ActiveLow(r)
  <2>1. r[1] # "low"
    BY <1>2 DEF Registers, Relay, Low, Port, Intcsr, Line, Status, Count, Resets, External,
       EdgeMode,
          Counter, Ctr, Low8, High8, Control, Copy, Mirror, Pinned, Rised, Filter, Pattern, MaskOf, IrqMode, IrqCtrl,
          Power, ChipPorts, Ctrl, Chip, ClkReg, Pin
  <2> QED BY <2>1 DEF ActiveLow
<1>a. ASSUME NEW R, NEW W, NEW T, Local(b, f, R, W, T)
      PROVE  NewOf(s, R[r], T) = (R[r] \ clear) \cup set
  <2>1. Holds(b, But(r, c), R, W, T) BY <1>a, <1>2 DEF Local
  <2>2. T \ c = R[r] \ c BY <2>1 DEF Holds, But
  <2>3. T \ clear = R[r] \ clear BY <2>2, <1>2
  <2> QED BY <2>3, <1>1, <1>3 DEF NewOf, Level
<1>5. \A w : NewAsked(s, w) = (w \ clear) \cup set BY <1>1 DEF NewAsked
<1>6. Aimed(b, f, s) BY <1>1, <1>2 DEF Aimed, Aim
<1>7. Sound(b, u, h, f, s)
  <2>1. ASSUME NEW R, NEW W, NEW T, Local(b, f, R, W, T)
        PROVE  /\ FineAt(b, r, (R[r] \ clear) \cup set, (W[r] \ clear) \cup set)
               /\ \A j \in Numbers : Shared(b, r) /\ Lock(j) \notin h
                    => ((R[r] \ clear) \cup set) \cap Mine(j) = R[r] \cap Mine(j)
    <3>1. FineAt(b, r, R[r], W[r]) BY <2>1, <1>2 DEF Local, Fine
    <3>2. FineAt(b, r, (R[r] \ clear) \cup set, (W[r] \ clear) \cup set) BY <3>1 DEF StoreOk
    <3>3. \A j \in Numbers : Shared(b, r) /\ Lock(j) \notin h => (clear \cup set) \cap Mine(j) = {}
      BY DEF StoreOk
    <3> QED BY <3>2, <3>3
  <2>2. ASSUME NEW R, NEW W, NEW T, Local(b, f, R, W, T)
        PROVE  /\ FineAt(b, s.reg, NewOf(s, R[s.reg], T), NewAsked(s, W[s.reg]))
               /\ \A i \in Numbers : Shared(b, s.reg) /\ Lock(i) \notin h
                    => NewOf(s, R[s.reg], T) \cap Mine(i) = R[s.reg] \cap Mine(i)
    <3>1. NewOf(s, R[r], T) = (R[r] \ clear) \cup set BY <2>2, <1>a
    <3>2. NewAsked(s, W[r]) = (W[r] \ clear) \cup set BY <1>5
    <3> QED BY <2>1, <2>2, <3>1, <3>2, <1>1
  <2> QED BY <2>2 DEF Sound
<1>8. Calm(b, s, o) BY <1>1, <1>2 DEF Calm
<1>9. Leads(b, f, s, f2)
  <2>1. ASSUME NEW R, NEW W, NEW T, NEW R2, NEW W2, Local(b, f, R, W, T), WriteEffect(b, s, R, W, T, R2, W2)
        PROVE  \A k \in f2 : Holds(b, k, R2, W2, T)
    <3>1. Changes(b, r, R, R2, (R[r] \ clear) \cup set) BY <2>1, <1>1, <1>a DEF WriteEffect
    <3>2. Changes(b, r, W, W2, (W[r] \ clear) \cup set) BY <2>1, <1>1, <1>5 DEF WriteEffect
    <3> QED BY <2>1, <3>1, <3>2 DEF StoreLeads
  <2> QED BY <2>1 DEF Leads
<1>b. o \subseteq o OBVIOUS
<1>10. WriteOk(b, u, h, f, o, s, f2, o) BY <1>1, <1>2, <1>6, <1>7, <1>8, <1>9, <1>b DEF WriteOk
<1>11. Does(b, u, h, f, o, <<s>>, h, f2, o) BY <1>10, DoesWrite
<1> QED BY <1>11 DEF Store, s

\* ... or to the fact that outside the bits written it is still the register's.
LEMMA DoesStore ==
    ASSUME NEW b, NEW u, NEW h, NEW f, NEW o, NEW r, NEW c, NEW clear, NEW set, NEW f2,
           StoreOk(b, u, h, f, o, r, c, clear, set), f2 \subseteq {But(r, clear \cup set)}
    PROVE  Does(b, u, h, f, o, Store(r, clear, set), h, f2, o)
<1>1. But(r, c) \in f /\ c \subseteq clear BY DEF StoreOk
<1>2. ASSUME NEW R, NEW W, NEW T, NEW R2, NEW W2, Local(b, f, R, W, T), Changes(b, r, R, R2, (R[r] \ clear) \cup set)
      PROVE  \A k \in f2 : Holds(b, k, R2, W2, T)
  <2>1. R2[r] = (R[r] \ clear) \cup set BY <1>2 DEF Changes
  <2>2. Holds(b, But(r, c), R, W, T) BY <1>2, <1>1 DEF Local
  <2>3. T \ c = R[r] \ c BY <2>2 DEF Holds, But
  <2>4. T \ (clear \cup set) = R2[r] \ (clear \cup set) BY <2>1, <2>3, <1>1
  <2>5. Holds(b, But(r, clear \cup set), R2, W2, T) BY <2>4 DEF Holds, But
  <2> QED BY <2>5
<1>3. StoreLeads(b, f, r, clear, set, f2) BY <1>2 DEF StoreLeads
<1> QED BY <1>3, DoesStoreTo

\* A register is read, modified and written back.
LEMMA DoesRmw ==
    ASSUME NEW b, NEW u, NEW h, NEW f, NEW o, NEW r, NEW clear, NEW set, NEW f1, NEW f2,
           Fit(b, u, h, f, o), f1 = {But(r, Empty)} \cup f,
           \A k \in f : \A R, W, T, T2 : Holds(b, k, R, W, T) => Holds(b, k, R, W, T2),
           StoreOk(b, u, h, f1, o, r, Empty, clear, set), f2 \subseteq {But(r, clear \cup set)}
    PROVE  Does(b, u, h, f, o, Rmw(r, clear, set), h, f2, o)
<1>1. r \in Registers(b) /\ Turned \notin o BY DEF StoreOk
<1>2. \A R, W, T : Local(b, f, R, W, T) => \A k \in f1 : Holds(b, k, R, W, R[r])
  <2>1. ASSUME NEW R, NEW W, NEW T, Local(b, f, R, W, T), NEW k \in f1
        PROVE  Holds(b, k, R, W, R[r])
    <3>1. CASE k \in f BY <2>1, <3>1 DEF Local
    <3>2. CASE k = But(r, Empty) BY <3>2 DEF Holds, But
    <3> QED BY <2>1, <3>1, <3>2
  <2> QED BY <2>1
<1>3. Does(b, u, h, f, o, Load(r), h, f1, o) BY <1>1, <1>2, DoesLoad
<1>4. Does(b, u, h, f1, o, Store(r, clear, set), h, f2, o) BY DoesStore
<1> QED BY <1>3, <1>4, DoesThen DEF Rmw

-----------------------------------------------------------------------------
(* What the invariant says.                                                *)

\* Which boards have active-low ports, and which has the 8255.
LEMMA Names ==
    ASSUME NEW b \in BoardNames, NEW r \in Registers(b)
    PROVE  /\ r[1] = "low" => b \in {"me0900_di", "me0900_do"}
           /\ b \in {"me0900_di", "me0900_do"} => r[1] = "low"
           /\ r = Chip => b = "me1400"
           /\ b = "me1400" => r \in {Port(0), Port(1), Port(2), Mirror(0), Mirror(1), Mirror(2), Ctrl, Chip}
<1> USE DEF Registers, Line, Pinned, Power, Counter, SubsOf, Relay, Low, Port, Intcsr, External, EdgeMode, Control,
    Copy, Mirror, IrqMode, IrqCtrl, ChipPorts, Ctrl, Chip, ClkReg, Pin, Status, Count, Resets, Rised, Filter,
    Pattern, MaskOf, Ctr, Low8, High8
<1>1. CASE b \in {"me1000", "me0600_dio", "me4600", "me4600i", "me6000", "me8200_dio"} BY <1>1
<1>2. CASE b \in {"me0600_di", "me0600_relay", "me0600_irq", "me0900_di", "me0900_do", "me4600_irq"}
  BY <1>2
<1>3. CASE b \in {"me8100", "me8100b", "me8200", "me8200_ex", "me8200_do"} BY <1>3
<1>4. CASE b = "me1400" BY <1>4
<1>5. CASE b \in {"me4600_ctr", "me1400ab", "me1400cd"} BY <1>5
<1> QED BY <1>1, <1>2, <1>3, <1>4, <1>5 DEF BoardNames

\* Of a board whose locks are free, the registers agree with their copies.
LEMMA InvRegistersAgree ==
    ASSUME BoardInv
    PROVE  RegistersAgree
<1>1. Fits(board, reg, want, todo, tmp, held, asleep) BY DEF BoardInv
<1>2. PICK F, O : Sit(board, reg, want, todo, tmp, held, asleep, F, O) BY <1>1 DEF Fits
<1>3. board \in BoardNames /\ DOMAIN reg = Registers(board) BY <1>1 DEF Fits, Typed
<1> SUFFICES ASSUME NEW r \in Registers(board), ~Astray(r), ~InChange(r)
             PROVE  reg[r] = Meant(r)
  BY <1>3 DEF RegistersAgree
<1>4. FineAt(board, r, reg[r], want[r]) BY <1>2 DEF Sit, Fine
<1>5. CASE board = "me0900_di"
  <2>1. r[1] = "low" /\ r # Chip BY <1>5, <1>3, Names DEF Chip
  <2>2. want[r] = {} /\ reg[r] = Pins(8) BY <1>4, <1>5 DEF FineAt
  <2> QED BY <2>1, <2>2 DEF Meant, Level, ActiveLow
<1>6. CASE board = "me1400"
  <2>1. r \in {Port(0), Port(1), Port(2), Mirror(0), Mirror(1), Mirror(2), Ctrl, Chip}
    BY <1>3, <1>6, Names
  <2>2. r \in {Port(0), Mirror(0), Ctrl, Chip} BY <2>1, <1>6 DEF Astray
  <2>3. CASE r = Chip \/ r = Port(0)
    <3>1. Holders(CtrlLock) = {} BY <2>3, <1>6 DEF InChange, Port, Chip
    <3>2. Latched \in Bonds(board) /\ Home(board, Latched) = CtrlLock
      BY <1>6 DEF Bonds, Home, Latched
    <3>3. Bond(board, Latched, reg, want)
      BY <3>1, <3>2, <1>2 DEF Sit, Bonded, Holders
    <3>4. reg[Chip] = ModeByte(want[Chip]) /\ reg[Port(0)] = want[Port(0)] BY <3>3 DEF Bond, Latched
    <3> QED BY <2>3, <3>4 DEF Meant, Level, ActiveLow, Port, Chip
  <2>4. CASE r = Mirror(0) \/ r = Ctrl
    <3>1. Exact(board, r) BY <2>4, <1>6 DEF Exact, Mirror, Ctrl, Chip
    <3>2. want[r] = reg[r] BY <3>1, <1>4 DEF FineAt
    <3> QED BY <2>4, <3>2 DEF Meant, Level, ActiveLow, Mirror, Ctrl, Chip
  <2> QED BY <2>2, <2>3, <2>4
<1>7. CASE board \notin {"me0900_di", "me1400"}
  <2>0. board # "me0900_do" BY DEF Astray
  <2>1. r[1] # "low" /\ r # Chip BY <2>0, <1>3, <1>7, Names
  <2>2. Exact(board, r) BY <2>0, <1>7 DEF Exact, Astray, MyClock
  <2>3. want[r] = reg[r] BY <2>2, <1>4 DEF FineAt
  <2> QED BY <2>1, <2>3 DEF Meant, Level, ActiveLow
<1> QED BY <1>5, <1>6, <1>7

\* And every output shows what was last written to it.
LEMMA InvWritesReachOutputs ==
    ASSUME BoardInv
    PROVE  WritesReachOutputs
<1>1. Fits(board, reg, want, todo, tmp, held, asleep) BY DEF BoardInv
<1>3. DOMAIN reg = Registers(board) BY <1>1 DEF Fits, Typed
<1>4. ASSUME NEW t \in Task, NEW i \in Sub, Doing(t, "test"), WritesTo(i, Head(todo[t]).body),
             ~(board = "me6000" /\ i # 0)
      PROVE  Passes(t) = (Direction(i) = Out(i))
  <2> DEFINE s == Head(todo[t])
  <2>1. todo[t] # <<>> /\ s.do = "test" BY <1>4 DEF Doing, Idle
  <2>2. PICK F, O : /\ Local(board, F[t], reg, want, tmp[t])
                    /\ \E Z : Goes(board, Who(t), Z, held[t], F[t], O[t], s, Tail(todo[t]))
    BY <1>1, <2>1, FitsTells
  <2>3. PICK Z : Goes(board, Who(t), Z, held[t], F[t], O[t], s, Tail(todo[t])) BY <2>2
  <2>4. GoesTest(board, Z, held[t], F[t], O[t], s, Tail(todo[t]))
    BY <2>1, <2>3 DEF Goes, GoesAccess, Moves, Accesses, GoesTake, GoesGive, GoesMask, GoesUnmask,
       GoesTry, GoesAwait
  <2>5. Decides(board, F[t], s) BY <2>4 DEF GoesTest
  <2>6. (tmp[t] \cap s.mask) \in s.in <=> reg[Ctrl] \cap ModeBits(i) = Out(i)
    BY <2>2, <2>5, <1>4 DEF Decides
  <2> QED BY <2>6 DEF Passes, Direction
<1>5. ASSUME NEW t \in Task, NEW i \in Sub, Len(todo[t]) > 1, todo[t][1].do \in {"store", "put"},
             todo[t][1].reg = Port(i), todo[t][1].set # {}, Ctrl \in DOMAIN reg,
             board \notin {"me8100", "me8100b"}, ~(board = "me6000" /\ i # 0)
      PROVE  Direction(i) = Out(i)
  <2> DEFINE s == Head(todo[t])
  <2>0. Program(todo[t])
    <3>1. PICK F, O : Sit(board, reg, want, todo, tmp, held, asleep, F, O) BY <1>1 DEF Fits
    <3>2. Good(board, Who(t), held[t], F[t], O[t], todo[t]) BY <3>1, Awake
    <3> QED BY <3>2, Whence
  <2>1. todo[t] # <<>> /\ s = todo[t][1]
    <3>1. PICK S : todo[t] \in Seq(S) BY <2>0 DEF Program
    <3> QED BY <3>1, <1>5
  <2>2. PICK F, O : /\ Local(board, F[t], reg, want, tmp[t])
                    /\ \E Z : Goes(board, Who(t), Z, held[t], F[t], O[t], s, Tail(todo[t]))
    BY <1>1, <2>1, FitsTells
  <2>3. PICK Z : Goes(board, Who(t), Z, held[t], F[t], O[t], s, Tail(todo[t])) BY <2>2
  <2>4. GoesAccess(board, Who(t), Z, held[t], F[t], O[t], s, Tail(todo[t]))
    BY <2>1, <2>3, <1>5 DEF Goes, GoesTest, GoesTake, GoesGive, GoesMask, GoesUnmask, GoesTry,
       GoesAwait
  <2>5. Aimed(board, F[t], s) BY <2>4 DEF GoesAccess
  <2>6. reg[Ctrl] \cap ModeBits(i) = Out(i) BY <2>1, <2>2, <2>5, <1>3, <1>5 DEF Aimed
  <2> QED BY <2>6 DEF Direction
<1> QED BY <1>4, <1>5 DEF WritesReachOutputs

\* A task that is done holds no lock.
LEMMA InvLocksReleased ==
    ASSUME BoardInv
    PROVE  LocksReleased
<1>1. Fits(board, reg, want, todo, tmp, held, asleep) BY DEF BoardInv
<1>2. PICK F, O : Sit(board, reg, want, todo, tmp, held, asleep, F, O) BY <1>1 DEF Fits
<1> SUFFICES ASSUME NEW t \in Task
             PROVE  /\ Idle(t) => held[t] = {}
                    /\ Doing(t, "give") => Head(todo[t]).lock \in held[t]
                    /\ Doing(t, "take") => Head(todo[t]).lock \notin held[t]
                    /\ Doing(t, "mask") => IrqLine \notin held[t]
                    /\ \A l \in held[t] \ {IrqLine} : Holders(l) = {t}
                    /\ t \in asleep => held[t] = {}
  BY DEF LocksReleased
<1>3. /\ Good(board, Who(t), held[t], F[t], O[t], todo[t])
      /\ t \in asleep => todo[t] # <<>> /\ Head(todo[t]).do = "await"
      /\ todo[t] = <<>> => held[t] = Empty
  BY <1>2, Awake
<1>4. Idle(t) => held[t] = {} BY <1>3 DEF Idle, Empty
<1>5. ASSUME todo[t] # <<>>, Head(todo[t]).do \in {"give", "take", "mask"}
      PROVE  /\ Head(todo[t]).do = "give" => Head(todo[t]).lock \in held[t]
             /\ Head(todo[t]).do = "take" => Head(todo[t]).lock \notin held[t]
             /\ Head(todo[t]).do = "mask" => IrqLine \notin held[t]
  <2>1. PICK Z : Goes(board, Who(t), Z, held[t], F[t], O[t], Head(todo[t]), Tail(todo[t]))
    BY <1>3, <1>5, Tells
  <2> QED
    BY <1>5, <2>1, Void DEF Goes, GoesAccess, Moves, Accesses, GoesTake, GoesGive, GoesMask,
       GoesUnmask,
         GoesTest, GoesTry, GoesAwait
<1>6. \A l \in held[t] \ {IrqLine} : Holders(l) = {t} BY <1>2 DEF Sit, Apart, Holders
<1>7. t \in asleep => held[t] = {} BY <1>3, WaitsFor DEF Empty
<1> QED BY <1>4, <1>5, <1>6, <1>7 DEF Doing, Idle

\* Nobody sleeps for what has happened, unless somebody is about to wake him.
LEMMA InvNoLostWakeup ==
    ASSUME BoardInv
    PROVE  NoLostWakeup
<1>1. Fits(board, reg, want, todo, tmp, held, asleep) BY DEF BoardInv
<1>2. PICK F, O : Sit(board, reg, want, todo, tmp, held, asleep, F, O) BY <1>1 DEF Fits
<1> SUFFICES ASSUME NEW t \in asleep, Come(t)
             PROVE  \/ \E u \in Task : Pending(u, Head(todo[t]).queue)
                    \/ StopsInSilence(Head(todo[t]).queue) /\ Head(todo[t]).bits = Off
  BY DEF NoLostWakeup
<1>3. Comes(Head(todo[t]), reg, tmp[t]) BY DEF Come, Comes
<1>4. PICK i \in Numbers :
        /\ Head(todo[t]).queue = Queue(i)
        /\ \/ Silent(board, i) /\ Head(todo[t]).bits = Off
           \/ \E v \in Task : \E m : Owed(i, m) \in O[v]
  BY <1>2, <1>3 DEF Sit, Heard
<1>5. CASE Silent(board, i) /\ Head(todo[t]).bits = Off BY <1>4, <1>5 DEF Silent, StopsInSilence
<1>6. CASE \E v \in Task : \E m : Owed(i, m) \in O[v]
  <2>0. PICK v \in Task : \E m : Owed(i, m) \in O[v] BY <1>6
  <2>1. PICK m : Owed(i, m) \in O[v] BY <2>0
  <2>2. Good(board, Who(v), held[v], F[v], O[v], todo[v]) /\ Local(board, F[v], reg, want, tmp[v])
    BY <1>2, Awake
  <2>3. m \subseteq reg[Status(i)] BY <2>1, <2>2, Tells DEF Keeping
  <2>4. PICK n \in DOMAIN todo[v] : todo[v][n] = Waking(i, m) BY <2>1, <2>2, Tells
  <2>5. Pending(v, Queue(i)) BY <2>3, <2>4 DEF Pending, Wakes, Waking
  <2> QED BY <2>5, <1>4
<1> QED BY <1>4, <1>5, <1>6

\* The two halves of each counter's value are bonded.
LEMMA CounterBonds ==
    ASSUME NEW b \in BoardNames, NEW n \in 0 .. 14, <<"low8", n>> \in Registers(b)
    PROVE  Whole(n) \in Bonds(b)
<1>a. \A k \in Nat : Counter(k) = {<<"ctr", k>>, <<"low8", k>>, <<"high8", k>>} BY CounterHas
<1>b. /\ Counter(0) = {<<"ctr", 0>>, <<"low8", 0>>, <<"high8", 0>>}
      /\ Counter(1) = {<<"ctr", 1>>, <<"low8", 1>>, <<"high8", 1>>}
      /\ Counter(3) = {<<"ctr", 3>>, <<"low8", 3>>, <<"high8", 3>>}
      /\ Counter(12) = {<<"ctr", 12>>, <<"low8", 12>>, <<"high8", 12>>}
      /\ Counter(13) = {<<"ctr", 13>>, <<"low8", 13>>, <<"high8", 13>>}
  BY <1>a
<1> USE DEF Registers, Line, Pinned, Power, SubsOf, Relay, Low, Port, Intcsr, External, EdgeMode, Control,
    Copy, Mirror, IrqMode, IrqCtrl, ChipPorts, Ctrl, Chip, ClkReg, Pin, Status, Count, Resets, Rised, Filter,
    Pattern, MaskOf
<1>1. b \notin {"me1000", "me0600_dio", "me4600", "me4600i", "me6000", "me8200_dio"} OBVIOUS
<1>2. b \notin {"me0600_di", "me0600_relay", "me0600_irq", "me0900_di", "me0900_do", "me4600_irq"} OBVIOUS
<1>3. b \notin {"me8100", "me8100b", "me8200", "me8200_ex", "me8200_do", "me1400"} OBVIOUS
<1>4. CASE b = "me4600_ctr"
  <2>1. n = 0 \/ n = 1 BY <1>4, <1>b
  <2> QED BY <2>1, <1>4 DEF Bonds
<1>5. CASE b = "me1400ab"
  <2>1. n = 0 \/ n = 3 BY <1>5, <1>b
  <2> QED BY <2>1, <1>5 DEF Bonds
<1>6. CASE b = "me1400cd"
  <2>1. n = 12 \/ n = 13 BY <1>6, <1>b
  <2> QED BY <2>1, <1>6 DEF Bonds
<1> QED BY <1>1, <1>2, <1>3, <1>4, <1>5, <1>6 DEF BoardNames

\* A counter nobody is setting has both halves of one value.
LEMMA InvValuesAreWhole ==
    ASSUME BoardInv
    PROVE  ValuesAreWhole
<1>1. Fits(board, reg, want, todo, tmp, held, asleep) BY DEF BoardInv
<1>2. PICK F, O : Sit(board, reg, want, todo, tmp, held, asleep, F, O) BY <1>1 DEF Fits
<1>3. board \in BoardNames /\ DOMAIN reg = Registers(board) BY <1>1 DEF Fits, Typed
<1> SUFFICES ASSUME NEW n \in 0 .. 14, Counter(n) \subseteq DOMAIN reg
             PROVE  \/ reg[Low8(0, n)] = reg[High8(0, n)]
                    \/ \E t \in Task : Doing(t, "put") /\ Head(todo[t]).reg = High8(0, n)
  BY DEF ValuesAreWhole
<1>4. Low8(0, n) = <<"low8", n>> /\ High8(0, n) = <<"high8", n>> BY DEF Low8, High8
<1>5. <<"low8", n>> \in Registers(board) BY <1>3, <1>4 DEF Counter
<1>6. Whole(n) \in Bonds(board) BY <1>3, <1>5, CounterBonds
<1>7. \A R, W : Bond(board, Whole(n), R, W) <=> R[<<"low8", n>>] = R[<<"high8", n>>]
  BY DEF Bond, Whole
<1>8. CASE Bond(board, Whole(n), reg, want) BY <1>8, <1>7, <1>4
<1>9. CASE \E t \in Task : Home(board, Whole(n)) \in held[t]
  <2>1. PICK t \in Task : Home(board, Whole(n)) \in held[t] BY <1>9
  <2>2. Good(board, Who(t), held[t], F[t], O[t], todo[t]) /\ Local(board, F[t], reg, want, tmp[t])
    BY <1>2, Awake
  <2>3. \/ Bond(board, Whole(n), reg, want)
        \/ todo[t] # <<>> /\ Head(todo[t]).do = "put" /\ Head(todo[t]).reg = <<"high8", n>>
    <3>1. Paired(board, held[t], F[t], todo[t]) BY <2>2, Tells
    <3> QED BY <3>1, <2>1, <2>2, <1>6 DEF Paired
  <2> QED BY <2>3, <1>4, <1>7 DEF Doing, Idle
<1> QED BY <1>6, <1>8, <1>9, <1>2 DEF Sit, Bonded

-----------------------------------------------------------------------------
(* Ports with directions.                                                  *)

Dio == {"me1000", "me0600_dio", "me4600", "me4600i", "me6000", "me8200_dio"}
Width(b) == IF b = "me1000" THEN 32 ELSE 8
One(i) == Empty \cup {Lock(i)}
Both2(i) == One(i) \cup {CtrlLock}

\* The locks of a port and of the control register are two, and neither is the interrupt line.
LEMMA Locks3 ==
    ASSUME NEW i
    PROVE  /\ Lock(i) \notin Empty /\ Lock(i) # IrqLine /\ CtrlLock # IrqLine /\ CtrlLock \notin One(i)
           /\ Lock(i) \in One(i) /\ Lock(i) \in Both2(i) /\ CtrlLock \in Both2(i)
           /\ \A j : Lock(j) \in Both2(i) => j = i
           /\ \A j : Lock(j) \in One(i) => j = i
BY DEF Empty, One, Both2, Lock, CtrlLock, IrqLine

\* A board with two ports and a control register: which lock is whose.
LEMMA DioFacts ==
    ASSUME NEW b \in Dio, NEW i \in {0, 1}
    PROVE  /\ Registers(b) = {Port(0), Port(1), Ctrl} /\ Port(i) \in Registers(b) /\ Ctrl \in Registers(b)
           /\ NoTies(b) /\ (\A l : Bare(b, l))
           /\ Of(b, Ctrl) = CtrlLock /\ Of(b, Port(i)) = Lock(i) /\ CtrlLock # NoLock /\ Lock(i) # NoLock
           /\ ~Masked(Ctrl) /\ ~Masked(Port(i)) /\ ~Handled(Ctrl) /\ ~Handled(Port(i))
           /\ Shared(b, Ctrl) /\ ~Shared(b, Port(i)) /\ b # "me1400cd"
           /\ \A j : Ctrl # <<"low", j>> /\ Ctrl # Rised(j) /\ Ctrl # Count(j) /\ Ctrl # Resets(j) /\ Ctrl # Port(j)
           /\ \A j : Port(i) # <<"low", j>> /\ Port(i) # Rised(j) /\ Port(i) # Count(j) /\ Port(i) # Resets(j)
           /\ \A j : Port(i) = Port(j) => i = j
<1>1. Registers(b) = {Port(0), Port(1), Ctrl} BY DEF Registers, Dio, SubsOf
<1>2. Bonds(b) = {} BY DEF Bonds, Dio
<1>3. NoTies(b) /\ (\A l : Bare(b, l)) BY <1>2 DEF NoTies, Bare
<1>4. Of(b, Ctrl) = CtrlLock /\ Of(b, Port(i)) = Lock(i) BY DEF Of, Ctrl, Port, Dio
<1>5. /\ ~Masked(Ctrl) /\ ~Masked(Port(i)) /\ ~Handled(Ctrl) /\ ~Handled(Port(i)) /\ CtrlLock # NoLock
      /\ Lock(i) # NoLock
  BY DEF Masked, Handled, Ctrl, Port, CtrlLock, NoLock, Lock
<1>6. Shared(b, Ctrl) /\ ~Shared(b, Port(i)) /\ b # "me1400cd"
  BY DEF Shared, Ctrl, Port, Intcsr, Dio
<1>7. /\ \A j : Ctrl # <<"low", j>> /\ Ctrl # Rised(j) /\ Ctrl # Count(j) /\ Ctrl # Resets(j) /\ Ctrl # Port(j)
      /\ \A j : Port(i) # <<"low", j>> /\ Port(i) # Rised(j) /\ Port(i) # Count(j) /\ Port(i) # Resets(j)
      /\ \A j : Port(i) = Port(j) => i = j
  BY DEF Ctrl, Port, Rised, Count, Resets
<1> QED BY <1>1, <1>3, <1>4, <1>5, <1>6, <1>7

\* What such a board's registers may hold.
LEMMA DioFine ==
    ASSUME NEW b \in Dio, NEW i \in {0, 1}
    PROVE  /\ \A v, w : FineAt(b, Port(i), v, w) <=> v \subseteq Pins(Width(b)) /\ w = v
           /\ \A v, w : FineAt(b, Ctrl, v, w) <=> (b \in OutsOnly => v \subseteq Outs) /\ w = v
<1>1. \A v, w : FineAt(b, Port(i), v, w) <=> v \subseteq Pins(Width(b)) /\ w = v
  BY DEF FineAt, Bounded, Universe, Exact, Port, Ctrl, Intcsr, Width, Dio
<1>2. \A v, w : FineAt(b, Ctrl, v, w) <=> (b \in OutsOnly => v \subseteq Outs) /\ w = v
  BY DEF FineAt, Bounded, Universe, Exact, Ctrl, Intcsr, Dio, OutsOnly, Chip
<1> QED BY <1>1, <1>2

\* What a task that holds the lock of its port, or both locks, can rely on.
LEMMA DioStable ==
    ASSUME NEW b \in Dio, NEW i \in {0, 1}, NEW h \in {One(i), Both2(i)}
    PROVE  /\ \A c, v : Stable(b, "task", h, But(Port(i), c))
           /\ h = Both2(i) => \A c, v : Stable(b, "task", h, But(Ctrl, c))
           /\ \A v : Stable(b, "task", h, With(Ctrl, ModeBits(i))) /\ Stable(b, "task", h, Is(Ctrl, ModeBits(i), v))
<1>1. Lock(i) \in h BY Locks3
<1>2. Keeps(b, "task", h, Port(i)) BY <1>1, DioFacts DEF Keeps
<1>3. h = Both2(i) => Keeps(b, "task", h, Ctrl) BY Locks3, DioFacts DEF Keeps
<1>4. ModeBits(i) \subseteq Mine(i) /\ i \in Numbers BY DEF Mine, Numbers
<1> QED BY <1>1, <1>2, <1>3, <1>4, DioFacts, StableOwn, StableShared

\* The directions of a port are changed.
LEMMA DioControl ==
    ASSUME NEW b \in Dio, NEW i \in {0, 1}, NEW clear, NEW set, b \in OutsOnly => set \subseteq Outs,
           \A j \in Numbers : j # i => (clear \cup set) \cap Mine(j) = {}
    PROVE  Does(b, "task", One(i), Empty, Empty, Under(CtrlLock, Rmw(Ctrl, clear, set)), One(i), Empty, Empty)
<1> DEFINE h == One(i) \cup {CtrlLock}
<1> DEFINE f1 == {But(Ctrl, Empty)} \cup Empty
<1>1. h = Both2(i) BY DEF Both2
<1> HIDE DEF h
<1>2. Fit(b, "task", One(i), Empty, Empty) BY DioFacts, FitFree, Void
<1>3. Fit(b, "task", h, Empty, Empty) BY DioFacts, FitFree, Void
<1>4. Stable(b, "task", h, But(Ctrl, Empty)) BY <1>1, DioStable
<1>5. \A k \in f1 : Stable(b, "task", h, k) BY <1>4, Void
<1> HIDE DEF f1
<1>6. Fit(b, "task", h, f1, Empty) BY <1>5, DioFacts, FitFree
<1>7. MayWrite(b, "task", h, Ctrl) BY <1>1, Locks3, DioFacts DEF MayWrite
<1>8. \A v, w : FineAt(b, Ctrl, v, w) => FineAt(b, Ctrl, (v \ clear) \cup set, (w \ clear) \cup set)
  <2>1. \A v, w : FineAt(b, Ctrl, v, w) <=> (b \in OutsOnly => v \subseteq Outs) /\ w = v BY DioFine
  <2> QED BY <2>1
<1>9. \A j \in Numbers : Shared(b, Ctrl) /\ Lock(j) \notin h => (clear \cup set) \cap Mine(j) = {}
  BY <1>1, Locks3
<1>10. Aim(b, f1, Ctrl, set) BY DioFacts DEF Aim
<1>11. But(Ctrl, Empty) \in f1 /\ Empty \subseteq clear /\ Turned \notin Empty BY Void DEF f1
<1>12. StoreOk(b, "task", h, f1, Empty, Ctrl, Empty, clear, set)
  BY <1>6, <1>7, <1>8, <1>9, <1>10, <1>11, DioFacts DEF StoreOk
<1>13. Does(b, "task", h, Empty, Empty, Rmw(Ctrl, clear, set), h, Empty, Empty)
  <2>1. f1 = {But(Ctrl, Empty)} \cup Empty BY DEF f1
  <2>2. \A k \in Empty : \A R, W, T, T2 : Holds(b, k, R, W, T) => Holds(b, k, R, W, T2) BY Void
  <2>3. Empty \subseteq {But(Ctrl, clear \cup set)} BY Void
  <2> QED BY <1>3, <1>12, <2>1, <2>2, <2>3, DoesRmw
<1> QED BY <1>2, <1>3, <1>13, Locks3, DioFacts, DoesSection DEF h

\* A port is switched off.
LEMMA DioClear ==
    ASSUME NEW b \in Dio, NEW i \in {0, 1}
    PROVE  Does(b, "task", One(i), Empty, Empty, Put(Port(i), Pins(Width(b)), {}), One(i), Empty, Empty)
<1>1. Fit(b, "task", One(i), Empty, Empty) BY DioFacts, FitFree, Void
<1>2. MayWrite(b, "task", One(i), Port(i)) BY Locks3, DioFacts DEF MayWrite
<1>3. \A v, w : FineAt(b, Port(i), v, w) => FineAt(b, Port(i), {}, (w \ Pins(Width(b))) \cup {})
  <2>1. \A v, w : FineAt(b, Port(i), v, w) <=> v \subseteq Pins(Width(b)) /\ w = v BY DioFine
  <2> QED BY <2>1
<1>4. Aim(b, Empty, Port(i), {}) BY DEF Aim
<1>5. Turned \notin Empty /\ Empty \subseteq Empty BY Void
<1>6. PutOk(b, "task", One(i), Empty, Empty, Port(i), Pins(Width(b)), {}, Empty, Empty)
  BY <1>1, <1>2, <1>3, <1>4, <1>5, DioFacts, Void DEF PutOk
<1> QED BY <1>6, DoesPut

\* A section under the port's lock is a good program.
LEMMA DioAlone ==
    ASSUME NEW b \in Dio, NEW i \in {0, 1}, NEW P, NEW f, \A k \in f : Stable(b, "task", One(i), k),
           Does(b, "task", One(i), Empty, Empty, P, One(i), f, Empty)
    PROVE  Good(b, "task", Empty, Empty, Empty, Under(Lock(i), P))
<1> DEFINE h == Empty \cup {Lock(i)}
<1>1. h = One(i) BY DEF One
<1> HIDE DEF h
<1>2. Fit(b, "task", Empty, Empty, Empty) BY DioFacts, FitFree, Void
<1>3. Fit(b, "task", h, f, Empty) BY <1>1, DioFacts, FitFree
<1>4. Does(b, "task", h, Empty, Empty, P, h, f, Empty) BY <1>1
<1>5. Empty \subseteq f /\ Bare(b, Lock(i)) BY Void, DioFacts
<1>6. Does(b, "task", Empty, Empty, Empty, Under(Lock(i), P), Empty, Empty, Empty)
  BY <1>2, <1>3, <1>4, <1>5, Locks3, DoesSection DEF h
<1> QED BY <1>6, DoesAll

\* Reset: the direction is cleared and the port is zeroed, under both locks.
LEMMA DioReset ==
    ASSUME NEW b \in Dio, NEW i \in {0, 1}, NEW clear, NEW set, b \in OutsOnly => set \subseteq Outs,
           \A j \in Numbers : j # i => (clear \cup set) \cap Mine(j) = {}
    PROVE  Good(b, "task", Empty, Empty, Empty,
                Under(Lock(i), Under(CtrlLock, Rmw(Ctrl, clear, set)) \o Put(Port(i), Pins(Width(b)), {})))
<1> DEFINE P == Under(CtrlLock, Rmw(Ctrl, clear, set)) \o Put(Port(i), Pins(Width(b)), {})
<1>1. Does(b, "task", One(i), Empty, Empty, Under(CtrlLock, Rmw(Ctrl, clear, set)), One(i), Empty, Empty)
  BY DioControl
<1>2. Does(b, "task", One(i), Empty, Empty, Put(Port(i), Pins(Width(b)), {}), One(i), Empty, Empty)
  BY DioClear
<1>3. Does(b, "task", One(i), Empty, Empty, P, One(i), Empty, Empty) BY <1>1, <1>2, DoesThen
<1> HIDE DEF P
<1>4. Good(b, "task", Empty, Empty, Empty, Under(Lock(i), P)) BY <1>3, Void, DioAlone
<1> QED BY <1>4 DEF P

\* Configuration: the direction is set under both locks.
LEMMA DioConfig ==
    ASSUME NEW b \in Dio, NEW i \in {0, 1}, NEW clear, NEW set, b \in OutsOnly => set \subseteq Outs,
           \A j \in Numbers : j # i => (clear \cup set) \cap Mine(j) = {}
    PROVE  Good(b, "task", Empty, Empty, Empty, Under(Lock(i), Under(CtrlLock, Rmw(Ctrl, clear, set))))
<1>1. Does(b, "task", One(i), Empty, Empty, Under(CtrlLock, Rmw(Ctrl, clear, set)), One(i), Empty, Empty)
  BY DioControl
<1> QED BY <1>1, Void, DioAlone

-----------------------------------------------------------------------------

\* A port is written if it is an output.
DioAim(b, i) == IF b = "me6000" /\ i # 0 THEN Empty ELSE {Is(Ctrl, ModeBits(i), Out(i))}
DioBody(b, i, P) ==
    \/ \E pins, set : P = Rmw(Port(i), pins, set) /\ set \subseteq Pins(Width(b))
    \/ \E set : P = Put(Port(i), Pins(Width(b)), set) /\ set \subseteq Pins(Width(b))

\* The writing part of a write, once the port is known to be an output.
LEMMA DioWriteBody ==
    ASSUME NEW b \in Dio, NEW i \in {0, 1}, NEW h \in {One(i), Both2(i)}, NEW P, DioBody(b, i, P)
    PROVE  Does(b, "task", h, DioAim(b, i), Empty, P, h, Empty, Empty)
<1> DEFINE f == DioAim(b, i)
<1> DEFINE f1 == {But(Port(i), Empty)} \cup f
<1>1. \A k \in f : Stable(b, "task", h, k) BY DioStable, Void DEF DioAim
<1>2. \A k \in f : k = Is(Ctrl, ModeBits(i), Out(i)) BY Void DEF DioAim
<1>3. \A set : Aim(b, f, Port(i), set) /\ Aim(b, f1, Port(i), set)
  <2>1. CASE b = "me6000" /\ i # 0 BY <2>1, DioFacts DEF Aim
  <2>2. CASE ~(b = "me6000" /\ i # 0)
    <3>1. Is(Ctrl, ModeBits(i), Out(i)) \in f /\ Is(Ctrl, ModeBits(i), Out(i)) \in f1
      BY <2>2 DEF DioAim
    <3> HIDE DEF f, f1
    <3>2. \A R, W, T : Local(b, f, R, W, T) \/ Local(b, f1, R, W, T) => R[Ctrl] \cap ModeBits(i) = Out(i)
      <4>1. ASSUME NEW R, NEW W, NEW T, Local(b, f, R, W, T) \/ Local(b, f1, R, W, T)
            PROVE  R[Ctrl] \cap ModeBits(i) = Out(i)
        <5>1. Holds(b, Is(Ctrl, ModeBits(i), Out(i)), R, W, T) BY <4>1, <3>1 DEF Local
        <5> QED BY <5>1 DEF Holds, Is
      <4> QED BY <4>1
    <3> QED BY <3>2, DioFacts DEF Aim
  <2> QED BY <2>1, <2>2
<1>4. Stable(b, "task", h, But(Port(i), Empty)) BY DioStable
<1>5. \A k \in f1 : Stable(b, "task", h, k) BY <1>1, <1>4
<1>6. Lock(i) \in h BY Locks3
<1>7. MayWrite(b, "task", h, Port(i)) BY <1>6, DioFacts DEF MayWrite
<1>8. \A v, w : FineAt(b, Port(i), v, w) <=> v \subseteq Pins(Width(b)) /\ w = v BY DioFine
<1>9. \A k \in f : \A R, W, T, T2 : Holds(b, k, R, W, T) => Holds(b, k, R, W, T2)
  BY <1>2 DEF Holds, Is
<1> HIDE DEF f
<1>10. Fit(b, "task", h, f, Empty) BY <1>1, DioFacts, FitFree
<1>11. Fit(b, "task", h, f1, Empty)
  <2> HIDE DEF f1
  <2> QED BY <1>5, DioFacts, FitFree
<1>12. Turned \notin Empty /\ Empty \subseteq Empty BY Void
<1>13. ASSUME NEW pins, NEW set, set \subseteq Pins(Width(b)), P = Rmw(Port(i), pins, set)
       PROVE  Does(b, "task", h, f, Empty, P, h, Empty, Empty)
  <2>1. \A v, w : FineAt(b, Port(i), v, w) => FineAt(b, Port(i), (v \ pins) \cup set, (w \ pins) \cup set)
    BY <1>8, <1>13
  <2>2. But(Port(i), Empty) \in f1 /\ Empty \subseteq pins BY Void
  <2> HIDE DEF f1
  <2>3. StoreOk(b, "task", h, f1, Empty, Port(i), Empty, pins, set)
    BY <1>3, <1>7, <1>11, <1>12, <2>1, <2>2, DioFacts DEF StoreOk
  <2>4. f1 = {But(Port(i), Empty)} \cup f BY DEF f1
  <2>5. Empty \subseteq {But(Port(i), pins \cup set)} BY Void
  <2> QED BY <1>9, <1>10, <1>13, <2>3, <2>4, <2>5, DoesRmw
<1>14. ASSUME NEW set, set \subseteq Pins(Width(b)), P = Put(Port(i), Pins(Width(b)), set)
       PROVE  Does(b, "task", h, f, Empty, P, h, Empty, Empty)
  <2>1. \A v, w : FineAt(b, Port(i), v, w) => FineAt(b, Port(i), set, (w \ Pins(Width(b))) \cup set)
    BY <1>8, <1>14
  <2>2. PutOk(b, "task", h, f, Empty, Port(i), Pins(Width(b)), set, Empty, Empty)
    BY <1>3, <1>7, <1>10, <1>12, <2>1, DioFacts, Void DEF PutOk
  <2> QED BY <1>14, <2>2, DoesPut
<1> QED BY <1>13, <1>14 DEF DioBody, f

\* The register the last step of a read-modify-write or of an overwrite is aimed at.
LEMMA LastOf ==
    ASSUME NEW r, NEW q, NEW c, NEW s, NEW c2, NEW s2, NEW pins
    PROVE  /\ Last(Rmw(r, c, s)).reg = r /\ Last(Put(r, c2, s2)).reg = r
           /\ Last(Read(q, pins)).do = "read"
BY DEF Last, Rmw, Put, Read, Load, Store

\* A test that only decides whether something is read.
LEMMA DoesTestRead ==
    ASSUME NEW b, NEW u, NEW h, NEW m, NEW in, NEW r, NEW pins, Fit(b, u, h, Empty, Empty),
           Does(b, u, h, Empty, Empty, Read(r, pins), h, Empty, Empty)
    PROVE  Does(b, u, h, Empty, Empty, Test(m, in, Read(r, pins)), h, Empty, Empty)
<1> DEFINE s == [do |-> "test", mask |-> m, in |-> in, body |-> Read(r, pins)]
<1>1. s.body = Read(r, pins) OBVIOUS
<1> HIDE DEF s
<1>2. \A j : ~WritesTo(j, Read(r, pins)) BY LastOf DEF WritesTo
<1>3. Decides(b, Empty, s) BY <1>1, <1>2 DEF Decides
<1>4. MarksStay(Empty, Empty) BY Void DEF MarksStay
<1> DEFINE P == Read(r, pins)
<1>5. Decides(b, Empty, [do |-> "test", mask |-> m, in |-> in, body |-> P]) BY <1>3 DEF s
<1>6. Does(b, u, h, Empty, Empty, P, h, Empty, Empty) OBVIOUS
<1> HIDE DEF P
<1>7. Does(b, u, h, Empty, Empty, Test(m, in, P), h, Empty, Empty) BY <1>4, <1>5, <1>6, DoesTest
<1> QED BY <1>7 DEF P

\* A section under the lock of the control register, within the port's.
LEMMA DioInside ==
    ASSUME NEW b \in Dio, NEW i \in {0, 1}, NEW P,
           Does(b, "task", One(i) \cup {CtrlLock}, Empty, Empty, P, One(i) \cup {CtrlLock}, Empty, Empty)
    PROVE  Does(b, "task", One(i), Empty, Empty, Under(CtrlLock, P), One(i), Empty, Empty)
<1> DEFINE h == One(i) \cup {CtrlLock}
<1>1. Fit(b, "task", One(i), Empty, Empty) BY DioFacts, FitFree, Void
<1>2. Fit(b, "task", h, Empty, Empty)
  <2> HIDE DEF h
  <2> QED BY DioFacts, FitFree, Void
<1> QED BY <1>1, <1>2, Locks3, DioFacts, DoesSection

\* The port is written if its mode bits say that it is an output.
LEMMA DioWriteIf ==
    ASSUME NEW b \in Dio, NEW i \in {0, 1}, NEW h \in {One(i), Both2(i)}, NEW P, DioBody(b, i, P), NEW m,
           ~(b = "me6000" /\ i # 0) => m = ModeBits(i) \/ (m = Out(i) /\ b \in OutsOnly),
           NEW w, ~(b = "me6000" /\ i # 0) => w = Out(i)
    PROVE  Does(b, "task", h, Empty, Empty, IfModeIs(m, w, P), h, Empty, Empty)
<1> DEFINE k == With(Ctrl, ModeBits(i))
<1> DEFINE f == {k}
<1> DEFINE f1 == DioAim(b, i)
<1> DEFINE s == [do |-> "test", mask |-> m, in |-> {w}, body |-> P]
<1>1. s.body = P /\ s.mask = m /\ s.in = {w} OBVIOUS
<1> HIDE DEF s
<1>2. \A R, W, T : Local(b, Empty, R, W, T) => \A x \in f : Holds(b, x, R, W, R[Ctrl])
  BY DEF Holds, With
<1>3. \A x \in f : Stable(b, "task", h, x) BY DioStable
<1>4. \A R, W, T : Local(b, f, R, W, T) => T \cap ModeBits(i) = R[Ctrl] \cap ModeBits(i)
  BY DEF Local, Holds, With
<1>5. \A R, W, T : Local(b, f, R, W, T) => Fine(b, R, W) BY DEF Local
<1>6. \A j : WritesTo(j, P) => j = i
  <2>1. ASSUME NEW j, Last(P).reg = Port(j) PROVE j = i
    <3>1. Last(P).reg = Port(i) BY LastOf DEF DioBody
    <3> QED BY <2>1, <3>1, DioFacts
  <2> QED BY <2>1 DEF WritesTo
<1> HIDE DEF f, k
<1>7. ASSUME ~(b = "me6000" /\ i # 0), NEW R, NEW W, NEW T, Local(b, f, R, W, T)
      PROVE  (T \cap m) \in {w} <=> R[Ctrl] \cap ModeBits(i) = Out(i)
  <2>1. T \cap ModeBits(i) = R[Ctrl] \cap ModeBits(i) BY <1>4, <1>7
  <2>2. CASE m = ModeBits(i) BY <1>7, <2>1, <2>2
  <2>3. CASE m = Out(i) /\ b \in OutsOnly
    <3>1. FineAt(b, Ctrl, R[Ctrl], W[Ctrl]) BY <1>5, <1>7, DioFacts DEF Fine
    <3>2. R[Ctrl] \subseteq Outs
      <4>1. \A v, z : FineAt(b, Ctrl, v, z) <=> (b \in OutsOnly => v \subseteq Outs) /\ z = v
        BY DioFine
      <4> QED BY <3>1, <4>1, <2>3
    <3>3. Outs \cap Fifo(i) = {} BY DEF Outs, Out, Fifo
    <3>4. R[Ctrl] \cap ModeBits(i) = R[Ctrl] \cap Out(i) BY <3>2, <3>3 DEF ModeBits
    <3>5. T \cap Out(i) = R[Ctrl] \cap Out(i) BY <2>1 DEF ModeBits
    <3> QED BY <1>7, <2>3, <3>4, <3>5
  <2> QED BY <1>7, <2>2, <2>3
<1>8. Decides(b, f, s) BY <1>1, <1>6, <1>7 DEF Decides
<1>9. \A R, W, T : Local(b, f, R, W, T) /\ (T \cap m) \in {w} => Local(b, f1, R, W, T)
  <2>1. ASSUME NEW R, NEW W, NEW T, Local(b, f, R, W, T), (T \cap m) \in {w}, NEW x \in f1
        PROVE  Holds(b, x, R, W, T)
    <3>1. x = Is(Ctrl, ModeBits(i), Out(i)) /\ ~(b = "me6000" /\ i # 0) BY <2>1, Void DEF DioAim
    <3>2. R[Ctrl] \cap ModeBits(i) = Out(i) BY <1>7, <2>1, <3>1
    <3> QED BY <3>1, <3>2 DEF Holds, Is
  <2> QED BY <2>1 DEF Local
<1>10. \A R, W, T : Local(b, f, R, W, T) /\ (T \cap m) \notin {w} => Local(b, Empty, R, W, T)
  BY Void DEF Local
<1>11. MarksStay(Empty, Empty) BY Void DEF MarksStay
<1>12. Fit(b, "task", h, f, Empty) BY <1>3, DioFacts, FitFree
<1>13. Fit(b, "task", h, Empty, Empty) BY Void, DioFacts, FitFree
<1>14. Does(b, "task", h, Empty, Empty, Load(Ctrl), h, f, Empty)
  BY <1>2, <1>13, Void, DioFacts, DoesLoad
<1>15. Does(b, "task", h, f1, Empty, P, h, Empty, Empty) BY DioWriteBody
<1> HIDE DEF f1
<1>16. Does(b, "task", h, f, Empty, Test(m, {w}, P), h, Empty, Empty)
  BY <1>8, <1>9, <1>10, <1>11, <1>12, <1>15, DoesTest DEF s
<1> QED BY <1>14, <1>16, DoesThen DEF IfModeIs

\* A write, with the test under the port's lock alone or under both.
LEMMA DioWrite ==
    ASSUME NEW b \in Dio, NEW i \in {0, 1}, NEW P, DioBody(b, i, P), NEW m,
           ~(b = "me6000" /\ i # 0) => m = ModeBits(i) \/ (m = Out(i) /\ b \in OutsOnly),
           NEW w, ~(b = "me6000" /\ i # 0) => w = Out(i)
    PROVE  /\ Good(b, "task", Empty, Empty, Empty, Under(Lock(i), IfModeIs(m, w, P)))
           /\ Good(b, "task", Empty, Empty, Empty, Under(Lock(i), Under(CtrlLock, IfModeIs(m, w, P))))
<1> DEFINE h == One(i) \cup {CtrlLock}
<1>0. h = Both2(i) BY DEF Both2
<1> HIDE DEF h
<1>1. Does(b, "task", One(i), Empty, Empty, IfModeIs(m, w, P), One(i), Empty, Empty)
  BY DioWriteIf
<1>2. Does(b, "task", h, Empty, Empty, IfModeIs(m, w, P), h, Empty, Empty)
  BY <1>0, DioWriteIf
<1>3. Good(b, "task", Empty, Empty, Empty, Under(Lock(i), IfModeIs(m, w, P)))
  BY <1>1, Void, DioAlone
<1>4. Does(b, "task", One(i), Empty, Empty, Under(CtrlLock, IfModeIs(m, w, P)), One(i), Empty, Empty)
  BY <1>2, DioInside DEF h
<1> QED BY <1>3, <1>4, Void, DioAlone

\* A read, with and without its locks.
LEMMA DioReads ==
    ASSUME NEW b \in Dio, NEW i \in {0, 1}, NEW pins, NEW in
    PROVE  /\ Good(b, "task", Empty, Empty, Empty, Read(Port(i), pins))
           /\ Good(b, "task", Empty, Empty, Empty, Read(Port(i), pins) \o Load(Ctrl))
           /\ Good(b, "task", Empty, Empty, Empty, Under(Lock(i), Read(Port(i), pins)))
           /\ Good(b, "task", Empty, Empty, Empty, Under(Lock(i), Read(Port(i), pins) \o Load(Ctrl)))
           /\ Good(b, "task", Empty, Empty, Empty, Under(Lock(i), Under(CtrlLock,
                Load(Ctrl) \o Test(ModeBits(i), in, Read(Port(i), pins)))))
<1>0. Turned \notin Empty BY Void
<1>1. ASSUME NEW h
      PROVE  /\ Does(b, "task", h, Empty, Empty, Read(Port(i), pins), h, Empty, Empty)
             /\ Does(b, "task", h, Empty, Empty, Load(Ctrl), h, Empty, Empty)
             /\ Does(b, "task", h, Empty, Empty, Read(Port(i), pins) \o Load(Ctrl), h, Empty, Empty)
             /\ Does(b, "task", h, Empty, Empty, Load(Ctrl) \o Test(ModeBits(i), in, Read(Port(i), pins)), h, Empty, Empty)
  <2>1. Fit(b, "task", h, Empty, Empty) BY Void, DioFacts, FitFree
  <2>2. Does(b, "task", h, Empty, Empty, Read(Port(i), pins), h, Empty, Empty)
    BY <1>0, <2>1, DoesRead
  <2>3. Does(b, "task", h, Empty, Empty, Load(Ctrl), h, Empty, Empty)
    BY <1>0, <2>1, DioFacts, DoesGlance
  <2>4. Does(b, "task", h, Empty, Empty, Read(Port(i), pins) \o Load(Ctrl), h, Empty, Empty)
    BY <2>2, <2>3, DoesThen
  <2>5. Does(b, "task", h, Empty, Empty, Test(ModeBits(i), in, Read(Port(i), pins)), h, Empty, Empty)
    BY <2>1, <2>2, DoesTestRead
  <2>6. Does(b, "task", h, Empty, Empty, Load(Ctrl) \o Test(ModeBits(i), in, Read(Port(i), pins)), h, Empty, Empty)
    BY <2>3, <2>5, DoesThen
  <2> QED BY <2>2, <2>3, <2>4, <2>6
<1>2. /\ Good(b, "task", Empty, Empty, Empty, Read(Port(i), pins))
      /\ Good(b, "task", Empty, Empty, Empty, Read(Port(i), pins) \o Load(Ctrl))
  BY <1>1, DoesAll
<1>3. Good(b, "task", Empty, Empty, Empty, Under(Lock(i), Read(Port(i), pins)))
  BY <1>1, Void, DioAlone
<1>4. Good(b, "task", Empty, Empty, Empty, Under(Lock(i), Read(Port(i), pins) \o Load(Ctrl)))
  BY <1>1, Void, DioAlone
<1>5. Does(b, "task", One(i), Empty, Empty, Under(CtrlLock,
                Load(Ctrl) \o Test(ModeBits(i), in, Read(Port(i), pins))), One(i), Empty, Empty)
  BY <1>1, DioInside
<1>6. Good(b, "task", Empty, Empty, Empty, Under(Lock(i), Under(CtrlLock,
                Load(Ctrl) \o Test(ModeBits(i), in, Read(Port(i), pins)))))
  BY <1>5, Void, DioAlone
<1> QED BY <1>2, <1>3, <1>4, <1>6

-----------------------------------------------------------------------------
(* Subdevices whose methods are safe.                                      *)

SafeHandler(b, i, x) ==
    /\ Good(b, "isr", Empty, Found(b, i), Empty, x.program)
    /\ Guarded(b, i) => \A R : x.bits \subseteq R[x.reg] => Live(b, i, R)

SafeSub(b, i, s) ==
    /\ Harmless(b, s.reset) /\ Harmless(b, s.stop) /\ Harmless(b, s.test)
    /\ \A a \in DOMAIN s.config : Harmless(b, s.config[a])
    /\ \A a \in Access : Harmless(b, s.read[a])
    /\ \A a \in Access, v \in Levels : Harmless(b, s.write[<<a, v>>])
    /\ \A a \in DOMAIN s.start : Harmless(b, s.start[a])
    /\ \A a \in DOMAIN s.wait : Harmless(b, s.wait[a])
    /\ \A x \in s.irqs : SafeHandler(b, i, x)

\* A method that is refused is harmless.
LEMMA Refuses == ASSUME NEW b PROVE Harmless(b, Refused) /\ Harmless(b, <<>>)
BY DEF Harmless

\* A method that does its work only for some pins is harmless when the work is.
LEMMA HarmlessPins ==
    ASSUME NEW b, NEW pins, NEW P, Harmless(b, P)
    PROVE  Harmless(b, IfPins(pins, P))
BY Refuses DEF IfPins

\* The pins a byte, word or double-word access covers are pins of the port.
LEMMA PinsOf ==
    ASSUME NEW a \in Access
    PROVE  Byte(a) \subseteq Pins(8) /\ Word(a) \subseteq Pins(16) /\ Dword(a) \subseteq Pins(32)
<1>1. a.channel \in Int BY DEF Access
<1>2. ASSUME NEW width \in {8, 16, 32}, NEW flags
      PROVE  Group(width, flags, a) \subseteq Pins(width)
  <2> DEFINE size == CASE a.flag = "bit" -> 1 [] a.flag = "byte" -> 8 [] a.flag = "word" -> 16
                [] a.flag = "dword" -> 32 [] OTHER -> width
  <2> DEFINE first == a.channel * size
  <2>1. size \in {1, 8, 16, 32} OBVIOUS
  <2>2. size \in Int BY <2>1
  <2>3. first \in Int BY <1>1, <2>1
  <2>4. Group(width, flags, a) = IF a.flag \in flags \cup {"none", "bit"} /\ first >= 0 /\ first + size <= width
                                 THEN first .. first + size - 1 ELSE {}
    BY DEF Group
  <2> HIDE DEF size, first
  <2> QED BY <2>2, <2>3, <2>4 DEF Pins
<1> QED BY <1>2 DEF Byte, Word, Dword

\* The pins written high are some of the pins covered.
LEMMA OnIn == ASSUME NEW v, NEW pins PROVE On(v, pins) \subseteq pins
BY DEF On

\* The mode bits of one port are none of another's ...
LEMMA KeptApart ==
    ASSUME NEW i \in {0, 1}, NEW X, X \subseteq ((ModeBits(i) \cup High(i)) \cup FunctionBits)
    PROVE  \A j \in Numbers : j # i => X \cap Mine(j) = {}
<1>1. ASSUME NEW j \in Numbers, j # i, NEW x, x \in X, x \in Mine(j)
      PROVE  FALSE
  <2>1. x \in {<<"out", i>>, <<"fifo", i>>, <<"high", i>>, <<"mux", 0>>, <<"demux", 0>>}
    BY <1>1 DEF ModeBits, Out, Fifo, High, FunctionBits
  <2>2. x \in {<<"out", j>>, <<"fifo", j>>, <<"en", j>>}
    BY <1>1 DEF Mine, ModeBits, Out, Fifo, LineEn
  <2>3. x[1] \in {"out", "fifo"} /\ x[2] = i /\ x[2] = j BY <2>1, <2>2
  <2> QED BY <2>3, <1>1
<1> QED BY <1>1

\* ... nor are its direction bits.
LEMMA OutApart ==
    ASSUME NEW i \in {0, 1}, NEW X, X \subseteq Out(i)
    PROVE  \A j \in Numbers : j # i => (Out(i) \cup X) \cap Mine(j) = {}
<1> DEFINE Y == Out(i) \cup X
<1>1. Y \subseteq ((ModeBits(i) \cup High(i)) \cup FunctionBits) BY DEF ModeBits
<1> HIDE DEF Y
<1>2. \A j \in Numbers : j # i => Y \cap Mine(j) = {} BY <1>1, KeptApart, Zenon
<1> QED BY <1>2 DEF Y

\* The methods of the ME-1000's ports are safe ...
LEMMA SafeMe1000 == ASSUME NEW i \in {0, 1} PROVE SafeSub("me1000", i, me1000_dio_constr(i))
<1> DEFINE b == "me1000"
<1>0. b \in Dio /\ Width(b) = 32 /\ b \in OutsOnly /\ b # "me6000" BY DEF Dio, Width, OutsOnly
<1>a. b \in BoardNames BY DEF BoardNames
<1> HIDE DEF b
<1>1. Harmless(b, me1000_dio_io_reset_subdevice(i))
  <2>1. \A j \in Numbers : j # i => (Out(i) \cup {}) \cap Mine(j) = {} BY OutApart
  <2>2. {} \subseteq Outs OBVIOUS
  <2>3. Good(b, "task", Empty, Empty, Empty,
             Under(Lock(i), Under(CtrlLock, Rmw(Ctrl, Out(i), {})) \o Put(Port(i), Pins(Width(b)), {})))
    BY <1>0, <2>1, <2>2, DioReset
  <2> QED BY <1>0, <2>3 DEF Harmless, me1000_dio_io_reset_subdevice
<1>2. \A a \in ConfigArg : Harmless(b, me1000_dio_io_single_config(i, a))
  <2>1. ASSUME NEW a, NEW set, set = IF a.mode = "output" THEN Out(i) ELSE {}
        PROVE  Harmless(b, Under(Lock(i), Under(CtrlLock, Rmw(Ctrl, Out(i), set))))
    <3>1. set \subseteq Out(i) BY <2>1
    <3>2. \A j \in Numbers : j # i => (Out(i) \cup set) \cap Mine(j) = {} BY <3>1, OutApart
    <3>3. set \subseteq Outs BY <3>1 DEF Outs
    <3> QED BY <1>0, <3>2, <3>3, DioConfig DEF Harmless
  <2> QED BY <2>1, Refuses DEF me1000_dio_io_single_config
<1>3. \A a \in Access : Harmless(b, me1000_dio_io_single_read(i, a))
  BY <1>0, DioReads, HarmlessPins DEF me1000_dio_io_single_read, Harmless
<1>4. \A a \in Access, v \in Levels : Harmless(b, me1000_dio_io_single_write(i, a, v))
  <2>1. ASSUME NEW a \in Access, NEW v \in Levels
        PROVE  Harmless(b, me1000_dio_io_single_write(i, a, v))
    <3> DEFINE P == Rmw(Port(i), Dword(a), On(v, Dword(a)))
    <3>1. On(v, Dword(a)) \subseteq Pins(Width(b)) BY <1>0, PinsOf, OnIn
    <3>2. DioBody(b, i, P) BY <3>1 DEF DioBody
    <3> HIDE DEF P
    <3>3. Good(b, "task", Empty, Empty, Empty, Under(Lock(i), IfModeIs(Out(i), Out(i), P)))
      BY <1>0, <3>2, DioWrite
    <3>4. Harmless(b, Under(Lock(i), IfOutput(i, P))) BY <3>3 DEF Harmless, IfModeIs, IfOutput
    <3> QED BY <3>4, HarmlessPins DEF me1000_dio_io_single_write, P
  <2> QED BY <2>1
<1> QED BY <1>1, <1>2, <1>3, <1>4, Refuses DEF SafeSub, me1000_dio_constr, Made, b

\* ... of the ME-0600's ...
LEMMA SafeMe0600 == ASSUME NEW i \in {0, 1} PROVE SafeSub("me0600_dio", i, me0600_dio_constr(i))
<1> DEFINE b == "me0600_dio"
<1>0. b \in Dio /\ Width(b) = 8 /\ b \notin {"me1000"} /\ (b \in OutsOnly <=> b = "me0600_dio")
  BY DEF Dio, Width, OutsOnly
<1>a. \A a \in Access : Byte(a) \subseteq Pins(8) BY PinsOf
<1> HIDE DEF b
<1>1. Harmless(b, me0600_dio_io_reset_subdevice(i))
  <2> DEFINE X == ModeBits(i)
  <2> DEFINE Y == {}
  <2> DEFINE Z == X \cup Y
  <2>0. X \subseteq ((ModeBits(i) \cup High(i)) \cup FunctionBits) /\ Y \subseteq ModeBits(i)
    BY DEF ModeBits
  <2>1. Z \subseteq ((ModeBits(i) \cup High(i)) \cup FunctionBits) BY <2>0
  <2>2. b \in OutsOnly => Y \subseteq Outs BY <1>0
  <2> HIDE DEF X, Y, Z
  <2>3. \A j \in Numbers : j # i => Z \cap Mine(j) = {} BY <2>1, KeptApart
  <2>4. \A j \in Numbers : j # i => (X \cup Y) \cap Mine(j) = {} BY <2>3 DEF Z
  <2>5. Good(b, "task", Empty, Empty, Empty,
             Under(Lock(i), Under(CtrlLock, Rmw(Ctrl, X, Y)) \o Put(Port(i), Pins(Width(b)), {})))
    BY <1>0, <2>2, <2>4, DioReset
  <2> QED BY <1>0, <2>5 DEF Harmless, me0600_dio_io_reset_subdevice, X, Y
<1>2. \A a \in ConfigArg : Harmless(b, me0600_dio_io_single_config(i, a))
  <2>1. ASSUME NEW X, NEW Y, X \subseteq ((ModeBits(i) \cup High(i)) \cup FunctionBits),
               Y \subseteq ((ModeBits(i) \cup High(i)) \cup FunctionBits), b \in OutsOnly => Y \subseteq Outs
        PROVE  Harmless(b, Under(Lock(i), Under(CtrlLock, Rmw(Ctrl, X, Y))))
    <3> DEFINE Z == X \cup Y
    <3>1. Z \subseteq ((ModeBits(i) \cup High(i)) \cup FunctionBits) BY <2>1
    <3> HIDE DEF Z
    <3>2. \A j \in Numbers : j # i => Z \cap Mine(j) = {} BY <3>1, KeptApart
    <3>3. \A j \in Numbers : j # i => (X \cup Y) \cap Mine(j) = {} BY <3>2 DEF Z
    <3> QED BY <1>0, <2>1, <3>3, DioConfig DEF Harmless
  <2>2. ASSUME NEW a
        PROVE  Harmless(b, me0600_dio_io_single_config(i, a))
    <3> DEFINE Y == IF a.mode = "output" THEN Out(i) ELSE {}
    <3>1. Out(i) \subseteq ((ModeBits(i) \cup High(i)) \cup FunctionBits) BY DEF ModeBits
    <3>2. Y \subseteq ((ModeBits(i) \cup High(i)) \cup FunctionBits) BY DEF ModeBits
    <3>3. b \in OutsOnly => Y \subseteq Outs BY DEF Outs
    <3> HIDE DEF Y
    <3>4. Harmless(b, Under(Lock(i), Under(CtrlLock, Rmw(Ctrl, Out(i), Y))))
      BY <2>1, <3>1, <3>2, <3>3
    <3> QED BY <3>4, Refuses DEF me0600_dio_io_single_config, Y
  <2> QED BY <2>2
<1>3. \A a \in Access : Harmless(b, me0600_dio_io_single_read(i, a))
  BY <1>0, DioReads, HarmlessPins DEF me0600_dio_io_single_read, Harmless
<1>4. \A a \in Access, v \in Levels : Harmless(b, me0600_dio_io_single_write(i, a, v))
  <2>1. ASSUME NEW a \in Access, NEW v \in Levels
        PROVE  Harmless(b, me0600_dio_io_single_write(i, a, v))
    <3> DEFINE P == Rmw(Port(i), Byte(a), On(v, Byte(a)))
    <3>2. DioBody(b, i, P)
      <4>1. On(v, Byte(a)) \subseteq Pins(Width(b)) /\ On(v, Pins(8)) \subseteq Pins(Width(b))
        BY <1>0, <1>a, OnIn
      <4>2. Pins(8) = Pins(Width(b)) BY <1>0
      <4> QED BY <4>1, <4>2 DEF DioBody, ByteOrBit
    <3> HIDE DEF P
    <3> DEFINE m == Out(i)
    <3> DEFINE w == Out(i)
    <3>3. ~(b = "me6000" /\ i # 0) => (m = ModeBits(i) \/ (m = Out(i) /\ b \in OutsOnly)) /\ w = Out(i)
      BY <1>0 DEF b
    <3> HIDE DEF m, w
    <3>4. /\ Good(b, "task", Empty, Empty, Empty, Under(Lock(i), IfModeIs(m, w, P)))
          /\ Good(b, "task", Empty, Empty, Empty, Under(Lock(i), Under(CtrlLock, IfModeIs(m, w, P))))
      BY <1>0, <3>2, <3>3, DioWrite
    <3>5. Harmless(b, Under(Lock(i), IfOutput(i, P))) BY <3>4 DEF Harmless, IfModeIs, IfOutput, m, w
    <3> QED BY <3>5, HarmlessPins DEF me0600_dio_io_single_write, P, m, w
  <2> QED BY <2>1
<1> QED BY <1>1, <1>2, <1>3, <1>4, Refuses DEF SafeSub, me0600_dio_constr, Made, b

\* ... of the ME-4600's ...
LEMMA SafeMe4600 == ASSUME NEW i \in {0, 1} PROVE SafeSub("me4600", i, me4600_dio_constr(i, "dio"))
<1> DEFINE b == "me4600"
<1>0. b \in Dio /\ Width(b) = 8 /\ b \notin {"me1000"} /\ (b \in OutsOnly <=> b = "me0600_dio")
  BY DEF Dio, Width, OutsOnly
<1>a. \A a \in Access : Byte(a) \subseteq Pins(8) BY PinsOf
<1>b. b # "me0600_dio" OBVIOUS
<1> DEFINE type == "dio"
<1> HIDE DEF type
<1> HIDE DEF b
<1>1. Harmless(b, me4600_dio_io_reset_subdevice(i, type))
  <2> DEFINE X == ModeBits(i) \cup High(i) \cup FunctionBits
  <2> DEFINE Y == IF type = "do" THEN Out(i) ELSE {}
  <2> DEFINE Z == X \cup Y
  <2>0. X \subseteq ((ModeBits(i) \cup High(i)) \cup FunctionBits) /\ Y \subseteq ModeBits(i)
    BY DEF ModeBits
  <2>1. Z \subseteq ((ModeBits(i) \cup High(i)) \cup FunctionBits) BY <2>0
  <2>2. b \in OutsOnly => Y \subseteq Outs BY <1>0, <1>b
  <2> HIDE DEF X, Y, Z
  <2>3. \A j \in Numbers : j # i => Z \cap Mine(j) = {} BY <2>1, KeptApart
  <2>4. \A j \in Numbers : j # i => (X \cup Y) \cap Mine(j) = {} BY <2>3 DEF Z
  <2>5. Good(b, "task", Empty, Empty, Empty,
             Under(Lock(i), Under(CtrlLock, Rmw(Ctrl, X, Y)) \o Put(Port(i), Pins(Width(b)), {})))
    BY <1>0, <2>2, <2>4, DioReset
  <2> QED BY <1>0, <2>5 DEF Harmless, me4600_dio_io_reset_subdevice, X, Y
<1>2. \A a \in ConfigArg : Harmless(b, me4600_dio_io_single_config(i, type, a))
  <2>1. ASSUME NEW X, NEW Y, X \subseteq ((ModeBits(i) \cup High(i)) \cup FunctionBits),
               Y \subseteq ((ModeBits(i) \cup High(i)) \cup FunctionBits), b \in OutsOnly => Y \subseteq Outs
        PROVE  Harmless(b, Under(Lock(i), Under(CtrlLock, Rmw(Ctrl, X, Y))))
    <3> DEFINE Z == X \cup Y
    <3>1. Z \subseteq ((ModeBits(i) \cup High(i)) \cup FunctionBits) BY <2>1
    <3> HIDE DEF Z
    <3>2. \A j \in Numbers : j # i => Z \cap Mine(j) = {} BY <3>1, KeptApart
    <3>3. \A j \in Numbers : j # i => (X \cup Y) \cap Mine(j) = {} BY <3>2 DEF Z
    <3> QED BY <1>0, <2>1, <3>3, DioConfig DEF Harmless
  <2>2. ASSUME NEW a
        PROVE  Harmless(b, me4600_dio_io_single_config(i, type, a))
    <3> DEFINE function == CASE a.mode = "mux32m" -> {<<"mux", 0>>} [] a.mode = "demux32" -> {<<"demux", 0>>}
                             [] OTHER -> {}
    <3> DEFINE streams == a.mode \notin {"input", "output"}
    <3> DEFINE mode == CASE a.mode = "input" -> {} [] a.mode = "output" -> Out(i) [] OTHER -> ModeBits(i)
    <3> DEFINE X == ModeBits(i) \cup High(i) \cup (IF streams THEN FunctionBits ELSE {})
    <3> DEFINE Y == mode \cup function \cup (IF a.ref = "fifo_high" THEN High(i) ELSE {})
    <3>1. X \subseteq ((ModeBits(i) \cup High(i)) \cup FunctionBits) OBVIOUS
    <3>2. Y \subseteq ((ModeBits(i) \cup High(i)) \cup FunctionBits)
      <4>1. function \subseteq FunctionBits BY DEF FunctionBits
      <4>2. mode \subseteq ModeBits(i) BY DEF ModeBits
      <4> HIDE DEF function, mode
      <4> QED BY <4>1, <4>2
    <3>3. b \in OutsOnly => Y \subseteq Outs BY <1>0, <1>b
    <3> HIDE DEF X, Y
    <3>4. Harmless(b, Under(Lock(i), Under(CtrlLock, Rmw(Ctrl, X, Y)))) BY <2>1, <3>1, <3>2, <3>3
    <3> QED BY <3>4, Refuses DEF me4600_dio_io_single_config, X, Y
  <2> QED BY <2>2
<1>3. \A a \in Access : Harmless(b, me4600_dio_io_single_read(i, a))
  BY <1>0, DioReads, HarmlessPins DEF me4600_dio_io_single_read, Harmless
<1>4. \A a \in Access, v \in Levels : Harmless(b, me4600_dio_io_single_write(i, a, v))
  <2>1. ASSUME NEW a \in Access, NEW v \in Levels
        PROVE  Harmless(b, me4600_dio_io_single_write(i, a, v))
    <3> DEFINE P == ByteOrBit(i, a, v)
    <3>2. DioBody(b, i, P)
      <4>1. On(v, Byte(a)) \subseteq Pins(Width(b)) /\ On(v, Pins(8)) \subseteq Pins(Width(b))
        BY <1>0, <1>a, OnIn
      <4>2. Pins(8) = Pins(Width(b)) BY <1>0
      <4> QED BY <4>1, <4>2 DEF DioBody, ByteOrBit
    <3> HIDE DEF P
    <3> DEFINE m == ModeBits(i)
    <3> DEFINE w == Out(i)
    <3>3. ~(b = "me6000" /\ i # 0) => (m = ModeBits(i) \/ (m = Out(i) /\ b \in OutsOnly)) /\ w = Out(i)
      OBVIOUS
    <3> HIDE DEF m, w
    <3>4. /\ Good(b, "task", Empty, Empty, Empty, Under(Lock(i), IfModeIs(m, w, P)))
          /\ Good(b, "task", Empty, Empty, Empty, Under(Lock(i), Under(CtrlLock, IfModeIs(m, w, P))))
      BY <1>0, <3>2, <3>3, DioWrite
    <3>5. Harmless(b, Under(Lock(i), IfModeIs(m, w, P)))
      BY <3>4 DEF Harmless, IfModeIs, IfOutput, m, w
    <3> QED BY <3>5, HarmlessPins DEF me4600_dio_io_single_write, P, m, w
  <2> QED BY <2>1
<1>5. SafeSub(b, i, me4600_dio_constr(i, type))
  BY <1>1, <1>2, <1>3, <1>4, Refuses DEF SafeSub, me4600_dio_constr, Made
<1> QED BY <1>5 DEF b, type

\* ... of the opto-isolated ME-4600's, where port 0 is an output and port 1 an input ...
LEMMA SafeMe4600i == ASSUME NEW i \in {0, 1} PROVE SafeSub("me4600i", i, me4600_dio_constr(i, IF i = 0 THEN "do" ELSE "di"))
<1> DEFINE b == "me4600i"
<1>0. b \in Dio /\ Width(b) = 8 /\ b \notin {"me1000"} /\ (b \in OutsOnly <=> b = "me0600_dio")
  BY DEF Dio, Width, OutsOnly
<1>a. \A a \in Access : Byte(a) \subseteq Pins(8) BY PinsOf
<1>b. b # "me0600_dio" OBVIOUS
<1> DEFINE type == IF i = 0 THEN "do" ELSE "di"
<1> HIDE DEF type
<1> HIDE DEF b
<1>1. Harmless(b, me4600_dio_io_reset_subdevice(i, type))
  <2> DEFINE X == ModeBits(i) \cup High(i) \cup FunctionBits
  <2> DEFINE Y == IF type = "do" THEN Out(i) ELSE {}
  <2> DEFINE Z == X \cup Y
  <2>0. X \subseteq ((ModeBits(i) \cup High(i)) \cup FunctionBits) /\ Y \subseteq ModeBits(i)
    BY DEF ModeBits
  <2>1. Z \subseteq ((ModeBits(i) \cup High(i)) \cup FunctionBits) BY <2>0
  <2>2. b \in OutsOnly => Y \subseteq Outs BY <1>0, <1>b
  <2> HIDE DEF X, Y, Z
  <2>3. \A j \in Numbers : j # i => Z \cap Mine(j) = {} BY <2>1, KeptApart
  <2>4. \A j \in Numbers : j # i => (X \cup Y) \cap Mine(j) = {} BY <2>3 DEF Z
  <2>5. Good(b, "task", Empty, Empty, Empty,
             Under(Lock(i), Under(CtrlLock, Rmw(Ctrl, X, Y)) \o Put(Port(i), Pins(Width(b)), {})))
    BY <1>0, <2>2, <2>4, DioReset
  <2> QED BY <1>0, <2>5 DEF Harmless, me4600_dio_io_reset_subdevice, X, Y
<1>2. \A a \in ConfigArg : Harmless(b, me4600_dio_io_single_config(i, type, a))
  <2>1. ASSUME NEW X, NEW Y, X \subseteq ((ModeBits(i) \cup High(i)) \cup FunctionBits),
               Y \subseteq ((ModeBits(i) \cup High(i)) \cup FunctionBits), b \in OutsOnly => Y \subseteq Outs
        PROVE  Harmless(b, Under(Lock(i), Under(CtrlLock, Rmw(Ctrl, X, Y))))
    <3> DEFINE Z == X \cup Y
    <3>1. Z \subseteq ((ModeBits(i) \cup High(i)) \cup FunctionBits) BY <2>1
    <3> HIDE DEF Z
    <3>2. \A j \in Numbers : j # i => Z \cap Mine(j) = {} BY <3>1, KeptApart
    <3>3. \A j \in Numbers : j # i => (X \cup Y) \cap Mine(j) = {} BY <3>2 DEF Z
    <3> QED BY <1>0, <2>1, <3>3, DioConfig DEF Harmless
  <2>2. ASSUME NEW a
        PROVE  Harmless(b, me4600_dio_io_single_config(i, type, a))
    <3> DEFINE function == CASE a.mode = "mux32m" -> {<<"mux", 0>>} [] a.mode = "demux32" -> {<<"demux", 0>>}
                             [] OTHER -> {}
    <3> DEFINE streams == a.mode \notin {"input", "output"}
    <3> DEFINE mode == CASE a.mode = "input" -> {} [] a.mode = "output" -> Out(i) [] OTHER -> ModeBits(i)
    <3> DEFINE X == ModeBits(i) \cup High(i) \cup (IF streams THEN FunctionBits ELSE {})
    <3> DEFINE Y == mode \cup function \cup (IF a.ref = "fifo_high" THEN High(i) ELSE {})
    <3>1. X \subseteq ((ModeBits(i) \cup High(i)) \cup FunctionBits) OBVIOUS
    <3>2. Y \subseteq ((ModeBits(i) \cup High(i)) \cup FunctionBits)
      <4>1. function \subseteq FunctionBits BY DEF FunctionBits
      <4>2. mode \subseteq ModeBits(i) BY DEF ModeBits
      <4> HIDE DEF function, mode
      <4> QED BY <4>1, <4>2
    <3>3. b \in OutsOnly => Y \subseteq Outs BY <1>0, <1>b
    <3> HIDE DEF X, Y
    <3>4. Harmless(b, Under(Lock(i), Under(CtrlLock, Rmw(Ctrl, X, Y)))) BY <2>1, <3>1, <3>2, <3>3
    <3> QED BY <3>4, Refuses DEF me4600_dio_io_single_config, X, Y
  <2> QED BY <2>2
<1>3. \A a \in Access : Harmless(b, me4600_dio_io_single_read(i, a))
  BY <1>0, DioReads, HarmlessPins DEF me4600_dio_io_single_read, Harmless
<1>4. \A a \in Access, v \in Levels : Harmless(b, me4600_dio_io_single_write(i, a, v))
  <2>1. ASSUME NEW a \in Access, NEW v \in Levels
        PROVE  Harmless(b, me4600_dio_io_single_write(i, a, v))
    <3> DEFINE P == ByteOrBit(i, a, v)
    <3>2. DioBody(b, i, P)
      <4>1. On(v, Byte(a)) \subseteq Pins(Width(b)) /\ On(v, Pins(8)) \subseteq Pins(Width(b))
        BY <1>0, <1>a, OnIn
      <4>2. Pins(8) = Pins(Width(b)) BY <1>0
      <4> QED BY <4>1, <4>2 DEF DioBody, ByteOrBit
    <3> HIDE DEF P
    <3> DEFINE m == ModeBits(i)
    <3> DEFINE w == Out(i)
    <3>3. ~(b = "me6000" /\ i # 0) => (m = ModeBits(i) \/ (m = Out(i) /\ b \in OutsOnly)) /\ w = Out(i)
      OBVIOUS
    <3> HIDE DEF m, w
    <3>4. /\ Good(b, "task", Empty, Empty, Empty, Under(Lock(i), IfModeIs(m, w, P)))
          /\ Good(b, "task", Empty, Empty, Empty, Under(Lock(i), Under(CtrlLock, IfModeIs(m, w, P))))
      BY <1>0, <3>2, <3>3, DioWrite
    <3>5. Harmless(b, Under(Lock(i), IfModeIs(m, w, P)))
      BY <3>4 DEF Harmless, IfModeIs, IfOutput, m, w
    <3> QED BY <3>5, HarmlessPins DEF me4600_dio_io_single_write, P, m, w
  <2> QED BY <2>1
<1>5. SafeSub(b, i, me4600_dio_constr(i, type))
  BY <1>1, <1>2, <1>3, <1>4, Refuses DEF SafeSub, me4600_dio_constr, Made
<1> QED BY <1>5 DEF b, type

\* ... of the ME-6000's ...
LEMMA SafeMe6000 == ASSUME NEW i \in {0, 1} PROVE SafeSub("me6000", i, me6000_dio_constr(i))
<1> DEFINE b == "me6000"
<1>0. b \in Dio /\ Width(b) = 8 /\ b \notin {"me1000"} /\ (b \in OutsOnly <=> b = "me0600_dio")
  BY DEF Dio, Width, OutsOnly
<1>a. \A a \in Access : Byte(a) \subseteq Pins(8) BY PinsOf
<1>b. b = "me6000" OBVIOUS
<1>c. i = 0 => me6000_dio_tested(i) = 0 BY DEF me6000_dio_tested
<1> HIDE DEF b
<1>1. Harmless(b, me6000_dio_io_reset_subdevice(i))
  <2> DEFINE X == ModeBits(i)
  <2> DEFINE Y == {}
  <2> DEFINE Z == X \cup Y
  <2>0. X \subseteq ((ModeBits(i) \cup High(i)) \cup FunctionBits) /\ Y \subseteq ModeBits(i)
    BY DEF ModeBits
  <2>1. Z \subseteq ((ModeBits(i) \cup High(i)) \cup FunctionBits) BY <2>0
  <2>2. b \in OutsOnly => Y \subseteq Outs BY <1>0
  <2> HIDE DEF X, Y, Z
  <2>3. \A j \in Numbers : j # i => Z \cap Mine(j) = {} BY <2>1, KeptApart
  <2>4. \A j \in Numbers : j # i => (X \cup Y) \cap Mine(j) = {} BY <2>3 DEF Z
  <2>5. Good(b, "task", Empty, Empty, Empty,
             Under(Lock(i), Under(CtrlLock, Rmw(Ctrl, X, Y)) \o Put(Port(i), Pins(Width(b)), {})))
    BY <1>0, <2>2, <2>4, DioReset
  <2> QED BY <1>0, <2>5 DEF Harmless, me6000_dio_io_reset_subdevice, X, Y
<1>2. \A a \in ConfigArg : Harmless(b, me6000_dio_io_single_config(i, a))
  <2>1. ASSUME NEW X, NEW Y, X \subseteq ((ModeBits(i) \cup High(i)) \cup FunctionBits),
               Y \subseteq ((ModeBits(i) \cup High(i)) \cup FunctionBits), b \in OutsOnly => Y \subseteq Outs
        PROVE  Harmless(b, Under(Lock(i), Under(CtrlLock, Rmw(Ctrl, X, Y))))
    <3> DEFINE Z == X \cup Y
    <3>1. Z \subseteq ((ModeBits(i) \cup High(i)) \cup FunctionBits) BY <2>1
    <3> HIDE DEF Z
    <3>2. \A j \in Numbers : j # i => Z \cap Mine(j) = {} BY <3>1, KeptApart
    <3>3. \A j \in Numbers : j # i => (X \cup Y) \cap Mine(j) = {} BY <3>2 DEF Z
    <3> QED BY <1>0, <2>1, <3>3, DioConfig DEF Harmless
  <2>2. ASSUME NEW a
        PROVE  Harmless(b, me6000_dio_io_single_config(i, a))
    <3> DEFINE Y == IF a.mode = "output" THEN Out(i) ELSE {}
    <3>1. ModeBits(i) \subseteq ((ModeBits(i) \cup High(i)) \cup FunctionBits) BY DEF ModeBits
    <3>2. Y \subseteq ((ModeBits(i) \cup High(i)) \cup FunctionBits) BY DEF ModeBits
    <3>3. b \in OutsOnly => Y \subseteq Outs BY DEF Outs
    <3> HIDE DEF Y
    <3>4. Harmless(b, Under(Lock(i), Under(CtrlLock, Rmw(Ctrl, ModeBits(i), Y))))
      BY <2>1, <3>1, <3>2, <3>3
    <3> QED BY <3>4, Refuses DEF me6000_dio_io_single_config, Y
  <2> QED BY <2>2
<1>3. \A a \in Access : Harmless(b, me6000_dio_io_single_read(i, a))
  BY <1>0, DioReads, HarmlessPins DEF me6000_dio_io_single_read, Harmless
<1>4. \A a \in Access, v \in Levels : Harmless(b, me6000_dio_io_single_write(i, a, v))
  <2>1. ASSUME NEW a \in Access, NEW v \in Levels
        PROVE  Harmless(b, me6000_dio_io_single_write(i, a, v))
    <3> DEFINE P == ByteOrBit(i, a, v)
    <3>2. DioBody(b, i, P)
      <4>1. On(v, Byte(a)) \subseteq Pins(Width(b)) /\ On(v, Pins(8)) \subseteq Pins(Width(b))
        BY <1>0, <1>a, OnIn
      <4>2. Pins(8) = Pins(Width(b)) BY <1>0
      <4> QED BY <4>1, <4>2 DEF DioBody, ByteOrBit
    <3> HIDE DEF P
    <3> DEFINE m == ModeBits(me6000_dio_tested(i))
    <3> DEFINE w == Out(me6000_dio_tested(i))
    <3>3. ~(b = "me6000" /\ i # 0) => (m = ModeBits(i) \/ (m = Out(i) /\ b \in OutsOnly)) /\ w = Out(i)
      BY <1>b, <1>c
    <3> HIDE DEF m, w
    <3>4. /\ Good(b, "task", Empty, Empty, Empty, Under(Lock(i), IfModeIs(m, w, P)))
          /\ Good(b, "task", Empty, Empty, Empty, Under(Lock(i), Under(CtrlLock, IfModeIs(m, w, P))))
      BY <1>0, <3>2, <3>3, DioWrite
    <3>5. Harmless(b, Under(Lock(i), IfModeIs(m, w, P)))
      BY <3>4 DEF Harmless, IfModeIs, IfOutput, m, w
    <3> QED BY <3>5, HarmlessPins DEF me6000_dio_io_single_write, P, m, w
  <2> QED BY <2>1
<1> QED BY <1>1, <1>2, <1>3, <1>4, Refuses DEF SafeSub, me6000_dio_constr, Made, b

\* ... and of the ME-8200's.
LEMMA SafeMe8200Dio == ASSUME NEW i \in {0, 1} PROVE SafeSub("me8200_dio", i, me8200_dio_constr(i))
<1> DEFINE b == "me8200_dio"
<1>0. b \in Dio /\ Width(b) = 8 /\ b \notin {"me1000"} /\ (b \in OutsOnly <=> b = "me0600_dio")
  BY DEF Dio, Width, OutsOnly
<1>a. \A a \in Access : Byte(a) \subseteq Pins(8) BY PinsOf
<1> HIDE DEF b
<1>1. Harmless(b, me8200_dio_io_reset_subdevice(i))
  <2> DEFINE X == ModeBits(i)
  <2> DEFINE Y == {}
  <2> DEFINE Z == X \cup Y
  <2>0. X \subseteq ((ModeBits(i) \cup High(i)) \cup FunctionBits) /\ Y \subseteq ModeBits(i)
    BY DEF ModeBits
  <2>1. Z \subseteq ((ModeBits(i) \cup High(i)) \cup FunctionBits) BY <2>0
  <2>2. b \in OutsOnly => Y \subseteq Outs BY <1>0
  <2> HIDE DEF X, Y, Z
  <2>3. \A j \in Numbers : j # i => Z \cap Mine(j) = {} BY <2>1, KeptApart
  <2>4. \A j \in Numbers : j # i => (X \cup Y) \cap Mine(j) = {} BY <2>3 DEF Z
  <2>5. Good(b, "task", Empty, Empty, Empty,
             Under(Lock(i), Under(CtrlLock, Rmw(Ctrl, X, Y)) \o Put(Port(i), Pins(Width(b)), {})))
    BY <1>0, <2>2, <2>4, DioReset
  <2> QED BY <1>0, <2>5 DEF Harmless, me8200_dio_io_reset_subdevice, X, Y
<1>2. \A a \in ConfigArg : Harmless(b, me8200_dio_io_single_config(i, a))
  <2>1. ASSUME NEW X, NEW Y, X \subseteq ((ModeBits(i) \cup High(i)) \cup FunctionBits),
               Y \subseteq ((ModeBits(i) \cup High(i)) \cup FunctionBits), b \in OutsOnly => Y \subseteq Outs
        PROVE  Harmless(b, Under(Lock(i), Under(CtrlLock, Rmw(Ctrl, X, Y))))
    <3> DEFINE Z == X \cup Y
    <3>1. Z \subseteq ((ModeBits(i) \cup High(i)) \cup FunctionBits) BY <2>1
    <3> HIDE DEF Z
    <3>2. \A j \in Numbers : j # i => Z \cap Mine(j) = {} BY <3>1, KeptApart
    <3>3. \A j \in Numbers : j # i => (X \cup Y) \cap Mine(j) = {} BY <3>2 DEF Z
    <3> QED BY <1>0, <2>1, <3>3, DioConfig DEF Harmless
  <2>2. ASSUME NEW a
        PROVE  Harmless(b, me8200_dio_io_single_config(i, a))
    <3> DEFINE Y == IF a.mode = "output" THEN Out(i) ELSE {}
    <3>1. ModeBits(i) \subseteq ((ModeBits(i) \cup High(i)) \cup FunctionBits) BY DEF ModeBits
    <3>2. Y \subseteq ((ModeBits(i) \cup High(i)) \cup FunctionBits) BY DEF ModeBits
    <3>3. b \in OutsOnly => Y \subseteq Outs BY DEF Outs
    <3> HIDE DEF Y
    <3>4. Harmless(b, Under(Lock(i), Under(CtrlLock, Rmw(Ctrl, ModeBits(i), Y))))
      BY <2>1, <3>1, <3>2, <3>3
    <3> QED BY <3>4, Refuses DEF me8200_dio_io_single_config, Y
  <2> QED BY <2>2
<1>3. \A a \in Access : Harmless(b, me8200_dio_io_single_read(i, a))
  BY <1>0, DioReads, HarmlessPins DEF me8200_dio_io_single_read, Harmless
<1>4. \A a \in Access, v \in Levels : Harmless(b, me8200_dio_io_single_write(i, a, v))
  <2>1. ASSUME NEW a \in Access, NEW v \in Levels
        PROVE  Harmless(b, me8200_dio_io_single_write(i, a, v))
    <3> DEFINE P == ByteOrBit(i, a, v)
    <3>2. DioBody(b, i, P)
      <4>1. On(v, Byte(a)) \subseteq Pins(Width(b)) /\ On(v, Pins(8)) \subseteq Pins(Width(b))
        BY <1>0, <1>a, OnIn
      <4>2. Pins(8) = Pins(Width(b)) BY <1>0
      <4> QED BY <4>1, <4>2 DEF DioBody, ByteOrBit
    <3> HIDE DEF P
    <3> DEFINE m == ModeBits(i)
    <3> DEFINE w == Out(i)
    <3>3. ~(b = "me6000" /\ i # 0) => (m = ModeBits(i) \/ (m = Out(i) /\ b \in OutsOnly)) /\ w = Out(i)
      OBVIOUS
    <3> HIDE DEF m, w
    <3>4. /\ Good(b, "task", Empty, Empty, Empty, Under(Lock(i), IfModeIs(m, w, P)))
          /\ Good(b, "task", Empty, Empty, Empty, Under(Lock(i), Under(CtrlLock, IfModeIs(m, w, P))))
      BY <1>0, <3>2, <3>3, DioWrite
    <3>5. Harmless(b, Under(Lock(i), Under(CtrlLock, IfModeIs(m, w, P))))
      BY <3>4 DEF Harmless, IfModeIs, IfOutput, m, w
    <3> QED BY <3>5, HarmlessPins DEF me8200_dio_io_single_write, P, m, w
  <2> QED BY <2>1
<1> QED BY <1>1, <1>2, <1>3, <1>4, Refuses DEF SafeSub, me8200_dio_constr, Made, b

-----------------------------------------------------------------------------
(* Inputs, relays and ports that are active low.                           *)

\* On a board without ties a section under a lock no bond lives under is good.
LEMMA PlainAlone ==
    ASSUME NEW b, NoTies(b), NEW l, Bare(b, l), l # IrqLine, NEW P, NEW f,
           \A k \in f : Stable(b, "task", Empty \cup {l}, k),
           Does(b, "task", Empty \cup {l}, Empty, Empty, P, Empty \cup {l}, f, Empty)
    PROVE  Good(b, "task", Empty, Empty, Empty, Under(l, P))
<1> DEFINE h == Empty \cup {l}
<1>1. l \notin Empty BY Void
<1> HIDE DEF h
<1>2. Fit(b, "task", Empty, Empty, Empty) BY FitFree, Void
<1>3. Fit(b, "task", h, f, Empty)
  <2>1. \A k \in f : Stable(b, "task", h, k) BY DEF h
  <2> QED BY <2>1, FitFree
<1>5. Empty \subseteq f BY Void
<1>6. Does(b, "task", Empty, Empty, Empty, Under(l, P), Empty, Empty, Empty)
  BY <1>1, <1>2, <1>3, <1>5, DoesSection DEF h
<1> QED BY <1>6, DoesAll

\* On such a board a read is harmless, with or without a lock.
LEMMA PlainRead ==
    ASSUME NEW b, NoTies(b), NEW r, NEW pins
    PROVE  /\ \A h : Does(b, "task", h, Empty, Empty, Read(r, pins), h, Empty, Empty)
           /\ Harmless(b, Read(r, pins))
           /\ \A l : Bare(b, l) /\ l # IrqLine => Harmless(b, Under(l, Read(r, pins)))
<1>1. ASSUME NEW h PROVE Does(b, "task", h, Empty, Empty, Read(r, pins), h, Empty, Empty)
  <2>1. Fit(b, "task", h, Empty, Empty) BY Void, FitFree
  <2>2. Turned \notin Empty BY Void
  <2> QED BY <2>1, <2>2, DoesRead
<1>2. Good(b, "task", Empty, Empty, Empty, Read(r, pins)) BY <1>1, DoesAll
<1>3. ASSUME NEW l, Bare(b, l), l # IrqLine
      PROVE  Good(b, "task", Empty, Empty, Empty, Under(l, Read(r, pins)))
  BY <1>1, <1>3, Void, PlainAlone
<1> QED BY <1>1, <1>2, <1>3 DEF Harmless

\* The inputs of the ME-0600 are safe ...
LEMMA SafeMe0600Di == ASSUME NEW i \in {0, 1} PROVE SafeSub("me0600_di", i, me0600_di_constr(i))
<1> DEFINE b == "me0600_di"
<1>1. NoTies(b) /\ Bare(b, Lock(i)) BY DEF NoTies, Bare, Bonds
<1> HIDE DEF b
<1>2. \A a : Harmless(b, me0600_di_io_single_config(i, a)) BY Refuses DEF me0600_di_io_single_config
<1>3. \A a : Harmless(b, me0600_di_io_single_read(i, a))
  BY <1>1, PlainRead, Locks3, HarmlessPins DEF me0600_di_io_single_read
<1> QED BY <1>2, <1>3, Refuses DEF SafeSub, me0600_di_constr, Made, NoMethod2, b

\* ... and those of the ME-0900.
LEMMA SafeMe0900Di == ASSUME NEW i \in {0, 1} PROVE SafeSub("me0900_di", i, me0900_di_constr(i))
<1> DEFINE b == "me0900_di"
<1>1. NoTies(b) BY DEF NoTies, Bonds
<1> HIDE DEF b
<1>2. \A a : Harmless(b, me0900_di_io_single_config(i, a)) BY Refuses DEF me0900_di_io_single_config
<1>3. \A a : Harmless(b, me0900_di_io_single_read(i, a))
  BY <1>1, PlainRead, HarmlessPins DEF me0900_di_io_single_read
<1> QED BY <1>2, <1>3, Refuses DEF SafeSub, me0900_di_constr, Made, NoMethod2, b

-----------------------------------------------------------------------------

\* An active-low port takes any value, which shows inverted.
LEMMA LowWrites ==
    ASSUME NEW b, b = "me0900_do", NEW i \in {0, 1}, NEW s, s.do \in {"store", "put"}, s.reg = Low(i), NEW h
    PROVE  /\ Does(b, "task", h, Empty, Empty, <<s>>, h, Empty, Empty)
           /\ Does(b, "task", h, Empty, Empty, Load(Low(i)), h, Empty, Empty)
<1>1. Low(i) \in Registers(b) BY DEF Registers, SubsOf
<1>2. NoTies(b) /\ Bonds(b) = {} BY DEF NoTies, Bonds
<1>3. Fit(b, "task", h, Empty, Empty) BY <1>2, Void, FitFree
<1>4. Turned \notin Empty /\ Empty \subseteq Empty BY Void
<1>5. MayWrite(b, "task", h, Low(i)) BY DEF MayWrite, Of, Low, NoLock
<1>6. \A j : Low(i) # Rised(j) /\ Low(i) # Count(j) /\ Low(i) # Resets(j) /\ Low(i) # Port(j)
  BY DEF Low, Rised, Count, Resets, Port
<1>7. \A v, w : FineAt(b, Low(i), v, w) BY DEF FineAt, Bounded, Exact, Low, Intcsr, Ctrl
<1>8. ~Shared(b, Low(i)) BY DEF Shared, Low, Ctrl, Intcsr
<1>9. Aimed(b, Empty, s) BY <1>6 DEF Aimed
<1>10. Sound(b, "task", h, Empty, s) BY <1>7, <1>8 DEF Sound
<1>11. Calm(b, s, Empty) BY <1>6 DEF Calm
<1>12. Leads(b, Empty, s, Empty) BY Void DEF Leads
<1>13. WriteOk(b, "task", h, Empty, Empty, s, Empty, Empty)
  BY <1>1, <1>3, <1>4, <1>5, <1>6, <1>9, <1>10, <1>11, <1>12 DEF WriteOk
<1>14. Does(b, "task", h, Empty, Empty, <<s>>, h, Empty, Empty) BY <1>13, DoesWrite
<1>15. Does(b, "task", h, Empty, Empty, Load(Low(i)), h, Empty, Empty)
  BY <1>1, <1>3, <1>4, DoesGlance
<1> QED BY <1>14, <1>15

\* The outputs of the ME-0900 are safe.
LEMMA SafeMe0900Do == ASSUME NEW i \in {0, 1} PROVE SafeSub("me0900_do", i, me0900_do_constr(i))
<1> DEFINE b == "me0900_do"
<1>1. NoTies(b) /\ Bare(b, Lock(i)) BY DEF NoTies, Bare, Bonds
<1>0. b = "me0900_do" OBVIOUS
<1> HIDE DEF b
<1>a. ASSUME NEW all, NEW set, NEW h
      PROVE  /\ Does(b, "task", h, Empty, Empty, Put(Low(i), all, set), h, Empty, Empty)
             /\ Does(b, "task", h, Empty, Empty, Rmw(Low(i), all, set), h, Empty, Empty)
  <2> DEFINE s == [do |-> "put", reg |-> Low(i), clear |-> all, set |-> set]
  <2> DEFINE z == [do |-> "store", reg |-> Low(i), clear |-> all, set |-> set]
  <2>1. s.do = "put" /\ s.reg = Low(i) /\ z.do = "store" /\ z.reg = Low(i) OBVIOUS
  <2> HIDE DEF s, z
  <2>2. Does(b, "task", h, Empty, Empty, <<s>>, h, Empty, Empty) BY <1>0, <2>1, LowWrites
  <2>3. /\ Does(b, "task", h, Empty, Empty, <<z>>, h, Empty, Empty)
        /\ Does(b, "task", h, Empty, Empty, Load(Low(i)), h, Empty, Empty)
    BY <1>0, <2>1, LowWrites
  <2>4. Does(b, "task", h, Empty, Empty, Load(Low(i)) \o <<z>>, h, Empty, Empty) BY <2>3, DoesThen
  <2> QED BY <2>2, <2>4 DEF s, z, Put, Rmw, Store
<1>2. Harmless(b, me0900_do_io_reset_subdevice(i))
  BY <1>a, DoesAll DEF Harmless, me0900_do_io_reset_subdevice
<1>3. \A a : Harmless(b, me0900_do_io_single_config(i, a)) BY Refuses DEF me0900_do_io_single_config
<1>4. \A a : Harmless(b, me0900_do_io_single_read(i, a))
  BY <1>1, PlainRead, HarmlessPins DEF me0900_do_io_single_read
<1>5. \A a, v : Harmless(b, me0900_do_io_single_write(i, a, v))
  <2>1. ASSUME NEW all, NEW set
        PROVE  /\ Harmless(b, Under(Lock(i), Put(Low(i), all, set)))
               /\ Harmless(b, Under(Lock(i), Rmw(Low(i), all, set)))
    BY <1>a, <1>1, Void, Locks3, PlainAlone DEF Harmless
  <2> QED BY <2>1, HarmlessPins DEF me0900_do_io_single_write
<1> QED BY <1>2, <1>3, <1>4, <1>5, Refuses DEF SafeSub, me0900_do_constr, Made, b

-----------------------------------------------------------------------------

\* Both bytes of the relays are written under their one lock.
LEMMA RelayWrites ==
    ASSUME NEW b, b = "me0600_relay", NEW k \in {0, 1}
    PROVE  /\ \A set : set \subseteq Pins(8) =>
                Does(b, "task", One(0), Empty, Empty, Put(Relay(k), Pins(8), set), One(0), Empty, Empty)
           /\ \A pins, set : set \subseteq Pins(8) =>
                Does(b, "task", One(0), Empty, Empty, Rmw(Relay(k), pins, set), One(0), Empty, Empty)
<1>1. Relay(k) \in Registers(b) BY DEF Registers
<1>2. NoTies(b) BY DEF NoTies, Bonds
<1>3. Fit(b, "task", One(0), Empty, Empty) BY <1>2, Void, FitFree
<1>4. Turned \notin Empty /\ Empty \subseteq Empty BY Void
<1>5. MayWrite(b, "task", One(0), Relay(k)) /\ Keeps(b, "task", One(0), Relay(k))
  BY Locks3 DEF MayWrite, Keeps, Of, Relay, NoLock, Masked, Handled, Lock
<1>6. \A j : /\ Relay(k) # Rised(j) /\ Relay(k) # Count(j) /\ Relay(k) # Resets(j)
             /\ Relay(k) # Port(j) /\ Relay(k) # <<"low", j>>
  BY DEF Relay, Rised, Count, Resets, Port
<1>7. \A v, w : FineAt(b, Relay(k), v, w) <=> v \subseteq Pins(8) /\ w = v
  BY DEF FineAt, Bounded, Universe, Exact, Relay, Intcsr, Ctrl
<1>8. ~Shared(b, Relay(k)) BY DEF Shared, Relay, Ctrl, Intcsr
<1>9. \A f, set : Aim(b, f, Relay(k), set) BY <1>6 DEF Aim
<1>10. ASSUME NEW set, set \subseteq Pins(8)
       PROVE  Does(b, "task", One(0), Empty, Empty, Put(Relay(k), Pins(8), set), One(0), Empty, Empty)
  <2>1. \A v, w : FineAt(b, Relay(k), v, w) => FineAt(b, Relay(k), set, (w \ Pins(8)) \cup set)
    BY <1>7, <1>10
  <2>2. PutOk(b, "task", One(0), Empty, Empty, Relay(k), Pins(8), set, Empty, Empty)
    BY <1>1, <1>3, <1>4, <1>5, <1>6, <1>8, <1>9, <2>1, Void DEF PutOk
  <2> QED BY <2>2, DoesPut
<1>11. ASSUME NEW pins, NEW set, set \subseteq Pins(8)
       PROVE  Does(b, "task", One(0), Empty, Empty, Rmw(Relay(k), pins, set), One(0), Empty, Empty)
  <2> DEFINE f1 == {But(Relay(k), Empty)} \cup Empty
  <2>1. \A x \in f1 : Stable(b, "task", One(0), x) BY <1>1, <1>5, StableOwn, Void
  <2>2. But(Relay(k), Empty) \in f1 /\ Empty \subseteq pins BY Void
  <2> HIDE DEF f1
  <2>3. Fit(b, "task", One(0), f1, Empty) BY <1>2, <2>1, FitFree
  <2>4. \A v, w : FineAt(b, Relay(k), v, w) => FineAt(b, Relay(k), (v \ pins) \cup set, (w \ pins) \cup set)
    BY <1>7, <1>11
  <2>5. StoreOk(b, "task", One(0), f1, Empty, Relay(k), Empty, pins, set)
    BY <1>1, <1>4, <1>5, <1>6, <1>8, <1>9, <2>2, <2>3, <2>4 DEF StoreOk
  <2>6. f1 = {But(Relay(k), Empty)} \cup Empty BY DEF f1
  <2>7. \A x \in Empty : \A R, W, T, T2 : Holds(b, x, R, W, T) => Holds(b, x, R, W, T2) BY Void
  <2>8. Empty \subseteq {But(Relay(k), pins \cup set)} BY Void
  <2> QED BY <1>3, <2>5, <2>6, <2>7, <2>8, DoesRmw
<1> QED BY <1>10, <1>11

\* The relays of the ME-0600 are safe.
LEMMA SafeMe0600Relay == ASSUME NEW i \in {0} PROVE SafeSub("me0600_relay", i, me0600_relay_constr(i))
<1> DEFINE b == "me0600_relay"
<1>1. NoTies(b) /\ Bare(b, Lock(i)) BY DEF NoTies, Bare, Bonds
<1>0. b = "me0600_relay" /\ i = 0 OBVIOUS
<1> HIDE DEF b
<1>a. ASSUME NEW P, Does(b, "task", One(0), Empty, Empty, P, One(0), Empty, Empty)
      PROVE  Harmless(b, Under(Lock(i), P))
  BY <1>0, <1>1, <1>a, Void, Locks3, PlainAlone DEF Harmless, One
<1>b. Does(b, "task", One(0), Empty, Empty, <<>>, One(0), Empty, Empty) BY DoesNothing
<1>2. Harmless(b, me0600_relay_io_reset_subdevice(i))
  <2>1. {} \subseteq Pins(8) OBVIOUS
  <2>2. /\ Does(b, "task", One(0), Empty, Empty, Put(Relay(0), Pins(8), {}), One(0), Empty, Empty)
        /\ Does(b, "task", One(0), Empty, Empty, Put(Relay(1), Pins(8), {}), One(0), Empty, Empty)
    BY <1>0, <2>1, RelayWrites
  <2>3. Does(b, "task", One(0), Empty, Empty, Put(Relay(0), Pins(8), {}) \o Put(Relay(1), Pins(8), {}),
             One(0), Empty, Empty)
    BY <2>2, DoesThen
  <2> QED BY <1>a, <2>3 DEF me0600_relay_io_reset_subdevice
<1>3. \A a : Harmless(b, me0600_relay_io_single_config(i, a))
  BY Refuses DEF me0600_relay_io_single_config
<1>4. \A a : Harmless(b, me0600_relay_io_single_read(i, a))
  <2>1. ASSUME NEW a PROVE Harmless(b, me0600_relay_io_single_read(i, a))
    <3> DEFINE P == IF Half(Word(a), 1) = {} THEN <<>> ELSE Read(Relay(1), Half(Word(a), 1))
    <3> DEFINE Q == IF Half(Word(a), 0) = {} THEN <<>> ELSE Read(Relay(0), Half(Word(a), 0))
    <3>1. Does(b, "task", One(0), Empty, Empty, P, One(0), Empty, Empty) BY <1>1, <1>b, PlainRead
    <3>2. Does(b, "task", One(0), Empty, Empty, Q, One(0), Empty, Empty) BY <1>1, <1>b, PlainRead
    <3> HIDE DEF P, Q
    <3>3. Does(b, "task", One(0), Empty, Empty, P \o Q, One(0), Empty, Empty)
      BY <3>1, <3>2, DoesThen
    <3>4. Harmless(b, Under(Lock(i), P \o Q)) BY <1>a, <3>3
    <3> QED BY <3>4, HarmlessPins DEF me0600_relay_io_single_read, OnHalf, P, Q
  <2> QED BY <2>1
<1>5. ASSUME NEW a \in Access, NEW v \in Levels
      PROVE  Harmless(b, me0600_relay_io_single_write(i, a, v))
  <2>1. ASSUME NEW k \in {0, 1}, NEW P,
               P = IF Half(Word(a), k) = {} THEN <<>>
                   ELSE IF Half(Word(a), k) = Pins(8) THEN Put(Relay(k), Half(Word(a), k), On(v, Half(Word(a), k)))
                   ELSE Rmw(Relay(k), Half(Word(a), k), On(v, Half(Word(a), k)))
        PROVE  Does(b, "task", One(0), Empty, Empty, P, One(0), Empty, Empty)
    <3>1. Half(Word(a), k) \subseteq Pins(8) BY DEF Half, Pins
    <3>2. On(v, Half(Word(a), k)) \subseteq Pins(8) BY <3>1, OnIn
    <3>3. CASE Half(Word(a), k) = {} BY <3>3, <2>1, <1>b
    <3>4. CASE Half(Word(a), k) # {} /\ Half(Word(a), k) = Pins(8)
      BY <3>4, <2>1, <3>2, <1>0, RelayWrites
    <3>5. CASE Half(Word(a), k) # {} /\ Half(Word(a), k) # Pins(8)
      BY <3>5, <2>1, <3>2, <1>0, RelayWrites
    <3> QED BY <3>3, <3>4, <3>5
  <2> DEFINE P(k) == IF Half(Word(a), k) = {} THEN <<>>
                   ELSE IF Half(Word(a), k) = Pins(8) THEN Put(Relay(k), Half(Word(a), k), On(v, Half(Word(a), k)))
                   ELSE Rmw(Relay(k), Half(Word(a), k), On(v, Half(Word(a), k)))
  <2>2. Does(b, "task", One(0), Empty, Empty, P(0), One(0), Empty, Empty) BY <2>1
  <2>3. Does(b, "task", One(0), Empty, Empty, P(1), One(0), Empty, Empty) BY <2>1
  <2> HIDE DEF P
  <2>4. Does(b, "task", One(0), Empty, Empty, P(0) \o P(1), One(0), Empty, Empty)
    BY <2>2, <2>3, DoesThen
  <2>5. Harmless(b, Under(Lock(i), P(0) \o P(1))) BY <1>a, <2>4
  <2> QED BY <2>5, HarmlessPins DEF me0600_relay_io_single_write, OnHalf, P
<1> QED BY <1>2, <1>3, <1>4, <1>5, Refuses DEF SafeSub, me0600_relay_constr, Made, b

-----------------------------------------------------------------------------
(* Registers nothing is promised of.                                       *)

Loose(b, r) ==
    /\ (\A v, w : FineAt(b, r, v, w)) /\ ~Shared(b, r) /\ (b = "me1400cd" => r # MyClock)
    /\ \A j : r # Rised(j) /\ r # Count(j) /\ r # Resets(j)
    /\ Ctrl \in Registers(b) /\ b \notin {"me8100", "me8100b"} => \A j : r # Port(j)

LooseOk(b, u, h, f, o, r, f2) ==
    /\ r \in Registers(b) /\ Loose(b, r) /\ MayWrite(b, u, h, r) /\ Fit(b, u, h, f, o) /\ Turned \notin o
    /\ \A R, W, T, R2, W2 :
         Local(b, f, R, W, T) /\ (\A q \in Registers(b) : q # r => R2[q] = R[q] /\ W2[q] = W[q])
           => \A k \in f2 : Holds(b, k, R2, W2, T)

\* A register of which nothing is promised may be written by whoever is allowed to.
LEMMA LooseWrite ==
    ASSUME NEW b, NEW u, NEW h, NEW f, NEW o, NEW s, NEW f2, s.do \in {"store", "put"},
           LooseOk(b, u, h, f, o, s.reg, f2)
    PROVE  Does(b, u, h, f, o, <<s>>, h, f2, o)
<1> DEFINE r == s.reg
<1>0. /\ r \in Registers(b) /\ MayWrite(b, u, h, r) /\ Fit(b, u, h, f, o) /\ Turned \notin o
      /\ (\A v, w : FineAt(b, r, v, w)) /\ ~Shared(b, r) /\ (b = "me1400cd" => r # MyClock)
      /\ \A j : r # Rised(j) /\ r # Count(j) /\ r # Resets(j)
      /\ Ctrl \in Registers(b) /\ b \notin {"me8100", "me8100b"} => \A j : r # Port(j)
  BY DEF LooseOk, Loose
<1>1. Aimed(b, f, s) BY <1>0 DEF Aimed
<1>2. Sound(b, u, h, f, s) BY <1>0 DEF Sound
<1>3. Calm(b, s, o) BY <1>0 DEF Calm
<1>4. Leads(b, f, s, f2)
  <2>1. ASSUME NEW R, NEW W, NEW T, NEW R2, NEW W2, Local(b, f, R, W, T), WriteEffect(b, s, R, W, T, R2, W2)
        PROVE  \A k \in f2 : Holds(b, k, R2, W2, T)
    <3>1. \A q \in Registers(b) : q # r => R2[q] = R[q] /\ W2[q] = W[q]
      BY <2>1 DEF WriteEffect, Changes
    <3> QED BY <2>1, <3>1 DEF LooseOk
  <2> QED BY <2>1 DEF Leads
<1>5. o \subseteq o OBVIOUS
<1>6. WriteOk(b, u, h, f, o, s, f2, o) BY <1>0, <1>1, <1>2, <1>3, <1>4, <1>5 DEF WriteOk
<1> QED BY <1>6, DoesWrite

\* The same for a write-back and an overwrite.
LEMMA LooseStore ==
    ASSUME NEW b, NEW u, NEW h, NEW f, NEW o, NEW r, NEW f2, LooseOk(b, u, h, f, o, r, f2), NEW clear, NEW set
    PROVE  /\ Does(b, u, h, f, o, Store(r, clear, set), h, f2, o)
           /\ Does(b, u, h, f, o, Put(r, clear, set), h, f2, o)
<1> DEFINE s == [do |-> "store", reg |-> r, clear |-> clear, set |-> set]
<1> DEFINE z == [do |-> "put", reg |-> r, clear |-> clear, set |-> set]
<1>1. s.do = "store" /\ s.reg = r /\ z.do = "put" /\ z.reg = r OBVIOUS
<1> HIDE DEF s, z
<1>2. s.do \in {"store", "put"} /\ LooseOk(b, u, h, f, o, s.reg, f2) BY <1>1
<1>3. z.do \in {"store", "put"} /\ LooseOk(b, u, h, f, o, z.reg, f2) BY <1>1
<1>4. Does(b, u, h, f, o, <<s>>, h, f2, o) BY <1>2, LooseWrite
<1>5. Does(b, u, h, f, o, <<z>>, h, f2, o) BY <1>3, LooseWrite
<1> QED BY <1>4, <1>5 DEF Store, Put, s, z

-----------------------------------------------------------------------------
(* The ME-8100: a copy of the control register.                            *)

Names8100 == {"me8100", "me8100b"}

\* The ME-8100's control registers and the copy it keeps of them.
LEMMA CopyFacts ==
    ASSUME NEW b \in Names8100
    PROVE  /\ NoTies(b) /\ (\A i : Bare(b, Lock(i))) /\ (b = "me8100b" => \A l : Bare(b, l))
           /\ Copy \in Registers(b) /\ Ctrl \in Registers(b) /\ (b = "me8100b" => Control(1) \in Registers(b))
           /\ Control(0) = Ctrl /\ Copy # Ctrl
           /\ \A u, h : CtrlLock \in h => MayWrite(b, u, h, Copy) /\ MayWrite(b, u, h, Ctrl) /\ MayWrite(b, u, h, Control(1))
           /\ \A u, h : CtrlLock \in h => Keeps(b, u, h, Copy) /\ Keeps(b, u, h, Ctrl)
           /\ ~Shared(b, Copy) /\ ~Shared(b, Ctrl) /\ ~Shared(b, Control(1)) /\ b # "me1400cd"
           /\ \A j : /\ Copy # Rised(j) /\ Copy # Count(j) /\ Copy # Resets(j) /\ Copy # Port(j) /\ Copy # <<"low", j>>
                     /\ Ctrl # Rised(j) /\ Ctrl # Count(j) /\ Ctrl # Resets(j) /\ Ctrl # Port(j) /\ Ctrl # <<"low", j>>
                     /\ Control(1) # Rised(j) /\ Control(1) # Count(j) /\ Control(1) # Resets(j)
           /\ b = "me8100b" => \A v, w : FineAt(b, Copy, v, w) /\ FineAt(b, Ctrl, v, w) /\ FineAt(b, Control(1), v, w)
           /\ b = "me8100" => \A v, w : (FineAt(b, Copy, v, w) <=> w = v) /\ (FineAt(b, Ctrl, v, w) <=> w = v)
<1>1. NoTies(b) /\ (\A i : Bare(b, Lock(i))) /\ (b = "me8100b" => \A l : Bare(b, l))
  <2>1. Bonds(b) \subseteq {Copied} BY DEF Bonds, Names8100
  <2>2. b = "me8100b" => Bonds(b) = {} BY DEF Bonds
  <2>3. \A n : Line0(n) # Copied /\ Whole(n) # Copied BY DEF Line0, Whole, Copied
  <2>4. \A i : Home(b, Copied) # Lock(i) BY DEF Home, Copied, Lock, CtrlLock
  <2> QED BY <2>1, <2>2, <2>3, <2>4 DEF NoTies, Bare
<1>2. /\ Copy \in Registers(b) /\ Ctrl \in Registers(b) /\ (b = "me8100b" => Control(1) \in Registers(b))
      /\ Control(0) = Ctrl /\ Copy # Ctrl
  BY DEF Registers, Names8100, Control, Ctrl, Copy
<1>3. Of(b, Copy) = CtrlLock /\ Of(b, Ctrl) = CtrlLock /\ Of(b, Control(1)) = CtrlLock /\ CtrlLock # NoLock
  BY DEF Of, Copy, Ctrl, Control, CtrlLock, NoLock
<1>4. \A r \in {Copy, Ctrl, Control(1)} : ~Masked(r) /\ ~Handled(r)
  BY DEF Masked, Handled, Copy, Ctrl, Control
<1>5. /\ \A u, h : CtrlLock \in h => MayWrite(b, u, h, Copy) /\ MayWrite(b, u, h, Ctrl) /\ MayWrite(b, u, h, Control(1))
      /\ \A u, h : CtrlLock \in h => Keeps(b, u, h, Copy) /\ Keeps(b, u, h, Ctrl)
  BY <1>3, <1>4 DEF MayWrite, Keeps
<1>6. ~Shared(b, Copy) /\ ~Shared(b, Ctrl) /\ ~Shared(b, Control(1)) /\ b # "me1400cd"
  BY DEF Shared, Names8100, Copy, Ctrl, Control, Intcsr
<1>7. \A j : /\ Copy # Rised(j) /\ Copy # Count(j) /\ Copy # Resets(j) /\ Copy # Port(j) /\ Copy # <<"low", j>>
             /\ Ctrl # Rised(j) /\ Ctrl # Count(j) /\ Ctrl # Resets(j) /\ Ctrl # Port(j) /\ Ctrl # <<"low", j>>
             /\ Control(1) # Rised(j) /\ Control(1) # Count(j) /\ Control(1) # Resets(j)
  BY DEF Copy, Ctrl, Control, Rised, Count, Resets, Port
<1>8. b = "me8100b" => \A v, w : FineAt(b, Copy, v, w) /\ FineAt(b, Ctrl, v, w) /\ FineAt(b, Control(1), v, w)
  BY DEF FineAt, Bounded, Exact, Copy, Ctrl, Control, Intcsr, OutsOnly
<1>9. b = "me8100" => \A v, w : (FineAt(b, Copy, v, w) <=> w = v) /\ (FineAt(b, Ctrl, v, w) <=> w = v)
  BY DEF FineAt, Bounded, Exact, Copy, Ctrl, Intcsr, OutsOnly, Chip, Mirror
<1> QED BY <1>1, <1>2, <1>5, <1>6, <1>7, <1>8, <1>9

\* The B model: two registers and one copy.
LEMMA CopyOutB ==
    ASSUME NEW b, b = "me8100b", NEW k \in {0, 1}, NEW h, CtrlLock \notin h, NEW clear, NEW set
    PROVE  Does(b, "task", h, Empty, Empty, Under(CtrlLock, CopyOut(k, clear, set)), h, Empty, Empty)
<1> DEFINE g == h \cup {CtrlLock}
<1>0. b \in Names8100 /\ CtrlLock \in g BY DEF Names8100
<1> HIDE DEF g
<1>1. Fit(b, "task", h, Empty, Empty) /\ Fit(b, "task", g, Empty, Empty)
  BY <1>0, CopyFacts, FitFree, Void
<1>2. Turned \notin Empty BY Void
<1>3. \A k2 \in Empty : FALSE BY Void
<1>4. Control(k) \in {Ctrl, Control(1)} BY <1>0, CopyFacts
<1>5. LooseOk(b, "task", g, Empty, Empty, Copy, Empty)
  BY <1>0, <1>1, <1>2, <1>3, CopyFacts DEF LooseOk, Loose, Names8100
<1>6. LooseOk(b, "task", g, Empty, Empty, Control(k), Empty)
  <2>1. LooseOk(b, "task", g, Empty, Empty, Ctrl, Empty)
    BY <1>0, <1>1, <1>2, <1>3, CopyFacts DEF LooseOk, Loose, Names8100
  <2>2. LooseOk(b, "task", g, Empty, Empty, Control(1), Empty)
    BY <1>0, <1>1, <1>2, <1>3, CopyFacts DEF LooseOk, Loose, Names8100
  <2> QED BY <2>1, <2>2, <1>4
<1>7. Does(b, "task", g, Empty, Empty, Load(Copy), g, Empty, Empty)
  BY <1>0, <1>1, <1>2, CopyFacts, DoesGlance
<1>8. Does(b, "task", g, Empty, Empty, Store(Copy, clear, set), g, Empty, Empty) BY <1>5, LooseStore
<1>9. Does(b, "task", g, Empty, Empty, Store(Control(k), clear, set), g, Empty, Empty)
  BY <1>6, LooseStore
<1>10. Does(b, "task", g, Empty, Empty, Rmw(Copy, clear, set), g, Empty, Empty)
  BY <1>7, <1>8, DoesThen DEF Rmw
<1>11. Does(b, "task", g, Empty, Empty, Rmw(Copy, clear, set) \o Load(Copy), g, Empty, Empty)
  BY <1>7, <1>10, DoesThen
<1>12. Does(b, "task", g, Empty, Empty, CopyOut(k, clear, set), g, Empty, Empty)
  BY <1>9, <1>11, DoesThen DEF CopyOut
<1>13. Bare(b, CtrlLock) /\ CtrlLock # IrqLine /\ Empty \subseteq Empty BY <1>0, CopyFacts, Locks3
<1> QED BY <1>1, <1>12, <1>13, DoesSection DEF g

\* The first model: the copy is the register when nobody changes it.
LEMMA CopyOutA ==
    ASSUME NEW b, b = "me8100", NEW u, NEW h, CtrlLock \notin h, NEW clear, NEW set, set \subseteq clear
    PROVE  Does(b, u, h, Empty, Empty, Under(CtrlLock, CopyOut(0, clear, set)), h, Empty, Empty)
<1> DEFINE g == h \cup {CtrlLock}
<1>0. b \in Names8100 /\ CtrlLock \in g BY DEF Names8100
<1> HIDE DEF g
<1> DEFINE f1 == {Near(Copy, Ctrl, Empty)}
<1> DEFINE f2 == {Near(Copy, Ctrl, Empty), But(Copy, Empty)}
<1> DEFINE f3 == {Near(Copy, Ctrl, clear), Is(Copy, clear, set)}
<1> DEFINE f4 == {Near(Copy, Ctrl, clear), Is(Copy, clear, set), But(Ctrl, clear)}
<1>a. /\ Copy \in Registers(b) /\ Ctrl \in Registers(b) /\ Control(0) = Ctrl /\ Copy # Ctrl
      /\ MayWrite(b, u, g, Copy) /\ MayWrite(b, u, g, Ctrl) /\ Keeps(b, u, g, Copy) /\ Keeps(b, u, g, Ctrl)
      /\ ~Shared(b, Copy) /\ ~Shared(b, Ctrl) /\ b # "me1400cd"
      /\ \A v, w : (FineAt(b, Copy, v, w) <=> w = v) /\ (FineAt(b, Ctrl, v, w) <=> w = v)
  BY <1>0, CopyFacts
<1>b. \A k \in f1 \cup f2 \cup f3 \cup f4 : Stable(b, u, g, k)
  <2>1. \A c : Stable(b, u, g, Near(Copy, Ctrl, c)) BY <1>a, StableNear
  <2>2. \A c, v : Stable(b, u, g, But(Copy, c)) /\ Stable(b, u, g, But(Ctrl, c)) /\ Stable(b, u, g, Is(Copy, c, v))
    BY <1>a, StableOwn
  <2> QED BY <2>1, <2>2
<1>c. Turned \notin Empty BY Void
<1>d. /\ Near(Copy, Ctrl, Empty) \in f1 /\ f1 = {Near(Copy, Ctrl, Empty)}
      /\ But(Copy, Empty) \in f2 /\ f2 = {Near(Copy, Ctrl, Empty), But(Copy, Empty)} /\ Near(Copy, Ctrl, Empty) \in f2
      /\ f3 = {Near(Copy, Ctrl, clear), Is(Copy, clear, set)}
      /\ Near(Copy, Ctrl, clear) \in f3 /\ Is(Copy, clear, set) \in f3
      /\ f4 = {Near(Copy, Ctrl, clear), Is(Copy, clear, set), But(Ctrl, clear)} /\ But(Ctrl, clear) \in f4
      /\ Near(Copy, Ctrl, clear) \in f4 /\ Is(Copy, clear, set) \in f4
  OBVIOUS
<1> HIDE DEF f1, f2, f3, f4
<1>e. /\ Fit(b, u, h, Empty, Empty) /\ Fit(b, u, g, f1, Empty) /\ Fit(b, u, g, f2, Empty)
      /\ Fit(b, u, g, f3, Empty) /\ Fit(b, u, g, f4, Empty)
  BY <1>0, <1>b, CopyFacts, FitFree, Void
<1>f. \A c, R, W, T : Holds(b, Near(Copy, Ctrl, c), R, W, T) <=> R[Copy] \ c = R[Ctrl] \ c
  BY DEF Holds, Near
<1>g. \A R, W, T : Holds(b, Is(Copy, clear, set), R, W, T) <=> R[Copy] \cap clear = set
  BY DEF Holds, Is
<1>h. \A r, c, R, W, T : Holds(b, But(r, c), R, W, T) <=> T \ c = R[r] \ c BY DEF Holds, But
<1>i. \A c \in {Empty} : \A X : X \ c = X BY Void
<1>1. Does(b, u, g, f1, Empty, Load(Copy), g, f2, Empty)
  <2>1. ASSUME NEW R, NEW W, NEW T, Local(b, f1, R, W, T), NEW k \in f2
        PROVE  Holds(b, k, R, W, R[Copy])
    <3>1. Holds(b, Near(Copy, Ctrl, Empty), R, W, T) BY <2>1, <1>d DEF Local
    <3>2. Holds(b, Near(Copy, Ctrl, Empty), R, W, R[Copy]) BY <3>1, <1>f
    <3>3. Holds(b, But(Copy, Empty), R, W, R[Copy]) BY <1>h
    <3> QED BY <2>1, <3>2, <3>3, <1>d
  <2> QED BY <2>1, <1>a, <1>c, <1>e, DoesLoad
<1>2. Does(b, u, g, f2, Empty, Store(Copy, clear, set), g, f3, Empty)
  <2>1. \A v, w : FineAt(b, Copy, v, w) => FineAt(b, Copy, (v \ clear) \cup set, (w \ clear) \cup set) BY <1>a
  <2>2. Aim(b, f2, Copy, set) BY DEF Aim, Copy, Port
  <2>3. \A j : Copy # <<"low", j>> /\ Copy # Rised(j) /\ Copy # Count(j) /\ Copy # Resets(j)
    BY DEF Copy, Rised, Count, Resets
  <2>4. Empty \subseteq clear BY Void
  <2>5. StoreOk(b, u, g, f2, Empty, Copy, Empty, clear, set)
    BY <1>a, <1>c, <1>d, <1>e, <2>1, <2>2, <2>3, <2>4 DEF StoreOk
  <2>6. ASSUME NEW R, NEW W, NEW T, NEW R2, NEW W2, Local(b, f2, R, W, T),
               Changes(b, Copy, R, R2, (R[Copy] \ clear) \cup set)
        PROVE  \A k \in f3 : Holds(b, k, R2, W2, T)
    <3>1. Holds(b, Near(Copy, Ctrl, Empty), R, W, T) BY <2>6, <1>d DEF Local
    <3>2. R[Copy] = R[Ctrl] BY <3>1, <1>f, <1>i
    <3>3. R2[Copy] = (R[Copy] \ clear) \cup set /\ R2[Ctrl] = R[Ctrl] BY <2>6, <1>a DEF Changes
    <3>4. R2[Copy] \ clear = R2[Ctrl] \ clear BY <3>2, <3>3
    <3>5. R2[Copy] \cap clear = set BY <3>3
    <3> QED BY <3>4, <3>5, <1>d, <1>f, <1>g
  <2>7. StoreLeads(b, f2, Copy, clear, set, f3) BY <2>6 DEF StoreLeads
  <2> QED BY <2>5, <2>7, DoesStoreTo
<1>3. Does(b, u, g, f3, Empty, Load(Copy), g, f4, Empty)
  <2>1. ASSUME NEW R, NEW W, NEW T, Local(b, f3, R, W, T), NEW k \in f4
        PROVE  Holds(b, k, R, W, R[Copy])
    <3>1. Holds(b, Near(Copy, Ctrl, clear), R, W, T) /\ Holds(b, Is(Copy, clear, set), R, W, T)
      BY <2>1, <1>d DEF Local
    <3>2. Holds(b, Near(Copy, Ctrl, clear), R, W, R[Copy]) BY <3>1, <1>f
    <3>3. Holds(b, Is(Copy, clear, set), R, W, R[Copy]) BY <3>1, <1>g
    <3>4. Holds(b, But(Ctrl, clear), R, W, R[Copy]) BY <3>1, <1>f, <1>h
    <3> QED BY <2>1, <3>2, <3>3, <3>4, <1>d
  <2> QED BY <2>1, <1>a, <1>c, <1>e, DoesLoad
<1>4. Does(b, u, g, f4, Empty, Store(Ctrl, clear, set), g, f1, Empty)
  <2>1. \A v, w : FineAt(b, Ctrl, v, w) => FineAt(b, Ctrl, (v \ clear) \cup set, (w \ clear) \cup set) BY <1>a
  <2>2. Aim(b, f4, Ctrl, set) BY DEF Aim, Ctrl, Port
  <2>3. \A j : Ctrl # <<"low", j>> /\ Ctrl # Rised(j) /\ Ctrl # Count(j) /\ Ctrl # Resets(j)
    BY DEF Ctrl, Rised, Count, Resets
  <2>5. StoreOk(b, u, g, f4, Empty, Ctrl, clear, clear, set)
    BY <1>a, <1>c, <1>d, <1>e, <2>1, <2>2, <2>3 DEF StoreOk
  <2>6. ASSUME NEW R, NEW W, NEW T, NEW R2, NEW W2, Local(b, f4, R, W, T),
               Changes(b, Ctrl, R, R2, (R[Ctrl] \ clear) \cup set)
        PROVE  \A k \in f1 : Holds(b, k, R2, W2, T)
    <3>1. Holds(b, Near(Copy, Ctrl, clear), R, W, T) /\ Holds(b, Is(Copy, clear, set), R, W, T)
      BY <2>6, <1>d DEF Local
    <3>2. R[Copy] \ clear = R[Ctrl] \ clear /\ R[Copy] \cap clear = set BY <3>1, <1>f, <1>g
    <3>3. R2[Ctrl] = (R[Ctrl] \ clear) \cup set /\ R2[Copy] = R[Copy] BY <2>6, <1>a DEF Changes
    <3>4. R2[Copy] = R2[Ctrl] BY <3>2, <3>3
    <3> QED BY <3>4, <1>d, <1>f
  <2>7. StoreLeads(b, f4, Ctrl, clear, set, f1) BY <2>6 DEF StoreLeads
  <2> QED BY <2>5, <2>7, DoesStoreTo
<1>5. Does(b, u, g, f1, Empty, Rmw(Copy, clear, set), g, f3, Empty) BY <1>1, <1>2, DoesThen DEF Rmw
<1>6. Does(b, u, g, f1, Empty, Rmw(Copy, clear, set) \o Load(Copy), g, f4, Empty)
  BY <1>3, <1>5, DoesThen
<1>7. Does(b, u, g, f1, Empty, CopyOut(0, clear, set), g, f1, Empty)
  BY <1>a, <1>4, <1>6, DoesThen DEF CopyOut
<1>8. Bonds(b) = {Copied} /\ Home(b, Copied) = CtrlLock /\ \A R, W : Bond(b, Copied, R, W) <=> R[Copy] = R[Ctrl]
  BY DEF Bonds, Home, Bond, Copied
<1>9. Opens(b, Empty, CtrlLock, f1)
  <2>1. ASSUME NEW R, NEW W, NEW T, Local(b, Empty, R, W, T), Bond(b, Copied, R, W)
        PROVE  Local(b, f1, R, W, T)
    BY <2>1, <1>8, <1>d, <1>f DEF Local
  <2> QED BY <2>1, <1>8 DEF Opens
<1>10. Closes(b, f1, CtrlLock, Empty)
  <2>1. ASSUME NEW R, NEW W, NEW T, Local(b, f1, R, W, T)
        PROVE  Local(b, Empty, R, W, T) /\ Bond(b, Copied, R, W)
    <3>1. Holds(b, Near(Copy, Ctrl, Empty), R, W, T) BY <2>1, <1>d DEF Local
    <3> QED BY <2>1, <3>1, <1>8, <1>f, <1>i, Void DEF Local
  <2> QED BY <2>1, <1>8 DEF Closes
<1>11. CtrlLock # IrqLine BY Locks3
<1> QED BY <1>7, <1>9, <1>10, <1>11, <1>e, DoesUnder DEF g

-----------------------------------------------------------------------------

\* An output of the ME-8100 is written together with its mirror.
LEMMA DriveWrites ==
    ASSUME NEW b \in Names8100, NEW i \in {0, 1}, b = "me8100" => i = 1
    PROVE  /\ \A set : set \subseteq Pins(16) =>
                /\ Does(b, "task", One(i), Empty, Empty, Put(Mirror(i), Pins(16), set), One(i), Empty, Empty)
                /\ Does(b, "task", One(i), Empty, Empty, Put(Port(i), Pins(16), set), One(i), Empty, Empty)
           /\ \A pins, set : set \subseteq Pins(16) =>
                Does(b, "task", One(i), Empty, Empty, Rmw(Mirror(i), pins, set), One(i), Empty, Empty)
<1>1. Mirror(i) \in Registers(b) /\ Port(i) \in Registers(b) BY DEF Registers, Names8100
<1>2. NoTies(b) BY CopyFacts
<1>3. Fit(b, "task", One(i), Empty, Empty) BY <1>2, Void, FitFree
<1>4. Turned \notin Empty /\ Empty \subseteq Empty BY Void
<1>5. /\ MayWrite(b, "task", One(i), Mirror(i)) /\ Keeps(b, "task", One(i), Mirror(i))
      /\ MayWrite(b, "task", One(i), Port(i))
  <2>1. Of(b, Mirror(i)) = Lock(i) /\ Of(b, Port(i)) = Lock(i) /\ Lock(i) # NoLock
    BY DEF Of, Mirror, Port, Names8100, Lock, NoLock
  <2>2. ~Masked(Mirror(i)) /\ ~Handled(Mirror(i)) /\ ~Masked(Port(i))
    BY DEF Masked, Handled, Mirror, Port
  <2>3. Lock(i) \in One(i) BY DEF One
  <2> QED BY <2>1, <2>2, <2>3 DEF MayWrite, Keeps
<1>6. \A j : /\ Mirror(i) # Rised(j) /\ Mirror(i) # Count(j) /\ Mirror(i) # Resets(j)
             /\ Mirror(i) # Port(j) /\ Mirror(i) # <<"low", j>>
             /\ Port(i) # Rised(j) /\ Port(i) # Count(j) /\ Port(i) # Resets(j)
  BY DEF Mirror, Rised, Count, Resets, Port
<1>7. \A v, w : FineAt(b, Mirror(i), v, w) <=> v \subseteq Pins(16) /\ w = v
  BY DEF FineAt, Bounded, Universe, Exact, Mirror, Intcsr, Ctrl, Names8100
<1>8. ~Shared(b, Mirror(i)) /\ b # "me1400cd" BY DEF Shared, Mirror, Ctrl, Intcsr, Names8100
<1>9. \A f, set : Aim(b, f, Mirror(i), set) BY <1>6 DEF Aim
<1>12. Loose(b, Port(i))
  <2>1. \A v, w : FineAt(b, Port(i), v, w)
    BY DEF FineAt, Bounded, Exact, Port, Intcsr, Ctrl, Names8100
  <2>2. ~Shared(b, Port(i)) BY DEF Shared, Port, Ctrl, Intcsr
  <2> QED BY <2>1, <2>2, <1>6, <1>8 DEF Loose, Names8100
<1>13. LooseOk(b, "task", One(i), Empty, Empty, Port(i), Empty)
  <2>1. \A k \in Empty : FALSE BY Void
  <2> QED BY <2>1, <1>1, <1>12, <1>5, <1>3, <1>4 DEF LooseOk
<1>10. ASSUME NEW set, set \subseteq Pins(16)
       PROVE  Does(b, "task", One(i), Empty, Empty, Put(Mirror(i), Pins(16), set), One(i), Empty, Empty)
  <2>1. \A v, w : FineAt(b, Mirror(i), v, w) => FineAt(b, Mirror(i), set, (w \ Pins(16)) \cup set)
    BY <1>7, <1>10
  <2>2. PutOk(b, "task", One(i), Empty, Empty, Mirror(i), Pins(16), set, Empty, Empty)
    BY <1>1, <1>3, <1>4, <1>5, <1>6, <1>8, <1>9, <2>1, Void DEF PutOk
  <2> QED BY <2>2, DoesPut
<1>14. \A set : Does(b, "task", One(i), Empty, Empty, Put(Port(i), Pins(16), set), One(i), Empty, Empty)
  BY <1>13, LooseStore
<1>11. ASSUME NEW pins, NEW set, set \subseteq Pins(16)
       PROVE  Does(b, "task", One(i), Empty, Empty, Rmw(Mirror(i), pins, set), One(i), Empty, Empty)
  <2> DEFINE f1 == {But(Mirror(i), Empty)} \cup Empty
  <2>1. \A x \in f1 : Stable(b, "task", One(i), x) BY <1>1, <1>5, StableOwn, Void
  <2>2. But(Mirror(i), Empty) \in f1 /\ Empty \subseteq pins BY Void
  <2> HIDE DEF f1
  <2>3. Fit(b, "task", One(i), f1, Empty) BY <1>2, <2>1, FitFree
  <2>4. \A v, w : FineAt(b, Mirror(i), v, w) => FineAt(b, Mirror(i), (v \ pins) \cup set, (w \ pins) \cup set)
    BY <1>7, <1>11
  <2>5. StoreOk(b, "task", One(i), f1, Empty, Mirror(i), Empty, pins, set)
    BY <1>1, <1>4, <1>5, <1>6, <1>8, <1>9, <2>2, <2>3, <2>4 DEF StoreOk
  <2>6. f1 = {But(Mirror(i), Empty)} \cup Empty BY DEF f1
  <2>7. \A x \in Empty : \A R, W, T, T2 : Holds(b, x, R, W, T) => Holds(b, x, R, W, T2) BY Void
  <2>8. Empty \subseteq {But(Mirror(i), pins \cup set)} BY Void
  <2> QED BY <1>3, <2>5, <2>6, <2>7, <2>8, DoesRmw
<1> QED BY <1>10, <1>11, <1>14

\* The outputs of the ME-8100 are safe.
LEMMA SafeMe8100Do ==
    ASSUME NEW b \in Names8100, NEW i \in {0, 1}, NEW k, b = "me8100" => i = 1 /\ k = 0, b = "me8100b" => k = i
    PROVE  SafeSub(b, i, me8100_do_constr(i, k))
<1>1. NoTies(b) /\ Bare(b, Lock(i)) BY CopyFacts
<1>a. ASSUME NEW P, Does(b, "task", One(i), Empty, Empty, P, One(i), Empty, Empty)
      PROVE  Harmless(b, Under(Lock(i), P))
  BY <1>1, <1>a, Void, Locks3, PlainAlone DEF Harmless, One
<1>b. ASSUME NEW clear, NEW set, set \subseteq clear
      PROVE  Does(b, "task", One(i), Empty, Empty, Under(CtrlLock, CopyOut(k, clear, set)), One(i), Empty, Empty)
  <2>1. CtrlLock \notin One(i) BY Void, Locks3 DEF One
  <2>2. CASE b = "me8100" BY <2>1, <2>2, <1>b, CopyOutA
  <2>3. CASE b = "me8100b" BY <2>1, <2>3, <1>b, CopyOutB
  <2> QED BY <2>2, <2>3 DEF Names8100
<1>2. Harmless(b, me8100_do_io_reset_subdevice(i, k))
  <2>1. {} \subseteq Pins(16) /\ {} \subseteq Drive OBVIOUS
  <2>2. /\ Does(b, "task", One(i), Empty, Empty, Put(Port(i), Pins(16), {}), One(i), Empty, Empty)
        /\ Does(b, "task", One(i), Empty, Empty, Put(Mirror(i), Pins(16), {}), One(i), Empty, Empty)
    BY <2>1, DriveWrites
  <2>3. Does(b, "task", One(i), Empty, Empty, Under(CtrlLock, CopyOut(k, Drive, {})), One(i), Empty, Empty)
    BY <2>1, <1>b
  <2>4. Does(b, "task", One(i), Empty, Empty,
             Under(CtrlLock, CopyOut(k, Drive, {})) \o Put(Port(i), Pins(16), {}), One(i), Empty, Empty)
    BY <2>2, <2>3, DoesThen
  <2>5. Does(b, "task", One(i), Empty, Empty,
             (Under(CtrlLock, CopyOut(k, Drive, {})) \o Put(Port(i), Pins(16), {})) \o Put(Mirror(i), Pins(16), {}),
             One(i), Empty, Empty)
    BY <2>2, <2>4, DoesThen
  <2> QED BY <2>5, <1>a DEF me8100_do_io_reset_subdevice
<1>3. \A a : Harmless(b, me8100_do_io_single_config(i, k, a))
  <2>1. ASSUME NEW clear, NEW set, set \subseteq clear
        PROVE  Harmless(b, Under(Lock(i), Under(CtrlLock, CopyOut(k, clear, set))))
    BY <2>1, <1>a, <1>b
  <2>2. ASSUME NEW a PROVE Harmless(b, me8100_do_io_single_config(i, k, a))
    <3> DEFINE set == CASE a.mode = "high_impedance" -> {} [] a.mode = "sink" -> {<<"enable", 0>>} [] OTHER -> Drive
    <3> DEFINE clear == IF a.mode = "high_impedance" THEN {<<"enable", 0>>} ELSE Drive
    <3>1. set \subseteq clear BY DEF Drive
    <3> HIDE DEF set, clear
    <3>2. Harmless(b, Under(Lock(i), Under(CtrlLock, CopyOut(k, clear, set)))) BY <3>1, <2>1
    <3> QED BY <3>2, Refuses DEF me8100_do_io_single_config, set, clear
  <2> QED BY <2>2
<1>4. \A a : Harmless(b, me8100_do_io_single_read(i, a))
  BY <1>1, PlainRead, HarmlessPins DEF me8100_do_io_single_read
<1>5. ASSUME NEW a \in Access, NEW v \in Levels
      PROVE  Harmless(b, me8100_do_io_single_write(i, a, v))
  <2> DEFINE raw == Word([a EXCEPT !.channel = 0])
  <2>1. [a EXCEPT !.channel = 0] \in Access BY DEF Access
  <2>2. raw \subseteq Pins(16) BY <2>1, PinsOf
  <2> HIDE DEF raw
  <2>3. On(v, raw) \subseteq Pins(16) BY <2>2, OnIn
  <2>4. On(v, Word(a)) \subseteq Pins(16) BY PinsOf, OnIn
  <2>5. Does(b, "task", One(i), Empty, Empty, Rmw(Mirror(i), Word(a), On(v, Word(a))), One(i), Empty, Empty)
    BY <2>4, DriveWrites
  <2>6. Does(b, "task", One(i), Empty, Empty, Put(Port(i), Pins(16), On(v, raw)), One(i), Empty, Empty)
    BY <2>3, DriveWrites
  <2>7. Does(b, "task", One(i), Empty, Empty,
             Rmw(Mirror(i), Word(a), On(v, Word(a))) \o Put(Port(i), Pins(16), On(v, raw)), One(i), Empty, Empty)
    BY <2>5, <2>6, DoesThen
  <2>8. Harmless(b, Under(Lock(i), Rmw(Mirror(i), Word(a), On(v, Word(a))) \o Put(Port(i), Pins(16), On(v, raw))))
    BY <2>7, <1>a
  <2> QED BY <2>8, HarmlessPins DEF me8100_do_io_single_write, raw
<1> QED BY <1>2, <1>3, <1>4, <1>5, Refuses DEF SafeSub, me8100_do_constr, Made

-----------------------------------------------------------------------------
(* The 8255 of the ME-1400: everything changes under the lock of the       *)
(* control register.                                                       *)

\* The last step of a program with a step appended.
LEMMA LastAppended == ASSUME NEW P, Program(P), NEW s PROVE Last(P \o <<s>>) = s
<1>1. PICK S : P \in Seq(S) BY DEF Program
<1> DEFINE V == S \cup {s}
<1>2. P \in Seq(V) /\ <<s>> \in Seq(V) BY <1>1
<1> HIDE DEF V
<1>3. Len(P \o <<s>>) = Len(P) + 1 /\ Len(P) \in Nat BY <1>2
<1>4. (P \o <<s>>)[Len(P) + 1] = s BY <1>2, <1>3
<1> QED BY <1>3, <1>4 DEF Last

\* The mode byte of the 8255 for each set of ports that are outputs.
LEMMA ModeOf == ASSUME NEW X, X \subseteq Outs PROVE ModeBytes[X] = ModeByte(X)
<1>1. X \in SUBSET ((Out(0) \cup Out(1)) \cup Out(2)) BY DEF Outs
<1>2. ModeBytes[X] = get_mode_from_mirror(X) BY <1>1 DEF ModeBytes
<1> DEFINE p == Out(0) \subseteq X
<1> DEFINE q == Out(1) \subseteq X
<1> DEFINE r == Out(2) \subseteq X
<1>3. get_mode_from_mirror(X) = ModeByte(X)
  <2>1. CASE p /\ q /\ r BY <2>1 DEF get_mode_from_mirror, ModeByte
  <2>2. CASE p /\ q /\ ~r BY <2>2 DEF get_mode_from_mirror, ModeByte
  <2>3. CASE p /\ ~q /\ r BY <2>3 DEF get_mode_from_mirror, ModeByte
  <2>4. CASE p /\ ~q /\ ~r BY <2>4 DEF get_mode_from_mirror, ModeByte
  <2>5. CASE ~p /\ q /\ r BY <2>5 DEF get_mode_from_mirror, ModeByte
  <2>6. CASE ~p /\ q /\ ~r BY <2>6 DEF get_mode_from_mirror, ModeByte
  <2>7. CASE ~p /\ ~q /\ r BY <2>7 DEF get_mode_from_mirror, ModeByte
  <2>8. CASE ~p /\ ~q /\ ~r BY <2>8 DEF get_mode_from_mirror, ModeByte
  <2> QED BY <2>1, <2>2, <2>3, <2>4, <2>5, <2>6, <2>7, <2>8
<1> QED BY <1>2, <1>3

ChipRegs == {Port(0), Port(1), Port(2), Mirror(0), Mirror(1), Mirror(2), Ctrl, Chip}

\* The registers of the 8255, its one bond and its lock.
LEMMA ChipFacts ==
    ASSUME NEW b, b = "me1400"
    PROVE  /\ Registers(b) = ChipRegs /\ NoTies(b) /\ Bonds(b) = {Latched} /\ Home(b, Latched) = CtrlLock
           /\ (\A i : Bare(b, Lock(i))) /\ CtrlLock # IrqLine
           /\ \A R, W : Bond(b, Latched, R, W) <=>
                /\ W[Chip] = R[Ctrl] /\ R[Chip] = ModeByte(W[Chip])
                /\ R[Port(0)] = W[Port(0)] /\ R[Port(0)] = R[Mirror(0)]
           /\ \A u, h : CtrlLock \in h => \A r \in ChipRegs : MayWrite(b, u, h, r) /\ Keeps(b, u, h, r)
           /\ \A r \in ChipRegs : Shared(b, r) <=> r = Ctrl
           /\ \A r \in ChipRegs : \A j : r # Rised(j) /\ r # Count(j) /\ r # Resets(j) /\ r # <<"low", j>>
           /\ b # "me1400cd" /\ b # "me6000"
<1>1. Registers(b) = ChipRegs
  <2>1. Registers(b) = (ChipPorts \cup {Mirror(j) : j \in SubsOf(b)}) \cup {Ctrl, Chip}
    BY DEF Registers
  <2>2. SubsOf(b) = {0, 1, 2} /\ 0 .. 2 = {0, 1, 2} BY DEF SubsOf
  <2>3. ChipPorts = {Port(0), Port(1), Port(2)} BY <2>2 DEF ChipPorts
  <2>4. {Mirror(j) : j \in SubsOf(b)} = {Mirror(0), Mirror(1), Mirror(2)} BY <2>2
  <2> QED BY <2>1, <2>3, <2>4 DEF ChipRegs
<1>2. Bonds(b) = {Latched} /\ Home(b, Latched) = CtrlLock BY DEF Bonds, Home, Latched
<1>3. NoTies(b) /\ (\A i : Bare(b, Lock(i)))
  <2>1. \A i : Line0(i) # Latched /\ Whole(i) # Latched /\ CtrlLock # Lock(i)
    BY DEF Line0, Whole, Latched, CtrlLock, Lock
  <2> QED BY <2>1, <1>2 DEF NoTies, Bare
<1>4. CtrlLock # IrqLine BY Locks3
<1>5. \A R, W : Bond(b, Latched, R, W) <=>
        /\ W[Chip] = R[Ctrl] /\ R[Chip] = ModeByte(W[Chip])
        /\ R[Port(0)] = W[Port(0)] /\ R[Port(0)] = R[Mirror(0)]
  BY DEF Bond, Latched
<1>6. \A r \in ChipRegs : r[1] \in {"port", "mirror", "ctrl", "chip"}
  BY DEF ChipRegs, Port, Mirror, Ctrl, Chip
<1>7. \A r \in ChipRegs : Of(b, r) = CtrlLock BY <1>6 DEF Of
<1>8. \A r \in ChipRegs : ~Masked(r) /\ ~Handled(r) BY <1>6 DEF Masked, Handled
<1>9. CtrlLock # NoLock BY DEF CtrlLock, NoLock
<1>10. \A u, h : CtrlLock \in h => \A r \in ChipRegs : MayWrite(b, u, h, r) /\ Keeps(b, u, h, r)
  BY <1>7, <1>8, <1>9 DEF MayWrite, Keeps
<1>11. \A r \in ChipRegs : Shared(b, r) <=> r = Ctrl BY <1>6 DEF Shared, Intcsr
<1>12. \A r \in ChipRegs : \A j : r # Rised(j) /\ r # Count(j) /\ r # Resets(j) /\ r # <<"low", j>>
  <2>1. \A r, j : r[1] \in {"port", "mirror", "ctrl", "chip"} =>
          r # Rised(j) /\ r # Count(j) /\ r # Resets(j) /\ r # <<"low", j>>
    BY DEF Rised, Count, Resets
  <2> QED BY <2>1, <1>6
<1> QED BY <1>1, <1>2, <1>3, <1>4, <1>5, <1>10, <1>11, <1>12

\* What the registers of the 8255 may hold.
LEMMA ChipFine ==
    ASSUME NEW b, b = "me1400"
    PROVE  /\ \A v, w : FineAt(b, Mirror(0), v, w) <=> v \subseteq Pins(8) /\ w = v
           /\ \A v, w : FineAt(b, Mirror(1), v, w) <=> v \subseteq Pins(8)
           /\ \A v, w : FineAt(b, Mirror(2), v, w) <=> v \subseteq Pins(8)
           /\ \A j \in Numbers : \A v, w : FineAt(b, Port(j), v, w) <=> v \subseteq Pins(8)
           /\ \A v, w : FineAt(b, Ctrl, v, w) <=> v \subseteq Outs /\ w = v
           /\ \A v, w : FineAt(b, Chip, v, w)
<1>1. \A v, w : FineAt(b, Mirror(0), v, w) <=> v \subseteq Pins(8) /\ w = v
  BY DEF FineAt, Bounded, Exact, Universe, Mirror, Intcsr, Ctrl, Chip, LineClock, MyClock
<1>2. \A v, w : FineAt(b, Mirror(1), v, w) <=> v \subseteq Pins(8)
  BY DEF FineAt, Bounded, Exact, Universe, Mirror, Intcsr, Ctrl, Chip
<1>3. \A v, w : FineAt(b, Mirror(2), v, w) <=> v \subseteq Pins(8)
  BY DEF FineAt, Bounded, Exact, Universe, Mirror, Intcsr, Ctrl, Chip
<1>4. \A j \in Numbers : \A v, w : FineAt(b, Port(j), v, w) <=> v \subseteq Pins(8)
  BY DEF FineAt, Bounded, Exact, Universe, Port, Intcsr, Ctrl, Chip
<1>5. \A v, w : FineAt(b, Ctrl, v, w) <=> v \subseteq Outs /\ w = v
  BY DEF FineAt, Bounded, Exact, Universe, Mirror, Intcsr, Ctrl, Chip, OutsOnly
<1>6. \A v, w : FineAt(b, Chip, v, w)
  BY DEF FineAt, Bounded, Exact, Mirror, Intcsr, Ctrl, Chip
<1> QED BY <1>1, <1>2, <1>3, <1>4, <1>5, <1>6

-----------------------------------------------------------------------------

ChipFits(b, u, g, f) == \A k \in f : Stable(b, u, g, k)

\* What is known of the chip while its lock is held.
LEMMA ChipStable ==
    ASSUME NEW b, b = "me1400", NEW u, NEW g, CtrlLock \in g
    PROVE  /\ Stable(b, u, g, Firm(Latched))
           /\ \A c : Stable(b, u, g, But(Ctrl, c)) /\ Stable(b, u, g, But(Port(0), c))
           /\ \A m, v : Stable(b, u, g, Is(Ctrl, m, v))
           /\ \A n, i : Stable(b, u, g, Stage(n, i))
           /\ \A c, v : Stable(b, u, g, Written(c, v))
<1>1. ASSUME NEW R, NEW W, NEW R2, NEW W2, Rely(b, u, g, R, W, R2, W2)
      PROVE  /\ R2[Ctrl] = R[Ctrl] /\ R2[Chip] = R[Chip] /\ R2[Port(0)] = R[Port(0)] /\ R2[Mirror(0)] = R[Mirror(0)]
             /\ W2[Chip] = W[Chip] /\ W2[Port(0)] = W[Port(0)]
  <2>1. \A r \in ChipRegs : R2[r] = R[r] /\ W2[r] = W[r] BY <1>1, ChipFacts DEF Rely
  <2>2. Ctrl \in ChipRegs /\ Chip \in ChipRegs /\ Port(0) \in ChipRegs /\ Mirror(0) \in ChipRegs
    BY DEF ChipRegs
  <2> QED BY <2>1, <2>2
<1>2. Stable(b, u, g, Firm(Latched))
  <2>1. \A R, W, T : Holds(b, Firm(Latched), R, W, T) <=>
                /\ W[Chip] = R[Ctrl] /\ R[Chip] = ModeByte(W[Chip])
                /\ R[Port(0)] = W[Port(0)] /\ R[Port(0)] = R[Mirror(0)]
    BY ChipFacts DEF Holds, Firm
  <2> QED BY <2>1, <1>1 DEF Stable
<1>3. \A c : Stable(b, u, g, But(Ctrl, c)) /\ Stable(b, u, g, But(Port(0), c))
  BY <1>1 DEF Stable, Holds, But
<1>4. \A m, v : Stable(b, u, g, Is(Ctrl, m, v)) BY <1>1 DEF Stable, Holds, Is
<1>5. ASSUME NEW n, NEW i PROVE Stable(b, u, g, Stage(n, i))
  <2>1. \A R, W, T : Holds(b, Stage(n, i), R, W, T) <=> ChipStage(n, i, R, W) BY DEF Holds, Stage
  <2> QED BY <2>1, <1>1 DEF Stable, ChipStage
<1>6. ASSUME NEW c, NEW v PROVE Stable(b, u, g, Written(c, v))
  <2>1. \A R, W, T : Holds(b, Written(c, v), R, W, T) <=>
                        /\ W[Chip] = R[Ctrl] /\ R[Chip] = ModeByte(W[Chip])
                        /\ R[Port(0)] = W[Port(0)] /\ T \ c = R[Port(0)] \ c
                        /\ R[Mirror(0)] = (R[Port(0)] \ c) \cup v
    BY DEF Holds, Written
  <2> QED BY <2>1, <1>1 DEF Stable
<1> QED BY <1>2, <1>3, <1>4, <1>5, <1>6

\* The facts about the 8255, spelled out.
LEMMA ChipHolds ==
    ASSUME NEW b, b = "me1400"
    PROVE  /\ \A R, W, T : Holds(b, Firm(Latched), R, W, T) <=>
                /\ W[Chip] = R[Ctrl] /\ R[Chip] = ModeByte(W[Chip])
                /\ R[Port(0)] = W[Port(0)] /\ R[Port(0)] = R[Mirror(0)]
           /\ \A r, c, R, W, T : Holds(b, But(r, c), R, W, T) <=> T \ c = R[r] \ c
           /\ \A r, m, v, R, W, T : Holds(b, Is(r, m, v), R, W, T) <=> R[r] \cap m = v
           /\ \A n, i, R, W, T : Holds(b, Stage(n, i), R, W, T) <=> ChipStage(n, i, R, W)
           /\ \A c, v, R, W, T : Holds(b, Written(c, v), R, W, T) <=>
                        /\ W[Chip] = R[Ctrl] /\ R[Chip] = ModeByte(W[Chip])
                        /\ R[Port(0)] = W[Port(0)] /\ T \ c = R[Port(0)] \ c
                        /\ R[Mirror(0)] = (R[Port(0)] \ c) \cup v
<1>1. \A R, W, T : Holds(b, Firm(Latched), R, W, T) <=>
                /\ W[Chip] = R[Ctrl] /\ R[Chip] = ModeByte(W[Chip])
                /\ R[Port(0)] = W[Port(0)] /\ R[Port(0)] = R[Mirror(0)]
  BY ChipFacts DEF Holds, Firm
<1>2. \A r, c, R, W, T : Holds(b, But(r, c), R, W, T) <=> T \ c = R[r] \ c BY DEF Holds, But
<1>3. \A r, m, v, R, W, T : Holds(b, Is(r, m, v), R, W, T) <=> R[r] \cap m = v BY DEF Holds, Is
<1>4. \A n, i, R, W, T : Holds(b, Stage(n, i), R, W, T) <=> ChipStage(n, i, R, W)
  BY DEF Holds, Stage
<1>5. \A c, v, R, W, T : Holds(b, Written(c, v), R, W, T) <=>
                        /\ W[Chip] = R[Ctrl] /\ R[Chip] = ModeByte(W[Chip])
                        /\ R[Port(0)] = W[Port(0)] /\ T \ c = R[Port(0)] \ c
                        /\ R[Mirror(0)] = (R[Port(0)] \ c) \cup v
  BY DEF Holds, Written
<1> QED BY <1>1, <1>2, <1>3, <1>4, <1>5

\* A write to the chip's registers under the lock.
ChipWriteOk(b, i, f, s, f2) ==
    /\ b = "me1400" /\ i \in Numbers /\ s.do \in {"store", "put"} /\ s.reg \in ChipRegs \ {Chip}
    /\ s.reg \in {Ctrl, Mirror(i), Port(i)}
    /\ \A k \in f : Stable(b, "task", Both2(i), k)
    /\ s.reg = Port(i) /\ s.set # {} => Is(Ctrl, ModeBits(i), Out(i)) \in f
    /\ s.reg = Ctrl => s.do = "store" /\ s.clear = Out(i) /\ s.set \subseteq Out(i) /\ But(Ctrl, Empty) \in f
    /\ \A R, W, T, R2, W2 : Local(b, f, R, W, T) /\ WriteEffect(b, s, R, W, T, R2, W2) =>
         FineAt(b, s.reg, R2[s.reg], W2[s.reg]) /\ \A k \in f2 : Holds(b, k, R2, W2, T)

\* A change of one port's direction leaves the other ports' alone.
LEMMA ModeBitsApart ==
    ASSUME NEW i \in Numbers, NEW X, X \subseteq Out(i), NEW Y, NEW j \in Numbers, j # i
    PROVE  ((Y \ Out(i)) \cup X) \cap Mine(j) = Y \cap Mine(j)
<1>1. Out(i) \cap Mine(j) = {} BY DEF Out, Mine, ModeBits, Fifo, LineEn, Numbers
<1> QED BY <1>1

\* A write to a register of the 8255 under both locks.
LEMMA ChipWrite ==
    ASSUME NEW b, NEW i, NEW f, NEW s, NEW f2, ChipWriteOk(b, i, f, s, f2)
    PROVE  Does(b, "task", Both2(i), f, Empty, <<s>>, Both2(i), f2, Empty)
<1> DEFINE g == Both2(i)
<1>0. /\ b = "me1400" /\ i \in Numbers /\ s.do \in {"store", "put"} /\ s.reg \in ChipRegs \ {Chip}
      /\ s.reg \in {Ctrl, Mirror(i), Port(i)}
      /\ \A k \in f : Stable(b, "task", g, k)
      /\ s.reg = Port(i) /\ s.set # {} => Is(Ctrl, ModeBits(i), Out(i)) \in f
      /\ s.reg = Ctrl => s.do = "store" /\ s.clear = Out(i) /\ s.set \subseteq Out(i) /\ But(Ctrl, Empty) \in f
  BY DEF ChipWriteOk
<1>1. CtrlLock \in g /\ Lock(i) \in g BY Locks3
<1> HIDE DEF g
<1>2. Fit(b, "task", g, f, Empty) BY <1>0, ChipFacts, FitFree
<1>3. /\ s.reg \in Registers(b) /\ MayWrite(b, "task", g, s.reg) /\ b # "me1400cd" /\ b # "me6000"
      /\ \A j : s.reg # Rised(j) /\ s.reg # Count(j) /\ s.reg # Resets(j)
      /\ (Shared(b, s.reg) <=> s.reg = Ctrl)
  BY <1>0, <1>1, ChipFacts
<1>4. Aimed(b, f, s)
  <2>1. ASSUME NEW j, s.reg = Port(j), s.set # {}, NEW R, NEW W, NEW T, Local(b, f, R, W, T)
        PROVE  R[Ctrl] \cap ModeBits(j) = Out(j)
    <3>1. j = i /\ s.reg = Port(i) BY <2>1, <1>0 DEF Port, Mirror, Ctrl
    <3>2. Holds(b, Is(Ctrl, ModeBits(i), Out(i)), R, W, T) BY <2>1, <3>1, <1>0 DEF Local
    <3> QED BY <3>1, <3>2, <1>0, ChipHolds
  <2> QED BY <2>1 DEF Aimed
<1>5. Leads(b, f, s, f2) BY DEF ChipWriteOk, Leads
<1>6. Sound(b, "task", g, f, s)
  <2>1. ASSUME NEW R, NEW W, NEW T, Local(b, f, R, W, T)
        PROVE  /\ FineAt(b, s.reg, NewOf(s, R[s.reg], T), NewAsked(s, W[s.reg]))
               /\ \A j \in Numbers : Shared(b, s.reg) /\ Lock(j) \notin g
                    => NewOf(s, R[s.reg], T) \cap Mine(j) = R[s.reg] \cap Mine(j)
    <3> DEFINE R2 == [q \in Registers(b) |-> IF q = s.reg THEN NewOf(s, R[s.reg], T) ELSE R[q]]
    <3> DEFINE W2 == [q \in Registers(b) |-> IF q = s.reg THEN NewAsked(s, W[s.reg]) ELSE W[q]]
    <3>1. WriteEffect(b, s, R, W, T, R2, W2) BY <1>3 DEF WriteEffect, Changes
    <3>2. R2[s.reg] = NewOf(s, R[s.reg], T) /\ W2[s.reg] = NewAsked(s, W[s.reg]) BY <1>3
    <3> HIDE DEF R2, W2
    <3>3. FineAt(b, s.reg, R2[s.reg], W2[s.reg]) BY <2>1, <3>1 DEF ChipWriteOk
    <3>4. ASSUME NEW j \in Numbers, Shared(b, s.reg), Lock(j) \notin g
          PROVE  NewOf(s, R[s.reg], T) \cap Mine(j) = R[s.reg] \cap Mine(j)
      <4>1. s.reg = Ctrl BY <1>3, <3>4
      <4>2. j # i BY <3>4, <1>1
      <4>3. Holds(b, But(Ctrl, Empty), R, W, T) BY <4>1, <2>1, <1>0 DEF Local
      <4>4. T \ Empty = R[Ctrl] \ Empty BY <4>3, <1>0, ChipHolds
      <4>5. T = R[Ctrl] BY <4>4, Void
      <4>6. NewOf(s, R[s.reg], T) = (R[Ctrl] \ Out(i)) \cup s.set
        BY <4>1, <4>5, <1>0 DEF NewOf, Level, ActiveLow, Ctrl
      <4> QED BY <4>1, <4>2, <4>6, <1>0, ModeBitsApart
    <3> QED BY <3>2, <3>3, <3>4
  <2> QED BY <2>1 DEF Sound
<1>7. Calm(b, s, Empty) BY <1>3 DEF Calm
<1>8. Turned \notin Empty /\ Empty \subseteq Empty BY Void
<1>9. s.do \in {"store", "put", "bump"} BY <1>0
<1>10. WriteOk(b, "task", g, f, Empty, s, f2, Empty)
  BY <1>2, <1>3, <1>4, <1>5, <1>6, <1>7, <1>8, <1>9 DEF WriteOk
<1>11. Does(b, "task", g, f, Empty, <<s>>, g, f2, Empty) BY <1>10, DoesWrite
<1> QED BY <1>11 DEF g

\* What the steps of a new mode lead through.
ChipOpen    == {Firm(Latched)}
ChipRead    == {Firm(Latched), But(Ctrl, Empty)}
ChipAt(n, i) == {Stage(n, i)}

\* A load of such a register.
LEMMA ChipLoads ==
    ASSUME NEW b, b = "me1400", NEW i \in Numbers, NEW f,
           \A k \in f : Stable(b, "task", Both2(i), k), NEW r \in ChipRegs, NEW f2,
           \A R, W, T : Local(b, f, R, W, T) => \A k \in f2 : Holds(b, k, R, W, R[r])
    PROVE  Does(b, "task", Both2(i), f, Empty, Load(r), Both2(i), f2, Empty)
<1>1. Fit(b, "task", Both2(i), f, Empty) BY ChipFacts, FitFree
<1>2. r \in Registers(b) /\ Turned \notin Empty BY ChipFacts, Void
<1> QED BY <1>1, <1>2, DoesLoad

\* The mirror is cleared ...
LEMMA ChipClear ==
    ASSUME NEW b, b = "me1400", NEW i \in Numbers
    PROVE  Does(b, "task", Both2(i), ChipAt(1, i), Empty, Put(Mirror(i), Pins(8), {}), Both2(i), ChipAt(2, i), Empty)
<1> DEFINE s == [do |-> "put", reg |-> Mirror(i), clear |-> Pins(8), set |-> {}]
<1>1. s.do = "put" /\ s.reg = Mirror(i) /\ s.clear = Pins(8) /\ s.set = {} OBVIOUS
<1> HIDE DEF s
<1>2. Mirror(i) \in ChipRegs \ {Chip} /\ Mirror(i) # Port(i) /\ Mirror(i) # Ctrl
  BY DEF ChipRegs, Numbers, Mirror, Port, Ctrl, Chip
<1>3. \A k \in ChipAt(1, i) : Stable(b, "task", Both2(i), k)
  <2>1. CtrlLock \in Both2(i) BY Locks3
  <2>2. Stable(b, "task", Both2(i), Stage(1, i)) BY <2>1, ChipStable
  <2> QED BY <2>2 DEF ChipAt
<1>4. ASSUME NEW R, NEW W, NEW T, NEW R2, NEW W2, Local(b, ChipAt(1, i), R, W, T), WriteEffect(b, s, R, W, T, R2, W2)
      PROVE  FineAt(b, s.reg, R2[s.reg], W2[s.reg]) /\ \A k \in ChipAt(2, i) : Holds(b, k, R2, W2, T)
  <2>1. Holds(b, Stage(1, i), R, W, T) /\ Fine(b, R, W) BY <1>4 DEF Local, ChipAt
  <2>2. R[Port(0)] = W[Port(0)] /\ R[Port(0)] = R[Mirror(0)] BY <2>1, ChipHolds DEF ChipStage
  <2>3. /\ R2[Mirror(i)] = {} /\ W2[Mirror(i)] = (W[Mirror(i)] \ Pins(8)) \cup {}
        /\ \A q \in ChipRegs : q # Mirror(i) => R2[q] = R[q] /\ W2[q] = W[q]
    BY <1>4, <1>1, ChipFacts DEF WriteEffect, Changes, NewOf, NewAsked, Level, ActiveLow, Mirror
  <2>4. Port(0) \in ChipRegs /\ Port(0) # Mirror(i) /\ Mirror(0) \in ChipRegs
    BY DEF ChipRegs, Port, Mirror
  <2>5. FineAt(b, Mirror(i), R[Mirror(i)], W[Mirror(i)]) BY <2>1, <1>2, ChipFacts DEF Fine
  <2>6. FineAt(b, Mirror(i), R2[Mirror(i)], W2[Mirror(i)])
    <3>1. CASE i = 0
      <4>1. W[Mirror(0)] \subseteq Pins(8) BY <2>5, <3>1, ChipFine
      <4>2. W2[Mirror(0)] = {} BY <4>1, <2>3, <3>1
      <4>3. {} \subseteq Pins(8) OBVIOUS
      <4> QED BY <4>2, <4>3, <2>3, <3>1, ChipFine
    <3>2. CASE i # 0
      <4>1. i = 1 \/ i = 2 BY <3>2 DEF Numbers
      <4>2. {} \subseteq Pins(8) OBVIOUS
      <4> QED BY <4>1, <4>2, <2>3, ChipFine
    <3> QED BY <3>1, <3>2
  <2>7. W2[Port(0)] = W[Port(0)] /\ (i # 0 => R2[Mirror(0)] = R[Mirror(0)])
    BY <2>3, <2>4 DEF Mirror
  <2>8. ChipStage(2, i, R2, W2)
    <3>1. CASE i = 0 BY <3>1, <2>3 DEF ChipStage
    <3>2. CASE i # 0
      <4>1. R2[Mirror(0)] = W2[Port(0)] BY <3>2, <2>2, <2>7
      <4> QED BY <3>2, <4>1 DEF ChipStage
    <3> QED BY <3>1, <3>2
  <2>9. Holds(b, Stage(2, i), R2, W2, T) BY <2>8, ChipHolds
  <2> QED BY <2>6, <2>9, <1>1 DEF ChipAt
<1>5. s.reg \in {Ctrl, Mirror(i), Port(i)} /\ s.reg # Ctrl /\ s.reg # Port(i) BY <1>1, <1>2
<1>6. ChipWriteOk(b, i, ChipAt(1, i), s, ChipAt(2, i))
  BY <1>1, <1>2, <1>3, <1>4, <1>5 DEF ChipWriteOk
<1>7. Does(b, "task", Both2(i), ChipAt(1, i), Empty, <<s>>, Both2(i), ChipAt(2, i), Empty)
  BY <1>6, ChipWrite
<1> QED BY <1>7 DEF Put, s

\* ... the mode is set ...
LEMMA ChipMode ==
    ASSUME NEW b, b = "me1400", NEW i \in Numbers
    PROVE  Does(b, "task", Both2(i), ChipAt(2, i), Empty, Mode(Chip, Ctrl, ModeBytes, ChipPorts, Port(i)),
                Both2(i), ChipAt(3, i), Empty)
<1> DEFINE s == [do |-> "mode", reg |-> Chip, from |-> Ctrl, code |-> ModeBytes, ports |-> ChipPorts, own |-> Port(i)]
<1> DEFINE g == Both2(i)
<1> DEFINE f == ChipAt(2, i)
<1> DEFINE f2 == ChipAt(3, i)
<1>1. /\ s.do = "mode" /\ s.reg = Chip /\ s.from = Ctrl /\ s.code = ModeBytes /\ s.ports = ChipPorts
      /\ s.own = Port(i)
  OBVIOUS
<1>2. CtrlLock \in g /\ Lock(i) \in g BY Locks3
<1>3. f = {Stage(2, i)} /\ f2 = {Stage(3, i)} BY DEF ChipAt
<1> HIDE DEF s, g, f, f2
<1>4. ChipPorts = {Port(0), Port(1), Port(2)}
  <2>1. 0 .. 2 = {0, 1, 2} OBVIOUS
  <2> QED BY <2>1 DEF ChipPorts
<1>5. /\ Chip \in ChipRegs /\ Ctrl \in ChipRegs /\ Port(i) \in ChipRegs /\ ChipPorts \subseteq ChipRegs
      /\ Chip \notin ChipPorts /\ Port(i) # Chip /\ Port(0) \in ChipRegs /\ Mirror(0) \in ChipRegs
      /\ Ctrl \notin ChipPorts /\ Ctrl # Chip /\ Mirror(0) # Chip /\ Mirror(0) \notin ChipPorts
      /\ Port(0) \in ChipPorts /\ Port(0) # Chip /\ Mirror(0) # Port(i) /\ (i # 0 => Port(0) # Port(i))
      /\ Ctrl # Port(i)
  BY <1>4 DEF ChipRegs, Numbers, Mirror, Port, Ctrl, Chip
<1>6. Fit(b, "task", g, f, Empty)
  <2>1. \A k \in f : Stable(b, "task", g, k) BY <1>2, <1>3, ChipStable
  <2> QED BY <2>1, ChipFacts, FitFree
<1>7. ASSUME NEW R, NEW W, NEW T, NEW R2, NEW W2, NEW T2,
             Local(b, f, R, W, T), Effect(b, s, R, W, T, R2, W2, T2)
      PROVE  /\ Local(b, f2, R2, W2, T2) /\ Polite(b, "task", g, R, W, R2, W2)
             /\ Notes(b, "task", g, f, Empty, s, Empty, R, W, T, R2, W2, T2)
  <2>1. /\ R2[Chip] = ModeBytes[R[Ctrl]]
        /\ \A q \in ChipRegs : q \in ChipPorts => R2[q] = {}
        /\ \A q \in ChipRegs : q # Chip /\ q \notin ChipPorts => R2[q] = R[q]
        /\ W2[Chip] = W[Ctrl] /\ W2[Port(i)] = {}
        /\ \A q \in ChipRegs : q # Chip /\ q # Port(i) => W2[q] = W[q]
    BY <1>7, <1>1, ChipFacts DEF Effect
  <2>2. Holds(b, Stage(2, i), R, W, T) /\ Fine(b, R, W) BY <1>7, <1>3 DEF Local
  <2>3. R[Mirror(0)] = IF i = 0 THEN {} ELSE W[Port(0)] BY <2>2, ChipHolds DEF ChipStage
  <2>4. \A r \in ChipRegs : FineAt(b, r, R[r], W[r]) BY <2>2, ChipFacts DEF Fine
  <2>5. R[Ctrl] \subseteq Outs /\ W[Ctrl] = R[Ctrl] BY <2>4, <1>5, ChipFine
  <2>6. R2[Ctrl] = R[Ctrl] /\ R2[Mirror(0)] = R[Mirror(0)] /\ R2[Port(0)] = {} /\ (i # 0 => W2[Port(0)] = W[Port(0)])
    BY <2>1, <1>5
  <2>7. R2[Chip] = ModeByte(W2[Chip]) BY <2>1, <2>5, ModeOf
  <2>8. ChipStage(3, i, R2, W2) BY <2>1, <2>3, <2>5, <2>6, <2>7 DEF ChipStage
  <2>9. Holds(b, Stage(3, i), R2, W2, T2) BY <2>8, ChipHolds
  <2>10. ASSUME NEW r \in ChipRegs PROVE FineAt(b, r, R2[r], W2[r])
    <3>1. CASE r \in ChipPorts
      <4>1. R2[r] = {} BY <2>1, <3>1
      <4>2. \E j \in Numbers : r = Port(j) BY <3>1, <1>4 DEF Numbers
      <4>3. {} \subseteq Pins(8) OBVIOUS
      <4> QED BY <4>1, <4>2, <4>3, ChipFine
    <3>2. CASE r = Chip BY <3>2, ChipFine
    <3>3. CASE r \notin ChipPorts /\ r # Chip
      <4>1. r # Port(i) BY <3>3, <1>4 DEF Numbers
      <4> QED BY <4>1, <3>3, <2>1, <2>4
    <3> QED BY <3>1, <3>2, <3>3
  <2>11. Fine(b, R2, W2) BY <2>10, ChipFacts DEF Fine
  <2>12. Local(b, f2, R2, W2, T2) BY <2>9, <2>11, <1>3 DEF Local
  <2>13. Polite(b, "task", g, R, W, R2, W2)
    <3>1. \A r \in Registers(b) : MayWrite(b, "task", g, r) BY <1>2, ChipFacts
    <3>2. \A r \in Registers(b) : \A j \in Numbers :
            Shared(b, r) /\ Lock(j) \notin g => R2[r] \cap Mine(j) = R[r] \cap Mine(j)
      BY <2>6, ChipFacts
    <3> QED BY <3>1, <3>2 DEF Polite
  <2>14. Notes(b, "task", g, f, Empty, s, Empty, R, W, T, R2, W2, T2)
    <3>1. \A j \in Numbers : Count(j) \notin Registers(b) /\ Resets(j) \notin Registers(b) /\ Rised(j) \notin Registers(b)
      BY ChipFacts
    <3> QED BY <3>1, ChipFacts DEF Notes, Stirs
  <2> QED BY <2>12, <2>13, <2>14
<1>8. Aimed(b, f, s) BY <1>1 DEF Aimed
<1>9. Named(b, s) BY <1>1, <1>5, ChipFacts DEF Named
<1>10. \A j, m : Owed(j, m) \notin Empty BY Void
<1>11. Moves(b, "task", g, f, Empty, s, f2, Empty)
  BY <1>1, <1>7, <1>9, <1>10 DEF Moves, Accesses
<1>12. Does(b, "task", g, f, Empty, <<s>>, g, f2, Empty) BY <1>6, <1>8, <1>11, DoesAccess
<1> QED BY <1>12 DEF Mode, s, g, f, f2

\* ... and the latches are written again.
LEMMA ChipRestore ==
    ASSUME NEW b, b = "me1400", NEW i \in Numbers, NEW k \in Numbers, NEW f, f = IF k = 0 THEN ChipAt(3, i) ELSE ChipOpen
    PROVE  Does(b, "task", Both2(i), f, Empty, Restore(Port(k), Mirror(k)), Both2(i), ChipOpen, Empty)
<1> DEFINE s == [do |-> "restore", reg |-> Port(k), from |-> Mirror(k)]
<1> DEFINE g == Both2(i)
<1>1. s.do = "restore" /\ s.reg = Port(k) /\ s.from = Mirror(k) OBVIOUS
<1>2. CtrlLock \in g /\ Lock(i) \in g BY Locks3
<1> HIDE DEF s, g
<1>5. /\ Port(k) \in ChipRegs /\ Mirror(k) \in ChipRegs /\ Chip \in ChipRegs /\ Ctrl \in ChipRegs
      /\ Port(0) \in ChipRegs /\ Mirror(0) \in ChipRegs
      /\ Chip # Port(k) /\ Ctrl # Port(k) /\ Mirror(0) # Port(k) /\ (k # 0 => Port(0) # Port(k))
  BY DEF ChipRegs, Numbers, Mirror, Port, Ctrl, Chip
<1>6. Fit(b, "task", g, f, Empty)
  <2>1. Stable(b, "task", g, Stage(3, i)) /\ Stable(b, "task", g, Firm(Latched)) BY <1>2, ChipStable
  <2>2. \A x \in f : Stable(b, "task", g, x) BY <2>1 DEF ChipAt, ChipOpen
  <2> QED BY <2>2, ChipFacts, FitFree
<1>7. ASSUME NEW R, NEW W, NEW T, NEW R2, NEW W2, NEW T2,
             Local(b, f, R, W, T), Effect(b, s, R, W, T, R2, W2, T2)
      PROVE  /\ Local(b, ChipOpen, R2, W2, T2) /\ Polite(b, "task", g, R, W, R2, W2)
             /\ Notes(b, "task", g, f, Empty, s, Empty, R, W, T, R2, W2, T2)
  <2>1. /\ R2[Port(k)] = IF R[Mirror(k)] = {} THEN R[Port(k)] ELSE R[Mirror(k)]
        /\ \A q \in ChipRegs : q # Port(k) => R2[q] = R[q]
        /\ \A q \in ChipRegs : W2[q] = W[q]
    BY <1>7, <1>1, ChipFacts DEF Effect, Changes, Keep
  <2>2. Fine(b, R, W) BY <1>7 DEF Local
  <2>4. \A r \in ChipRegs : FineAt(b, r, R[r], W[r]) BY <2>2, ChipFacts DEF Fine
  <2>6. R2[Ctrl] = R[Ctrl] /\ R2[Mirror(0)] = R[Mirror(0)] /\ R2[Chip] = R[Chip]
    BY <2>1, <1>5
  <2>7. W2[Chip] = W[Chip] /\ W2[Port(0)] = W[Port(0)] BY <2>1, <1>5
  <2>8. Holds(b, Firm(Latched), R2, W2, T2)
    <3>1. CASE k = 0
      <4>1. Holds(b, Stage(3, i), R, W, T) BY <1>7, <3>1 DEF Local, ChipAt
      <4>2. /\ W[Chip] = R[Ctrl] /\ R[Chip] = ModeByte(W[Chip])
            /\ R[Port(0)] = {} /\ W[Port(0)] = R[Mirror(0)]
        BY <4>1, ChipHolds DEF ChipStage
      <4>3. R2[Port(0)] = R[Mirror(0)] BY <4>2, <2>1, <3>1
      <4> QED BY <4>2, <4>3, <2>6, <2>7, ChipHolds
    <3>2. CASE k # 0
      <4>1. Holds(b, Firm(Latched), R, W, T) BY <1>7, <3>2 DEF Local, ChipOpen
      <4>2. /\ W[Chip] = R[Ctrl] /\ R[Chip] = ModeByte(W[Chip])
            /\ R[Port(0)] = W[Port(0)] /\ R[Port(0)] = R[Mirror(0)]
        BY <4>1, ChipHolds
      <4>3. R2[Port(0)] = R[Port(0)] BY <3>2, <2>1, <1>5
      <4> QED BY <4>2, <4>3, <2>6, <2>7, ChipHolds
    <3> QED BY <3>1, <3>2
  <2>10. ASSUME NEW r \in ChipRegs PROVE FineAt(b, r, R2[r], W2[r])
    <3>1. CASE r = Port(k)
      <4>1. FineAt(b, Mirror(k), R[Mirror(k)], W[Mirror(k)]) /\ FineAt(b, Port(k), R[Port(k)], W[Port(k)])
        BY <2>4, <1>5
      <4>2. R[Mirror(k)] \subseteq Pins(8)
        <5>1. k = 0 \/ k = 1 \/ k = 2 BY DEF Numbers
        <5> QED BY <4>1, <5>1, ChipFine
      <4>3. R[Port(k)] \subseteq Pins(8) BY <4>1, ChipFine
      <4>4. R2[Port(k)] \subseteq Pins(8) BY <4>2, <4>3, <2>1
      <4> QED BY <4>4, <3>1, ChipFine
    <3>2. CASE r # Port(k) BY <3>2, <2>1, <2>4
    <3> QED BY <3>1, <3>2
  <2>11. Fine(b, R2, W2) BY <2>10, ChipFacts DEF Fine
  <2>12. Local(b, ChipOpen, R2, W2, T2) BY <2>8, <2>11 DEF Local, ChipOpen
  <2>13. Polite(b, "task", g, R, W, R2, W2)
    <3>1. \A r \in Registers(b) : MayWrite(b, "task", g, r) BY <1>2, ChipFacts
    <3>2. \A r \in Registers(b) : \A j \in Numbers :
            Shared(b, r) /\ Lock(j) \notin g => R2[r] \cap Mine(j) = R[r] \cap Mine(j)
      BY <2>6, ChipFacts
    <3> QED BY <3>1, <3>2 DEF Polite
  <2>14. Notes(b, "task", g, f, Empty, s, Empty, R, W, T, R2, W2, T2)
    <3>1. \A j \in Numbers : Count(j) \notin Registers(b) /\ Resets(j) \notin Registers(b) /\ Rised(j) \notin Registers(b)
      BY ChipFacts
    <3> QED BY <3>1, ChipFacts DEF Notes, Stirs
  <2> QED BY <2>12, <2>13, <2>14
<1>8. Aimed(b, f, s) BY <1>1 DEF Aimed
<1>9. Named(b, s) BY <1>1, <1>5, ChipFacts DEF Named
<1>10. \A j, m : Owed(j, m) \notin Empty BY Void
<1>11. Moves(b, "task", g, f, Empty, s, ChipOpen, Empty)
  BY <1>1, <1>7, <1>9, <1>10 DEF Moves, Accesses
<1>12. Does(b, "task", g, f, Empty, <<s>>, g, ChipOpen, Empty) BY <1>6, <1>8, <1>11, DoesAccess
<1> QED BY <1>12 DEF Restore, s, g

\* A changed direction is brought to the chip.
LEMMA ChipReconfigure ==
    ASSUME NEW b, b = "me1400", NEW i \in Numbers
    PROVE  /\ Does(b, "task", Both2(i), ChipAt(1, i), Empty, me8255_reconfigure_chip(i), Both2(i), ChipOpen, Empty)
           /\ \A P : Program(P) => \A j : ~WritesTo(j, P \o me8255_reconfigure_chip(i))
<1> DEFINE g == Both2(i)
<1> DEFINE A == Put(Mirror(i), Pins(8), {})
<1> DEFINE B == Mode(Chip, Ctrl, ModeBytes, ChipPorts, Port(i))
<1> DEFINE C(k) == Restore(Port(k), Mirror(k))
<1>0. 0 \in Numbers /\ 1 \in Numbers /\ 2 \in Numbers BY DEF Numbers
<1>1. Does(b, "task", g, ChipAt(1, i), Empty, A, g, ChipAt(2, i), Empty) BY ChipClear
<1>2. Does(b, "task", g, ChipAt(2, i), Empty, B, g, ChipAt(3, i), Empty) BY ChipMode
<1>3. Does(b, "task", g, ChipAt(3, i), Empty, C(0), g, ChipOpen, Empty) BY <1>0, ChipRestore
<1>4. Does(b, "task", g, ChipOpen, Empty, C(1), g, ChipOpen, Empty)
  <2>1. ChipOpen = IF 1 = 0 THEN ChipAt(3, i) ELSE ChipOpen OBVIOUS
  <2> QED BY <1>0, <2>1, ChipRestore
<1>5. Does(b, "task", g, ChipOpen, Empty, C(2), g, ChipOpen, Empty)
  <2>1. ChipOpen = IF 2 = 0 THEN ChipAt(3, i) ELSE ChipOpen OBVIOUS
  <2> QED BY <1>0, <2>1, ChipRestore
<1>a. me8255_reconfigure_chip(i) = (((A \o B) \o C(0)) \o C(1)) \o C(2)
  BY DEF me8255_reconfigure_chip
<1>b. C(2) = <<[do |-> "restore", reg |-> Port(2), from |-> Mirror(2)]>> BY DEF Restore
<1> HIDE DEF g, A, B, C
<1>6. Does(b, "task", g, ChipAt(1, i), Empty, A \o B, g, ChipAt(3, i), Empty)
  BY <1>1, <1>2, DoesThen
<1>7. Does(b, "task", g, ChipAt(1, i), Empty, (A \o B) \o C(0), g, ChipOpen, Empty)
  BY <1>3, <1>6, DoesThen
<1>8. Does(b, "task", g, ChipAt(1, i), Empty, ((A \o B) \o C(0)) \o C(1), g, ChipOpen, Empty)
  BY <1>4, <1>7, DoesThen
<1>9. Does(b, "task", g, ChipAt(1, i), Empty, (((A \o B) \o C(0)) \o C(1)) \o C(2), g, ChipOpen, Empty)
  BY <1>5, <1>8, DoesThen
<1>10. ASSUME NEW P, Program(P), NEW j
       PROVE  ~WritesTo(j, P \o me8255_reconfigure_chip(i))
  <2> DEFINE X == ((A \o B) \o C(0)) \o C(1)
  <2>1. Program(X) BY <1>8 DEF Does
  <2>2. Program(C(2)) BY <1>5 DEF Does
  <2> HIDE DEF X
  <2>3. P \o (X \o C(2)) = (P \o X) \o C(2) BY <1>10, <2>1, <2>2, Associative
  <2>4. Program(P \o X) BY <1>10, <2>1, JoinPrograms
  <2> DEFINE z == [do |-> "restore", reg |-> Port(2), from |-> Mirror(2)]
  <2>7. z.do = "restore" /\ C(2) = <<z>> BY <1>b
  <2> HIDE DEF z
  <2>5. Last((P \o X) \o <<z>>) = z BY <2>4, LastAppended
  <2>8. P \o me8255_reconfigure_chip(i) = (P \o X) \o <<z>> BY <2>3, <2>7, <1>a DEF X
  <2>6. Last(P \o me8255_reconfigure_chip(i)).do = "restore" BY <2>5, <2>7, <2>8
  <2> QED BY <2>6 DEF WritesTo
<1> QED BY <1>9, <1>10, <1>a DEF g

\* The section under both locks.
LEMMA ChipSection ==
    ASSUME NEW b, b = "me1400", NEW i \in Numbers, NEW P,
           Does(b, "task", Both2(i), ChipOpen, Empty, P, Both2(i), ChipOpen, Empty)
    PROVE  Harmless(b, Under(Lock(i), Under(CtrlLock, P)))
<1>1. Opens(b, Empty, CtrlLock, ChipOpen)
  <2>1. ASSUME NEW R, NEW W, NEW T, Local(b, Empty, R, W, T), Bond(b, Latched, R, W)
        PROVE  Local(b, ChipOpen, R, W, T)
    <3>1. Holds(b, Firm(Latched), R, W, T) BY <2>1, ChipFacts, ChipHolds
    <3> QED BY <2>1, <3>1 DEF Local, ChipOpen
  <2> QED BY <2>1, ChipFacts DEF Opens
<1>2. Closes(b, ChipOpen, CtrlLock, Empty)
  <2>1. ASSUME NEW R, NEW W, NEW T, Local(b, ChipOpen, R, W, T)
        PROVE  Local(b, Empty, R, W, T) /\ Bond(b, Latched, R, W)
    <3>1. Holds(b, Firm(Latched), R, W, T) BY <2>1 DEF Local, ChipOpen
    <3>2. Bond(b, Latched, R, W) BY <3>1, ChipFacts, ChipHolds
    <3> QED BY <2>1, <3>2, Void DEF Local
  <2> QED BY <2>1, ChipFacts DEF Closes
<1>3. NoTies(b) /\ Bare(b, Lock(i)) BY ChipFacts
<1>4. Fit(b, "task", One(i), Empty, Empty) BY <1>3, FitFree, Void
<1>5. Fit(b, "task", Both2(i), ChipOpen, Empty)
  <2>1. CtrlLock \in Both2(i) BY Locks3
  <2>2. \A k \in ChipOpen : Stable(b, "task", Both2(i), k) BY <2>1, ChipStable DEF ChipOpen
  <2> QED BY <1>3, <2>2, FitFree
<1>6. Does(b, "task", One(i), Empty, Empty, Under(CtrlLock, P), One(i), Empty, Empty)
  <2> DEFINE g == One(i) \cup {CtrlLock}
  <2>1. Both2(i) = g BY DEF Both2
  <2> HIDE DEF g
  <2>2. CtrlLock \notin One(i) /\ CtrlLock # IrqLine BY Locks3
  <2>3. Fit(b, "task", g, ChipOpen, Empty) /\ Does(b, "task", g, ChipOpen, Empty, P, g, ChipOpen, Empty)
    BY <1>5, <2>1
  <2> QED BY <1>1, <1>2, <1>4, <2>2, <2>3, DoesUnder DEF g
<1>7. Lock(i) # IrqLine BY Locks3
<1>8. Good(b, "task", Empty, Empty, Empty, Under(Lock(i), Under(CtrlLock, P)))
  BY <1>3, <1>6, <1>7, Void, PlainAlone DEF One
<1> QED BY <1>8 DEF Harmless

\* The direction in the control register is replaced.
LEMMA ChipTurn ==
    ASSUME NEW b, b = "me1400", NEW i \in Numbers, NEW set, set \subseteq Out(i)
    PROVE  /\ Does(b, "task", Both2(i), ChipRead, Empty, Store(Ctrl, Out(i), set), Both2(i), ChipAt(1, i), Empty)
           /\ Does(b, "task", Both2(i), ChipOpen, Empty, Load(Ctrl), Both2(i), ChipRead, Empty)
<1>0. CtrlLock \in Both2(i) BY Locks3
<1> DEFINE s == [do |-> "store", reg |-> Ctrl, clear |-> Out(i), set |-> set]
<1>1. s.do = "store" /\ s.reg = Ctrl /\ s.clear = Out(i) /\ s.set = set OBVIOUS
<1> HIDE DEF s
<1>2. /\ Ctrl \in ChipRegs \ {Chip} /\ Port(i) # Ctrl /\ Port(0) \in ChipRegs /\ Mirror(0) \in ChipRegs
      /\ Port(0) # Ctrl /\ Mirror(0) # Ctrl
  BY DEF ChipRegs, Mirror, Port, Ctrl, Chip
<1>3. \A k \in ChipRead : Stable(b, "task", Both2(i), k) BY <1>0, ChipStable DEF ChipRead
<1>4. ASSUME NEW R, NEW W, NEW T, NEW R2, NEW W2, Local(b, ChipRead, R, W, T), WriteEffect(b, s, R, W, T, R2, W2)
      PROVE  FineAt(b, s.reg, R2[s.reg], W2[s.reg]) /\ \A k \in ChipAt(1, i) : Holds(b, k, R2, W2, T)
  <2>1. /\ Holds(b, Firm(Latched), R, W, T) /\ Fine(b, R, W) /\ Holds(b, But(Ctrl, Empty), R, W, T)
    BY <1>4 DEF Local, ChipRead
  <2>2. R[Port(0)] = W[Port(0)] /\ R[Port(0)] = R[Mirror(0)] BY <2>1, ChipHolds
  <2>a. T \ Empty = R[Ctrl] \ Empty BY <2>1, ChipHolds
  <2>b. T = R[Ctrl] BY <2>a, Void
  <2>3. /\ R2[Ctrl] = (T \ Out(i)) \cup set /\ W2[Ctrl] = (W[Ctrl] \ Out(i)) \cup set
        /\ \A q \in ChipRegs : q # Ctrl => R2[q] = R[q] /\ W2[q] = W[q]
    BY <1>4, <1>1, ChipFacts DEF WriteEffect, Changes, NewOf, NewAsked, Level, ActiveLow, Ctrl
  <2>5. FineAt(b, Ctrl, R[Ctrl], W[Ctrl]) BY <2>1, <1>2, ChipFacts DEF Fine
  <2>6. R[Ctrl] \subseteq Outs /\ W[Ctrl] = R[Ctrl] BY <2>5, ChipFine
  <2>7. Out(i) \subseteq Outs BY DEF Outs, Numbers
  <2>8. R2[Ctrl] \subseteq Outs /\ W2[Ctrl] = R2[Ctrl] BY <2>3, <2>6, <2>7, <2>b
  <2>9. FineAt(b, Ctrl, R2[Ctrl], W2[Ctrl]) BY <2>8, ChipFine
  <2>10. R2[Port(0)] = W2[Port(0)] /\ R2[Port(0)] = R2[Mirror(0)] BY <2>2, <2>3, <1>2
  <2>11. ChipStage(1, i, R2, W2) BY <2>10 DEF ChipStage
  <2>12. Holds(b, Stage(1, i), R2, W2, T) BY <2>11, ChipHolds
  <2> QED BY <2>9, <2>12, <1>1 DEF ChipAt
<1>5. s.reg \in {Ctrl, Mirror(i), Port(i)} /\ s.reg # Port(i) /\ But(Ctrl, Empty) \in ChipRead
  BY <1>1, <1>2 DEF ChipRead
<1>6. ChipWriteOk(b, i, ChipRead, s, ChipAt(1, i)) BY <1>1, <1>2, <1>3, <1>4, <1>5 DEF ChipWriteOk
<1>7. Does(b, "task", Both2(i), ChipRead, Empty, <<s>>, Both2(i), ChipAt(1, i), Empty)
  BY <1>6, ChipWrite
<1>8. Does(b, "task", Both2(i), ChipOpen, Empty, Load(Ctrl), Both2(i), ChipRead, Empty)
  <2>1. \A k \in ChipOpen : Stable(b, "task", Both2(i), k) BY <1>0, ChipStable DEF ChipOpen
  <2>2. ASSUME NEW R, NEW W, NEW T, Local(b, ChipOpen, R, W, T), NEW k \in ChipRead
        PROVE  Holds(b, k, R, W, R[Ctrl])
    <3>1. Holds(b, Firm(Latched), R, W, T) BY <2>2 DEF Local, ChipOpen
    <3>2. Holds(b, Firm(Latched), R, W, R[Ctrl]) BY <3>1, ChipHolds
    <3>3. Holds(b, But(Ctrl, Empty), R, W, R[Ctrl]) BY ChipHolds
    <3> QED BY <2>2, <3>2, <3>3 DEF ChipRead
  <2>3. Ctrl \in ChipRegs BY <1>2
  <2> QED BY <2>1, <2>2, <2>3, ChipLoads
<1> QED BY <1>7, <1>8 DEF Store, s

\* Reset of a port of the 8255 is harmless ...
LEMMA ChipReset == ASSUME NEW i \in Numbers PROVE Harmless("me1400", me8255_io_reset_subdevice(i))
<1> DEFINE b == "me1400"
<1> DEFINE g == Both2(i)
<1>0. b = "me1400" /\ {} \subseteq Out(i) OBVIOUS
<1> HIDE DEF b, g
<1>1. /\ Does(b, "task", g, ChipRead, Empty, Store(Ctrl, Out(i), {}), g, ChipAt(1, i), Empty)
      /\ Does(b, "task", g, ChipOpen, Empty, Load(Ctrl), g, ChipRead, Empty)
  BY <1>0, ChipTurn DEF g
<1>2. Does(b, "task", g, ChipOpen, Empty, Rmw(Ctrl, Out(i), {}), g, ChipAt(1, i), Empty)
  BY <1>1, DoesThen DEF Rmw
<1>3. Does(b, "task", g, ChipAt(1, i), Empty, me8255_reconfigure_chip(i), g, ChipOpen, Empty)
  BY <1>0, ChipReconfigure DEF g
<1>4. Does(b, "task", g, ChipOpen, Empty, Rmw(Ctrl, Out(i), {}) \o me8255_reconfigure_chip(i), g, ChipOpen, Empty)
  BY <1>2, <1>3, DoesThen
<1>5. Harmless(b, Under(Lock(i), Under(CtrlLock, Rmw(Ctrl, Out(i), {}) \o me8255_reconfigure_chip(i))))
  BY <1>0, <1>4, ChipSection DEF g
<1> QED BY <1>5 DEF me8255_io_reset_subdevice, b

\* ... and so is its configuration.
LEMMA ChipConfig == ASSUME NEW i \in Numbers, NEW a PROVE Harmless("me1400", me8255_io_single_config(i, a))
<1> DEFINE b == "me1400"
<1> DEFINE g == Both2(i)
<1> DEFINE set == IF a.mode = "output" THEN Out(i) ELSE {}
<1> DEFINE old == Out(i) \ set
<1> DEFINE P == Store(Ctrl, Out(i), set) \o me8255_reconfigure_chip(i)
<1>0. b = "me1400" /\ set \subseteq Out(i) OBVIOUS
<1>a. me8255_io_single_config(i, a) \in
        {Refused, Under(Lock(i), Under(CtrlLock, Load(Ctrl) \o Test(Out(i), {old}, P)))}
  BY DEF me8255_io_single_config
<1> HIDE DEF b, g, set, old
<1>1. /\ Does(b, "task", g, ChipRead, Empty, Store(Ctrl, Out(i), set), g, ChipAt(1, i), Empty)
      /\ Does(b, "task", g, ChipOpen, Empty, Load(Ctrl), g, ChipRead, Empty)
  BY <1>0, ChipTurn DEF g
<1>3. Does(b, "task", g, ChipAt(1, i), Empty, me8255_reconfigure_chip(i), g, ChipOpen, Empty)
  BY <1>0, ChipReconfigure DEF g
<1>4. Does(b, "task", g, ChipRead, Empty, P, g, ChipOpen, Empty) BY <1>1, <1>3, DoesThen
<1>5. \A j : ~WritesTo(j, P)
  <2>1. Program(Store(Ctrl, Out(i), set)) BY <1>1 DEF Does
  <2> QED BY <2>1, <1>0, ChipReconfigure
<1> HIDE DEF P
<1> DEFINE s == [do |-> "test", mask |-> Out(i), in |-> {old}, body |-> P]
<1>6. s.body = P OBVIOUS
<1> HIDE DEF s
<1>7. Decides(b, ChipRead, s) BY <1>5, <1>6 DEF Decides
<1>8. MarksStay(Empty, Empty) BY Void DEF MarksStay
<1>9. Fit(b, "task", g, ChipRead, Empty)
  <2>1. CtrlLock \in g BY Locks3 DEF g
  <2>2. \A k \in ChipRead : Stable(b, "task", g, k) BY <2>1, <1>0, ChipStable DEF ChipRead
  <2> QED BY <2>2, <1>0, ChipFacts, FitFree
<1>10. \A R, W, T : Local(b, ChipRead, R, W, T) => Local(b, ChipOpen, R, W, T)
  BY DEF Local, ChipRead, ChipOpen
<1>11. Does(b, "task", g, ChipRead, Empty, Test(Out(i), {old}, P), g, ChipOpen, Empty)
  BY <1>4, <1>7, <1>8, <1>9, <1>10, DoesTest DEF s
<1>12. Does(b, "task", g, ChipOpen, Empty, Load(Ctrl) \o Test(Out(i), {old}, P), g, ChipOpen, Empty)
  BY <1>1, <1>11, DoesThen
<1>13. Harmless(b, Under(Lock(i), Under(CtrlLock, Load(Ctrl) \o Test(Out(i), {old}, P))))
  BY <1>0, <1>12, ChipSection DEF g
<1> QED BY <1>13, <1>a, Refuses DEF b

\* Bits of a port go to the mirror and to the latch.
ChipWr(i)     == {Firm(Latched), But(Ctrl, Empty), Is(Ctrl, ModeBits(i), Out(i))}
ChipBit(i)    == {Firm(Latched), But(Port(0), Empty), Is(Ctrl, ModeBits(i), Out(i))}
ChipHalf(i, c, v) == IF i = 0 THEN {Written(c, v), Is(Ctrl, ModeBits(i), Out(i))} ELSE ChipBit(i)
ChipWhole(i, c, v) == IF i = 0 THEN {Written(c, v), Is(Ctrl, ModeBits(i), Out(i))} ELSE ChipWr(i)

\* What a write of a port relies on is stable, and includes that the port is an output.
LEMMA ChipKeeps ==
    ASSUME NEW b, b = "me1400", NEW i \in Numbers, NEW c, NEW v,
           NEW f \in {ChipOpen, ChipRead, ChipWr(i), ChipBit(i), ChipHalf(i, c, v), ChipWhole(i, c, v)}
    PROVE  /\ \A k \in f : Stable(b, "task", Both2(i), k)
           /\ f \in {ChipWr(i), ChipBit(i), ChipHalf(i, c, v), ChipWhole(i, c, v)} =>
                Is(Ctrl, ModeBits(i), Out(i)) \in f
<1>1. CtrlLock \in Both2(i) BY Locks3
<1>2. /\ Stable(b, "task", Both2(i), Firm(Latched)) /\ Stable(b, "task", Both2(i), But(Ctrl, Empty))
      /\ Stable(b, "task", Both2(i), But(Port(0), Empty)) /\ Stable(b, "task", Both2(i), Written(c, v))
      /\ Stable(b, "task", Both2(i), Is(Ctrl, ModeBits(i), Out(i)))
  BY <1>1, ChipStable
<1>3. \A k \in f : k \in {Firm(Latched), But(Ctrl, Empty), But(Port(0), Empty), Written(c, v),
                          Is(Ctrl, ModeBits(i), Out(i))}
  BY DEF ChipOpen, ChipRead, ChipWr, ChipBit, ChipHalf, ChipWhole
<1>4. \A k \in f : Stable(b, "task", Both2(i), k) BY <1>2, <1>3
<1>5. f \in {ChipWr(i), ChipBit(i), ChipHalf(i, c, v), ChipWhole(i, c, v)} => Is(Ctrl, ModeBits(i), Out(i)) \in f
  BY DEF ChipWr, ChipBit, ChipHalf, ChipWhole
<1> QED BY <1>4, <1>5

\* The ports, mirrors and control registers of the 8255 are different registers.
LEMMA ChipNames ==
    ASSUME NEW i \in Numbers
    PROVE  /\ Mirror(i) \in ChipRegs \ {Chip} /\ Port(i) \in ChipRegs \ {Chip} /\ Mirror(i) # Port(i)
           /\ Mirror(i) # Ctrl /\ Port(i) # Ctrl /\ Ctrl \in ChipRegs /\ Chip \in ChipRegs
           /\ Port(0) \in ChipRegs /\ Mirror(0) \in ChipRegs /\ Port(0) # Mirror(i) /\ Mirror(0) # Port(i)
           /\ Chip # Mirror(i) /\ Chip # Port(i)
           /\ (i # 0 => Mirror(0) # Mirror(i) /\ Port(0) # Port(i))
BY DEF ChipRegs, Numbers, Mirror, Port, Ctrl, Chip

\* What a write to the mirror or the latch leaves alone.
ChipWrote(s, R, W, T, R2, W2) ==
    /\ R2[s.reg] = IF s.do = "store" THEN (T \ s.clear) \cup s.set ELSE s.set
    /\ W2[s.reg] = (W[s.reg] \ s.clear) \cup s.set
    /\ \A q \in ChipRegs : q # s.reg => R2[q] = R[q] /\ W2[q] = W[q]

\* What a write does to the registers of the 8255.
LEMMA ChipEffect ==
    ASSUME NEW b, b = "me1400", NEW s, s.reg \in ChipRegs, s.do \in {"store", "put"},
           NEW R, NEW W, NEW T, NEW R2, NEW W2, WriteEffect(b, s, R, W, T, R2, W2)
    PROVE  ChipWrote(s, R, W, T, R2, W2)
<1>1. s.reg[1] # "low" BY DEF ChipRegs, Mirror, Port, Ctrl, Chip
<1> QED BY <1>1, ChipFacts DEF WriteEffect, Changes, NewOf, NewAsked, Level, ActiveLow, ChipWrote

MirrorOk(b, i, s, c, v, f, f2, d) ==
    /\ b = "me1400" /\ i \in Numbers /\ s.do \in {"store", "put"} /\ s.reg = Mirror(i)
    /\ s.clear = c /\ s.set = v /\ v \subseteq Pins(8)
    /\ s.do = "store" => f = ChipBit(i) /\ f2 = ChipHalf(i, c, v) /\ d = c
    /\ s.do = "put" => f = ChipWr(i) /\ f2 = ChipWhole(i, d, v) /\ d = Pins(8) \cup Outs /\ c = Pins(8)
LatchOk(b, i, s, c, v, f, d) ==
    /\ b = "me1400" /\ i \in Numbers /\ s.do \in {"store", "put"} /\ s.reg = Port(i)
    /\ s.clear = c /\ s.set = v /\ v \subseteq Pins(8)
    /\ s.do = "store" => f = ChipHalf(i, d, v) /\ d = c
    /\ s.do = "put" => f = ChipWhole(i, d, v) /\ d = Pins(8) \cup Outs /\ c = Pins(8)

\* The write of the mirror, before that of the port.
LEMMA ChipMirror ==
    ASSUME NEW b, NEW i, NEW s, NEW c, NEW v, NEW f, NEW f2, NEW d, MirrorOk(b, i, s, c, v, f, f2, d)
    PROVE  Does(b, "task", Both2(i), f, Empty, <<s>>, Both2(i), f2, Empty)
<1> USE DEF MirrorOk
<1>1. \A k \in f : Stable(b, "task", Both2(i), k) BY ChipKeeps
<1>2. ASSUME NEW R, NEW W, NEW T, NEW R2, NEW W2, Local(b, f, R, W, T), WriteEffect(b, s, R, W, T, R2, W2)
      PROVE  FineAt(b, s.reg, R2[s.reg], W2[s.reg]) /\ \A k \in f2 : Holds(b, k, R2, W2, T)
  <2>1. Holds(b, Firm(Latched), R, W, T) /\ Holds(b, Is(Ctrl, ModeBits(i), Out(i)), R, W, T) /\ Fine(b, R, W)
    BY <1>2 DEF Local, ChipBit, ChipWr
  <2>2. /\ W[Chip] = R[Ctrl] /\ R[Chip] = ModeByte(W[Chip])
        /\ R[Port(0)] = W[Port(0)] /\ R[Port(0)] = R[Mirror(0)]
    BY <2>1, ChipHolds
  <2>3. R[Ctrl] \cap ModeBits(i) = Out(i) BY <2>1, ChipHolds
  <2>4. \A r \in ChipRegs : FineAt(b, r, R[r], W[r]) BY <2>1, ChipFacts DEF Fine
  <2>5. /\ R2[Mirror(i)] = IF s.do = "store" THEN (T \ c) \cup v ELSE v
        /\ W2[Mirror(i)] = (W[Mirror(i)] \ c) \cup v
        /\ \A q \in ChipRegs : q # Mirror(i) => R2[q] = R[q] /\ W2[q] = W[q]
    <3>1. s.reg \in ChipRegs BY ChipNames
    <3>2. ChipWrote(s, R, W, T, R2, W2) BY <1>2, <3>1, ChipEffect
    <3> QED BY <3>2 DEF ChipWrote
  <2>6. /\ R2[Ctrl] = R[Ctrl] /\ R2[Chip] = R[Chip] /\ W2[Chip] = W[Chip]
        /\ R2[Port(0)] = R[Port(0)] /\ W2[Port(0)] = W[Port(0)] /\ (i # 0 => R2[Mirror(0)] = R[Mirror(0)])
    BY <2>5, ChipNames
  <2>7. /\ R[Port(0)] \subseteq Pins(8) /\ R[Ctrl] \subseteq Outs
        /\ R[Mirror(0)] \subseteq Pins(8) /\ W[Mirror(0)] = R[Mirror(0)]
    <3>1. 0 \in Numbers BY DEF Numbers
    <3> QED BY <2>4, <3>1, ChipFine, ChipNames
  <2>8. s.do = "store" => T = R[Port(0)] /\ Holds(b, But(Port(0), Empty), R, W, T)
    <3>1. ASSUME s.do = "store" PROVE T = R[Port(0)] /\ Holds(b, But(Port(0), Empty), R, W, T)
      <4>1. Holds(b, But(Port(0), Empty), R, W, T) BY <1>2, <3>1 DEF Local, ChipBit
      <4>2. T \ Empty = R[Port(0)] \ Empty BY <4>1, ChipHolds
      <4> QED BY <4>1, <4>2, Void
    <3> QED BY <3>1
  <2>9. s.do = "put" => T = R[Ctrl] /\ Holds(b, But(Ctrl, Empty), R, W, T)
    <3>1. ASSUME s.do = "put" PROVE T = R[Ctrl] /\ Holds(b, But(Ctrl, Empty), R, W, T)
      <4>1. Holds(b, But(Ctrl, Empty), R, W, T) BY <1>2, <3>1 DEF Local, ChipWr
      <4>2. T \ Empty = R[Ctrl] \ Empty BY <4>1, ChipHolds
      <4> QED BY <4>1, <4>2, Void
    <3> QED BY <3>1
  <2>10. R2[Mirror(i)] \subseteq Pins(8) BY <2>5, <2>7, <2>8
  <2>11. i = 0 => W2[Mirror(0)] = R2[Mirror(0)] BY <2>2, <2>5, <2>7, <2>8
  <2>12. FineAt(b, Mirror(i), R2[Mirror(i)], W2[Mirror(i)])
    <3>1. i = 0 \/ i = 1 \/ i = 2 BY DEF Numbers
    <3> QED BY <3>1, <2>10, <2>11, ChipFine
  <2>13. Holds(b, Is(Ctrl, ModeBits(i), Out(i)), R2, W2, T) BY <2>3, <2>6, ChipHolds
  <2>14. CASE i = 0
    <3>1. T \ d = R2[Port(0)] \ d
      <4>1. CASE s.do = "store" BY <4>1, <2>6, <2>8
      <4>2. CASE s.do = "put"
        <5>1. T \subseteq d /\ R2[Port(0)] \subseteq d BY <4>2, <2>6, <2>7, <2>9
        <5> QED BY <5>1
      <4> QED BY <4>1, <4>2
    <3>2. R2[Mirror(0)] = (R2[Port(0)] \ d) \cup v
      <4>1. CASE s.do = "store" BY <4>1, <2>5, <2>6, <2>8, <2>14
      <4>2. CASE s.do = "put"
        <5>1. R2[Port(0)] \subseteq d BY <4>2, <2>6, <2>7
        <5> QED BY <5>1, <4>2, <2>5, <2>14
      <4> QED BY <4>1, <4>2
    <3>3. Holds(b, Written(d, v), R2, W2, T) BY <3>1, <3>2, <2>2, <2>6, ChipHolds
    <3>4. f2 = {Written(d, v), Is(Ctrl, ModeBits(i), Out(i))} BY <2>14 DEF ChipHalf, ChipWhole
    <3> QED BY <3>3, <3>4, <2>12, <2>13
  <2>15. CASE i # 0
    <3>1. Holds(b, Firm(Latched), R2, W2, T) BY <2>15, <2>2, <2>6, ChipHolds
    <3>2. s.do = "store" => Holds(b, But(Port(0), Empty), R2, W2, T) BY <2>6, <2>8, ChipHolds
    <3>3. s.do = "put" => Holds(b, But(Ctrl, Empty), R2, W2, T) BY <2>6, <2>9, ChipHolds
    <3>4. f2 = IF s.do = "store" THEN ChipBit(i) ELSE ChipWr(i) BY <2>15 DEF ChipHalf, ChipWhole
    <3> QED BY <3>1, <3>2, <3>3, <3>4, <2>12, <2>13 DEF ChipBit, ChipWr
  <2> QED BY <2>14, <2>15
<1>3. ChipWriteOk(b, i, f, s, f2) BY <1>1, <1>2, ChipNames DEF ChipWriteOk
<1> QED BY <1>3, ChipWrite

\* The write of the port, which makes it agree with its mirror again.
LEMMA ChipLatch ==
    ASSUME NEW b, NEW i, NEW s, NEW c, NEW v, NEW f, NEW d, LatchOk(b, i, s, c, v, f, d)
    PROVE  Does(b, "task", Both2(i), f, Empty, <<s>>, Both2(i), ChipOpen, Empty)
<1> USE DEF LatchOk
<1>1. (\A k \in f : Stable(b, "task", Both2(i), k)) /\ Is(Ctrl, ModeBits(i), Out(i)) \in f
  BY ChipKeeps
<1>2. ASSUME NEW R, NEW W, NEW T, NEW R2, NEW W2, Local(b, f, R, W, T), WriteEffect(b, s, R, W, T, R2, W2)
      PROVE  FineAt(b, s.reg, R2[s.reg], W2[s.reg]) /\ \A k \in ChipOpen : Holds(b, k, R2, W2, T)
  <2>1. Fine(b, R, W) BY <1>2 DEF Local
  <2>4. \A r \in ChipRegs : FineAt(b, r, R[r], W[r]) BY <2>1, ChipFacts DEF Fine
  <2>5. /\ R2[Port(i)] = IF s.do = "store" THEN (T \ c) \cup v ELSE v
        /\ W2[Port(i)] = (W[Port(i)] \ c) \cup v
        /\ \A q \in ChipRegs : q # Port(i) => R2[q] = R[q] /\ W2[q] = W[q]
    <3>1. s.reg \in ChipRegs BY ChipNames
    <3>2. ChipWrote(s, R, W, T, R2, W2) BY <1>2, <3>1, ChipEffect
    <3> QED BY <3>2 DEF ChipWrote
  <2>6. /\ R2[Ctrl] = R[Ctrl] /\ R2[Chip] = R[Chip] /\ W2[Chip] = W[Chip] /\ R2[Mirror(0)] = R[Mirror(0)]
        /\ (i # 0 => R2[Port(0)] = R[Port(0)] /\ W2[Port(0)] = W[Port(0)])
    BY <2>5, ChipNames
  <2>7. R[Port(0)] \subseteq Pins(8)
    <3>1. 0 \in Numbers BY DEF Numbers
    <3> QED BY <2>4, <3>1, ChipFine, ChipNames
  <2>14. CASE i = 0
    <3>1. f = {Written(d, v), Is(Ctrl, ModeBits(i), Out(i))} BY <2>14 DEF ChipHalf, ChipWhole
    <3>2. Holds(b, Written(d, v), R, W, T) BY <3>1, <1>2 DEF Local
    <3>3. /\ W[Chip] = R[Ctrl] /\ R[Chip] = ModeByte(W[Chip])
          /\ R[Port(0)] = W[Port(0)] /\ T \ d = R[Port(0)] \ d
          /\ R[Mirror(0)] = (R[Port(0)] \ d) \cup v
      BY <3>2, ChipHolds
    <3>4. R2[Port(0)] = R[Mirror(0)] /\ W2[Port(0)] = R[Mirror(0)] /\ R2[Port(0)] \subseteq Pins(8)
      <4>1. CASE s.do = "store" BY <4>1, <3>3, <2>5, <2>7, <2>14
      <4>2. CASE s.do = "put"
        <5>1. R[Port(0)] \subseteq Pins(8) /\ R[Port(0)] \subseteq d BY <4>2, <2>7
        <5> QED BY <5>1, <4>2, <3>3, <2>5, <2>14
      <4> QED BY <4>1, <4>2
    <3>7. W2[Chip] = R2[Ctrl] /\ R2[Chip] = ModeByte(W2[Chip]) BY <3>3, <2>6
    <3>8. R2[Port(0)] = W2[Port(0)] /\ R2[Port(0)] = R2[Mirror(0)] BY <3>4, <2>6
    <3>5. Holds(b, Firm(Latched), R2, W2, T) BY <3>7, <3>8, ChipHolds
    <3>6. FineAt(b, Port(i), R2[Port(i)], W2[Port(i)]) BY <3>4, <2>14, ChipFine
    <3> QED BY <3>5, <3>6 DEF ChipOpen
  <2>15. CASE i # 0
    <3>1. f = IF s.do = "store" THEN ChipBit(i) ELSE ChipWr(i) BY <2>15 DEF ChipHalf, ChipWhole
    <3>2. Holds(b, Firm(Latched), R, W, T) BY <3>1, <1>2 DEF Local, ChipBit, ChipWr
    <3>3. Holds(b, Firm(Latched), R2, W2, T) BY <3>2, <2>6, <2>15, ChipHolds
    <3>4. s.do = "store" => T = R[Port(0)]
      <4>1. ASSUME s.do = "store" PROVE T = R[Port(0)]
        <5>1. Holds(b, But(Port(0), Empty), R, W, T) BY <1>2, <3>1, <4>1 DEF Local, ChipBit
        <5>2. T \ Empty = R[Port(0)] \ Empty BY <5>1, ChipHolds
        <5> QED BY <5>2, Void
      <4> QED BY <4>1
    <3>5. R2[Port(i)] \subseteq Pins(8) BY <3>4, <2>5, <2>7
    <3>6. FineAt(b, Port(i), R2[Port(i)], W2[Port(i)]) BY <3>5, ChipFine
    <3> QED BY <3>3, <3>6 DEF ChipOpen
  <2> QED BY <2>14, <2>15
<1>3. ChipWriteOk(b, i, f, s, ChipOpen) BY <1>1, <1>2, ChipNames DEF ChipWriteOk
<1> QED BY <1>3, ChipWrite

\* The last step of two or three.
LEMMA LastTwo ==
    ASSUME NEW x, NEW y, NEW z
    PROVE  /\ Last(<<x>> \o (<<y>> \o <<z>>)) = z /\ Last(<<y>> \o <<z>>) = z
BY DEF Last

\* A write of a port: its mirror first, then the port.
LEMMA ChipBody ==
    ASSUME NEW b, b = "me1400", NEW i \in Numbers, NEW c, NEW v, v \subseteq Pins(8), NEW P,
           \/ P = Load(Port(0)) \o (Store(Mirror(i), c, v) \o Store(Port(i), c, v))
           \/ c = Pins(8) /\ P = Put(Mirror(i), c, v) \o Put(Port(i), c, v)
    PROVE  /\ Does(b, "task", Both2(i), ChipWr(i), Empty, P, Both2(i), ChipOpen, Empty)
           /\ Last(P).reg = Port(i)
<1> DEFINE g == Both2(i)
<1> HIDE DEF g
<1>1. CASE P = Load(Port(0)) \o (Store(Mirror(i), c, v) \o Store(Port(i), c, v))
  <2> DEFINE y == [do |-> "store", reg |-> Mirror(i), clear |-> c, set |-> v]
  <2> DEFINE z == [do |-> "store", reg |-> Port(i), clear |-> c, set |-> v]
  <2>1. /\ y.do = "store" /\ y.reg = Mirror(i) /\ y.clear = c /\ y.set = v
        /\ z.do = "store" /\ z.reg = Port(i) /\ z.clear = c /\ z.set = v
        /\ Store(Mirror(i), c, v) = <<y>> /\ Store(Port(i), c, v) = <<z>>
    BY DEF Store
  <2> HIDE DEF y, z
  <2>2. Does(b, "task", g, ChipBit(i), Empty, <<y>>, g, ChipHalf(i, c, v), Empty)
    <3> DEFINE f == ChipBit(i)
    <3> DEFINE f2 == ChipHalf(i, c, v)
    <3>1. f = ChipBit(i) /\ f2 = ChipHalf(i, c, v) OBVIOUS
    <3> HIDE DEF f, f2
    <3>3. y.do = "store" \/ y.do = "put" BY <2>1
    <3>2. MirrorOk(b, i, y, c, v, f, f2, c) BY <2>1, <3>1 DEF MirrorOk
    <3>4. Does(b, "task", Both2(i), f, Empty, <<y>>, Both2(i), f2, Empty) BY <3>2, ChipMirror
    <3> QED BY <3>4 DEF f, f2, g
  <2>3. Does(b, "task", g, ChipHalf(i, c, v), Empty, <<z>>, g, ChipOpen, Empty)
    <3> DEFINE f == ChipHalf(i, c, v)
    <3>1. f = ChipHalf(i, c, v) OBVIOUS
    <3> HIDE DEF f
    <3>3. z.do = "store" \/ z.do = "put" BY <2>1
    <3>2. LatchOk(b, i, z, c, v, f, c) BY <2>1, <3>1 DEF LatchOk
    <3>4. Does(b, "task", Both2(i), f, Empty, <<z>>, Both2(i), ChipOpen, Empty) BY <3>2, ChipLatch
    <3> QED BY <3>4 DEF f, g
  <2>4. Does(b, "task", g, ChipWr(i), Empty, Load(Port(0)), g, ChipBit(i), Empty)
    <3>1. \A k \in ChipWr(i) : Stable(b, "task", Both2(i), k) BY ChipKeeps
    <3>2. ASSUME NEW R, NEW W, NEW T, Local(b, ChipWr(i), R, W, T), NEW k \in ChipBit(i)
          PROVE  Holds(b, k, R, W, R[Port(0)])
      <4>1. Holds(b, Firm(Latched), R, W, T) /\ Holds(b, Is(Ctrl, ModeBits(i), Out(i)), R, W, T)
        BY <3>2 DEF Local, ChipWr
      <4>2. /\ Holds(b, Firm(Latched), R, W, R[Port(0)])
            /\ Holds(b, Is(Ctrl, ModeBits(i), Out(i)), R, W, R[Port(0)])
        BY <4>1, ChipHolds
      <4>3. Holds(b, But(Port(0), Empty), R, W, R[Port(0)]) BY ChipHolds
      <4> QED BY <3>2, <4>2, <4>3 DEF ChipBit
    <3>3. Port(0) \in ChipRegs BY ChipNames
    <3> QED BY <3>1, <3>2, <3>3, ChipLoads DEF g
  <2>5. Does(b, "task", g, ChipBit(i), Empty, <<y>> \o <<z>>, g, ChipOpen, Empty)
    BY <2>2, <2>3, DoesThen
  <2>6. Does(b, "task", g, ChipWr(i), Empty, Load(Port(0)) \o (<<y>> \o <<z>>), g, ChipOpen, Empty)
    BY <2>4, <2>5, DoesThen
  <2>7. Last(Load(Port(0)) \o (<<y>> \o <<z>>)) = z BY LastTwo DEF Load
  <2> QED BY <1>1, <2>1, <2>6, <2>7 DEF g
<1>2. CASE c = Pins(8) /\ P = Put(Mirror(i), c, v) \o Put(Port(i), c, v)
  <2> DEFINE y == [do |-> "put", reg |-> Mirror(i), clear |-> c, set |-> v]
  <2> DEFINE z == [do |-> "put", reg |-> Port(i), clear |-> c, set |-> v]
  <2> DEFINE d == Pins(8) \cup Outs
  <2>1. /\ y.do = "put" /\ y.reg = Mirror(i) /\ y.clear = c /\ y.set = v
        /\ z.do = "put" /\ z.reg = Port(i) /\ z.clear = c /\ z.set = v
        /\ Put(Mirror(i), c, v) = <<y>> /\ Put(Port(i), c, v) = <<z>> /\ d = Pins(8) \cup Outs
    BY DEF Put
  <2> HIDE DEF y, z, d
  <2>2. Does(b, "task", g, ChipWr(i), Empty, <<y>>, g, ChipWhole(i, d, v), Empty)
    <3> DEFINE f == ChipWr(i)
    <3> DEFINE f2 == ChipWhole(i, d, v)
    <3>1. f = ChipWr(i) /\ f2 = ChipWhole(i, d, v) OBVIOUS
    <3> HIDE DEF f, f2
    <3>3. y.do = "store" \/ y.do = "put" BY <2>1
    <3>2. MirrorOk(b, i, y, c, v, f, f2, d) BY <2>1, <3>1, <1>2 DEF MirrorOk
    <3>4. Does(b, "task", Both2(i), f, Empty, <<y>>, Both2(i), f2, Empty) BY <3>2, ChipMirror
    <3> QED BY <3>4 DEF f, f2, g
  <2>3. Does(b, "task", g, ChipWhole(i, d, v), Empty, <<z>>, g, ChipOpen, Empty)
    <3> DEFINE f == ChipWhole(i, d, v)
    <3>1. f = ChipWhole(i, d, v) OBVIOUS
    <3> HIDE DEF f
    <3>3. z.do = "store" \/ z.do = "put" BY <2>1
    <3>2. LatchOk(b, i, z, c, v, f, d) BY <2>1, <3>1, <1>2 DEF LatchOk
    <3>4. Does(b, "task", Both2(i), f, Empty, <<z>>, Both2(i), ChipOpen, Empty) BY <3>2, ChipLatch
    <3> QED BY <3>4 DEF f, g
  <2>5. Does(b, "task", g, ChipWr(i), Empty, <<y>> \o <<z>>, g, ChipOpen, Empty)
    BY <2>2, <2>3, DoesThen
  <2>7. Last(<<y>> \o <<z>>) = z BY LastTwo
  <2> QED BY <1>2, <2>1, <2>5, <2>7 DEF g
<1> QED BY <1>1, <1>2

\* A port that is an output is written, mirror and port.
LEMMA ChipWriteIf ==
    ASSUME NEW b, b = "me1400", NEW i \in Numbers, NEW P,
           Does(b, "task", Both2(i), ChipWr(i), Empty, P, Both2(i), ChipOpen, Empty), Last(P).reg = Port(i)
    PROVE  Harmless(b, Under(Lock(i), Under(CtrlLock, IfOutput(i, P))))
<1> DEFINE g == Both2(i)
<1> DEFINE m == Out(i)
<1>1. Does(b, "task", g, ChipOpen, Empty, Load(Ctrl), g, ChipRead, Empty)
  <2>1. {} \subseteq Out(i) OBVIOUS
  <2> QED BY <2>1, ChipTurn
<1> HIDE DEF g
<1>5. \A j : WritesTo(j, P) => j = i
  <2>1. ASSUME NEW j, Last(P).reg = Port(j) PROVE j = i BY <2>1 DEF Port
  <2> QED BY <2>1 DEF WritesTo
<1> DEFINE s == [do |-> "test", mask |-> m, in |-> {m}, body |-> P]
<1>6. s.body = P /\ s.mask = m /\ s.in = {m} /\ m = Out(i) OBVIOUS
<1> HIDE DEF s, m
<1>2. \A R, W, T : Local(b, ChipRead, R, W, T) => ((T \cap m) \in {m} <=> R[Ctrl] \cap ModeBits(i) = Out(i))
  <2>1. ASSUME NEW R, NEW W, NEW T, Local(b, ChipRead, R, W, T)
        PROVE  (T \cap m) \in {m} <=> R[Ctrl] \cap ModeBits(i) = Out(i)
    <3>1. Holds(b, But(Ctrl, Empty), R, W, T) /\ Fine(b, R, W) BY <2>1 DEF Local, ChipRead
    <3>2. T \ Empty = R[Ctrl] \ Empty BY <3>1, ChipHolds
    <3>3. T = R[Ctrl] BY <3>2, Void
    <3>4. FineAt(b, Ctrl, R[Ctrl], W[Ctrl]) BY <3>1, ChipFacts, ChipNames DEF Fine
    <3>5. R[Ctrl] \subseteq Outs BY <3>4, ChipFine
    <3>6. Outs \cap Fifo(i) = {} BY DEF Outs, Out, Fifo
    <3>7. R[Ctrl] \cap ModeBits(i) = R[Ctrl] \cap Out(i) BY <3>5, <3>6 DEF ModeBits
    <3> QED BY <3>3, <3>7, <1>6
  <2> QED BY <2>1
<1>7. Decides(b, ChipRead, s) BY <1>2, <1>5, <1>6 DEF Decides
<1>8. MarksStay(Empty, Empty) BY Void DEF MarksStay
<1>9. Fit(b, "task", g, ChipRead, Empty)
  <2>1. CtrlLock \in g BY Locks3 DEF g
  <2>2. \A k \in ChipRead : Stable(b, "task", g, k) BY <2>1, ChipStable DEF ChipRead
  <2> QED BY <2>2, ChipFacts, FitFree
<1>10. \A R, W, T : Local(b, ChipRead, R, W, T) => Local(b, ChipOpen, R, W, T)
  BY DEF Local, ChipRead, ChipOpen
<1>11. \A R, W, T : Local(b, ChipRead, R, W, T) /\ (T \cap m) \in {m} => Local(b, ChipWr(i), R, W, T)
  <2>1. ASSUME NEW R, NEW W, NEW T, Local(b, ChipRead, R, W, T), (T \cap m) \in {m}
        PROVE  Local(b, ChipWr(i), R, W, T)
    <3>1. R[Ctrl] \cap ModeBits(i) = Out(i) BY <2>1, <1>2
    <3>2. Holds(b, Is(Ctrl, ModeBits(i), Out(i)), R, W, T) BY <3>1, ChipHolds
    <3> QED BY <2>1, <3>2 DEF Local, ChipRead, ChipWr
  <2> QED BY <2>1
<1>12. Does(b, "task", g, ChipWr(i), Empty, P, g, ChipOpen, Empty) BY DEF g
<1>13. Does(b, "task", g, ChipRead, Empty, Test(m, {m}, P), g, ChipOpen, Empty)
  BY <1>7, <1>8, <1>9, <1>10, <1>11, <1>12, DoesTest DEF s
<1>14. Does(b, "task", g, ChipOpen, Empty, Load(Ctrl) \o Test(m, {m}, P), g, ChipOpen, Empty)
  BY <1>1, <1>13, DoesThen DEF g
<1>15. Harmless(b, Under(Lock(i), Under(CtrlLock, Load(Ctrl) \o Test(m, {m}, P))))
  BY <1>14, ChipSection DEF g
<1> QED BY <1>15, <1>6 DEF IfOutput

\* The ports of the 8255 are safe.
LEMMA SafeMe1400 == ASSUME NEW i \in Numbers PROVE SafeSub("me1400", i, me8255_constr(i))
<1> DEFINE b == "me1400"
<1>0. b = "me1400" OBVIOUS
<1>1. Harmless(b, me8255_io_reset_subdevice(i)) BY ChipReset
<1>2. \A a : Harmless(b, me8255_io_single_config(i, a)) BY ChipConfig
<1> HIDE DEF b
<1>3. \A a : Harmless(b, me8255_io_single_read(i, a))
  BY <1>0, ChipFacts, PlainRead, HarmlessPins DEF me8255_io_single_read
<1>4. ASSUME NEW a \in Access, NEW v \in Levels
      PROVE  Harmless(b, me8255_io_single_write(i, a, v))
  <2> DEFINE A == Load(Port(0)) \o (Store(Mirror(i), Byte(a), On(v, Byte(a))) \o Store(Port(i), Byte(a), On(v, Byte(a))))
  <2> DEFINE B == Put(Mirror(i), Pins(8), On(v, Pins(8))) \o Put(Port(i), Pins(8), On(v, Pins(8)))
  <2> DEFINE P == IF a.flag = "bit" THEN A ELSE B
  <2>1. On(v, Byte(a)) \subseteq Pins(8) /\ On(v, Pins(8)) \subseteq Pins(8) BY PinsOf, OnIn
  <2>2. me8255_io_single_write(i, a, v) = IfPins(Byte(a), Under(Lock(i), Under(CtrlLock, IfOutput(i, P))))
    BY DEF me8255_io_single_write
  <2>3. Does(b, "task", Both2(i), ChipWr(i), Empty, A, Both2(i), ChipOpen, Empty) /\ Last(A).reg = Port(i)
    BY <1>0, <2>1, ChipBody
  <2>4. Does(b, "task", Both2(i), ChipWr(i), Empty, B, Both2(i), ChipOpen, Empty) /\ Last(B).reg = Port(i)
    BY <1>0, <2>1, ChipBody
  <2>5. Does(b, "task", Both2(i), ChipWr(i), Empty, P, Both2(i), ChipOpen, Empty) /\ Last(P).reg = Port(i)
    BY <2>3, <2>4
  <2> HIDE DEF P
  <2>6. Harmless(b, Under(Lock(i), Under(CtrlLock, IfOutput(i, P)))) BY <1>0, <2>5, ChipWriteIf
  <2> QED BY <2>2, <2>6, HarmlessPins
<1> QED BY <1>1, <1>2, <1>3, <1>4, Refuses DEF SafeSub, me8255_constr, Made, b

-----------------------------------------------------------------------------
(* Counters.                                                               *)

CtrOf(b, i, k, n) ==
    \/ b = "me4600_ctr" /\ i \in {0, 1} /\ k = 0 /\ n = i
    \/ b = "me1400ab" /\ i \in {0, 1} /\ k = i /\ n = 0
    \/ b = "me1400cd" /\ i \in {0, 1} /\ k = 4 /\ n = i

Value(k, n) == Empty \cup {Firm(Whole(3 * k + n))}

\* The locks of a task that works on a counter.
OnCtr(i, h) == Lock(i) \in h /\ IrqLine \notin h /\ \A j \in Numbers : Lock(j) \in h => j = i

\* A counter's registers, and the subdevice it belongs to.
LEMMA CtrFacts ==
    ASSUME NEW b, NEW i, NEW k, NEW n, CtrOf(b, i, k, n)
    PROVE  /\ {Ctr(k, n), Low8(k, n), High8(k, n)} \subseteq Registers(b)
           /\ i \in {0, 1} /\ i \in Numbers /\ SubOf(b, 3 * k + n) = i /\ 3 * k + n \in 0 .. 14
           /\ b \notin {"me8100", "me8100b", "me1400"}
<1>1. CASE b = "me4600_ctr" /\ i \in {0, 1} /\ k = 0 /\ n = i
  <2>1. 3 * k + n = i /\ SubOf(b, 3 * k + n) = i BY <1>1 DEF SubOf
  <2>2. Registers(b) = Counter(0) \cup Counter(1) BY <1>1 DEF Registers
  <2>3. Counter(i) \subseteq Registers(b) BY <1>1, <2>2
  <2>4. Counter(i) = {Ctr(k, n), Low8(k, n), High8(k, n)}
    BY <1>1, <2>1 DEF Counter, Ctr, Low8, High8
  <2> QED BY <2>1, <2>3, <2>4, <1>1 DEF Numbers
<1>2. CASE b = "me1400ab" /\ i \in {0, 1} /\ k = i /\ n = 0
  <2>1. 3 * k + n \in {0, 3} /\ SubOf(b, 3 * k + n) = i BY <1>2 DEF SubOf
  <2>2. Counter(0) \subseteq Registers(b) /\ Counter(3) \subseteq Registers(b) BY <1>2 DEF Registers
  <2>3. Counter(3 * k + n) \subseteq Registers(b) BY <2>1, <2>2
  <2>4. Counter(3 * k + n) = {Ctr(k, n), Low8(k, n), High8(k, n)}
    BY <1>2, <2>1 DEF Counter, Ctr, Low8, High8
  <2> QED BY <2>1, <2>3, <2>4, <1>2 DEF Numbers
<1>3. CASE b = "me1400cd" /\ i \in {0, 1} /\ k = 4 /\ n = i
  <2>1. 3 * k + n \in {12, 13} /\ SubOf(b, 3 * k + n) = i BY <1>3 DEF SubOf
  <2>2. Counter(12) \subseteq Registers(b) /\ Counter(13) \subseteq Registers(b)
    BY <1>3 DEF Registers
  <2>3. Counter(3 * k + n) \subseteq Registers(b) BY <2>1, <2>2
  <2>4. Counter(3 * k + n) = {Ctr(k, n), Low8(k, n), High8(k, n)}
    BY <1>3, <2>1 DEF Counter, Ctr, Low8, High8
  <2> QED BY <2>1, <2>3, <2>4, <1>3 DEF Numbers
<1> QED BY <1>1, <1>2, <1>3 DEF CtrOf

\* A counter's two halves are bonded under its subdevice's lock, and nothing else is.
LEMMA CtrBonds ==
    ASSUME NEW b, NEW i, NEW k, NEW n, CtrOf(b, i, k, n)
    PROVE  /\ Whole(3 * k + n) \in Bonds(b) /\ Home(b, Whole(3 * k + n)) = Lock(i)
           /\ \A x \in Bonds(b) : Home(b, x) = Lock(i) => x = Whole(3 * k + n)
           /\ ~Guarded(b, i) /\ \A l \in {ClkLock, CtrLock(k)} : Bare(b, l)
           /\ \A m \in 0 .. 14 : Whole(m) \in Bonds(b) =>
                /\ \E j \in Numbers : Home(b, Whole(m)) = Lock(j)
                /\ Home(b, Whole(m)) = Lock(i) => m = 3 * k + n
<1>1. CASE b = "me4600_ctr" /\ i \in {0, 1} /\ k = 0 /\ n = i
  <2>1. 3 * k + n = i BY <1>1
  <2>2. Bonds(b) = {Whole(0), Whole(1)} BY <1>1 DEF Bonds
  <2>3. Home(b, Whole(0)) = Lock(0) /\ Home(b, Whole(1)) = Lock(1)
    BY <1>1 DEF Home, Whole, Of, SubOf, Lock
  <2>4. \A m : Whole(m) \in Bonds(b) => m \in {0, 1} BY <2>2 DEF Whole
  <2>5. \A x \in Bonds(b) : Home(b, x) = Lock(i) => x = Whole(i) BY <1>1, <2>2, <2>3 DEF Lock
  <2>6. ~Guarded(b, i) BY <2>2 DEF Guarded, Line0, Whole
  <2>7. \A l \in {ClkLock, CtrLock(k)} : Bare(b, l) BY <2>2, <2>3 DEF Bare, Lock, ClkLock, CtrLock
  <2> QED BY <1>1, <2>1, <2>2, <2>3, <2>4, <2>5, <2>6, <2>7 DEF Numbers, Lock
<1>2. CASE b = "me1400ab" /\ i \in {0, 1} /\ k = i /\ n = 0
  <2>1. 3 * k + n = 3 * i BY <1>2
  <2>2. Bonds(b) = {Line0(2), Whole(0), Whole(3)} BY <1>2 DEF Bonds
  <2>3. Home(b, Whole(0)) = Lock(0) /\ Home(b, Whole(3)) = Lock(1) /\ Home(b, Line0(2)) = Lock(2)
    BY <1>2 DEF Home, Whole, Of, SubOf, Lock, Line0
  <2>4. \A m : Whole(m) \in Bonds(b) => m \in {0, 3} BY <2>2 DEF Whole, Line0
  <2>5. \A x \in Bonds(b) : Home(b, x) = Lock(i) => x = Whole(3 * i) BY <1>2, <2>2, <2>3 DEF Lock
  <2>6. ~Guarded(b, i) BY <1>2, <2>2 DEF Guarded, Line0, Whole
  <2>7. \A l \in {ClkLock, CtrLock(k)} : Bare(b, l) BY <2>2, <2>3 DEF Bare, Lock, ClkLock, CtrLock
  <2> QED BY <1>2, <2>1, <2>2, <2>3, <2>4, <2>5, <2>6, <2>7 DEF Numbers, Lock
<1>3. CASE b = "me1400cd" /\ i \in {0, 1} /\ k = 4 /\ n = i
  <2>1. 3 * k + n = 12 + i BY <1>3
  <2>2. Bonds(b) = {Line0(2), Whole(12), Whole(13)} BY <1>3 DEF Bonds
  <2>3. Home(b, Whole(12)) = Lock(0) /\ Home(b, Whole(13)) = Lock(1) /\ Home(b, Line0(2)) = Lock(2)
    BY <1>3 DEF Home, Whole, Of, SubOf, Lock, Line0
  <2>4. \A m : Whole(m) \in Bonds(b) => m \in {12, 13} BY <2>2 DEF Whole, Line0
  <2>5. \A x \in Bonds(b) : Home(b, x) = Lock(i) => x = Whole(12 + i) BY <1>3, <2>2, <2>3 DEF Lock
  <2>6. ~Guarded(b, i) BY <1>3, <2>2 DEF Guarded, Line0, Whole
  <2>7. \A l \in {ClkLock, CtrLock(k)} : Bare(b, l) BY <2>2, <2>3 DEF Bare, Lock, ClkLock, CtrLock
  <2> QED BY <1>3, <2>1, <2>2, <2>3, <2>4, <2>5, <2>6, <2>7 DEF Numbers, Lock
<1> QED BY <1>1, <1>2, <1>3 DEF CtrOf

\* What a task at a counter relies on fits those locks.
LEMMA CtrFit ==
    ASSUME NEW b, NEW i, NEW k, NEW n, CtrOf(b, i, k, n), NEW h, OnCtr(i, h), NEW o,
           o \in {Empty, {Turned}}, Turned \in o => ClkLock \in h
    PROVE  Fit(b, "task", h, Value(k, n), o)
<1> DEFINE m == 3 * k + n
<1>1. Low8(k, n) = <<"low8", m>> /\ High8(k, n) = <<"high8", m>> BY DEF Low8, High8
<1>2. <<"low8", m>> \in Registers(b) /\ <<"high8", m>> \in Registers(b) /\ SubOf(b, m) = i
  BY <1>1, CtrFacts
<1> HIDE DEF m
<1>3. Lock(i) \in h BY DEF OnCtr
<1>4. Keeps(b, "task", h, <<"low8", m>>) /\ Keeps(b, "task", h, <<"high8", m>>)
  BY <1>2, <1>3 DEF Keeps, Of, Handled, NoLock, Lock
<1>5. \A R, W, R2, W2 : Rely(b, "task", h, R, W, R2, W2) =>
        R2[<<"low8", m>>] = R[<<"low8", m>>] /\ R2[<<"high8", m>>] = R[<<"high8", m>>]
  BY <1>2, <1>4 DEF Rely
<1>6. Stable(b, "task", h, Firm(Whole(m))) BY <1>5 DEF Stable, Holds, Firm, Bond, Whole
<1>7. Value(k, n) = Empty \cup {Firm(Whole(m))} BY DEF Value, m
<1>8. Steady(b, "task", h, Value(k, n))
  <2>1. \A j \in Numbers : Guarded(b, j) /\ Lock(j) \in h => FALSE BY CtrBonds DEF OnCtr
  <2> QED BY <1>6, <1>7, <2>1, Void DEF Steady
<1>9. Keeping(b, "task", h, Value(k, n), o)
  <2>1. \A j, x : Owed(j, x) \notin o BY Void DEF Owed, Turned
  <2>2. Window \notin o BY Void DEF Window, Turned
  <2> QED BY <2>1, <2>2 DEF Keeping
<1>10. ASSUME NEW j \in 0 .. 14, Whole(j) \in Bonds(b), Home(b, Whole(j)) \in h,
              NEW R, NEW W, NEW T, Local(b, Value(k, n), R, W, T)
       PROVE  Bond(b, Whole(j), R, W)
  <2>1. PICK x \in Numbers : Home(b, Whole(j)) = Lock(x) BY <1>10, CtrBonds
  <2>2. x = i BY <2>1, <1>10 DEF OnCtr
  <2>3. j = m BY <2>1, <2>2, <1>10, CtrBonds DEF m
  <2>4. Holds(b, Firm(Whole(m)), R, W, T) BY <1>10, <1>7 DEF Local
  <2> QED BY <2>3, <2>4 DEF Holds, Firm
<1> QED BY <1>8, <1>9, <1>10 DEF Fit

\* The locks at a counter: its own, its chip's and that of the clocks.
LEMMA CtrLocks ==
    ASSUME NEW i \in Numbers, NEW k
    PROVE  /\ \A l \in {CtrLock(k), ClkLock} : OnCtr(i, One(i) \cup {l}) /\ l \notin One(i) /\ l # IrqLine
           /\ OnCtr(i, One(i))
BY DEF OnCtr, One, Empty, Lock, CtrLock, ClkLock, IrqLine

\* A register of a counter, with what may be written to it.
CtrReg(r, k, n, all) ==
    \/ r = Ctr(k, n) /\ all = UNION {ModeBit(x) : x \in ModeSet}
    \/ r \in {Low8(k, n), High8(k, n)} /\ all = Bytes

\* What a counter's task may write.
LEMMA CtrWrite ==
    ASSUME NEW b, NEW i, NEW k, NEW n, CtrOf(b, i, k, n), NEW h, OnCtr(i, h),
           NEW r, NEW all, CtrReg(r, k, n, all), NEW set, set \subseteq all
    PROVE  /\ r \in Registers(b) /\ MayWrite(b, "task", h, r) /\ r # MyClock
           /\ (\A j : r # <<"low", j>>) /\ ~Shared(b, r)
           /\ \A j : r \notin {Port(j), Count(j), Resets(j), Rised(j)}
           /\ \A v, w : FineAt(b, r, v, w) => FineAt(b, r, set, (w \ all) \cup set)
<1>1. r[1] \in {"ctr", "low8", "high8"} /\ r[2] = 3 * k + n BY DEF CtrReg, Ctr, Low8, High8
<1>2. r \in Registers(b) BY CtrFacts DEF CtrReg
<1>3. MayWrite(b, "task", h, r)
  <2>1. CASE r = Ctr(k, n) BY <2>1 DEF MayWrite, Of, Ctr, NoLock
  <2>2. CASE r \in {Low8(k, n), High8(k, n)}
    <3>3. r[1] \in {"low8", "high8"} /\ r[2] = 3 * k + n BY <2>2 DEF Low8, High8
    <3>4. SubOf(b, r[2]) = i BY <3>3, CtrFacts
    <3>1. Of(b, r) = Lock(i) BY <3>3, <3>4 DEF Of
    <3>2. ~Masked(r) BY <2>2 DEF Masked, Low8, High8
    <3> QED BY <3>1, <3>2 DEF MayWrite, OnCtr
  <2> QED BY <2>1, <2>2 DEF CtrReg
<1>4. r # MyClock /\ (\A j : r # <<"low", j>>) /\ ~Shared(b, r) /\ r # Intcsr
      /\ \A j : r \notin {Port(j), Count(j), Resets(j), Rised(j)}
  BY <1>1 DEF MyClock, LineClock, Clock, ClkReg, Shared, Ctrl, Intcsr, Port, Count, Resets, Rised
<1>5. Universe(b, r) = all /\ Bounded(b, r)
  BY DEF CtrReg, Universe, Bounded, Ctr, Low8, High8
<1>6. b # "me0900_di" BY DEF CtrOf
<1>7. Exact(b, r) BY <1>1, <1>4, CtrFacts DEF Exact, CtrOf
<1>8. ASSUME NEW v, NEW w, FineAt(b, r, v, w)
      PROVE  FineAt(b, r, set, (w \ all) \cup set)
  <2>1. v \subseteq all /\ w = v BY <1>8, <1>5, <1>7 DEF FineAt
  <2>2. (w \ all) \cup set = set BY <2>1
  <2> QED BY <2>2, <1>4, <1>5, <1>6 DEF FineAt
<1> QED BY <1>2, <1>3, <1>4, <1>8

\* The mode is written.
LEMMA CtrMode ==
    ASSUME NEW b, NEW i, NEW k, NEW n, CtrOf(b, i, k, n), NEW h, OnCtr(i, h), NEW m \in ModeSet
    PROVE  Does(b, "task", h, Value(k, n), Empty, SetMode(k, n, m), h, Value(k, n), Empty)
<1> DEFINE r == Ctr(k, n)
<1> DEFINE all == UNION {ModeBit(x) : x \in ModeSet}
<1> DEFINE set == ModeBit(m)
<1>1. CtrReg(r, k, n, all) /\ set \subseteq all BY DEF CtrReg
<1>2. r # Low8(k, n) /\ r # High8(k, n) BY DEF Ctr, Low8, High8
<1>3. SetMode(k, n, m) = Put(r, all, set) BY DEF SetMode
<1> HIDE DEF r, all, set
<1>4. Fit(b, "task", h, Value(k, n), Empty) BY CtrFit, Void
<1>5. /\ r \in Registers(b) /\ MayWrite(b, "task", h, r) /\ r # MyClock
      /\ (\A j : r # <<"low", j>>) /\ ~Shared(b, r)
      /\ \A j : r \notin {Port(j), Count(j), Resets(j), Rised(j)}
      /\ \A v, w : FineAt(b, r, v, w) => FineAt(b, r, set, (w \ all) \cup set)
  BY <1>1, CtrWrite
<1>6. ASSUME NEW R, NEW W, NEW T, NEW R2, NEW W2, Local(b, Value(k, n), R, W, T), Changes(b, r, R, R2, set)
      PROVE  \A x \in Value(k, n) : Holds(b, x, R2, W2, T)
  <2> DEFINE x == Firm(Whole(3 * k + n))
  <2>1. Value(k, n) = {x} BY DEF Value, Empty
  <2>2. Holds(b, x, R, W, T) BY <1>6, <2>1 DEF Local
  <2>3. R[Low8(k, n)] = R[High8(k, n)] BY <2>2 DEF Holds, Firm, Bond, Whole, Low8, High8
  <2>4. R2[Low8(k, n)] = R[Low8(k, n)] /\ R2[High8(k, n)] = R[High8(k, n)]
    BY <1>6, <1>2, CtrFacts DEF Changes
  <2>5. Holds(b, x, R2, W2, T) BY <2>3, <2>4 DEF Holds, Firm, Bond, Whole, Low8, High8
  <2> QED BY <2>1, <2>5
<1>7. Aim(b, Value(k, n), r, set) BY <1>5 DEF Aim
<1>8. PutOk(b, "task", h, Value(k, n), Empty, r, all, set, Value(k, n), Empty)
  BY <1>4, <1>5, <1>6, <1>7, Void DEF PutOk
<1> QED BY <1>8, <1>3, DoesPut

\* Between the two bytes.
HalfWay(k, n, set) == Empty \cup {Is(Low8(k, n), Bytes, set)}

\* The low half of a value is written ...
LEMMA CtrLow ==
    ASSUME NEW b, NEW i, NEW k, NEW n, CtrOf(b, i, k, n), NEW h, OnCtr(i, h), NEW set, set \subseteq Bytes
    PROVE  Does(b, "task", h, Value(k, n), Empty, Put(Low8(k, n), Bytes, set), h, HalfWay(k, n, set), Empty)
<1> DEFINE r == Low8(k, n)
<1> DEFINE all == Bytes
<1>1. CtrReg(r, k, n, all) /\ set \subseteq all BY DEF CtrReg
<1>2. HalfWay(k, n, set) = {Is(r, all, set)} BY DEF HalfWay, Empty
<1> HIDE DEF r, all
<1>4. Fit(b, "task", h, Value(k, n), Empty) BY CtrFit, Void
<1>5. /\ r \in Registers(b) /\ MayWrite(b, "task", h, r) /\ r # MyClock
      /\ (\A j : r # <<"low", j>>) /\ ~Shared(b, r)
      /\ \A j : r \notin {Port(j), Count(j), Resets(j), Rised(j)}
      /\ \A v, w : FineAt(b, r, v, w) => FineAt(b, r, set, (w \ all) \cup set)
  BY <1>1, CtrWrite
<1>6. ASSUME NEW R, NEW W, NEW T, NEW R2, NEW W2, Local(b, Value(k, n), R, W, T), Changes(b, r, R, R2, set)
      PROVE  \A x \in HalfWay(k, n, set) : Holds(b, x, R2, W2, T)
  <2>1. R2[r] = set BY <1>6 DEF Changes
  <2>2. Holds(b, Is(r, all, set), R2, W2, T) BY <2>1, <1>1 DEF Holds, Is
  <2> QED BY <2>2, <1>2
<1>7. Aim(b, Value(k, n), r, set) BY <1>5 DEF Aim
<1>8. PutOk(b, "task", h, Value(k, n), Empty, r, all, set, HalfWay(k, n, set), Empty)
  BY <1>4, <1>5, <1>6, <1>7, Void DEF PutOk
<1> QED BY <1>8, DoesPut DEF r, all

\* ... then the high half, which makes the value whole ...
LEMMA CtrHigh ==
    ASSUME NEW b, NEW i, NEW k, NEW n, CtrOf(b, i, k, n), NEW h, OnCtr(i, h), NEW set, set \subseteq Bytes,
           NEW s, s = [do |-> "put", reg |-> High8(k, n), clear |-> Bytes, set |-> set]
    PROVE  /\ Aimed(b, HalfWay(k, n, set), s)
           /\ Moves(b, "task", h, HalfWay(k, n, set), Empty, s, Value(k, n), Empty)
<1> DEFINE r == High8(k, n)
<1> DEFINE all == Bytes
<1>1. CtrReg(r, k, n, all) /\ set \subseteq all BY DEF CtrReg
<1>2. HalfWay(k, n, set) = {Is(Low8(k, n), Bytes, set)} /\ r # Low8(k, n)
  BY DEF HalfWay, Empty, Low8, High8
<1>3. s.do = "put" /\ s.reg = r /\ s.clear = all /\ s.set = set OBVIOUS
<1>x. Value(k, n) = {Firm(Whole(3 * k + n))} BY DEF Value, Empty
<1>y. Low8(k, n) = <<"low8", 3 * k + n>> /\ r = <<"high8", 3 * k + n>> BY DEF Low8, High8
<1> HIDE DEF r, all
<1>5. /\ r \in Registers(b) /\ MayWrite(b, "task", h, r) /\ r # MyClock
      /\ (\A j : r # <<"low", j>>) /\ ~Shared(b, r)
      /\ \A j : r \notin {Port(j), Count(j), Resets(j), Rised(j)}
      /\ \A v, w : FineAt(b, r, v, w) => FineAt(b, r, set, (w \ all) \cup set)
  BY <1>1, CtrWrite
<1>6. Aimed(b, HalfWay(k, n, set), s) BY <1>3, <1>5 DEF Aimed
<1>7. ASSUME NEW R, NEW W, NEW T, NEW R2, NEW W2, NEW T2,
             Local(b, HalfWay(k, n, set), R, W, T), Effect(b, s, R, W, T, R2, W2, T2)
      PROVE  /\ Local(b, Value(k, n), R2, W2, T2) /\ Polite(b, "task", h, R, W, R2, W2)
             /\ Notes(b, "task", h, HalfWay(k, n, set), Empty, s, Empty, R, W, T, R2, W2, T2)
  <2>1. Level(s.reg, s.clear, s.set) = set BY <1>3, <1>y DEF Level, ActiveLow
  <2>2. /\ T2 = T /\ Changes(b, r, R, R2, set) /\ Changes(b, r, W, W2, (W[r] \ all) \cup set)
    BY <1>7, <1>3, <2>1 DEF Effect
  <2>3. /\ R2[r] = set /\ W2[r] = (W[r] \ all) \cup set
        /\ \A q \in Registers(b) : q # r => R2[q] = R[q] /\ W2[q] = W[q]
    BY <2>2 DEF Changes
  <2>4. Fine(b, R, W) /\ FineAt(b, r, R[r], W[r]) BY <1>7, <1>5 DEF Local, Fine
  <2>5. FineAt(b, r, R2[r], W2[r]) BY <2>3, <2>4, <1>5
  <2>6. Fine(b, R2, W2) BY <2>3, <2>4, <2>5 DEF Fine
  <2>7. R2[Low8(k, n)] = R[Low8(k, n)] /\ Low8(k, n) \in Registers(b) BY <2>3, <1>2, CtrFacts
  <2>8. R[Low8(k, n)] \cap Bytes = set
    <3>1. Holds(b, Is(Low8(k, n), Bytes, set), R, W, T) BY <1>7, <1>2 DEF Local
    <3> QED BY <3>1 DEF Holds, Is
  <2>9. R[Low8(k, n)] \subseteq Bytes
    <3>1. FineAt(b, Low8(k, n), R[Low8(k, n)], W[Low8(k, n)]) BY <2>4, <2>7 DEF Fine
    <3> QED BY <3>1 DEF FineAt, Bounded, Universe, Low8
  <2>10. R2[Low8(k, n)] = R2[r] BY <2>3, <2>7, <2>8, <2>9
  <2>11. Holds(b, Firm(Whole(3 * k + n)), R2, W2, T2) BY <2>10, <1>y DEF Holds, Firm, Bond, Whole
  <2>12. Local(b, Value(k, n), R2, W2, T2) BY <2>6, <2>11, <1>x DEF Local
  <2>13. Polite(b, "task", h, R, W, R2, W2) BY <2>3, <1>5 DEF Polite
  <2>14. \A j \in Numbers : ~Stirs(b, j, R, R2) BY <2>3, <1>5 DEF Stirs
  <2>15. b = "me1400cd" => R2[MyClock] = R[MyClock]
    BY <2>3, <1>5 DEF MyClock, LineClock, Clock, Registers, ClkReg
  <2>16. Notes(b, "task", h, HalfWay(k, n, set), Empty, s, Empty, R, W, T, R2, W2, T2)
    BY <2>14, <2>15, Void DEF Notes
  <2> QED BY <2>12, <2>13, <2>16
<1>8. s.do \in Accesses /\ Named(b, s) BY <1>3, <1>5 DEF Accesses, Named
<1>9. Moves(b, "task", h, HalfWay(k, n, set), Empty, s, Value(k, n), Empty)
  BY <1>7, <1>8, Void DEF Moves
<1> QED BY <1>6, <1>9

\* ... and what is in between is the task's own affair.
LEMMA CtrHalf ==
    ASSUME NEW b, NEW i, NEW k, NEW n, CtrOf(b, i, k, n), NEW h, OnCtr(i, h), NEW set,
           NEW Q, Q # <<>>, Head(Q).do = "put", Head(Q).reg = High8(k, n)
    PROVE  /\ Steady(b, "task", h, HalfWay(k, n, set)) /\ Paired(b, h, HalfWay(k, n, set), Q)
           /\ Keeping(b, "task", h, HalfWay(k, n, set), Empty)
<1>1. HalfWay(k, n, set) = {Is(Low8(k, n), Bytes, set)} BY DEF HalfWay, Empty
<1>2. Keeps(b, "task", h, Low8(k, n)) /\ Low8(k, n) \in Registers(b)
  BY CtrFacts DEF Keeps, Of, Handled, NoLock, Lock, OnCtr, Low8
<1>3. Stable(b, "task", h, Is(Low8(k, n), Bytes, set)) BY <1>2, StableOwn
<1>4. \A j \in Numbers : Guarded(b, j) /\ Lock(j) \in h => FALSE BY CtrBonds DEF OnCtr
<1>5. Steady(b, "task", h, HalfWay(k, n, set)) BY <1>1, <1>3, <1>4 DEF Steady
<1>6. ASSUME NEW j \in 0 .. 14, Whole(j) \in Bonds(b), Home(b, Whole(j)) \in h
      PROVE  Head(Q).reg = <<"high8", j>>
  <2>1. PICK x \in Numbers : Home(b, Whole(j)) = Lock(x) BY <1>6, CtrBonds
  <2>2. x = i BY <2>1, <1>6 DEF OnCtr
  <2>3. j = 3 * k + n BY <2>1, <2>2, <1>6, CtrBonds
  <2> QED BY <2>3 DEF High8
<1> QED BY <1>5, <1>6, Void DEF Paired, Keeping

\* Both halves of a value are written.
LEMMA CtrValue ==
    ASSUME NEW b, NEW i, NEW k, NEW n, CtrOf(b, i, k, n), NEW h, OnCtr(i, h), NEW v \in Levels
    PROVE  Does(b, "task", h, Value(k, n), Empty, SetValue(k, n, v), h, Value(k, n), Empty)
<1> DEFINE set == {<<"value", v>>}
<1> DEFINE s == [do |-> "put", reg |-> High8(k, n), clear |-> Bytes, set |-> set]
<1> DEFINE f == HalfWay(k, n, set)
<1> DEFINE P == Put(Low8(k, n), Bytes, set)
<1>1. set \subseteq Bytes BY DEF Bytes
<1>2. SetValue(k, n, v) = P \o <<s>> BY DEF SetValue, Put
<1>3. s.do = "put" /\ s.reg = High8(k, n) OBVIOUS
<1>4. Does(b, "task", h, Value(k, n), Empty, P, h, f, Empty) BY <1>1, CtrLow
<1>5. Aimed(b, f, s) /\ Moves(b, "task", h, f, Empty, s, Value(k, n), Empty) BY <1>1, CtrHigh
<1> HIDE DEF set, s, P
<1>6. ASSUME NEW Q, Good(b, "task", h, Value(k, n), Empty, Q)
      PROVE  Good(b, "task", h, f, Empty, <<s>> \o Q)
  <2>1. PICK Z : Closed(b, "task", Z) /\ <<h, Value(k, n), Empty, Q>> \in Z BY <1>6, Unfold
  <2> DEFINE X == <<s>> \o Q
  <2>2. Program(Q) BY <1>6, Whence
  <2>3. Program(X) /\ X # <<>> /\ Head(X) = s /\ Tail(X) = Q BY <2>2, StepProgram
  <2> HIDE DEF X, f
  <2>4. GoesAccess(b, "task", Z, h, f, Empty, s, Q) BY <1>5, <2>1 DEF GoesAccess
  <2>5. Goes(b, "task", Z, h, f, Empty, Head(X), Tail(X)) BY <2>3, <2>4 DEF Goes
  <2>6. Steady(b, "task", h, f) /\ Paired(b, h, f, X) /\ Keeping(b, "task", h, f, Empty)
    BY <1>3, <2>3, CtrHalf DEF f
  <2>7. Ok(b, "task", Z, h, f, Empty, X) BY <2>3, <2>5, <2>6, Void DEF Ok
  <2> QED BY <2>1, <2>7, Fold DEF X
<1>7. Does(b, "task", h, f, Empty, <<s>>, h, Value(k, n), Empty) BY <1>6, OneStep DEF Does
<1> QED BY <1>2, <1>4, <1>7, DoesThen

\* The clock sources.
LEMMA ClockAB ==
    ASSUME NEW i \in {0, 1}, NEW clear, NEW set
    PROVE  Does("me1400ab", "task", One(i) \cup {ClkLock}, Value(i, 0), Empty, Rmw(ClkReg(0), clear, set),
                One(i) \cup {ClkLock}, Value(i, 0), Empty)
<1> DEFINE b == "me1400ab"
<1> DEFINE h == One(i) \cup {ClkLock}
<1> DEFINE r == ClkReg(0)
<1> DEFINE f == Value(i, 0)
<1> DEFINE f1 == {But(r, Empty)} \cup f
<1>0. CtrOf(b, i, i, 0) /\ i \in Numbers BY DEF CtrOf, Numbers
<1>1. OnCtr(i, h) BY <1>0, CtrLocks
<1>2. Fit(b, "task", h, f, Empty) BY <1>0, <1>1, CtrFit, Void
<1>3. r \in Registers(b) BY DEF Registers
<1>4. f = {Firm(Whole(3 * i + 0))} BY DEF Value, Empty
<1>5. /\ (\A j : r # <<"low", j>> /\ r # Rised(j) /\ r # Count(j) /\ r # Resets(j) /\ r # Port(j))
      /\ ~Shared(b, r) /\ r # Intcsr /\ r # Low8(i, 0) /\ r # High8(i, 0)
  BY DEF ClkReg, Rised, Count, Resets, Port, Shared, Ctrl, Intcsr, Low8, High8
<1>6. Of(b, r) = ClkLock /\ ~Masked(r) /\ ~Handled(r) BY DEF Of, Masked, Handled, ClkReg
<1>7. MayWrite(b, "task", h, r) BY <1>6 DEF MayWrite
<1>8. Keeps(b, "task", h, r) BY <1>6 DEF Keeps, ClkLock, NoLock
<1>9. Stable(b, "task", h, But(r, Empty)) BY <1>8, <1>3, StableOwn
<1>10. Fit(b, "task", h, f1, Empty)
  <2>1. Steady(b, "task", h, f1) BY <1>2, <1>9 DEF Fit, Steady
  <2>2. Keeping(b, "task", h, f1, Empty) BY Void DEF Keeping
  <2>3. \A R, W, T : Local(b, f1, R, W, T) => Local(b, f, R, W, T) BY DEF Local
  <2> QED BY <1>2, <2>1, <2>2, <2>3 DEF Fit
<1>11. \A v, w : FineAt(b, r, v, w) => FineAt(b, r, (v \ clear) \cup set, (w \ clear) \cup set)
  <2>1. ~Bounded(b, r) /\ Exact(b, r) BY DEF Bounded, Exact, ClkReg, Ctrl, OutsOnly
  <2> QED BY <2>1, <1>5 DEF FineAt
<1>12. b # "me1400cd" OBVIOUS
<1>l. Low8(i, 0) \in Registers(b) /\ High8(i, 0) \in Registers(b) BY <1>0, CtrFacts
<1>w. 3 * i + 0 = 3 * i /\ Low8(i, 0) = <<"low8", 3 * i + 0>> /\ High8(i, 0) = <<"high8", 3 * i + 0>>
  BY DEF Low8, High8
<1> HIDE DEF b, h, r, f
<1>13. Aim(b, f1, r, set) BY <1>5 DEF Aim
<1>14. \A R, W, T : Local(b, f, R, W, T) => \A k \in f1 : Holds(b, k, R, W, R[r])
  <2>1. ASSUME NEW R, NEW W, NEW T, Local(b, f, R, W, T), NEW k \in f1
        PROVE  Holds(b, k, R, W, R[r])
    <3>1. CASE k = But(r, Empty) BY <3>1 DEF Holds, But
    <3>2. CASE k \in f
      <4>1. k = Firm(Whole(3 * i + 0)) BY <3>2, <1>4
      <4>2. Holds(b, k, R, W, T) BY <2>1, <3>2 DEF Local
      <4> QED BY <4>1, <4>2 DEF Holds, Firm
    <3> QED BY <2>1, <3>1, <3>2
  <2> QED BY <2>1
<1> HIDE DEF f1
<1>15. Does(b, "task", h, f, Empty, Load(r), h, f1, Empty) BY <1>2, <1>3, <1>14, DoesLoad, Void
<1>16. But(r, Empty) \in f1 /\ Empty \subseteq clear /\ (f \subseteq f1) BY Void DEF f1
<1>17. StoreOk(b, "task", h, f1, Empty, r, Empty, clear, set)
  BY <1>3, <1>5, <1>7, <1>10, <1>11, <1>12, <1>13, <1>16, Void DEF StoreOk
<1>18. ASSUME NEW R, NEW W, NEW T, NEW R2, NEW W2,
              Local(b, f1, R, W, T), Changes(b, r, R, R2, (R[r] \ clear) \cup set)
       PROVE  \A k \in f : Holds(b, k, R2, W2, T)
  <2> DEFINE x == Firm(Whole(3 * i + 0))
  <2>1. Holds(b, x, R, W, T) BY <1>18, <1>16, <1>4 DEF Local
  <2>2. R[Low8(i, 0)] = R[High8(i, 0)] BY <2>1, <1>w DEF Holds, Firm, Bond, Whole
  <2>3. R2[Low8(i, 0)] = R2[High8(i, 0)] BY <2>2, <1>18, <1>l, <1>5 DEF Changes
  <2>4. Holds(b, x, R2, W2, T) BY <2>3, <1>w DEF Holds, Firm, Bond, Whole
  <2> QED BY <2>4, <1>4
<1>19. StoreLeads(b, f1, r, clear, set, f) BY <1>18 DEF StoreLeads
<1>20. Does(b, "task", h, f1, Empty, Store(r, clear, set), h, f, Empty) BY <1>17, <1>19, DoesStoreTo
<1>21. Does(b, "task", h, f, Empty, Rmw(r, clear, set), h, f, Empty)
  BY <1>15, <1>20, DoesThen DEF Rmw
<1> QED BY <1>21 DEF b, h, r, f

\* The clock register of the ME-1400C has no lock of its own: the handler
\* of the line changes it too.  A task under ClkLock may bring the line back
\* that was on when it loaded.
LEMMA ClockCD ==
    ASSUME NEW i \in {0, 1}, NEW clear, NEW set, Enable \cap set = {}
    PROVE  Does("me1400cd", "task", One(i) \cup {ClkLock}, Value(4, i), Empty, Rmw(MyClock, clear, set),
                One(i) \cup {ClkLock}, Value(4, i), Empty)
<1> DEFINE b == "me1400cd"
<1> DEFINE h == One(i) \cup {ClkLock}
<1> DEFINE r == MyClock
<1> DEFINE f == Value(4, i)
<1> DEFINE o == {Turned}
<1> DEFINE s == [do |-> "load", reg |-> r]
<1> DEFINE v == [do |-> "store", reg |-> r, clear |-> clear, set |-> set]
<1>0. CtrOf(b, i, 4, i) /\ i \in Numbers BY DEF CtrOf, Numbers
<1>1. OnCtr(i, h) /\ ClkLock \in h BY <1>0, CtrLocks
<1>2. Fit(b, "task", h, f, Empty) BY <1>0, <1>1, CtrFit, Void
<1>x. Fit(b, "task", h, f, o) BY <1>0, <1>1, CtrFit
<1>c. r[1] = "clock" BY DEF MyClock, LineClock, Clock, ClkReg
<1>3. r \in Registers(b) BY DEF Registers, MyClock, LineClock, Clock, ClkReg
<1>4. f = {Firm(Whole(3 * 4 + i))} BY DEF Value, Empty
<1>5. /\ (\A j : r # <<"low", j>> /\ r # Rised(j) /\ r # Count(j) /\ r # Resets(j) /\ r # Port(j))
      /\ ~Shared(b, r) /\ r # Intcsr /\ r # Low8(4, i) /\ r # High8(4, i)
  BY <1>c DEF Rised, Count, Resets, Port, Shared, Ctrl, Intcsr, Low8, High8
<1>6. Of(b, r) = NoLock BY <1>c DEF Of
<1>7. MayWrite(b, "task", h, r) BY <1>6 DEF MayWrite
<1>11. \A y, w : FineAt(b, r, y, w)
  <2>1. ~Bounded(b, r) /\ ~Exact(b, r) BY <1>c DEF Bounded, Exact, Ctrl, OutsOnly
  <2> QED BY <2>1, <1>5 DEF FineAt
<1>l. Low8(4, i) \in Registers(b) /\ High8(4, i) \in Registers(b) BY <1>0, CtrFacts
<1>w. Low8(4, i) = <<"low8", 3 * 4 + i>> /\ High8(4, i) = <<"high8", 3 * 4 + i>> BY DEF Low8, High8
<1>s. s.do = "load" /\ s.reg = r OBVIOUS
<1>v. v.do = "store" /\ v.reg = r /\ v.clear = clear /\ v.set = set OBVIOUS
<1>n. \A j, m : Owed(j, m) \notin o BY DEF Owed, Turned
<1>t. Turned \in o /\ Window \notin o BY DEF Turned, Window
<1>b. b = "me1400cd" OBVIOUS
<1>e. Turned \notin Empty /\ Window \notin Empty BY Void
<1> HIDE DEF b, h, r, f, o, s, v
<1>12. ASSUME NEW R, NEW W, NEW T, NEW R2, NEW W2, NEW T2,
             Local(b, f, R, W, T), Effect(b, s, R, W, T, R2, W2, T2)
       PROVE  /\ Local(b, f, R2, W2, T2) /\ Polite(b, "task", h, R, W, R2, W2)
              /\ Notes(b, "task", h, f, Empty, s, o, R, W, T, R2, W2, T2)
  <2>1. R2 = R /\ W2 = W /\ T2 = R[r] BY <1>12, <1>s DEF Effect
  <2>2. Holds(b, Firm(Whole(3 * 4 + i)), R, W, T) BY <1>12, <1>4 DEF Local
  <2>3. Holds(b, Firm(Whole(3 * 4 + i)), R2, W2, T2) BY <2>1, <2>2 DEF Holds, Firm
  <2>4. Local(b, f, R2, W2, T2) BY <2>1, <2>3, <1>12, <1>4 DEF Local
  <2>5. Polite(b, "task", h, R, W, R2, W2) BY <2>1 DEF Polite
  <2>6. \A j \in Numbers : ~Stirs(b, j, R, R2) BY <2>1 DEF Stirs
  <2>7. T2 = R2[MyClock] /\ R2 = R BY <2>1 DEF r
  <2>8. Notes(b, "task", h, f, Empty, s, o, R, W, T, R2, W2, T2) BY <2>6, <2>7, <1>e DEF Notes, Keep
  <2> QED BY <2>4, <2>5, <2>8
<1>13. Moves(b, "task", h, f, Empty, s, f, o) BY <1>12, <1>s, <1>3, Void DEF Moves, Accesses, Named
<1>14. Aimed(b, f, s) BY <1>s DEF Aimed
<1>15. Does(b, "task", h, f, Empty, <<s>>, h, f, o) BY <1>2, <1>13, <1>14, DoesAccess
<1>16. ASSUME NEW R, NEW W, NEW T, NEW R2, NEW W2, NEW T2,
             Local(b, f, R, W, T), Effect(b, v, R, W, T, R2, W2, T2)
       PROVE  /\ Local(b, f, R2, W2, T2) /\ Polite(b, "task", h, R, W, R2, W2)
              /\ Notes(b, "task", h, f, o, v, Empty, R, W, T, R2, W2, T2)
  <2>1. Level(v.reg, v.clear, v.set) = set BY <1>v, <1>c DEF Level, ActiveLow
  <2>2. /\ T2 = T /\ Changes(b, r, R, R2, (T \ clear) \cup set)
        /\ Changes(b, r, W, W2, (W[r] \ clear) \cup set)
    BY <1>16, <1>v, <2>1 DEF Effect
  <2>3. /\ R2[r] = (T \ clear) \cup set
        /\ \A q \in Registers(b) : q # r => R2[q] = R[q] /\ W2[q] = W[q]
    BY <2>2 DEF Changes
  <2>4. Holds(b, Firm(Whole(3 * 4 + i)), R, W, T) BY <1>16, <1>4 DEF Local
  <2>5. R[Low8(4, i)] = R[High8(4, i)] BY <2>4, <1>w DEF Holds, Firm, Bond, Whole
  <2>6. R2[Low8(4, i)] = R2[High8(4, i)] BY <2>5, <2>3, <1>l, <1>5
  <2>7. Holds(b, Firm(Whole(3 * 4 + i)), R2, W2, T2) BY <2>6, <1>w DEF Holds, Firm, Bond, Whole
  <2>8. Fine(b, R2, W2)
    <3>1. Fine(b, R, W) BY <1>16 DEF Local
    <3>2. ASSUME NEW q \in Registers(b) PROVE FineAt(b, q, R2[q], W2[q])
      <4>1. CASE q = r BY <4>1, <1>11
      <4>2. CASE q # r BY <4>2, <2>3, <3>1 DEF Fine
      <4> QED BY <4>1, <4>2
    <3> QED BY <3>2 DEF Fine
  <2>9. Local(b, f, R2, W2, T2) BY <2>7, <2>8, <1>4 DEF Local
  <2>10. Polite(b, "task", h, R, W, R2, W2) BY <2>3, <1>5, <1>7 DEF Polite
  <2>11. \A j \in Numbers : ~Stirs(b, j, R, R2) BY <2>3, <1>5 DEF Stirs
  <2>12. ~(Enable \subseteq R[MyClock]) /\ Enable \subseteq R2[MyClock] => Enable \subseteq T
    <3>1. ASSUME Enable \subseteq R2[MyClock] PROVE Enable \subseteq T BY <3>1, <2>3 DEF r
    <3> QED BY <3>1
  <2>13. Notes(b, "task", h, f, o, v, Empty, R, W, T, R2, W2, T2)
    BY <2>11, <2>12, <1>t, <1>e, <1>1 DEF Notes, h
  <2> QED BY <2>9, <2>10, <2>13
<1>17. Moves(b, "task", h, f, o, v, f, Empty) BY <1>16, <1>v, <1>3, <1>n DEF Moves, Accesses, Named
<1>18. Aimed(b, f, v) BY <1>v, <1>5 DEF Aimed
<1>19. Does(b, "task", h, f, o, <<v>>, h, f, Empty) BY <1>x, <1>17, <1>18, DoesAccess
<1>20. Does(b, "task", h, f, Empty, <<s>> \o <<v>>, h, f, Empty) BY <1>15, <1>19, DoesThen
<1>21. Rmw(r, clear, set) = <<s>> \o <<v>> BY DEF Rmw, Load, Store, s, v
<1>22. Does(b, "task", h, f, Empty, Rmw(r, clear, set), h, f, Empty) BY <1>20, <1>21
<1> QED BY <1>22 DEF b, h, r, f

\* A section under the chip's lock or that of the clocks.
LEMMA CtrSection ==
    ASSUME NEW b, NEW i, NEW k, NEW n, CtrOf(b, i, k, n), NEW l \in {CtrLock(k), ClkLock}, NEW P,
           Does(b, "task", One(i) \cup {l}, Value(k, n), Empty, P, One(i) \cup {l}, Value(k, n), Empty)
    PROVE  Does(b, "task", One(i), Value(k, n), Empty, Under(l, P), One(i), Value(k, n), Empty)
<1>1. i \in Numbers /\ Bare(b, l) BY CtrFacts, CtrBonds
<1>2. OnCtr(i, One(i) \cup {l}) /\ l \notin One(i) /\ l # IrqLine /\ OnCtr(i, One(i))
  BY <1>1, CtrLocks
<1>3. Fit(b, "task", One(i), Value(k, n), Empty) /\ Fit(b, "task", One(i) \cup {l}, Value(k, n), Empty)
  BY <1>2, CtrFit, Void
<1>4. Value(k, n) \subseteq Value(k, n) OBVIOUS
<1> QED BY <1>1, <1>2, <1>3, <1>4, DoesSection

\* A section under the counter's own lock is harmless.
LEMMA CtrAlone ==
    ASSUME NEW b, NEW i, NEW k, NEW n, CtrOf(b, i, k, n), NEW P,
           Does(b, "task", One(i), Value(k, n), Empty, P, One(i), Value(k, n), Empty)
    PROVE  Harmless(b, Under(Lock(i), P))
<1>1. i \in Numbers BY CtrFacts
<1>2. OnCtr(i, One(i)) BY <1>1, CtrLocks
<1>3. Fit(b, "task", One(i), Value(k, n), Empty) BY <1>2, CtrFit, Void
<1>4. Fit(b, "task", Empty, Empty, Empty) BY Void DEF Fit, Steady, Keeping
<1>5. Value(k, n) = {Firm(Whole(3 * k + n))} BY DEF Value, Empty
<1>6. Opens(b, Empty, Lock(i), Value(k, n))
  <2>1. ASSUME NEW R, NEW W, NEW T, Local(b, Empty, R, W, T), Bond(b, Whole(3 * k + n), R, W)
        PROVE  Local(b, Value(k, n), R, W, T)
    BY <2>1, <1>5 DEF Local, Holds, Firm
  <2> QED BY <2>1, CtrBonds DEF Opens
<1>7. Closes(b, Value(k, n), Lock(i), Empty)
  <2>1. ASSUME NEW R, NEW W, NEW T, Local(b, Value(k, n), R, W, T)
        PROVE  Local(b, Empty, R, W, T) /\ Bond(b, Whole(3 * k + n), R, W)
    BY <2>1, <1>5, Void DEF Local, Holds, Firm
  <2> QED BY <2>1, CtrBonds DEF Closes
<1>8. Lock(i) \notin Empty /\ Lock(i) # IrqLine /\ Empty \cup {Lock(i)} = One(i) BY Locks3 DEF One
<1>9. Does(b, "task", Empty, Empty, Empty, Under(Lock(i), P), Empty, Empty, Empty)
  BY <1>3, <1>4, <1>6, <1>7, <1>8, DoesUnder
<1> QED BY <1>9, DoesAll DEF Harmless

\* Reset of a counter is harmless.
LEMMA CtrReset ==
    ASSUME NEW b, NEW i, NEW k, NEW n, CtrOf(b, i, k, n)
    PROVE  Harmless(b, me8254_io_reset_subdevice(i, ClockOf(b), k, n))
<1> DEFINE f == Value(k, n)
<1> DEFINE r == IF ClockOf(b) = "ab" THEN me1400AB_get_clk_src_reg(k) ELSE me1400CD_get_clk_src_reg(k)
<1> DEFINE bits == IF ClockOf(b) = "ab" THEN AB_bits(k, n) ELSE CD_bits(k, n)
<1> DEFINE C == IF ClockOf(b) = "plain" THEN <<>> ELSE Rmw(r, bits, {})
<1> DEFINE P == (Under(CtrLock(k), SetMode(k, n, "m0")) \o SetValue(k, n, "low")) \o Under(ClkLock, C)
<1>1. i \in Numbers BY CtrFacts
<1>2. OnCtr(i, One(i)) /\ OnCtr(i, One(i) \cup {CtrLock(k)}) BY <1>1, CtrLocks
<1>3. Does(b, "task", One(i) \cup {CtrLock(k)}, f, Empty, SetMode(k, n, "m0"), One(i) \cup {CtrLock(k)}, f, Empty)
  BY <1>2, CtrMode DEF ModeSet
<1>4. Does(b, "task", One(i), f, Empty, Under(CtrLock(k), SetMode(k, n, "m0")), One(i), f, Empty)
  BY <1>3, CtrSection
<1>5. Does(b, "task", One(i), f, Empty, SetValue(k, n, "low"), One(i), f, Empty)
  BY <1>2, CtrValue DEF Levels
<1>6. Does(b, "task", One(i) \cup {ClkLock}, f, Empty, C, One(i) \cup {ClkLock}, f, Empty)
  <2>1. CASE b = "me4600_ctr"
    <3>1. C = <<>> BY <2>1 DEF ClockOf
    <3> QED BY <3>1, DoesNothing
  <2>2. CASE b = "me1400ab"
    <3>1. C = Rmw(ClkReg(0), bits, {}) BY <2>2 DEF ClockOf, me1400AB_get_clk_src_reg
    <3>2. k = i /\ n = 0 /\ i \in {0, 1} BY <2>2 DEF CtrOf
    <3> HIDE DEF C, bits
    <3> QED BY <2>2, <3>1, <3>2, ClockAB
  <2>3. CASE b = "me1400cd"
    <3>2. k = 4 /\ n = i /\ i \in {0, 1} BY <2>3 DEF CtrOf
    <3>3. ((k % 5) \div 2) + (3 * (k \div 5)) = 2 BY <3>2
    <3>4. me1400CD_get_clk_src_reg(k) = MyClock
      BY <3>3 DEF me1400CD_get_clk_src_reg, MyClock, LineClock, Clock, ClkReg
    <3>1. C = Rmw(MyClock, bits, {}) BY <2>3, <3>4 DEF ClockOf
    <3> HIDE DEF C, bits
    <3> QED BY <2>3, <3>1, <3>2, ClockCD
  <2> QED BY <2>1, <2>2, <2>3 DEF CtrOf
<1> HIDE DEF C
<1>7. Does(b, "task", One(i), f, Empty, Under(ClkLock, C), One(i), f, Empty) BY <1>6, CtrSection
<1>8. Does(b, "task", One(i), f, Empty, P, One(i), f, Empty)
  <2>1. Does(b, "task", One(i), f, Empty, Under(CtrLock(k), SetMode(k, n, "m0")) \o SetValue(k, n, "low"),
             One(i), f, Empty)
    BY <1>4, <1>5, DoesThen
  <2> QED BY <2>1, <1>7, DoesThen
<1> HIDE DEF P
<1>9. Harmless(b, Under(Lock(i), P)) BY <1>8, CtrAlone
<1>10. P = Under(CtrLock(k), SetMode(k, n, "m0")) \o SetValue(k, n, "low") \o Under(ClkLock, C)
  BY DEF P
<1> QED BY <1>9, <1>10 DEF me8254_io_reset_subdevice, C

\* A counter is looked at.
LEMMA CtrLook ==
    ASSUME NEW i \in Numbers, NEW b, NEW k, NEW n, CtrOf(b, i, k, n), NEW r \in Registers(b),
           NEW h, h = One(i) \cup {ClkLock}
    PROVE  Does(b, "task", h, Value(k, n), Empty, Load(r), h, Value(k, n), Empty)
<1>1. OnCtr(i, h) BY CtrLocks
<1>2. Fit(b, "task", h, Value(k, n), Empty) BY <1>1, CtrFit, Void
<1>3. Value(k, n) = {Firm(Whole(3 * k + n))} BY DEF Value, Empty
<1>4. \A R, W, T : Local(b, Value(k, n), R, W, T) => \A x \in Value(k, n) : Holds(b, x, R, W, R[r])
  BY <1>3 DEF Local, Holds, Firm
<1> QED BY <1>2, <1>4, DoesLoad, Void

\* The source of a counter's clock is chosen.
LEMMA CtrClock ==
    ASSUME NEW b, NEW i, NEW k, NEW n, CtrOf(b, i, k, n), NEW ref \in Refs, NEW P,
           P = CASE ClockOf(b) = "ab" -> me1400_ab_ref_config(k, n, ref)
                 [] ClockOf(b) = "cd" -> me1400_cd_ref_config(k, n, ref)
                 [] OTHER -> <<>>
    PROVE  Does(b, "task", One(i), Value(k, n), Empty, P, One(i), Value(k, n), Empty)
<1>1. i \in Numbers BY CtrFacts
<1>2. CASE b = "me4600_ctr"
  <2>1. P = <<>> BY <1>2 DEF ClockOf
  <2> QED BY <2>1, DoesNothing
<1>3. CASE b = "me1400ab"
  <2> DEFINE r == ClkReg(0)
  <2> DEFINE clear == AB_clear(k, n, ref) \cup AB_set(k, n, ref)
  <2> DEFINE set == AB_set(k, n, ref)
  <2>1. P = Under(ClkLock, Load(r) \o IF AB_accepts(n, ref) THEN Store(r, clear, set) ELSE <<>>)
    BY <1>3 DEF ClockOf, me1400_ab_ref_config, me1400AB_get_clk_src_reg
  <2>2. k = i /\ n = 0 /\ i \in {0, 1} BY <1>3 DEF CtrOf
  <2>3. r \in Registers(b) BY <1>3 DEF Registers
  <2> HIDE DEF r, clear, set
  <2> DEFINE Q == Load(r) \o IF AB_accepts(n, ref) THEN Store(r, clear, set) ELSE <<>>
  <2>4. Does(b, "task", One(i) \cup {ClkLock}, Value(k, n), Empty, Q, One(i) \cup {ClkLock}, Value(k, n), Empty)
    <3>1. CASE AB_accepts(n, ref)
      <4>1. Q = Rmw(r, clear, set) BY <3>1 DEF Rmw
      <4> HIDE DEF Q
      <4> QED BY <4>1, <1>3, <2>2, ClockAB DEF r
    <3>2. CASE ~AB_accepts(n, ref)
      <4>1. Q = Load(r) \o <<>> BY <3>2
      <4> HIDE DEF Q
      <4>2. Does(b, "task", One(i) \cup {ClkLock}, Value(k, n), Empty, Load(r), One(i) \cup {ClkLock}, Value(k, n), Empty)
        BY <1>1, <2>3, CtrLook
      <4> QED BY <4>1, <4>2, DoesNothing, DoesThen
    <3> QED BY <3>1, <3>2
  <2> HIDE DEF Q
  <2>5. P = Under(ClkLock, Q) BY <2>1 DEF Q
  <2> QED BY <2>4, <2>5, CtrSection
<1>4. CASE b = "me1400cd"
  <2> DEFINE r == MyClock
  <2> DEFINE clear == CD_bits(k, n)
  <2> DEFINE set == CD_set(k, n, ref)
  <2>2. k = 4 /\ n = i /\ i \in {0, 1} BY <1>4 DEF CtrOf
  <2>7. ((k % 5) \div 2) + (3 * (k \div 5)) = 2 BY <2>2
  <2>8. me1400CD_get_clk_src_reg(k) = r
    BY <2>7 DEF me1400CD_get_clk_src_reg, MyClock, LineClock, Clock, ClkReg
  <2>1. P = Under(ClkLock, Load(r) \o IF CD_accepts(n, ref) THEN Store(r, clear, set) ELSE <<>>)
    BY <1>4, <2>8 DEF ClockOf, me1400_cd_ref_config
  <2>3. r \in Registers(b) BY <1>4 DEF Registers, MyClock, LineClock, Clock, ClkReg
  <2>9. CD_accepts(n, ref) => Enable \cap set = {}
    BY DEF CD_accepts, CD_set, CD_bits, OneMHz, TenMHz, Prev, Enable
  <2> HIDE DEF r, clear, set
  <2> DEFINE Q == Load(r) \o IF CD_accepts(n, ref) THEN Store(r, clear, set) ELSE <<>>
  <2>4. Does(b, "task", One(i) \cup {ClkLock}, Value(k, n), Empty, Q, One(i) \cup {ClkLock}, Value(k, n), Empty)
    <3>1. CASE CD_accepts(n, ref)
      <4>1. Q = Rmw(r, clear, set) BY <3>1 DEF Rmw
      <4> HIDE DEF Q
      <4> QED BY <3>1, <4>1, <1>4, <2>2, <2>9, ClockCD DEF r
    <3>2. CASE ~CD_accepts(n, ref)
      <4>1. Q = Load(r) \o <<>> BY <3>2
      <4> HIDE DEF Q
      <4>2. Does(b, "task", One(i) \cup {ClkLock}, Value(k, n), Empty, Load(r), One(i) \cup {ClkLock}, Value(k, n), Empty)
        BY <1>1, <2>3, CtrLook
      <4> QED BY <4>1, <4>2, DoesNothing, DoesThen
    <3> QED BY <3>1, <3>2
  <2> HIDE DEF Q
  <2>5. P = Under(ClkLock, Q) BY <2>1 DEF Q
  <2> QED BY <2>4, <2>5, CtrSection
<1> QED BY <1>2, <1>3, <1>4 DEF CtrOf

\* The methods of a counter are safe.
LEMMA SafeCounter ==
    ASSUME NEW b, NEW i, NEW k, NEW n, CtrOf(b, i, k, n)
    PROVE  SafeSub(b, i, me8254_constr(i, ClockOf(b), k, n))
<1> DEFINE f == Value(k, n)
<1>1. i \in Numbers BY CtrFacts
<1>2. OnCtr(i, One(i)) /\ OnCtr(i, One(i) \cup {CtrLock(k)}) BY <1>1, CtrLocks
<1>3. Harmless(b, me8254_io_reset_subdevice(i, ClockOf(b), k, n)) BY CtrReset
<1>4. ASSUME NEW a \in CounterArg
      PROVE  Harmless(b, me8254_io_single_config(i, ClockOf(b), k, n, a))
  <2> DEFINE C == CASE ClockOf(b) = "ab" -> me1400_ab_ref_config(k, n, a.ref)
                    [] ClockOf(b) = "cd" -> me1400_cd_ref_config(k, n, a.ref)
                    [] OTHER -> <<>>
  <2>0. a.ref \in Refs BY DEF CounterArg
  <2>1. Does(b, "task", One(i), f, Empty, C, One(i), f, Empty) BY <2>0, CtrClock
  <2>2. CASE a.flag # "none" \/ ~Triggered(a) \/ a.mode \notin ModeSet \cup {"disable"}
    BY <2>2, Refuses DEF me8254_io_single_config
  <2>3. CASE ~(a.flag # "none" \/ ~Triggered(a) \/ a.mode \notin ModeSet \cup {"disable"}) /\ a.mode = "disable"
    BY <2>3, <1>3 DEF me8254_io_single_config
  <2>4. CASE /\ ~(a.flag # "none" \/ ~Triggered(a) \/ a.mode \notin ModeSet \cup {"disable"})
             /\ a.mode # "disable" /\ a.channel # 0
    BY <2>4, Refuses DEF me8254_io_single_config
  <2>5. CASE /\ ~(a.flag # "none" \/ ~Triggered(a) \/ a.mode \notin ModeSet \cup {"disable"})
             /\ a.mode # "disable" /\ a.channel = 0
    <3>1. a.mode \in ModeSet BY <2>5
    <3>2. Does(b, "task", One(i), f, Empty, SetMode(k, n, a.mode), One(i), f, Empty)
      BY <3>1, <1>2, CtrMode
    <3>3. me8254_io_single_config(i, ClockOf(b), k, n, a) = Under(Lock(i), SetMode(k, n, a.mode) \o C)
      BY <2>5 DEF me8254_io_single_config
    <3> HIDE DEF C
    <3>4. Does(b, "task", One(i), f, Empty, SetMode(k, n, a.mode) \o C, One(i), f, Empty)
      BY <2>1, <3>2, DoesThen
    <3> QED BY <3>3, <3>4, CtrAlone
  <2> QED BY <2>2, <2>3, <2>4, <2>5
<1>5. ASSUME NEW a
      PROVE  Harmless(b, me8254_io_single_read(i, k, n, a))
  <2> DEFINE P1 == Read(Ctr(k, n), {})
  <2> DEFINE P2 == Read(Low8(k, n), Bytes)
  <2> DEFINE P3 == Read(High8(k, n), Bytes)
  <2> DEFINE h == One(i) \cup {CtrLock(k)}
  <2>1. Fit(b, "task", h, f, Empty) BY <1>2, CtrFit, Void
  <2>2. Does(b, "task", h, f, Empty, P1, h, f, Empty) /\ Does(b, "task", h, f, Empty, P2, h, f, Empty)
        /\ Does(b, "task", h, f, Empty, P3, h, f, Empty)
    BY <2>1, DoesRead, Void
  <2> HIDE DEF P1, P2, P3
  <2>3. Does(b, "task", h, f, Empty, (P1 \o P2) \o P3, h, f, Empty)
    <3>1. Does(b, "task", h, f, Empty, P1 \o P2, h, f, Empty) BY <2>2, DoesThen
    <3> QED BY <3>1, <2>2, DoesThen
  <2>4. Does(b, "task", One(i), f, Empty, Under(CtrLock(k), (P1 \o P2) \o P3), One(i), f, Empty)
    BY <2>3, CtrSection
  <2>5. Harmless(b, Under(Lock(i), Under(CtrLock(k), (P1 \o P2) \o P3))) BY <2>4, CtrAlone
  <2> QED BY <2>5, Refuses DEF me8254_io_single_read, P1, P2, P3
<1>6. ASSUME NEW a, NEW v \in Levels
      PROVE  Harmless(b, me8254_io_single_write(i, k, n, a, v))
  <2>1. Does(b, "task", One(i), f, Empty, SetValue(k, n, v), One(i), f, Empty) BY <1>2, CtrValue
  <2>2. Harmless(b, Under(Lock(i), SetValue(k, n, v))) BY <2>1, CtrAlone
  <2> QED BY <2>2, Refuses DEF me8254_io_single_write
<1> QED BY <1>3, <1>4, <1>5, <1>6, Refuses DEF SafeSub, me8254_constr, Made, NoMethod2

=============================================================================
