------------------------------- MODULE Boards -------------------------------
(***************************************************************************)
(* Boards made of the subdevices of DigitalIO, Counters and Interrupts: a  *)
(* behaviour is about one board, chosen in Init.  Several tasks call       *)
(* methods of its subdevices, and its interrupt handler runs in between.   *)
(***************************************************************************)
EXTENDS Interrupts, Counters

CONSTANTS
  Board,      \* the boards to look at
  Sub,        \* subdevice numbers
  Inputs      \* per board and task: the calls it may make

BoardNames ==
  {"me1000", "me0600_dio", "me0600_di", "me0600_relay", "me0600_irq", "me0900_di", "me0900_do",
   "me4600", "me4600i", "me4600_ctr", "me4600_irq", "me6000", "me8100", "me8100b", "me8200_dio",
   "me8200", "me8200_ex", "me8200_do", "me1400", "me1400ab", "me1400cd"}

ASSUME BoardAssumption == Board \subseteq BoardNames

ASSUME InputsAssumption ==
  \A b \in Board, t \in Task \ {Isr} :
    /\ DOMAIN Inputs[b][t] = {"reset", "config", "read", "write", "start", "wait", "stop"}
    /\ \A c \in Inputs[b][t].read : c.arg \in Access
    /\ \A c \in Inputs[b][t].write : c.arg \in Access /\ c.value \in Levels

-----------------------------------------------------------------------------
(* The constructors of the subdevices with interrupts.                     *)

LineMade(reset, Start(_), Wait(_), stop, testing, irqs, channels, type, caps) ==
  [Made(reset, LAMBDA a : Refused, LAMBDA a : Refused, NoMethod2, channels, type, caps)
   EXCEPT !.config = <<>>, !.start = [a \in StartArg |-> Start(a)], !.wait = [a \in WaitArg |-> Wait(a)],
          !.stop = stop, !.test = testing, !.irqs = irqs]

me4600_ext_irq_constr(i) ==
  LineMade(me4600_ext_irq_io_reset_subdevice(i), LAMBDA a : me4600_ext_irq_io_irq_start(i, a),
           LAMBDA a : me4600_ext_irq_io_irq_wait(i, a), me4600_ext_irq_io_irq_stop(i), me4600_ext_irq_io_irq_test(i),
           {Armed(External(i), {<<"edge", e>>}, me4600_ext_irq_handle(i)) : e \in {"rising", "falling", "any"}},
           me4600_ext_irq_query_number_channels, me4600_ext_irq_query_subdevice_type,
           me4600_ext_irq_query_subdevice_caps)

me0600_ext_irq_constr(i) ==
  LineMade(me0600_ext_irq_io_reset_subdevice(i), LAMBDA a : me0600_ext_irq_io_irq_start(i, a),
           LAMBDA a : me0600_ext_irq_io_irq_wait(i, a), me0600_ext_irq_io_irq_stop(i), me0600_ext_irq_io_irq_test(i),
           {Armed(Intcsr, LineEn(i) \cup {<<"pci", 0>>}, me0600_ext_irq_handle(i))},
           me0600_ext_irq_query_number_channels, me0600_ext_irq_query_subdevice_type,
           me0600_ext_irq_query_subdevice_caps)

me1400AB_ext_irq_constr(i) ==
  [LineMade(me1400AB_ext_irq_io_reset_subdevice(i), LAMBDA a : me1400AB_ext_irq_io_irq_start(i, a),
            LAMBDA a : me1400AB_ext_irq_io_irq_wait(i, a), me1400AB_ext_irq_io_irq_stop(i),
            me1400AB_ext_irq_io_irq_test(i), {Armed(Pin(i), Enable, me1400AB_ext_irq_handle(i))},
            me1400AB_ext_irq_query_number_channels, me1400AB_ext_irq_query_subdevice_type,
            me1400AB_ext_irq_query_subdevice_caps)
   EXCEPT !.config = [a \in MultipinArg |-> me1400AB_ext_irq_io_single_config(i, a)]]

me1400CD_ext_irq_constr(i) ==
  LineMade(me1400CD_ext_irq_io_reset_subdevice(i), LAMBDA a : me1400CD_ext_irq_io_irq_start(i, a),
           LAMBDA a : me1400CD_ext_irq_io_irq_wait(i, a), me1400CD_ext_irq_io_irq_stop(i),
           me1400CD_ext_irq_io_irq_test(i), {Armed(LineClock(i), Enable, me1400CD_ext_irq_handle(i))},
           me1400CD_ext_irq_query_number_channels, me1400CD_ext_irq_query_subdevice_type,
           me1400CD_ext_irq_query_subdevice_caps)

me8100_di_constr(i, k) ==
  [LineMade(me8100_di_io_reset_subdevice(i, k), LAMBDA a : me8100_di_io_irq_start(i, k, a),
            LAMBDA a : me8100_di_io_irq_wait(i, a), me8100_di_io_irq_stop(i, k), me8100_di_io_irq_test(i),
            {Armed(Control(k), {<<"intb", 0>>}, me8100_di_irq_handle(i, matches)) : matches \in BOOLEAN},
            me8100_di_query_number_channels, me8100_di_query_subdevice_type, me8100_di_query_subdevice_caps)
   EXCEPT !.config = [a \in ConfigArg |-> me8100_di_io_single_config(i, a)],
          !.read = [a \in Access |-> me8100_di_io_single_read(i, a)]]

\* The handler depends on the version of the firmware.
me8200_di_constr(i, version) ==
  LET handle(matches) == IF me8200_di_check_version(version) = 0 THEN me8200_di_irq_handle(i, matches)
                         ELSE me8200_di_irq_handle_EX(i, matches)
  IN [LineMade(me8200_di_io_reset_subdevice(i), LAMBDA a : me8200_di_io_irq_start(i, a),
               LAMBDA a : me8200_di_io_irq_wait(i, a), me8200_di_io_irq_stop(i), me8200_di_io_irq_test(i),
               {Armed(IrqCtrl, PinEn(i), handle(matches)) : matches \in BOOLEAN},
               me8200_di_query_number_channels, me8200_di_query_subdevice_type, me8200_di_query_subdevice_caps)
      EXCEPT !.config = [a \in ConfigArg |-> me8200_di_io_single_config(i, a)],
             !.read = [a \in Access |-> me8200_di_io_single_read(i, a)]]

me8200_do_constr(i) ==
  [Made(me8200_do_io_reset_subdevice(i), LAMBDA a : me8200_do_io_single_config(i, a),
        LAMBDA a : me8200_do_io_single_read(i, a), LAMBDA a, v : me8200_do_io_single_write(i, a, v),
        me8200_do_query_number_channels, me8200_do_query_subdevice_type, me8200_do_query_subdevice_caps)
   EXCEPT !.start = [a \in StartArg |-> me8200_do_io_irq_start(i, a)],
          !.wait = [a \in WaitArg |-> me8200_do_io_irq_wait(i, a)], !.stop = me8200_do_io_irq_stop(i),
          !.irqs = {Armed(IrqMode, PowerEn(i), me8200_do_irq_handle(i))}]

-----------------------------------------------------------------------------
(* The boards.                                                             *)

Subdevice(b, i) ==
  CASE b = "me1000"       -> me1000_dio_constr(i)
    [] b = "me0600_dio"   -> me0600_dio_constr(i)
    [] b = "me0600_di"    -> me0600_di_constr(i)
    [] b = "me0600_relay" -> me0600_relay_constr(i)
    [] b = "me0600_irq"   -> me0600_ext_irq_constr(i)
    [] b = "me0900_di"    -> me0900_di_constr(i)
    [] b = "me0900_do"    -> me0900_do_constr(i)
    [] b = "me4600"       -> me4600_dio_constr(i, "dio")
    [] b = "me4600i"      -> me4600_dio_constr(i, IF i = 0 THEN "do" ELSE "di")
    [] b = "me4600_ctr"   -> me8254_constr(i, "plain", 0, i)
    [] b = "me4600_irq"   -> me4600_ext_irq_constr(i)
    [] b = "me6000"       -> me6000_dio_constr(i)
    [] b = "me8100"       -> IF i = 0 THEN me8100_di_constr(i, 0) ELSE me8100_do_constr(i, 0)
    [] b = "me8100b"      -> me8100_do_constr(i, i)
    [] b = "me8200_dio"   -> me8200_dio_constr(i)
    [] b = "me8200_do"    -> me8200_do_constr(i)
    [] b = "me8200"       -> IF i = 0 THEN me8200_di_constr(i, 3) ELSE me8200_do_constr(i)
    [] b = "me8200_ex"    -> me8200_di_constr(i, 7)
    [] b = "me1400"       -> me8255_constr(i)
    [] b = "me1400ab"     -> IF i = 2 THEN me1400AB_ext_irq_constr(i) ELSE me8254_constr(i, "ab", i, 0)
    [] b = "me1400cd"     -> IF i = 2 THEN me1400CD_ext_irq_constr(i) ELSE me8254_constr(i, "cd", 4, i)

\* A board has one relay subdevice, an 8255 three ports; of the others two
\* are enough here.
SubsOf(b) == CASE b \in {"me0600_relay", "me4600_irq"} -> {0}
               [] b \in {"me1400", "me1400ab", "me1400cd"} -> {0, 1, 2}
               [] OTHER -> {0, 1}

Subdevices == [b \in Board |-> [i \in Sub \cap SubsOf(b) |-> Subdevice(b, i)]]

\* The registers of a board, and what they hold after a reset.
Line(i)  == {Status(i), Count(i), Resets(i)}
Pinned(i) == {Rised(i), Count(i), Filter(i), Pattern(i), MaskOf(i), Port(i), Status(i)}
Power(i) == {Rised(i), Count(i), Port(i), Status(i)}
Counter(n) == {Ctr(0, n), Low8(0, n), High8(0, n)}
Registers(b) ==
  CASE b = "me0600_relay" -> {Relay(0), Relay(1)}
    [] b \in {"me0900_di", "me0900_do"} -> {Low(i) : i \in SubsOf(b)}
    [] b = "me0600_di" -> {Port(i) : i \in SubsOf(b)}
    [] b = "me0600_irq" -> {Intcsr} \cup Line(0) \cup Line(1)
    [] b = "me4600_irq" -> {External(0), EdgeMode(0)} \cup Line(0)
    [] b = "me4600_ctr" -> Counter(0) \cup Counter(1)
    [] b = "me8100" -> {Control(0), Copy, Port(1), Mirror(1)} \cup Pinned(0)
    [] b = "me8100b" -> {Control(0), Control(1), Copy, Port(0), Mirror(0), Port(1), Mirror(1)}
    [] b = "me8200_do" -> {IrqMode} \cup Power(0) \cup Power(1)
    [] b = "me8200" -> {IrqMode, IrqCtrl} \cup Pinned(0) \cup Power(1)
    [] b = "me8200_ex" -> {IrqMode, IrqCtrl} \cup Pinned(0) \cup Pinned(1)
    [] b = "me1400" -> ChipPorts \cup {Mirror(i) : i \in SubsOf(b)} \cup {Ctrl, Chip}
    [] b = "me1400ab" -> {ClkReg(0), Pin(2)} \cup Counter(0) \cup Counter(3) \cup Line(2)
    [] b = "me1400cd" -> {ClkReg(2)} \cup Counter(12) \cup Counter(13) \cup Line(2)
    [] OTHER -> {Port(i) : i \in SubsOf(b)} \cup {Ctrl}

AfterReset(b, r) ==
  CASE r = Chip              -> get_mode_from_mirror({})
    [] r = Ctrl /\ b = "me4600i" -> Out(0)
    [] r[1] = "low"          -> Pins(8)
    [] r[1] = "count"        -> Zero
    [] r[1] = "resets"       -> {<<"resets", 0>>}
    [] r[1] = "rised"        -> Off
    [] r[1] \in {"pattern", "mask"} -> {<<"arg", 0>>}
    [] r[1] = "ctr"          -> ModeBit("m0")
    [] r[1] \in {"low8", "high8"} -> {<<"value", "low">>}
    [] r = Intcsr            -> LinePol(0) \cup LinePol(1)
    [] OTHER                 -> {}

Init ==
  /\ board \in Board
  /\ reg  = [r \in Registers(board) |-> AfterReset(board, r)]
  /\ want = [r \in Registers(board) |-> IF r[1] \in {"low", "chip"} THEN {} ELSE AfterReset(board, r)]
  /\ todo = [t \in Task |-> <<>>]
  /\ tmp  = [t \in Task |-> {}]
  /\ held = [t \in Task |-> {}]
  /\ asleep = {}

Has(i) == i \in DOMAIN Subdevices[board]
The(i) == Subdevices[board][i]

\* Bounds on the counters.
More(r) == r \in DOMAIN reg => \A b \in reg[r] : b[2] < MaxIrqs

io_reset_subdevice(t) ==
  \E i \in Inputs[board][t].reset : Has(i) /\ More(Resets(i)) /\ Call(t, The(i).reset)
io_single_config(t) ==
  \E c \in Inputs[board][t].config : Has(c.sub) /\ c.arg \in DOMAIN The(c.sub).config /\ Call(t, The(c.sub).config[c.arg])
io_single_read(t) ==
  \E c \in Inputs[board][t].read : Has(c.sub) /\ Call(t, The(c.sub).read[c.arg])
io_single_write(t) ==
  \E c \in Inputs[board][t].write : Has(c.sub) /\ Call(t, The(c.sub).write[<<c.arg, c.value>>])
io_irq_start(t) ==
  \E c \in Inputs[board][t].start : Has(c.sub) /\ c.arg \in DOMAIN The(c.sub).start /\ Call(t, The(c.sub).start[c.arg])
io_irq_wait(t) ==
  \E c \in Inputs[board][t].wait : Has(c.sub) /\ c.arg \in DOMAIN The(c.sub).wait /\ Call(t, The(c.sub).wait[c.arg])
io_irq_stop(t) ==
  \E i \in Inputs[board][t].stop : Has(i) /\ \E program \in {The(i).stop, The(i).test} : Call(t, program)
irq_handle ==
  \E i \in Sub : Has(i) /\ More(Count(i))
                  /\ \E h \in The(i).irqs : h.bits \subseteq reg[h.reg] /\ Interrupt(h.program)

Next == \/ \E t \in Task : Step(t)
        \/ \E t \in Task \ {Isr} :
             \/ io_reset_subdevice(t) \/ io_single_config(t)
             \/ io_single_read(t) \/ io_single_write(t)
             \/ io_irq_start(t) \/ io_irq_wait(t) \/ io_irq_stop(t)
        \/ irq_handle

Spec == Init /\ [][Next]_portvars

-----------------------------------------------------------------------------
(* Properties.                                                             *)

\* No write is lost, and none comes back: with tasks in several methods at
\* once, every register (and every mirror of one) holds what the callers
\* asked for, or rather the bits the methods stored for it: whether they are
\* the right ones of a clock register is a matter of QueriesTellTheTruth.
\* Shared control registers are changed in two accesses, under the control
\* lock; ports under the lock of their subdevice.
\* Not so: outputs of the ME-0900, whose reset takes no lock; ports of the
\* ME-8100, written with the raw argument; ports 1 and 2 of an 8255, whose
\* bits are written from port 0; the clock register of the ME-1400C, which
\* the handler changes without its lock; the two control registers of the
\* ME-8100B, which share one copy.  The latches and the mode of an 8255 lag
\* while the control lock is held.
Astray(r) == \/ board = "me0900_do"
             \/ board \in {"me8100", "me8100b"} /\ r[1] = "port"
             \/ board = "me8100b" /\ r[1] \in {"ctrl", "copy"}
             \/ board = "me1400cd" /\ r = LineClock(2)
             \/ board = "me1400" /\ r \in {Port(1), Port(2), Mirror(1), Mirror(2)}
InChange(r) == board = "me1400" /\ (r[1] = "port" \/ r = Chip) /\ Holders(CtrlLock) # {}

\* The mode byte of an 8255 as its data sheet has it.
ModeByte(out) == {7} \cup (IF Out(0) \subseteq out THEN {} ELSE {4})
                     \cup (IF Out(1) \subseteq out THEN {} ELSE {1})
                     \cup (IF Out(2) \subseteq out THEN {} ELSE {0, 3})
Meant(r) == IF r = Chip THEN ModeByte(want[r]) ELSE Level(r, Pins(8), want[r])

RegistersAgree == \A r \in DOMAIN reg : Astray(r) \/ InChange(r) \/ reg[r] = Meant(r)

\* A write goes to a port if and only if the port is an output at that very
\* moment, although the direction is tested one or more accesses earlier.
\* (Ports of the ME-6000 other than 0 are tested by the bits of another.)
Direction(i) == reg[Ctrl] \cap ModeBits(i)
WritesTo(i, program) == program # <<>> /\ Last(program).do \in {"store", "put"}
                        /\ Last(program).reg = Port(i)
WritesReachOutputs ==
  \A t \in Task, i \in Sub :
    /\ Doing(t, "test") /\ WritesTo(i, Head(todo[t]).body) /\ ~(board = "me6000" /\ i # 0)
         => Passes(t) = (Direction(i) = Out(i))
    /\ Len(todo[t]) > 1 /\ todo[t][1].do \in {"store", "put"} /\ todo[t][1].reg = Port(i)
         /\ todo[t][1].set # {} /\ Ctrl \in DOMAIN reg /\ board \notin {"me8100", "me8100b"} /\ ~(board = "me6000" /\ i # 0)
         => Direction(i) = Out(i)

\* A method gives back exactly the locks it took: nobody holds one outside
\* of a method, gives back a lock that is not his, or waits for his own.
LocksReleased ==
  \A t \in Task :
    /\ Idle(t) => held[t] = {}
    /\ Doing(t, "give") => Head(todo[t]).lock \in held[t]
    /\ Doing(t, "take") => Head(todo[t]).lock \notin held[t]
    /\ Doing(t, "mask") => IrqLine \notin held[t]
    /\ \A l \in held[t] \ {IrqLine} : Holders(l) = {t}
    /\ t \in asleep => held[t] = {}

\* Nobody sleeps through what he waits for: when it has come, a task (or
\* the handler) is about to wake him.  An interrupt, a reset and a stop may
\* come between any two steps of the wait.
\* (Not so on the inputs of the ME-8200: me8200_di_io_irq_stop puts the line off and
\* wakes nobody, so a task that waits there for a line put off may sleep on,
\* whichever call put it off.)
StopsInSilence(queue) == board = "me8200_ex" \/ (board = "me8200" /\ queue = Queue(0))
Pending(u, queue) ==
  \E k \in DOMAIN todo[u] : /\ todo[u][k].do = "wake" /\ todo[u][k].queue = queue
                            /\ Wakes(todo[u][k])
NoLostWakeup ==
  \A t \in asleep :
    Come(t) => \/ \E u \in Task : Pending(u, Head(todo[t]).queue)
               \/ StopsInSilence(Head(todo[t]).queue) /\ Head(todo[t]).bits = Off

\* Nobody is left waiting by the others' calls and errors: neither for a lock nor for a
\* wake-up.
NobodyLeftWaiting == LocksReleased /\ NoLostWakeup

\* The hardware may interrupt if and only if the driver thinks the line is
\* started, as soon as nobody works on it: a handler that enables the line
\* again does not undo a stop, and the two lines of an ME-0600 do not undo
\* each other.
Enabled(i)  == \E h \in The(i).irqs : h.bits \subseteq reg[h.reg]
LineBoards  == {"me0600_irq", "me4600_irq", "me1400ab"}
LinesOf(b)  == IF b = "me1400ab" THEN {2} \cap Sub ELSE Sub \cap SubsOf(b)
EnabledIffStarted ==
  board \in LineBoards =>
    \A i \in LinesOf(board) : Holders(Lock(i)) = {} => (Enabled(i) <=> reg[Status(i)] = Run)

\* The two bytes of a counter's value come from the same call.
ValuesAreWhole ==
  \A n \in 0 .. 14 : Counter(n) \subseteq DOMAIN reg =>
    \/ reg[Low8(0, n)] = reg[High8(0, n)]
    \/ \E t \in Task : Doing(t, "put") /\ Head(todo[t]).reg = High8(0, n)

\* What the query methods say is what the other methods do: an input cannot
\* be configured as an output or written and so on, the directions come in
\* groups of the size the caps name, exactly the channels announced can be
\* read and written bit by bit, an interrupt can be started on the edges that
\* the caps name.  A counter accepts the clocks that the caps name, and a
\* configuration (or a reset) feeds it from the clock asked for and no other
\* counter from another one, whatever was configured before.  Not so on an
\* ME-1400: see ClockKept and Unannounced.
Performed(program) == program # Refused
Configures(s, m, flag) ==
  \E a \in ConfigArg : a.mode = m /\ a.flag = flag /\ Performed(s.config[a])
BitsOf(s, Op(_)) == {c \in -1 .. 32 : Performed(Op([flag |-> "bit", channel |-> c]))}
Digital(s) ==
  LET written == BitsOf(s, LAMBDA a : s.write[<<a, "high">>])
  IN /\ BitsOf(s, LAMBDA a : s.read[a]) = 0 .. s.channels - 1
     /\ written = IF s.type = "di" THEN {} ELSE 0 .. s.channels - 1
     /\ "sink_source" \notin s.caps =>
          /\ Configures(s, "input", "none")  = (s.type \in {"di", "dio"})
          /\ Configures(s, "output", "none") = (s.type \in {"do", "dio"})
     /\ "sink_source" \in s.caps =>
          Configures(s, "sink", "none") /\ Configures(s, "source", "none")
     /\ "dir_byte"  \in s.caps => Configures(s, "input", "byte")
     /\ "dir_dword" \in s.caps => Configures(s, "input", "dword")
Started(s) == {a \in DOMAIN s.start : Performed(s.start[a])}
EdgeNames  == {"rising", "falling", "any"}
Interrupting(s) ==
  /\ {a.edge : a \in Started(s)} \cap EdgeNames = s.caps \cap EdgeNames
  /\ "pattern_irq" \in s.caps <=> \E a \in Started(s) : a.source = "pattern"
  /\ {a.channel : a \in Started(s)} \subseteq 0 .. s.channels - 1
ClockOf(b) == CASE b = "me1400ab" -> "ab" [] b = "me1400cd" -> "cd" [] OTHER -> "plain"

\* All counters of a board, and all that a clock register can hold.
Chips(type)  == CASE type = "ab" -> 0 .. 1 [] type = "cd" -> 0 .. 9 [] OTHER -> {0}
ClockReg(type, k) == IF type = "ab" THEN me1400AB_get_clk_src_reg(k) ELSE me1400CD_get_clk_src_reg(k)
Contents(type) ==
  SUBSET UNION {IF type = "ab" THEN AB_bits(k, n) ELSE CD_bits(k, n) : k \in 0 .. 1, n \in 0 .. 2}
Neighbours(type, k, n) ==
  {x \in Chips(type) \X (0 .. 2) : x # <<k, n>> /\ ClockReg(type, x[1]) = ClockReg(type, k)}

\* What a method leaves in the clock register that held c.
Left(program, c) ==
  IF \E j \in DOMAIN program : program[j].do = "store"
  THEN LET s == program[CHOOSE j \in DOMAIN program : program[j].do = "store"]
       IN  (c \ s.clear) \cup s.set
  ELSE c

\* 10 MHz for the second chip of an ME-1400A or B switches the first one; 1 MHz after
\* 10 MHz stays at 10 MHz; on the second half of an ME-1400D the bits of the other
\* chip of the register are written.
ClockMissed(type, k, ref, c) ==
  \/ type = "ab" /\ ref = "10mhz" /\ k = 1
  \/ type = "ab" /\ ref = "1mhz" /\ TenMHz(k) \subseteq c
  \/ type = "cd" /\ k > 4

FedAs(type, k, n, program, ref) ==
  \A c \in Contents(type) :
    \/ ClockMissed(type, k, ref, c)
    \/ /\ Fed(type, k, n, Left(program, c)) = ref
       /\ \A x \in Neighbours(type, k, n) :
             Fed(type, x[1], x[2], Left(program, c)) = Fed(type, x[1], x[2], c)

\* The first counter of either half of an ME-1400C or D takes the previous counter for
\* a clock although it has none.
Unannounced(type, k, n) == IF type = "cd" /\ n = 0 /\ k \in {0, 5} THEN {"previous"} ELSE {}

AsAnnounced(type, k, n) ==
  /\ Accepted(type, n) = me8254_query_subdevice_caps(type, k, n) \cup Unannounced(type, k, n)
  /\ FedAs(type, k, n, me8254_io_reset_subdevice(0, type, k, n), "external")
  /\ \A a \in CounterArg :
       LET program == me8254_io_single_config(0, type, k, n, a) IN
       Performed(program) /\ a.mode = "m2" /\ a.ref \in Accepted(type, n) =>
         FedAs(type, k, n, program, a.ref)

Truthful(b, i) ==
  LET s == Subdevices[b][i] IN
  CASE s.type = "ctr"     -> \A k \in Chips(ClockOf(b)), n \in 0 .. 2 : AsAnnounced(ClockOf(b), k, n)
    [] s.type = "ext_irq" -> Interrupting(s)
    [] OTHER              -> Digital(s) /\ Interrupting(s)
Truths == [b \in Board |-> {i \in DOMAIN Subdevices[b] : Truthful(b, i)}]
QueriesTellTheTruth == Truths[board] = DOMAIN Subdevices[board]
=============================================================================
