----------------------------- MODULE Interrupts -----------------------------
(***************************************************************************)
(* The subdevices with interrupts: the external interrupt lines of the     *)
(* ME-4600, ME-0600 and ME-1400, the inputs of the ME-8100 and ME-8200 and *)
(* the over-temperature interrupt of the ME-8200's outputs.  Tasks start   *)
(* and stop an interrupt, wait for the next one and reset the subdevice,   *)
(* which cancels the waits; the handler counts and wakes.  The line itself *)
(* and its acknowledgment are not modelled: it may come whenever it is     *)
(* enabled, as often as MaxIrqs says.                                      *)
(***************************************************************************)
EXTENDS DigitalIO

CONSTANT MaxIrqs        \* bound: interrupts between two resets, and resets

ASSUME MaxIrqsAssumption == MaxIrqs \in Nat

-----------------------------------------------------------------------------
(* The variables of an interrupt subdevice, registers of their own.        *)

Status(i)  == <<"status", i>>        \* irq_status_none, _run, _stop
Count(i)   == <<"count", i>>         \* interrupts since the last reset
Resets(i)  == <<"resets", i>>        \* reset_count
Rised(i)   == <<"rised", i>>         \* 1 is "up", -1 is "off", 0 is neither
Filter(i)  == <<"filter", i>>        \* filtering_flag
Queue(i)   == <<"queue", i>>

Statuses   == {<<"run", 0>>, <<"stop", 0>>}
Run        == {<<"run", 0>>}
Stop       == {<<"stop", 0>>}
Zero       == {<<"irqs", 0>>}
AnyCount   == {<<"irqs", n>> : n \in 0 .. MaxIrqs}
Up         == {<<"up", 0>>}
Off        == {<<"off", 0>>}
Filtering  == {<<"filter", 0>>}
SetRised(i, v)  == Put(Rised(i), Up \cup Off, v)
SetStatus(i, v) == Put(Status(i), Statuses, v)
ClearCount(i)   == Put(Count(i), AnyCount, Zero)
Wake(i)         == WakeIf(Queue(i), Status(i), {})

-----------------------------------------------------------------------------
(* Arguments.                                                              *)

StartArg == [flag : {"none", "bit", "byte", "word", "filter", "extended"},
             source : {"default", "line", "pattern", "mask", "over_temp"},
             edge : {"rising", "falling", "any", "not_used"}, arg : {0, 1}, channel : {0, 1}]
WaitArg  == [flag : {"none", "status"}, channel : {0, 1}, count : {0, 1}]

Starts(a, flags, sources, edges, args) ==
  /\ a.flag \in flags /\ a.source \in sources /\ a.edge \in edges
  /\ a.arg \in args /\ a.channel = 0
Waits(a, flags) == a.flag \in flags /\ a.channel = 0

LineStart(a, edges) == Starts(a, {"none", "bit"}, {"default", "line"}, edges, {0})

-----------------------------------------------------------------------------
(* What the external interrupts have in common.                            *)

\* Since which interrupt the caller waits: the last he heard of, or now.
\* (The count and the number of resets are read in two accesses.)
Since(i, a) == (IF a.count = 0 THEN Load(Count(i)) ELSE Given({<<"irqs", a.count>>}))
               \o LoadAlso(Resets(i))
WaitForLine(i, a) ==
  Since(i, a) \o Await({Count(i), Resets(i)}, Status(i), {}, Queue(i), Read(Status(i), Run))
              \o Read(Status(i), Run)

Cancel(i) == SetStatus(i, {}) \o ClearCount(i) \o Bump(Resets(i))

\* The handler wakes the waiters unless the interrupt was stopped meanwhile.
OnLine(i, program) == Try(Lock(i), program \o Give(Lock(i)) \o WakeIf(Queue(i), Status(i), Run))

Armed(r, bits, program) == [reg |-> r, bits |-> bits, program |-> program]

-----------------------------------------------------------------------------
(* ME-4600: the edges are chosen in a register of the subdevice's own.     *)

External(i) == <<"ext", i>>
Edges       == {<<"edge", e>> : e \in {"rising", "falling", "any"}}
Acknowledge == {<<"ack", 0>>}
EdgeMode(i) == <<"mode", i>>

me4600_ext_irq_io_reset_subdevice(i) ==
  Protect(Lock(i), SetStatus(i, {}) \o Put(EdgeMode(i), Edges, {}) \o ClearCount(i)
                   \o Put(External(i), Edges \cup Acknowledge, Acknowledge) \o Bump(Resets(i)))
  \o Wake(i)

me4600_ext_irq_io_irq_start(i, a) ==
  IF ~LineStart(a, {"rising", "falling", "any"}) THEN Refused
  ELSE Protect(Lock(i), Put(EdgeMode(i), Edges, {<<"edge", a.edge>>}) \o SetStatus(i, Run)
                        \o Put(External(i), Edges \cup Acknowledge, {<<"edge", a.edge>>}))

me4600_ext_irq_io_irq_wait(i, a) == IF Waits(a, {"none"}) THEN WaitForLine(i, a) ELSE Refused

me4600_ext_irq_io_irq_stop(i) ==
  Protect(Lock(i), Put(EdgeMode(i), Edges, {})
                   \o Put(External(i), Edges \cup Acknowledge, Acknowledge) \o SetStatus(i, Stop))

me4600_ext_irq_io_irq_test(i) == <<>>

\* Mutant: the waiters are not woken.
me4600_ext_irq_handle_silent(i) ==
  Try(Lock(i), Bump(Count(i)) \o Load(EdgeMode(i))
               \o Store(External(i), Acknowledge, Acknowledge) \o Store(External(i), Acknowledge, {})
               \o Give(Lock(i)))

me4600_ext_irq_handle(i) ==
  OnLine(i, Bump(Count(i)) \o Load(EdgeMode(i))
            \o Store(External(i), Acknowledge, Acknowledge) \o Store(External(i), Acknowledge, {}))

me4600_ext_irq_query_number_channels == 1
me4600_ext_irq_query_subdevice_type  == "ext_irq"
me4600_ext_irq_query_subdevice_caps  == {"rising", "falling", "any"}

-----------------------------------------------------------------------------
(* ME-0600: two lines share the interrupt register of the bus bridge.      *)

Intcsr      == <<"intcsr", 0>>
IntcsrLock  == <<"intcsr", 0>>
LineEn(i)   == {<<"en", i>>}
LinePol(i)  == {<<"pol", i>>, <<"pci", 0>>}

me0600_ext_irq_io_reset_subdevice(i) ==
  Protect(Lock(i), Under(IntcsrLock, Rmw(Intcsr, LineEn(i) \cup LinePol(i), LinePol(i))) \o Cancel(i))
  \o Wake(i)

me0600_ext_irq_io_irq_start(i, a) ==
  IF ~LineStart(a, {"rising"}) THEN Refused
  ELSE Protect(Lock(i), Under(IntcsrLock, Rmw(Intcsr, {}, LineEn(i) \cup LinePol(i))) \o SetStatus(i, Run))

me0600_ext_irq_io_irq_wait(i, a) == IF Waits(a, {"none"}) THEN WaitForLine(i, a) ELSE Refused

\* Mutant: the register shared with the other line is changed without its lock.
me0600_ext_irq_stop_unlocked(i) == Protect(Lock(i), Rmw(Intcsr, LineEn(i), {}) \o SetStatus(i, Stop))

me0600_ext_irq_io_irq_stop(i) ==
  Protect(Lock(i), Under(IntcsrLock, Rmw(Intcsr, LineEn(i), {})) \o SetStatus(i, Stop))

me0600_ext_irq_io_irq_test(i) == <<>>
me0600_ext_irq_handle(i)      == OnLine(i, Bump(Count(i)))

me0600_ext_irq_query_number_channels == 1
me0600_ext_irq_query_subdevice_type  == "ext_irq"
me0600_ext_irq_query_subdevice_caps  == {"rising"}

-----------------------------------------------------------------------------
(* ME-1400 A and B: the pin is an interrupt or a clock output.  A handler  *)
(* switches the interrupt off and on again.                                *)

Pin(i)  == <<"pin", i>>
Enable  == {<<"en", 0>>}
ClockEn == {<<"clock", 0>>}
SetPin(i, v) == Put(Pin(i), Enable \cup ClockEn, v)
IfNoClock(i, program) == Load(Pin(i)) \o Test(ClockEn, {{}}, program)

me1400AB_ext_irq_io_reset_subdevice(i) == Protect(Lock(i), SetPin(i, {}) \o Cancel(i)) \o Wake(i)

me1400AB_ext_irq_io_irq_start(i, a) ==
  IF ~LineStart(a, {"rising"}) THEN Refused
  ELSE Protect(Lock(i), IfNoClock(i, SetPin(i, Enable) \o SetStatus(i, Run)))

\* No lock, and no wait for a pin that is a clock.
me1400AB_ext_irq_io_irq_wait(i, a) ==
  IF Waits(a, {"none"}) THEN IfNoClock(i, WaitForLine(i, a)) ELSE Refused

me1400AB_ext_irq_io_irq_stop(i) ==
  Protect(Lock(i), Rmw(Pin(i), Enable, {}) \o SetStatus(i, Stop))

me1400AB_ext_irq_io_irq_test(i) == Load(Pin(i))

MultipinArg == [mode : {"multipin_irq", "multipin_clk"}, flag : {"none", "multipin", "byte"},
                trigger : BOOLEAN, channel : {0}]

\* Nobody is woken, not even when the interrupt is given up for the clock.
me1400AB_ext_irq_io_single_config(i, a) ==
  IF a.flag = "byte" \/ a.trigger THEN Refused
  ELSE Protect(Lock(i), IF a.mode = "multipin_irq" THEN SetStatus(i, Stop) \o SetPin(i, {})
                                                   ELSE SetStatus(i, {}) \o SetPin(i, ClockEn))

me1400AB_ext_irq_handle(i) == OnLine(i, SetPin(i, {}) \o Bump(Count(i)) \o SetPin(i, Enable))

me1400AB_ext_irq_query_number_channels == 1
me1400AB_ext_irq_query_subdevice_type  == "ext_irq"
me1400AB_ext_irq_query_subdevice_caps  == {"rising"}

-----------------------------------------------------------------------------
(* ME-1400 C and D: the enable bit is in a clock source register of the    *)
(* counters, whose lock the handler does not take.                         *)

Clock(k)  == <<"clock", k>>
ClockLock == <<"clock", 0>>
LineClock(i) == Clock(2)             \* that of line A: ME1400C_EXT_IRQ_CTRL_REG

me1400CD_ext_irq_io_reset_subdevice(i) ==
  Protect(Lock(i), Under(ClockLock, Rmw(LineClock(i), Enable, {})) \o Cancel(i)) \o Wake(i)

me1400CD_ext_irq_io_irq_start(i, a) ==
  IF ~LineStart(a, {"rising"}) THEN Refused
  ELSE Protect(Lock(i), Under(ClockLock, Rmw(LineClock(i), {}, Enable)) \o SetStatus(i, Run))

me1400CD_ext_irq_io_irq_wait(i, a) == IF Waits(a, {"none"}) THEN WaitForLine(i, a) ELSE Refused

me1400CD_ext_irq_io_irq_stop(i) ==
  Protect(Lock(i), Under(ClockLock, Rmw(LineClock(i), Enable, {})) \o SetStatus(i, Stop))

me1400CD_ext_irq_io_irq_test(i) == <<>>

me1400CD_ext_irq_handle(i) ==
  OnLine(i, Rmw(LineClock(i), Enable, {}) \o Store(LineClock(i), Enable, Enable) \o Bump(Count(i)))

me1400CD_ext_irq_query_number_channels == 1
me1400CD_ext_irq_query_subdevice_type  == "ext_irq"
me1400CD_ext_irq_query_subdevice_caps  == {"rising"}

-----------------------------------------------------------------------------
(* Inputs whose pins interrupt: a wait goes on when "rised" is up, and it  *)
(* clears it.                                                              *)

\* A second waiter clears a cancellation the first has not seen yet.
WaitForPins(i) ==
  Load(Rised(i))
  \o Test(Up, {{}}, SetRised(i, {}) \o Load(Count(i))
                    \o Await({Count(i)}, Rised(i), Off, Queue(i), Read(Rised(i), Off)))
  \o Load(Rised(i)) \o Test(Off, {{}}, SetRised(i, {}))

Counted(i) == SetRised(i, Up) \o Bump(Count(i))

\* With filtering only a value that matches the pattern counts.
CountedIf(i, matches) ==
  IF matches THEN Counted(i) ELSE Load(Filter(i)) \o Test(Filtering, {{}}, Counted(i))

Pattern(i)    == <<"pattern", i>>
MaskOf(i)     == <<"mask", i>>
Arguments     == {<<"arg", 0>>, <<"arg", 1>>, <<"arg", 255>>}
SetArg(r, v)  == Put(r, Arguments, {<<"arg", v>>})
PinStart(a, edges, width) ==
  \/ Starts(a, {"none", "filter", width}, {"pattern"}, {"not_used"}, {0, 1})
  \/ Starts(a, {"none", "extended", width}, {"default", "mask"}, edges, {1})

-----------------------------------------------------------------------------
(* ME-8100.                                                                *)

IntB == {<<"intb", 0>>, <<"intb", 1>>}

me8100_di_io_reset_subdevice(i, k) ==
  Protect(Lock(i), Under(CtrlLock, CopyOut(k, IntB, {}))
                   \o SetArg(MaskOf(i), 0) \o SetArg(Pattern(i), 0)
                   \o SetRised(i, Off) \o ClearCount(i) \o Put(Filter(i), Filtering, {}))
  \o Wake(i)

\* A start by mask does not take back the filter of an earlier one.
me8100_di_io_irq_start(i, k, a) ==
  LET byPattern == a.source = "pattern" IN
  IF ~PinStart(a, {"any"}, "word") THEN Refused
  ELSE Protect(Lock(i),
         (IF byPattern THEN SetArg(Pattern(i), a.arg)
                            \o Put(Filter(i), Filtering, IF a.flag = "filter" THEN Filtering ELSE {})
          ELSE SetArg(MaskOf(i), a.arg))
         \o Under(CtrlLock, CopyOut(k, IntB, IF byPattern THEN {<<"intb", 0>>} ELSE IntB))
         \o SetRised(i, {}))

me8100_di_io_irq_wait(i, a) == IF Waits(a, {"none", "status"}) THEN WaitForPins(i) ELSE Refused

me8100_di_io_irq_stop(i, k) ==
  Protect(Lock(i), Under(CtrlLock, CopyOut(k, IntB, {})) \o SetRised(i, {})
                   \o Put(Filter(i), Filtering, {}))

me8100_di_io_irq_test(i)       == <<>>
me8100_di_io_single_config(i, a) == IF Accepts(a, {"word"}, {"input"}) THEN <<>> ELSE Refused
me8100_di_io_single_read(i, a) == IfPins(Word(a), Read(Port(i), Word(a)))

me8100_di_irq_handle(i, matches) ==
  Try(Lock(i), Read(Port(i), Pins(16)) \o CountedIf(i, matches) \o Give(Lock(i)) \o Wake(i))

me8100_di_query_number_channels == 16
me8100_di_query_subdevice_type  == "di"
me8100_di_query_subdevice_caps  == {"pattern_irq", "any"}

-----------------------------------------------------------------------------
(* ME-8200: the inputs share a control and a mode register, and the latter *)
(* also with the outputs.  Version 0 of the firmware has to be told to     *)
(* clear an interrupt.                                                     *)

IrqCtrl      == <<"irq_ctrl", 0>>
IrqMode      == <<"irq_mode", 0>>
IrqCtrlLock  == <<"irq_ctrl", 0>>
IrqModeLock  == <<"irq_mode", 0>>
PinEn(i)     == {<<"en", i>>}
PinClear(i)  == {<<"clear", i>>}
PinEdge(i)   == {<<"edge0", i>>, <<"edge1", i>>}
PinEdges(i, edge) == CASE edge = "rising" -> {} [] edge = "falling" -> {<<"edge0", i>>}
                       [] edge = "any" -> PinEdge(i)
Compare(i)   == {<<"compare", i>>}
PowerEn(i)   == {<<"power", i>>}
PowerClear(i) == {<<"power_clear", i>>}

\* Enabled for a moment, then disabled and cleared.
DisablePins(i) ==
  Under(IrqCtrlLock, Load(IrqCtrl) \o Store(IrqCtrl, PinEn(i), PinEn(i))
                     \o Store(IrqCtrl, PinEn(i) \cup PinClear(i), PinClear(i)))

me8200_di_io_reset_subdevice(i) ==
  Protect(Lock(i), DisablePins(i) \o SetRised(i, Off) \o Put(Filter(i), Filtering, {}) \o ClearCount(i))
  \o Wake(i)

me8200_di_io_irq_start(i, a) ==
  LET byPattern == a.source = "pattern"
      edges == IF byPattern THEN {} ELSE PinEdge(i)
      edge  == IF byPattern THEN {} ELSE PinEdges(i, a.edge)
      bits  == edges \cup PinEn(i) \cup PinClear(i)
  IN IF ~PinStart(a, {"rising", "falling", "any"}, "byte") THEN Refused
     ELSE Protect(Lock(i),
            Put(Filter(i), Filtering, {})
            \o (IF byPattern THEN SetArg(Pattern(i), a.arg) \o SetArg(MaskOf(i), 255)
                                  \o (IF a.flag = "filter" THEN Put(Filter(i), Filtering, Filtering) ELSE <<>>)
                ELSE SetArg(MaskOf(i), a.arg))
            \o Under(IrqModeLock, Rmw(IrqMode, Compare(i), IF byPattern THEN Compare(i) ELSE {}))
            \o Under(IrqCtrlLock, Load(IrqCtrl) \o Store(IrqCtrl, bits, PinEn(i) \cup PinClear(i) \cup edge)
                                  \o Store(IrqCtrl, bits, PinEn(i) \cup edge))
            \o Read(Port(i), Pins(8)) \o SetRised(i, {}))

me8200_di_io_irq_wait(i, a) == IF Waits(a, {"none", "status"}) THEN WaitForPins(i) ELSE Refused

\* Mutant: the shared register is changed without its lock.
me8200_di_irq_stop_unlocked(i) ==
  Under(Lock(i), Load(IrqCtrl) \o Store(IrqCtrl, PinEn(i), PinEn(i))
                 \o Store(IrqCtrl, PinEn(i) \cup PinClear(i), PinClear(i))
                 \o SetRised(i, Off) \o Put(Filter(i), Filtering, {}))

\* The waits are cancelled, but nobody is woken.
me8200_di_io_irq_stop(i) ==
  Protect(Lock(i), DisablePins(i) \o SetRised(i, Off) \o Put(Filter(i), Filtering, {}))

me8200_di_io_irq_test(i)       == <<>>
me8200_di_io_single_config(i, a) == IF Accepts(a, {"byte"}, {"input"}) THEN <<>> ELSE Refused
me8200_di_io_single_read(i, a) == IfPins(Byte(a), Read(Port(i), Byte(a)))

me8200_di_irq_handle(i, matches) ==
  Try(Lock(i), Load(IrqCtrl) \o Store(IrqCtrl, PinClear(i), PinClear(i)) \o Store(IrqCtrl, PinClear(i), {})
               \o Read(Port(i), Pins(8)) \o CountedIf(i, matches) \o Give(Lock(i)) \o Wake(i))

me8200_di_irq_handle_EX(i, matches) ==
  Try(Lock(i), CountedIf(i, matches) \o Give(Lock(i)) \o Wake(i))

me8200_di_query_number_channels == 8
me8200_di_query_subdevice_type  == "di"
me8200_di_query_subdevice_caps  == {"pattern_irq", "rising", "falling", "any"}

\* Firmware before 7 (and beyond 31) is taken for version 0.
me8200_di_check_version(version) == IF version < 7 \/ version > 31 THEN 0 ELSE version

-----------------------------------------------------------------------------
(* ME-8200 outputs.                                                        *)

me8200_do_io_reset_subdevice(i) ==
  Protect(Lock(i), Put(Port(i), Pins(8), {})
                   \o Under(IrqModeLock, Rmw(IrqMode, PowerEn(i), {}))
                   \o SetRised(i, Off) \o ClearCount(i))
  \o Wake(i)

me8200_do_io_irq_start(i, a) ==
  IF ~Starts(a, {"none", "byte"}, {"default", "over_temp"}, {"not_used"}, {0}) THEN Refused
  ELSE Protect(Lock(i), Under(IrqModeLock, Rmw(IrqMode, {}, PowerEn(i))) \o SetRised(i, {}))

\* Whatever the end, also a time-out, "rised" is cleared.
me8200_do_io_irq_wait(i, a) ==
  IF ~Waits(a, {"none"}) THEN Refused
  ELSE Load(Rised(i))
       \o Test(Up, {{}}, SetRised(i, {}) \o Await({}, Rised(i), Up \cup Off, Queue(i), SetRised(i, {}))
                         \o Read(Rised(i), Off))
       \o SetRised(i, {})

me8200_do_io_irq_stop(i) ==
  Protect(Lock(i), Under(IrqModeLock, Rmw(IrqMode, PowerEn(i), {})) \o SetRised(i, {}))

me8200_do_io_single_config(i, a) == IF Accepts(a, {"byte"}, {"output"}) THEN <<>> ELSE Refused
me8200_do_io_single_read(i, a)   == IfPins(Byte(a), Read(Port(i), Byte(a)))

me8200_do_io_single_write(i, a, v) ==
  IfPins(Byte(a), Under(Lock(i), Rmw(Port(i), Byte(a), On(v, Byte(a)))))

\* The mode register is changed without its lock: whoever else changes it
\* has masked the interrupt.
me8200_do_irq_handle(i) ==
  Try(Lock(i), Counted(i) \o Load(IrqMode) \o Store(IrqMode, PowerClear(i), PowerClear(i))
               \o Store(IrqMode, PowerClear(i), {}) \o Give(Lock(i)) \o Wake(i))

me8200_do_query_number_channels == 8
me8200_do_query_subdevice_type  == "do"
me8200_do_query_subdevice_caps  == {"over_temp_irq"}


=============================================================================
