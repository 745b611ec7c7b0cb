----------------------------- MODULE DigitalIO -----------------------------
(***************************************************************************)
(* The digital inputs and outputs and the relays of the boards: one        *)
(* operator per method, which gives the register program of a call for     *)
(* subdevice i of the board (see Ports), or Refused.  Registers of all     *)
(* boards have the same names: the port of subdevice i, a control register *)
(* shared by the ports with its own lock, a mirror where the driver keeps  *)
(* one.                                                                    *)
(***************************************************************************)
EXTENDS Ports, SequencesExt

-----------------------------------------------------------------------------
(* Names.                                                                  *)

Ctrl        == <<"ctrl", 0>>                 \* directions of all the ports
Chip        == <<"chip", 0>>                 \* mode register of the 8255
Copy        == <<"copy", 0>>                 \* the ME-8100's copy of Ctrl
Port(i)     == <<"port", i>>
Low(i)      == <<"low", i>>                  \* a port that is active low
Mirror(i)   == <<"mirror", i>>
Lock(i)     == <<"sub", i>>                  \* ME_SUBDEVICE_LOCK
CtrlLock    == <<"ctrl", 0>>

Out(i)      == {<<"out", i>>}                \* bits of Ctrl
Fifo(i)     == {<<"fifo", i>>}
High(i)     == {<<"high", i>>}
FunctionBits    == {<<"mux", 0>>, <<"demux", 0>>}
ModeBits(i) == Out(i) \cup Fifo(i)

-----------------------------------------------------------------------------
(* Arguments.                                                              *)

Flags     == {"none", "bit", "byte", "word", "dword"}
Modes     == {"input", "output", "high_impedance", "sink", "source",
              "bit_pattern", "mux32m", "demux32"}
Levels    == {"low", "high"}
Access    == [flag : Flags, channel : -1 .. 32]
ConfigArg == [flag : Flags, mode : Modes, ref : {"none", "fifo_low", "fifo_high"},
              type : {"none", "sw", "ext"}, chain : {"none", "default"},
              edge : {"none", "rising"}, channel : {0, 1}]

\* Trigger arguments: none at all, or a software trigger of the default chain.
Triggered(a) ==
  a.edge = "none" /\ <<a.type, a.chain>> \in {<<"none", "none">>, <<"sw", "default">>}

\* The checks all single_config methods share.
Accepts(a, flags, modes) ==
  /\ a.flag \in flags \cup {"none"} /\ Triggered(a)
  /\ a.ref = "none" /\ a.mode \in modes /\ a.channel = 0

\* The pins a flag and a channel stand for, {} if there are none.
Group(width, flags, a) ==
  LET size == CASE a.flag = "bit" -> 1 [] a.flag = "byte" -> 8 [] a.flag = "word" -> 16
                [] a.flag = "dword" -> 32 [] OTHER -> width
      first == a.channel * size
  IN IF a.flag \in flags \cup {"none", "bit"} /\ first >= 0 /\ first + size <= width
     THEN first .. first + size - 1 ELSE {}

Pins(width) == 0 .. width - 1
Byte(a)     == Group(8, {"byte"}, a)
Word(a)     == Group(16, {"byte", "word"}, a)
Dword(a)    == Group(32, {"byte", "word", "dword"}, a)
On(v, pins) == IF v = "high" THEN pins ELSE {}

IfPins(pins, program) == IF pins = {} THEN Refused ELSE program

\* A port is written if it is an output.
IfOutput(i, program) == Load(Ctrl) \o Test(Out(i), {Out(i)}, program)

-----------------------------------------------------------------------------
(* ME-1000: 32 bits per port.                                              *)

me1000_dio_io_reset_subdevice(i) ==
  Under(Lock(i), Under(CtrlLock, Rmw(Ctrl, Out(i), {})) \o Put(Port(i), Pins(32), {}))

me1000_dio_io_single_config(i, a) ==
  IF ~Accepts(a, {"dword"}, {"input", "output"}) THEN Refused
  ELSE Under(Lock(i), Under(CtrlLock,
         Rmw(Ctrl, Out(i), IF a.mode = "output" THEN Out(i) ELSE {})))

me1000_dio_io_single_read(i, a) == IfPins(Dword(a), Read(Port(i), Dword(a)))

\* Mutant: the direction is tested before the lock is taken.
me1000_dio_single_write_early(i, a, v) ==
  IfPins(Dword(a), IfOutput(i, Under(Lock(i), Rmw(Port(i), Dword(a), On(v, Dword(a))))))

me1000_dio_io_single_write(i, a, v) ==
  IfPins(Dword(a), Under(Lock(i), IfOutput(i, Rmw(Port(i), Dword(a), On(v, Dword(a))))))

me1000_dio_query_number_channels == 32
me1000_dio_query_subdevice_type  == "dio"
me1000_dio_query_subdevice_caps  == {"dir_dword"}

-----------------------------------------------------------------------------
(* ME-0600: 8-bit ports with direction bits, inputs, and relays, whose 16  *)
(* channels are two ports.                                                 *)

me0600_dio_io_reset_subdevice(i) ==
  Under(Lock(i), Under(CtrlLock, Rmw(Ctrl, ModeBits(i), {})) \o Put(Port(i), Pins(8), {}))

me0600_dio_io_single_config(i, a) ==
  IF ~Accepts(a, {"byte"}, {"input", "output"}) THEN Refused
  ELSE Under(Lock(i), Under(CtrlLock,
         Rmw(Ctrl, Out(i), IF a.mode = "output" THEN Out(i) ELSE {})))

me0600_dio_io_single_read(i, a) == IfPins(Byte(a), Under(Lock(i), Read(Port(i), Byte(a))))

me0600_dio_io_single_write(i, a, v) ==
  IfPins(Byte(a), Under(Lock(i), IfOutput(i, Rmw(Port(i), Byte(a), On(v, Byte(a))))))

me0600_dio_query_number_channels == 8
me0600_dio_query_subdevice_type  == "dio"
me0600_dio_query_subdevice_caps  == {"dir_byte"}

me0600_di_io_single_config(i, a) == IF Accepts(a, {"byte"}, {"input"}) THEN <<>> ELSE Refused
me0600_di_io_single_read(i, a)   == IfPins(Byte(a), Under(Lock(i), Read(Port(i), Byte(a))))
me0600_di_query_number_channels  == 8
me0600_di_query_subdevice_type   == "di"

\* Channels 0 to 7 are port 0 and 8 to 15 are port 1 of the relay.
Relay(k) == <<"relay", k>>
Half(pins, k) == {p - 8 * k : p \in pins \cap (8 * k .. 8 * k + 7)}
OnHalf(pins, k, F(_, _)) == IF Half(pins, k) = {} THEN <<>> ELSE F(k, Half(pins, k))

me0600_relay_io_reset_subdevice(i) ==
  Under(Lock(i), Put(Relay(0), Pins(8), {}) \o Put(Relay(1), Pins(8), {}))

me0600_relay_io_single_config(i, a) == IF Accepts(a, {"word"}, {"output"}) THEN <<>> ELSE Refused

me0600_relay_io_single_read(i, a) ==
  LET ReadHalf(k, pins) == Read(Relay(k), pins) IN
  IfPins(Word(a), Under(Lock(i), OnHalf(Word(a), 1, ReadHalf) \o OnHalf(Word(a), 0, ReadHalf)))

me0600_relay_io_single_write(i, a, v) ==
  LET WriteHalf(k, pins) == IF pins = Pins(8) THEN Put(Relay(k), pins, On(v, pins))
                            ELSE Rmw(Relay(k), pins, On(v, pins))
  IN IfPins(Word(a), Under(Lock(i), OnHalf(Word(a), 0, WriteHalf) \o OnHalf(Word(a), 1, WriteHalf)))

me0600_relay_query_number_channels == 16
me0600_relay_query_subdevice_type  == "do"
me0600_relay_query_subdevice_caps  == {}

-----------------------------------------------------------------------------
(* ME-0900: inputs and outputs are active low.  The reset of the outputs   *)
(* takes no lock.                                                          *)

me0900_di_io_single_config(i, a) == IF Accepts(a, {"byte"}, {"input"}) THEN <<>> ELSE Refused
me0900_di_io_single_read(i, a)   == IfPins(Byte(a), Read(Low(i), Byte(a)))
me0900_di_query_number_channels  == 8
me0900_di_query_subdevice_type   == "di"
me0900_di_query_subdevice_caps   == {}

me0900_do_io_reset_subdevice(i)  == Put(Low(i), Pins(8), {})
me0900_do_io_single_config(i, a) == IF Accepts(a, {"byte"}, {"output"}) THEN <<>> ELSE Refused
me0900_do_io_single_read(i, a)   == IfPins(Byte(a), Read(Low(i), Byte(a)))

me0900_do_io_single_write(i, a, v) ==
  IfPins(Byte(a), Under(Lock(i),
    IF a.flag = "bit" THEN Rmw(Low(i), Byte(a), On(v, Byte(a)))
    ELSE Put(Low(i), Pins(8), On(v, Pins(8)))))

me0900_do_query_number_channels == 8
me0900_do_query_subdevice_type  == "do"
me0900_do_query_subdevice_caps  == {}

-----------------------------------------------------------------------------
(* ME-4600 (and ME-0700, ME-4700): a port may be wired as an input or an   *)
(* output only, and may be fed from the FIFO of an analog output.          *)

me4600_dio_io_reset_subdevice(i, type) ==
  Under(Lock(i),
    Under(CtrlLock, Rmw(Ctrl, ModeBits(i) \cup High(i) \cup FunctionBits,
                        IF type = "do" THEN Out(i) ELSE {}))
    \o Put(Port(i), Pins(8), {}))

\* References and modes that go together.  A wrong channel sets the error
\* but does not stop the call.
me4600_dio_config_check(a, type) ==
  /\ a.flag \in {"none", "byte"} /\ Triggered(a)
  /\ a.ref # "none" => type # "di"
  /\ CASE a.mode = "input"  -> type # "do" /\ a.ref = "none"
       [] a.mode = "output" -> type # "di" /\ a.ref = "none"
       [] a.mode \in {"bit_pattern", "mux32m", "demux32"} -> type # "di" /\ a.ref # "none"
       [] OTHER -> FALSE

me4600_dio_io_single_config(i, type, a) ==
  LET function == CASE a.mode = "mux32m" -> {<<"mux", 0>>} [] a.mode = "demux32" -> {<<"demux", 0>>}
                    [] OTHER -> {}
      streams  == a.mode \notin {"input", "output"}
      mode == CASE a.mode = "input" -> {} [] a.mode = "output" -> Out(i) [] OTHER -> ModeBits(i)
  IN IF ~me4600_dio_config_check(a, type) THEN Refused
     ELSE Under(Lock(i), Under(CtrlLock,
            Rmw(Ctrl, ModeBits(i) \cup High(i) \cup (IF streams THEN FunctionBits ELSE {}),
                mode \cup function \cup (IF a.ref = "fifo_high" THEN High(i) ELSE {}))))

\* The mode is only looked at after the value has been read.
me4600_dio_io_single_read(i, a) ==
  IfPins(Byte(a), Under(Lock(i), Read(Port(i), Byte(a)) \o Load(Ctrl)))

\* The whole mode of the port is compared.
IfModeIs(bits, mode, program) == Load(Ctrl) \o Test(bits, {mode}, program)

ByteOrBit(i, a, v) ==
  IF a.flag = "bit" THEN Rmw(Port(i), Byte(a), On(v, Byte(a)))
  ELSE Put(Port(i), Pins(8), On(v, Pins(8)))

me4600_dio_io_single_write(i, a, v) ==
  IfPins(Byte(a), Under(Lock(i), IfModeIs(ModeBits(i), Out(i), ByteOrBit(i, a, v))))

me4600_dio_query_number_channels      == 8
me4600_dio_query_subdevice_type(type) == type
me4600_dio_query_subdevice_caps       == {"dir_byte"}

-----------------------------------------------------------------------------
(* ME-6000: a write shifts by the wrong amount, and looks at the mode of   *)
(* another port unless it is for port 0.                                   *)

me6000_dio_io_reset_subdevice(i) ==
  Under(Lock(i), Under(CtrlLock, Rmw(Ctrl, ModeBits(i), {})) \o Put(Port(i), Pins(8), {}))

me6000_dio_io_single_config(i, a) ==
  IF ~Accepts(a, {"byte"}, {"input", "output"}) THEN Refused
  ELSE Under(Lock(i), Under(CtrlLock,
         Rmw(Ctrl, ModeBits(i), IF a.mode = "output" THEN Out(i) ELSE {})))

me6000_dio_io_single_read(i, a) == IfPins(Byte(a), Read(Port(i), Byte(a)) \o Load(Ctrl))

\* idx << (idx * SHIFT) instead of idx * SHIFT, in units of SHIFT = 2 bits.
me6000_dio_tested(i) == (i * 4 ^ i) \div 2

me6000_dio_io_single_write(i, a, v) ==
  LET k == me6000_dio_tested(i) IN
  IfPins(Byte(a), Under(Lock(i), IfModeIs(ModeBits(k), Out(k), ByteOrBit(i, a, v))))

me6000_dio_query_number_channels == 8
me6000_dio_query_subdevice_type  == "dio"
me6000_dio_query_subdevice_caps  == {"dir_byte"}

-----------------------------------------------------------------------------
(* ME-8100 outputs: 16 bits, with a mirror because the port cannot be read *)
(* and a copy of the control register, which is shared with the inputs.    *)
(* The B model has two control registers, k = 0 and 1, and still one copy. *)
(* The port is written with the argument of the call and not the mirror.   *)

Control(k) == <<"ctrl", k>>
Drive      == {<<"enable", 0>>, <<"source", 0>>}

\* The copy is changed in memory and written out, both under CtrlLock.
CopyOut(k, clear, set) == Rmw(Copy, clear, set) \o Load(Copy) \o Store(Control(k), clear, set)

me8100_do_io_reset_subdevice(i, k) ==
  Under(Lock(i), Under(CtrlLock, CopyOut(k, Drive, {}))
                 \o Put(Port(i), Pins(16), {}) \o Put(Mirror(i), Pins(16), {}))

me8100_do_io_single_config(i, k, a) ==
  LET set == CASE a.mode = "high_impedance" -> {} [] a.mode = "sink" -> {<<"enable", 0>>}
               [] OTHER -> Drive
      clear == IF a.mode = "high_impedance" THEN {<<"enable", 0>>} ELSE Drive
  IN IF ~Accepts(a, {"word"}, {"high_impedance", "sink", "source"}) THEN Refused
     ELSE Under(Lock(i), Under(CtrlLock, CopyOut(k, clear, set)))

me8100_do_io_single_read(i, a) == IfPins(Word(a), Read(Mirror(i), Word(a)))

me8100_do_io_single_write(i, a, v) ==
  LET raw == Word([a EXCEPT !.channel = 0]) IN
  IfPins(Word(a), Under(Lock(i), Rmw(Mirror(i), Word(a), On(v, Word(a)))
                                 \o Put(Port(i), Pins(16), On(v, raw))))

me8100_do_query_number_channels == 16
me8100_do_query_subdevice_type  == "do"
me8100_do_query_subdevice_caps  == {"sink_source"}

-----------------------------------------------------------------------------
(* ME-8200: ports with directions, read and written under both locks.      *)

me8200_dio_io_reset_subdevice(i) ==
  Under(Lock(i), Under(CtrlLock, Rmw(Ctrl, ModeBits(i), {})) \o Put(Port(i), Pins(8), {}))

me8200_dio_io_single_config(i, a) ==
  IF ~Accepts(a, {"byte"}, {"input", "output"}) THEN Refused
  ELSE Under(Lock(i), Under(CtrlLock,
         Rmw(Ctrl, ModeBits(i), IF a.mode = "output" THEN Out(i) ELSE {})))

me8200_dio_io_single_read(i, a) ==
  IfPins(Byte(a), Under(Lock(i), Under(CtrlLock,
    Load(Ctrl) \o Test(ModeBits(i), {{}, Out(i)}, Read(Port(i), Byte(a))))))

me8200_dio_io_single_write(i, a, v) ==
  IfPins(Byte(a), Under(Lock(i), Under(CtrlLock, IfModeIs(ModeBits(i), Out(i), ByteOrBit(i, a, v)))))

me8200_dio_query_number_channels == 8
me8200_dio_query_subdevice_type  == "dio"
me8200_dio_query_subdevice_caps  == {"dir_byte"}

-----------------------------------------------------------------------------
(* The 8255 chips of the ME-1400: three ports whose directions are set     *)
(* together; a new mode clears all outputs, which are then written again   *)
(* from the mirror.  A bit is written from the register of port 0,         *)
(* whatever the port.                                                      *)

ChipPorts == {Port(k) : k \in 0 .. 2}

\* The mode byte (its bits that are one) for a set of outputs.
get_mode_from_mirror(out) ==
  LET dir == <<Out(0) \subseteq out, Out(1) \subseteq out, Out(2) \subseteq out>> IN
  CASE dir = <<TRUE, TRUE, TRUE>>    -> {7}             \* ME8255_MODE_OOO 0x80
    [] dir = <<TRUE, TRUE, FALSE>>   -> {7, 3, 0}       \* ME8255_MODE_IOO 0x89
    [] dir = <<TRUE, FALSE, TRUE>>   -> {7, 1}          \* ME8255_MODE_OIO 0x82
    [] dir = <<TRUE, FALSE, FALSE>>  -> {7, 3, 1, 0}    \* ME8255_MODE_IIO 0x8B
    [] dir = <<FALSE, TRUE, TRUE>>   -> {7, 4}          \* ME8255_MODE_OOI 0x90
    [] dir = <<FALSE, TRUE, FALSE>>  -> {7, 4, 3, 0}    \* ME8255_MODE_IOI 0x99
    [] dir = <<FALSE, FALSE, TRUE>>  -> {7, 4, 1}       \* ME8255_MODE_OII 0x92
    [] OTHER                         -> {7, 4, 3, 1, 0} \* ME8255_MODE_III 0x9B

ModeBytes == [out \in SUBSET (Out(0) \cup Out(1) \cup Out(2)) |-> get_mode_from_mirror(out)]

me8255_reconfigure_chip(i) ==
  Put(Mirror(i), Pins(8), {}) \o Mode(Chip, Ctrl, ModeBytes, ChipPorts, Port(i))
  \o Restore(Port(0), Mirror(0)) \o Restore(Port(1), Mirror(1)) \o Restore(Port(2), Mirror(2))

me8255_io_reset_subdevice(i) ==
  Under(Lock(i), Under(CtrlLock, Rmw(Ctrl, Out(i), {}) \o me8255_reconfigure_chip(i)))

\* Nothing is done when the direction does not change.
me8255_io_single_config(i, a) ==
  LET set == IF a.mode = "output" THEN Out(i) ELSE {} IN
  IF ~Accepts(a, {"byte"}, {"input", "output"}) THEN Refused
  ELSE Under(Lock(i), Under(CtrlLock,
         Load(Ctrl) \o Test(Out(i), {Out(i) \ set}, Store(Ctrl, Out(i), set) \o me8255_reconfigure_chip(i))))

me8255_io_single_read(i, a) == IfPins(Byte(a), Read(Port(i), Byte(a)))

me8255_io_single_write(i, a, v) ==
  LET Both(pins, set, From(_, _, _)) == From(Mirror(i), pins, set) \o From(Port(i), pins, set) IN
  IfPins(Byte(a), Under(Lock(i), Under(CtrlLock, IfOutput(i,
    IF a.flag = "bit" THEN Load(Port(0)) \o Both(Byte(a), On(v, Byte(a)), Store)
    ELSE Both(Pins(8), On(v, Pins(8)), Put)))))

me8255_query_number_channels == 8
me8255_query_subdevice_type  == "dio"
me8255_query_subdevice_caps  == {"dir_byte"}

-----------------------------------------------------------------------------
(* The constructors: the methods and the answers of each subdevice.  A     *)
(* method that is not registered refuses.                                  *)

NoMethod2(a, v) == Refused

Made(reset, Config(_), ReadIt(_), Write(_, _), channels, type, caps) ==
  [reset |-> reset, config |-> [a \in ConfigArg |-> Config(a)],
   read |-> [a \in Access |-> ReadIt(a)],
   write |-> [x \in Access \X Levels |-> Write(x[1], x[2])],
   channels |-> channels, type |-> type, caps |-> caps,
   start |-> <<>>, wait |-> <<>>, stop |-> Refused, test |-> Refused, irqs |-> {}]

me1000_dio_constr(i) ==
  Made(me1000_dio_io_reset_subdevice(i), LAMBDA a : me1000_dio_io_single_config(i, a),
       LAMBDA a : me1000_dio_io_single_read(i, a), LAMBDA a, v : me1000_dio_io_single_write(i, a, v),
       me1000_dio_query_number_channels, me1000_dio_query_subdevice_type, me1000_dio_query_subdevice_caps)

me0600_dio_constr(i) ==
  Made(me0600_dio_io_reset_subdevice(i), LAMBDA a : me0600_dio_io_single_config(i, a),
       LAMBDA a : me0600_dio_io_single_read(i, a), LAMBDA a, v : me0600_dio_io_single_write(i, a, v),
       me0600_dio_query_number_channels, me0600_dio_query_subdevice_type, me0600_dio_query_subdevice_caps)

me0600_di_constr(i) ==
  Made(Refused, LAMBDA a : me0600_di_io_single_config(i, a),
       LAMBDA a : me0600_di_io_single_read(i, a), NoMethod2,
       me0600_di_query_number_channels, me0600_di_query_subdevice_type, {})

me0600_relay_constr(i) ==
  Made(me0600_relay_io_reset_subdevice(i), LAMBDA a : me0600_relay_io_single_config(i, a),
       LAMBDA a : me0600_relay_io_single_read(i, a), LAMBDA a, v : me0600_relay_io_single_write(i, a, v),
       me0600_relay_query_number_channels, me0600_relay_query_subdevice_type, me0600_relay_query_subdevice_caps)

me0900_di_constr(i) ==
  Made(Refused, LAMBDA a : me0900_di_io_single_config(i, a),
       LAMBDA a : me0900_di_io_single_read(i, a), NoMethod2,
       me0900_di_query_number_channels, me0900_di_query_subdevice_type, me0900_di_query_subdevice_caps)

me0900_do_constr(i) ==
  Made(me0900_do_io_reset_subdevice(i), LAMBDA a : me0900_do_io_single_config(i, a),
       LAMBDA a : me0900_do_io_single_read(i, a), LAMBDA a, v : me0900_do_io_single_write(i, a, v),
       me0900_do_query_number_channels, me0900_do_query_subdevice_type, me0900_do_query_subdevice_caps)

\* No writing to an input port; the directions can only be asked of a dio port.
me4600_dio_constr(i, type) ==
  Made(me4600_dio_io_reset_subdevice(i, type), LAMBDA a : me4600_dio_io_single_config(i, type, a),
       LAMBDA a : me4600_dio_io_single_read(i, a),
       LAMBDA a, v : IF type = "di" THEN Refused ELSE me4600_dio_io_single_write(i, a, v),
       me4600_dio_query_number_channels, me4600_dio_query_subdevice_type(type),
       IF type = "dio" THEN me4600_dio_query_subdevice_caps ELSE {})

me6000_dio_constr(i) ==
  Made(me6000_dio_io_reset_subdevice(i), LAMBDA a : me6000_dio_io_single_config(i, a),
       LAMBDA a : me6000_dio_io_single_read(i, a), LAMBDA a, v : me6000_dio_io_single_write(i, a, v),
       me6000_dio_query_number_channels, me6000_dio_query_subdevice_type, me6000_dio_query_subdevice_caps)

me8100_do_constr(i, k) ==
  Made(me8100_do_io_reset_subdevice(i, k), LAMBDA a : me8100_do_io_single_config(i, k, a),
       LAMBDA a : me8100_do_io_single_read(i, a), LAMBDA a, v : me8100_do_io_single_write(i, a, v),
       me8100_do_query_number_channels, me8100_do_query_subdevice_type, me8100_do_query_subdevice_caps)

me8200_dio_constr(i) ==
  Made(me8200_dio_io_reset_subdevice(i), LAMBDA a : me8200_dio_io_single_config(i, a),
       LAMBDA a : me8200_dio_io_single_read(i, a), LAMBDA a, v : me8200_dio_io_single_write(i, a, v),
       me8200_dio_query_number_channels, me8200_dio_query_subdevice_type, me8200_dio_query_subdevice_caps)

me8255_constr(i) ==
  Made(me8255_io_reset_subdevice(i), LAMBDA a : me8255_io_single_config(i, a),
       LAMBDA a : me8255_io_single_read(i, a), LAMBDA a, v : me8255_io_single_write(i, a, v),
       me8255_query_number_channels, me8255_query_subdevice_type, me8255_query_subdevice_caps)

=============================================================================
