------------------------------- MODULE Ports -------------------------------
(***************************************************************************)
(* The register engine under the smaller subdevices of the driver.  A      *)
(* subdevice method is a short program of register accesses and spin locks *)
(* (me_readX, me_writeX, ME_SPIN_LOCK, ME_SUBDEVICE_LOCK), and the methods *)
(* of several tasks interleave access by access, with the interrupt        *)
(* handler as one more task.  DigitalIO, Counters and Interrupts give the  *)
(* programs, one operator per method of the source; here are the steps     *)
(* they are made of and the actions that execute them.                     *)
(*                                                                         *)
(* A register holds the set of its bits that are one.  A bit of a port is  *)
(* its number; a register or a lock is a tuple of a name and a number.     *)
(* The variables of a subdevice that its handler shares with its methods   *)
(* are registers too.                                                      *)
(*                                                                         *)
(* "want" is a ghost: what a register would hold if every write of a       *)
(* method had been done in one piece, in the terms of the caller (an       *)
(* output is on, whatever its level on the wire).                          *)
(***************************************************************************)
EXTENDS Integers, Sequences, FiniteSets

CONSTANTS Task,         \* the tasks that call subdevice methods, and ...
          Isr           \* ... the interrupt handler of the board

ASSUME IsrAssumption == Isr \in Task

VARIABLES
  board,    \* the board of this behaviour
  reg,      \* its registers
  want,     \* ghost: what the callers asked of each register
  todo,     \* per task: the steps of the running method still to do
  tmp,      \* per task: the value last loaded (the local of the method)
  held,     \* per task: the spin locks it holds
  asleep    \* the tasks that sleep in a wait queue

portvars == <<board, reg, want, todo, tmp, held, asleep>>

-----------------------------------------------------------------------------
(* Steps.                                                                  *)

Take(l)  == <<[do |-> "take", lock |-> l]>>
Give(l)  == <<[do |-> "give", lock |-> l]>>
Load(r)  == <<[do |-> "load", reg |-> r]>>

\* Write the loaded value back with the bits "clear" set to "set".
Store(r, clear, set) == <<[do |-> "store", reg |-> r, clear |-> clear, set |-> set]>>

\* Write a value without a load: the bits given are all there are, or the
\* chip leaves the others alone.
Put(r, all, set) == <<[do |-> "put", reg |-> r, clear |-> all, set |-> set]>>

\* Load one register more, or take a value the caller brought.
LoadAlso(r) == <<[do |-> "also", reg |-> r]>>
Given(v)    == <<[do |-> "given", value |-> v]>>

\* A counter variable: a register that holds one bit, <<name, number>>.
Bump(r) == <<[do |-> "bump", reg |-> r]>>

\* Deliver the bits "pins" of a register to the caller.
Read(r, pins) == <<[do |-> "read", reg |-> r, pins |-> pins]>>

\* Go on with "body" if the loaded bits "mask" have one of the values "in".
Test(mask, in, body) == <<[do |-> "test", mask |-> mask, in |-> in, body |-> body]>>

\* The 8255 chip gets the mode for the directions in "from" and clears all
\* its output latches; the port "own" is to be off from now on.
Mode(r, from, code, ports, own) ==
  <<[do |-> "mode", reg |-> r, from |-> from, code |-> code, ports |-> ports, own |-> own]>>

\* A latch is written again from its mirror, unless that is zero.
Restore(r, from) == <<[do |-> "restore", reg |-> r, from |-> from]>>

\* Interrupt protection (me_lock_protector): disable_irq waits for a running
\* handler and keeps it from starting again; the handler for its part only
\* tries the lock of the subdevice (me_handler_protector), and leaves its
\* work undone if somebody has it.
IrqLine   == <<"irq", 0>>
Mask      == <<[do |-> "mask"]>>
Unmask    == <<[do |-> "unmask"]>>
Try(l, program) == <<[do |-> "try", lock |-> l, body |-> program]>>

\* Wait queues.  A waiter goes on when a register of "news" is no longer
\* what it loaded, or register r has one of "bits" set; or it leaves, by a
\* time-out or a signal, to do "late" instead of the rest.
Await(news, r, bits, queue, late) ==
  <<[do |-> "await", news |-> news, reg |-> r, bits |-> bits, queue |-> queue, late |-> late]>>
WakeIf(queue, r, bits) == <<[do |-> "wake", queue |-> queue, reg |-> r, bits |-> bits]>>

\* The common shapes of a method.
Under(l, program)  == Take(l) \o program \o Give(l)
Rmw(r, clear, set) == Load(r) \o Store(r, clear, set)
Protect(l, program) == Mask \o Under(l, program) \o Unmask

\* A call that is refused for its arguments does nothing.
Refused == <<[do |-> "refused"]>>

-----------------------------------------------------------------------------
(* Levels.  The outputs of some boards are active low: a one switches off. *)

ActiveLow(r)        == r[1] = "low"
Level(r, pins, on)  == IF ActiveLow(r) THEN pins \ on ELSE on

Holders(l) == {t \in Task : l \in held[t]}
Idle(t)    == todo[t] = <<>>
Doing(t, what) == ~Idle(t) /\ Head(todo[t]).do = what

-----------------------------------------------------------------------------
(* Actions: one step of one task.                                          *)

\* Locals are dead once a method is over.
Proceed(t, rest) ==
  /\ todo' = [todo EXCEPT ![t] = rest]
  /\ tmp'  = [tmp EXCEPT ![t] = IF rest = <<>> THEN {} ELSE @]

take(t) ==
  LET s == Head(todo[t]) IN
  /\ Doing(t, "take") /\ Holders(s.lock) = {}
  /\ held' = [held EXCEPT ![t] = @ \cup {s.lock}]
  /\ Proceed(t, Tail(todo[t])) /\ UNCHANGED <<board, reg, want, asleep>>

give(t) ==
  /\ Doing(t, "give")
  /\ held' = [u \in Task |-> held[u] \ {Head(todo[t]).lock}]
  /\ Proceed(t, Tail(todo[t])) /\ UNCHANGED <<board, reg, want, asleep>>

load(t) ==
  /\ Doing(t, "load")
  /\ tmp'  = [tmp EXCEPT ![t] = IF Len(todo[t]) = 1 THEN {} ELSE reg[Head(todo[t]).reg]]
  /\ todo' = [todo EXCEPT ![t] = Tail(@)]
  /\ UNCHANGED <<board, reg, want, held, asleep>>

Asked(s) == [want EXCEPT ![s.reg] = (@ \ s.clear) \cup s.set]

store(t) ==
  LET s == Head(todo[t]) IN
  /\ Doing(t, "store")
  /\ reg'  = [reg EXCEPT ![s.reg] = (tmp[t] \ s.clear) \cup Level(s.reg, s.clear, s.set)]
  /\ want' = Asked(s)
  /\ Proceed(t, Tail(todo[t])) /\ UNCHANGED <<board, held, asleep>>

put(t) ==
  LET s == Head(todo[t]) IN
  /\ Doing(t, "put")
  /\ reg'  = [reg EXCEPT ![s.reg] = Level(s.reg, s.clear, s.set)]
  /\ want' = Asked(s)
  /\ Proceed(t, Tail(todo[t])) /\ UNCHANGED <<board, held, asleep>>

read(t) ==
  /\ Doing(t, "read")
  /\ Proceed(t, Tail(todo[t])) /\ UNCHANGED <<board, reg, want, held, asleep>>

Passes(t) == (tmp[t] \cap Head(todo[t]).mask) \in Head(todo[t]).in

test(t) ==
  /\ Doing(t, "test")
  /\ Proceed(t, (IF Passes(t) THEN Head(todo[t]).body ELSE <<>>) \o Tail(todo[t]))
  /\ UNCHANGED <<board, reg, want, held, asleep>>

change_mode(t) ==
  LET s == Head(todo[t]) IN
  /\ Doing(t, "mode")
  /\ reg'  = [r \in DOMAIN reg |-> CASE r = s.reg      -> s.code[reg[s.from]]
                                     [] r \in s.ports -> {}
                                     [] OTHER        -> reg[r]]
  /\ want' = [want EXCEPT ![s.reg] = want[s.from], ![s.own] = {}]
  /\ Proceed(t, Tail(todo[t])) /\ UNCHANGED <<board, held, asleep>>

restore(t) ==
  LET s == Head(todo[t]) IN
  /\ Doing(t, "restore")
  /\ reg' = [reg EXCEPT ![s.reg] = IF reg[s.from] = {} THEN @ ELSE reg[s.from]]
  /\ Proceed(t, Tail(todo[t])) /\ UNCHANGED <<board, want, held, asleep>>

load_also(t) ==
  /\ Doing(t, "also")
  /\ tmp'  = [tmp EXCEPT ![t] = @ \cup reg[Head(todo[t]).reg]]
  /\ todo' = [todo EXCEPT ![t] = Tail(@)]
  /\ UNCHANGED <<board, reg, want, held, asleep>>

given(t) ==
  /\ Doing(t, "given")
  /\ tmp'  = [tmp EXCEPT ![t] = Head(todo[t]).value]
  /\ todo' = [todo EXCEPT ![t] = Tail(@)]
  /\ UNCHANGED <<board, reg, want, held, asleep>>

Next1(value) == {<<b[1], b[2] + 1>> : b \in value}

bump(t) ==
  LET r == Head(todo[t]).reg IN
  /\ Doing(t, "bump")
  /\ reg'  = [reg EXCEPT ![r] = Next1(@)]
  /\ want' = [want EXCEPT ![r] = Next1(@)]
  /\ Proceed(t, Tail(todo[t])) /\ UNCHANGED <<board, held, asleep>>

disable_irq(t) ==
  /\ Doing(t, "mask") /\ Idle(Isr)
  /\ held' = [held EXCEPT ![t] = @ \cup {IrqLine}]
  /\ Proceed(t, Tail(todo[t])) /\ UNCHANGED <<board, reg, want, asleep>>

enable_irq(t) ==
  /\ Doing(t, "unmask")
  /\ held' = [held EXCEPT ![t] = @ \ {IrqLine}]
  /\ Proceed(t, Tail(todo[t])) /\ UNCHANGED <<board, reg, want, asleep>>

try_lock(t) ==
  LET s == Head(todo[t])
      free == Holders(s.lock) = {}
  IN /\ Doing(t, "try")
     /\ held' = IF free THEN [held EXCEPT ![t] = @ \cup {s.lock}] ELSE held
     /\ Proceed(t, (IF free THEN s.body ELSE <<>>) \o Tail(todo[t]))
     /\ UNCHANGED <<board, reg, want, asleep>>

\* What a waiter waits for has come.
Come(t) ==
  LET s == Head(todo[t]) IN
  \/ \E r \in s.news : ~(reg[r] \subseteq tmp[t])
  \/ s.bits # {} /\ s.bits \cap reg[s.reg] # {}

wait_event(t) ==
  /\ Doing(t, "await") /\ t \notin asleep
  /\ IF Come(t) THEN Proceed(t, Tail(todo[t])) /\ UNCHANGED asleep
                ELSE asleep' = asleep \cup {t} /\ UNCHANGED <<todo, tmp>>
  /\ UNCHANGED <<board, reg, want, held>>

\* A time-out or a signal.
leave(t) ==
  /\ Doing(t, "await")
  /\ asleep' = asleep \ {t}
  /\ Proceed(t, Head(todo[t]).late) /\ UNCHANGED <<board, reg, want, held>>

\* A step wakes somebody: its condition, if it has one, is true.
Wakes(s) == s.bits = {} \/ s.bits \subseteq reg[s.reg]
Sleepers(queue) == {u \in asleep : Head(todo[u]).queue = queue}

wake_up(t) ==
  LET s == Head(todo[t]) IN
  /\ Doing(t, "wake")
  /\ asleep' = asleep \ (IF Wakes(s) THEN Sleepers(s.queue) ELSE {})
  /\ Proceed(t, Tail(todo[t])) /\ UNCHANGED <<board, reg, want, held>>

Step(t) == \/ take(t) \/ give(t) \/ load(t) \/ store(t) \/ put(t) \/ read(t)
           \/ test(t) \/ change_mode(t) \/ restore(t)
           \/ load_also(t) \/ given(t) \/ bump(t)
           \/ disable_irq(t) \/ enable_irq(t) \/ try_lock(t)
           \/ wait_event(t) \/ leave(t) \/ wake_up(t)

\* A task calls a method.
Call(t, program) ==
  /\ Idle(t) /\ t # Isr /\ program \notin {Refused, <<>>}
  /\ todo' = [todo EXCEPT ![t] = program]
  /\ UNCHANGED <<board, reg, want, tmp, held, asleep>>

\* The line of an interrupt is up and nobody has masked it.
Interrupt(program) ==
  /\ Idle(Isr) /\ Holders(IrqLine) = {}
  /\ todo' = [todo EXCEPT ![Isr] = program]
  /\ UNCHANGED <<board, reg, want, tmp, held, asleep>>

=============================================================================
