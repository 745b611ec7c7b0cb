----------------------------- MODULE DeviceLife -----------------------------
(***************************************************************************)
(* The device of one slot, from the probe of a board through its removal   *)
(* and return to the unloading of the module: what the constructors        *)
(* acquire stage by stage, what they give back when a stage fails, and     *)
(* what a board that is plugged in again finds.  The bus calls the driver  *)
(* for one slot at a time, so that nothing here runs concurrently.         *)
(***************************************************************************)
EXTENDS Naturals, Sequences, FiniteSets

CONSTANTS Models,    \* the boards tried
          MaxPlugs   \* bound: how often a board is put into the slot

ASSUME PlugsAssumption == MaxPlugs \in Nat \ {0}

VARIABLES
    model,  \* the board
    slot,   \* "empty", "probe", "construct", "reinit", "irq", "bound" or "refused"
    stage,  \* of the constructor
    plugs,  \* bound counter
    dev,    \* the device and what it holds
    lost,   \* what was held by nobody any more when its device went
    past,   \* what has happened so far
    loaded

lifeVars == <<model, slot, stage, plugs, dev, lost, past, loaded>>

-----------------------------------------------------------------------------
(* The constructors: their stages, the subdevices they enter in the table of *)
(* the interrupt context, and how many lines they open at the bus.           *)

WithoutIrq == <<"instance", "init", "subdevices">>
WithIrq    == <<"instance", "init", "irq_table", "int_status", "subdevices", "irq">>
Downloaded == <<"instance", "init", "irq_table", "int_status", "firmware", "subdevices", "irq">>

me0600_constr == [stages |-> WithIrq, table |-> <<"ext_irq", "ext_irq">>, lines |-> 2]
me0700_constr == [stages |-> Downloaded, table |-> <<"ai", "ao">>, lines |-> 2]
me0900_constr == [stages |-> WithoutIrq, table |-> <<>>, lines |-> 0]
me1000_constr == [stages |-> WithoutIrq, table |-> <<>>, lines |-> 0]
me1400_constr == [stages |-> WithIrq, table |-> <<"ext_irq", "ext_irq">>, lines |-> 2]
me1600_constr == [stages |-> <<"instance", "init", "shared", "subdevices">>,
                  table |-> <<>>, lines |-> 0]
me4600_constr == [stages |-> Downloaded, table |-> <<"ai", "ao", "ext_irq">>, lines |-> 3]
me4700_constr == [stages |-> <<"instance", "init", "shared", "irq_table", "int_status",
                               "firmware", "subdevices", "irq">>,
                  table |-> <<"ai", "ao", "fi", "ext_irq">>, lines |-> 4]
me6000_constr == [stages |-> Downloaded, table |-> <<"ao", "ao">>, lines |-> 2]
me8100_constr == [stages |-> WithIrq, table |-> <<"di", "di">>, lines |-> 2]
me8200_constr == [stages |-> WithIrq, table |-> <<"di", "do">>, lines |-> 2]
mephisto_constr == [stages |-> WithoutIrq, table |-> <<>>, lines |-> 0]

\* A board of the family ME-1400 without interrupts.
me1400_plain == [me1400_constr EXCEPT !.table = <<>>, !.lines = 0]

Constructor ==
    [me0600 |-> me0600_constr, me0700 |-> me0700_constr, me0900 |-> me0900_constr,
     me1000 |-> me1000_constr, me1400 |-> me1400_plain, me1400d |-> me1400_constr,
     me1600 |-> me1600_constr, me4600 |-> me4600_constr, me4700 |-> me4700_constr,
     me6000 |-> me6000_constr, me8100 |-> me8100_constr, me8200 |-> me8200_constr,
     mephisto |-> mephisto_constr]

\* The subdevices that the interrupt handlers expect in the table.
me0600_isr == <<"ext_irq", "ext_irq">>
me0700_isr == <<"ai", "ao">>
me1400_isr == <<"ext_irq", "ext_irq">>
me4600_isr == <<"ai", "ao", "ext_irq">>
me4700_isr == <<"ai", "ao", "fi", "ext_irq">>
me6000_isr == <<"ao", "ao">>
me8100_isr == <<"di", "di">>
me8200_isr == <<"di", "do">>

Handler == [me0600 |-> me0600_isr, me0700 |-> me0700_isr, me1400d |-> me1400_isr,
            me4600 |-> me4600_isr, me4700 |-> me4700_isr, me6000 |-> me6000_isr,
            me8100 |-> me8100_isr, me8200 |-> me8200_isr]

\* What a constructor does with the device of a board that has come back and cannot be
\* set up: it gives up the device for good, refuses the board, or returns the device as it is.
me0600_reinit == "frees"
me0700_reinit == "keeps"
me0900_reinit == "refuses"
me1000_reinit == "refuses"
me1400_reinit == "frees"
me1600_reinit == "refuses"
me4600_reinit == "keeps"
me4700_reinit == "keeps"
me6000_reinit == "keeps"
me8100_reinit == "frees"
me8200_reinit == "frees"
mephisto_reinit == "keeps"

Reinit == [me0600 |-> me0600_reinit, me0700 |-> me0700_reinit, me0900 |-> me0900_reinit,
           me1000 |-> me1000_reinit, me1400 |-> me1400_reinit, me1400d |-> me1400_reinit,
           me1600 |-> me1600_reinit, me4600 |-> me4600_reinit, me4700 |-> me4700_reinit,
           me6000 |-> me6000_reinit, me8100 |-> me8100_reinit, me8200 |-> me8200_reinit,
           mephisto |-> mephisto_reinit]

ASSUME ModelsAssumption == Models \subseteq DOMAIN Constructor

OnPci      == model # "mephisto"
Stages     == Constructor[model].stages
HasIrq     == Constructor[model].table # <<>>
Downloads  == "firmware" \in {Stages[k] : k \in DOMAIN Stages}

-----------------------------------------------------------------------------
(* What the functions of a device do to it.                                  *)

\* Held of the bus while the board is set up.
Bus == {"enabled", "regions", "mapping"}

NoDevice == [is |-> "none", listed |-> FALSE, plugged |-> "INVALID", res |-> {},
             handlers |-> 0, known |-> FALSE, current |-> FALSE, lines |-> 0, refs |-> 0,
             destructor |-> "none"]

\* The subdevices are built with the addresses of the mapping of that time.
me_device_init(d) ==
    [d EXCEPT !.plugged = "IN", !.current = TRUE, !.destructor = "default",
              !.res = IF OnPci THEN @ \cup Bus ELSE @]

me_device_reinit(d, same) ==
    [d EXCEPT !.plugged = "IN", !.current = same, !.res = IF OnPci THEN @ \cup Bus ELSE @]

request_irq(d) == [d EXCEPT !.handlers = @ + 1, !.known = TRUE]

\* A bug: the handler stays.
disconnect_keeps_handler(d) == [d EXCEPT !.res = @ \ Bus, !.lines = 0, !.known = FALSE]

\* One handler is freed, if the interrupt is known.
me_device_disconnect(d) ==
    [d EXCEPT !.res = @ \ Bus, !.lines = 0, !.known = FALSE,
              !.handlers = IF d.known THEN @ - 1 ELSE @]

me_device_deinit(d) == [d EXCEPT !.res = @ \ {"subdevices"}]

\* A bug: the table of the interrupt context is forgotten.
Destroyed_but_table(d) ==
    CASE d.destructor = "none"    -> d
      [] d.destructor = "default" ->
             [me_device_deinit(d) EXCEPT !.res = @ \ {"int_status"}]
      [] d.destructor = "own"     -> [d EXCEPT !.res = @ \ {"shared"}]

\* The destructors that the ME-1600 and ME-4700 install take the place of the default one.
Destroyed(d) ==
    CASE d.destructor = "none"    -> d
      [] d.destructor = "default" ->
             [me_device_deinit(d) EXCEPT !.res = @ \ {"irq_table", "int_status"}]
      [] d.destructor = "own"     -> [d EXCEPT !.res = @ \ {"shared"}]

Freed(d) == [d EXCEPT !.is = "freed", !.res = @ \ {"instance"}]

\* A stage of a constructor that succeeds.
Acquired(d, s) ==
    CASE s = "instance" -> [d EXCEPT !.is = "building", !.res = @ \cup {"instance"}]
      [] s = "init"     -> me_device_init(d)
      [] s \in {"irq_table", "int_status"} ->
             IF HasIrq THEN [d EXCEPT !.res = @ \cup {s}] ELSE d
      [] s = "shared"   -> [d EXCEPT !.res = @ \cup {s},
                                     !.destructor = IF model = "me4700" THEN "own" ELSE @]
      [] s = "firmware" -> d
      [] s = "subdevices" -> [d EXCEPT !.res = @ \cup {s}]
      [] s = "irq"      -> IF HasIrq THEN request_irq(d) ELSE d

\* Stages that can fail; some take their parts one after the other.
CanFail(s) == /\ s = "init" => OnPci
              /\ s \in {"irq_table", "int_status", "irq"} => HasIrq
InParts(s) == s \in {"shared", "subdevices"}

\* What is given back of d when a stage fails.  The ME-1600 forgets all but the instance
\* when a subdevice fails, and frees its shared arrays itself before.
ErrorPath(d, s) ==
    IF s = "instance" THEN d
    ELSE IF model = "me1600" /\ s = "subdevices" THEN Freed(d)
    ELSE LET e == Freed(Destroyed(me_device_disconnect(d)))
         IN IF model = "me1600" THEN [e EXCEPT !.res = @ \ {"shared"}] ELSE e

-----------------------------------------------------------------------------
LifeInit ==
    /\ model \in Models
    /\ slot = "empty" /\ stage = 0 /\ plugs = 0
    /\ dev = NoDevice
    /\ lost = {} /\ past = {}
    /\ loaded = TRUE

Happened(e) == past' = past \cup {e}

Plug ==
    /\ loaded /\ slot = "empty" /\ plugs < MaxPlugs /\ dev.is # "freed"
    /\ slot' = "probe" /\ plugs' = plugs + 1
    /\ UNCHANGED <<model, stage, dev, lost, past, loaded>>

\* No memory, or not a board of the family.
ProbeRefused ==
    /\ slot = "probe"
    /\ slot' = "refused"
    /\ UNCHANGED <<model, stage, plugs, dev, lost, past, loaded>>

\* The device of a board that was not taken leave of is disconnected first.
FindDevice ==
    /\ slot = "probe"
    /\ slot' = IF dev.listed THEN "reinit" ELSE "construct"
    /\ stage' = 1
    /\ dev' = IF dev.listed /\ dev.plugged = "IN" THEN me_device_disconnect(dev) ELSE dev
    /\ UNCHANGED <<model, plugs, lost, past, loaded>>

\* The module with the constructor of the board is not there.
NoConstructor ==
    /\ OnPci
    /\ slot \in {"construct", "reinit"} /\ stage = 1
    /\ slot' = "refused"
    /\ UNCHANGED <<model, stage, plugs, dev, lost, past, loaded>>

Build ==
    /\ slot = "construct" /\ stage \in DOMAIN Stages
    /\ dev' = Acquired(dev, Stages[stage])
    /\ stage' = stage + 1
    /\ UNCHANGED <<model, slot, plugs, lost, past, loaded>>

BuildFails ==
    /\ slot = "construct" /\ stage \in DOMAIN Stages
    /\ LET s == Stages[stage] IN
       /\ CanFail(s)
       /\ \E part \in BOOLEAN :
             /\ part => InParts(s)
             /\ lost' = lost \cup
                    ErrorPath([dev EXCEPT !.res = @ \cup IF part THEN {s} ELSE {}], s).res
    /\ dev' = NoDevice /\ slot' = "refused"
    /\ Happened("build_failed")
    /\ UNCHANGED <<model, stage, plugs, loaded>>

\* The lines are opened and the device is put on the list.
Bind(d, lines) ==
    /\ slot' = "bound"
    /\ dev' = [d EXCEPT !.refs = @ + 1, !.lines = lines]
    /\ UNCHANGED <<model, stage, plugs, lost, loaded>>

Constructed ==
    /\ slot = "construct" /\ stage = Len(Stages) + 1
    /\ Bind([dev EXCEPT !.is = "live", !.listed = TRUE,
                        !.destructor = IF model = "me1600" THEN "own" ELSE @],
            Constructor[model].lines)
    /\ UNCHANGED past

Refuse(d) == slot' = "refused" /\ dev' = d /\ UNCHANGED <<model, stage, plugs, lost, loaded>>

\* The board has come back and cannot be enabled, or its regions are taken.
ReinitFails ==
    /\ slot = "reinit" /\ OnPci
    /\ LET d == [dev EXCEPT !.plugged = "INVALID"]
       IN IF Reinit[model] = "keeps" THEN Bind(d, 0) ELSE Refuse(d)
    /\ Happened("reinit_failed")

\* It is set up, and registers its handler; its new mapping may have another address.
Reinits ==
    /\ slot = "reinit"
    /\ \E same \in BOOLEAN :
          LET d == me_device_reinit(dev, same)
          IN dev' = IF HasIrq THEN request_irq(d) ELSE d
    /\ slot' = "irq"
    /\ Happened("replugged")
    /\ UNCHANGED <<model, stage, plugs, lost, loaded>>

HandlerRefused ==
    /\ slot = "reinit" /\ HasIrq
    /\ \E same \in BOOLEAN :
          LET d == me_device_reinit(dev, same)
          IN IF Reinit[model] = "keeps" THEN Bind(d, 0) ELSE Refuse(d)
    /\ past' = past \cup {"replugged", "handler_refused"}

FirmwareFails ==
    /\ slot = "irq" /\ Downloads
    /\ Bind(dev, 0)
    /\ Happened("reinit_failed")

\* The constructor registers the handler, which the set-up has already done.  The
\* ME-1400 D is recognised only the first time, and later taken for an ME-1400 C.
InitIrq ==
    /\ slot = "irq"
    /\ Bind(IF HasIrq THEN request_irq(dev) ELSE dev,
            IF model = "me1400d" THEN 1 ELSE Constructor[model].lines)
    /\ UNCHANGED past

InitIrqFails ==
    /\ slot = "irq" /\ HasIrq
    /\ LET gone == Freed(Destroyed(me_device_disconnect(dev)))
       IN IF Reinit[model] = "keeps" THEN Bind(dev, 0) ELSE Refuse(gone)
    /\ Happened("irq_refused")

-----------------------------------------------------------------------------
\* The board is removed: a device that is plugged in is disconnected.
Removed(d) == IF d.plugged = "IN" THEN [me_device_disconnect(d) EXCEPT !.plugged = "OUT"] ELSE d

\* The semaphore of a MEphisto Scope goes with its board, and is not freed.
Semaphore == IF OnPci THEN {} ELSE {"semaphore"}

me_remove ==
    /\ slot = "bound" /\ loaded
    /\ slot' = "empty" /\ dev' = Removed(dev) /\ lost' = lost \cup Semaphore
    /\ UNCHANGED <<model, stage, plugs, past, loaded>>

\* Without memory for its search, me_remove_pci() returns at once.
RemoveFails ==
    /\ slot = "bound" /\ loaded /\ OnPci
    /\ slot' = "empty"
    /\ Happened("not_removed")
    /\ UNCHANGED <<model, stage, plugs, dev, lost, loaded>>

\* The bus does not tell the driver of a board that it has refused.
RefusedRemoved ==
    /\ slot = "refused"
    /\ slot' = "empty"
    /\ UNCHANGED <<model, stage, plugs, dev, lost, past, loaded>>

\* clear_device_list() and release_instance().
Cleared(d) == [Freed(Destroyed(d)) EXCEPT !.listed = FALSE, !.refs = @ - 1]

\* The driver of the bus goes before the list of devices; that of the MEphisto Scope after it.
Unload ==
    /\ loaded /\ slot \in {"empty", "bound", "refused"} /\ dev.is # "freed"
    /\ LET out == IF slot = "bound" /\ OnPci THEN Removed(dev) ELSE dev
       IN /\ dev' = IF dev.listed THEN Cleared(out) ELSE out
          /\ lost' = lost \cup (IF dev.listed THEN Cleared(out).res ELSE {})
                          \cup (IF slot = "bound" THEN Semaphore ELSE {})
    /\ loaded' = FALSE /\ slot' = "empty"
    /\ UNCHANGED <<model, stage, plugs, past>>

\* The module is gone; or the freed device on its list is next to be used, and whatever
\* comes then is not modelled.
Over ==
    /\ ~loaded \/ (slot = "empty" /\ dev.is = "freed")
    /\ UNCHANGED lifeVars

LifeNext ==
    \/ Plug \/ ProbeRefused \/ FindDevice \/ NoConstructor \/ Build \/ BuildFails
    \/ Constructed \/ ReinitFails \/ Reinits \/ HandlerRefused \/ FirmwareFails \/ InitIrq
    \/ InitIrqFails \/ me_remove \/ RemoveFails \/ RefusedRemoved \/ Unload
    \/ Over

LifeSpec == LifeInit /\ [][LifeNext]_lifeVars

-----------------------------------------------------------------------------
\* Circumstances that undo a promise below.
Never(events) == past \cap events = {}
Resting       == slot \in {"empty", "bound", "refused"}

\* Whoever can be called or found is still there: the device on the list, the handler and
\* its table of subdevices, the registers of a board in use, all lines of its interrupts.
\* Not so after a board has come back: its handler is registered twice and freed once, its
\* subdevices use the addresses of the old mapping, and an ME-1400 D has one line; the
\* device of four families is freed on the list if no handler can be registered.
NothingDangles ==
    /\ dev.listed /\ dev.is = "freed" =>
           "irq_refused" \in past /\ Reinit[model] = "frees"
    /\ Resting /\ Never({"replugged", "not_removed"}) =>
           dev.handlers = IF slot = "bound" /\ HasIrq /\ Never({"reinit_failed"}) THEN 1 ELSE 0
    /\ dev.handlers > 1 => "replugged" \in past
    /\ dev.handlers > 0 /\ slot = "bound" =>
           "subdevices" \in dev.res /\ Handler[model] = Constructor[model].table
    /\ slot = "bound" /\ Never({"reinit_failed", "not_removed"}) =>
           /\ OnPci => Bus \subseteq dev.res
           /\ dev.plugged = "IN"
           /\ Never({"replugged"}) => dev.current
           /\ Never({"irq_refused", "handler_refused"}) =>
                  dev.lines = Constructor[model].lines \/ model = "me1400d"
    /\ slot = "refused" /\ Never({"handler_refused", "not_removed"}) =>
           dev.res \cap Bus = {}

\* What nobody gives back.  A constructor that fails gives back all it has acquired,
\* and the unloading of the module what a device holds, except for the ME-1600 and the
\* ME-4700: their own destructors free their shared arrays and leave the subdevices and
\* the table of interrupts behind, and the ME-1600 forgets all but the device itself when
\* a subdevice fails.  A board left in place without memory, or refused while it was set
\* up, stays enabled and mapped.
OwnDestructor == [me1600 |-> {"subdevices"}, me4700 |-> {"subdevices", "irq_table", "int_status"}]

MayBeLost ==
    (IF model \in DOMAIN OwnDestructor THEN OwnDestructor[model] ELSE {})
    \cup (IF model = "me1600" /\ "build_failed" \in past THEN Bus \cup {"shared"} ELSE {})
    \cup (IF model = "me4700" /\ "build_failed" \in past THEN {"shared"} ELSE {})
    \cup (IF ~loaded /\ past \cap {"handler_refused", "not_removed"} # {} THEN Bus ELSE {})
    \cup Semaphore

KnownLeaks ==
    /\ lost \subseteq MayBeLost
    /\ ~loaded /\ Never({"replugged", "reinit_failed"}) => dev.refs = 0
=============================================================================
