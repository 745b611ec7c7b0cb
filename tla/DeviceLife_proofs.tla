-------------------------- MODULE DeviceLife_proofs --------------------------
(***************************************************************************)
(* What dangles and what leaks of a device is what NothingDangles and      *)
(* KnownLeaks name, however often its board is plugged in and removed and  *)
(* wherever that fails.                                                    *)
(*                                                                         *)
(* The invariant follows a device through the slot.  While it is built it  *)
(* holds what the stages behind it have acquired (Building).  Once it is   *)
(* on the list it is there and complete (Listed), its handler and its      *)
(* registers follow whether its board is plugged in (Handlers, Registers), *)
(* each as long as nothing has happened that the driver is known not to    *)
(* cope with.                                                              *)
(***************************************************************************)
EXTENDS DeviceLife, Integers, TLAPS

Parts == {"instance", "irq_table", "int_status", "shared", "subdevices"}

Slots == {"empty", "probe", "construct", "reinit", "irq", "bound", "refused"}

DevType == [is : {"none", "building", "live", "freed"}, listed : BOOLEAN,
            plugged : {"INVALID", "IN", "OUT"}, res : SUBSET (Parts \cup Bus),
            handlers : Int, known : BOOLEAN, current : BOOLEAN, lines : Int, refs : Int,
            destructor : {"none", "default", "own"}]

LifeType ==
    /\ model \in DOMAIN Constructor
    /\ slot \in Slots /\ stage \in Nat
    /\ dev \in DevType
    /\ loaded \in BOOLEAN

\* The stages of the constructor that have succeeded.
Had(s) == \E k \in 1 .. stage - 1 : Stages[k] = s

OwnArrays == {"me1600", "me4700"}

Building ==
    slot = "construct" =>
        /\ stage \in 1 .. Len(Stages) + 1
        /\ ~ dev.listed
        /\ stage = 1 => dev = NoDevice
        /\ stage > 1 => dev.is = "building"
        /\ dev.plugged = IF Had("init") THEN "IN" ELSE "INVALID"
        /\ dev.res = {r \in Parts : Had(r) /\ (r \in {"irq_table", "int_status"} => HasIrq)}
                     \cup (IF Had("init") /\ OnPci THEN Bus ELSE {})
        /\ dev.handlers = IF HasIrq /\ Had("irq") THEN 1 ELSE 0
        /\ dev.known <=> HasIrq /\ Had("irq")
        /\ dev.current <=> Had("init")
        /\ dev.lines = 0 /\ dev.refs = 0
        /\ dev.destructor = IF ~ Had("init") THEN "none"
                            ELSE IF model = "me4700" /\ Had("shared") THEN "own" ELSE "default"

\* A device is on the list, or there is none, or the module is gone.
Place ==
    /\ ~ loaded => slot = "empty" /\ ~ dev.listed
    /\ loaded /\ slot # "construct" /\ ~ dev.listed => dev = NoDevice
    /\ loaded /\ ~ dev.listed => past \subseteq {"build_failed"}
    /\ slot \in {"reinit", "irq", "bound"} => dev.listed
    /\ slot = "irq" => "replugged" \in past

Listed ==
    dev.listed =>
        /\ dev.is \in {"live", "freed"}
        /\ dev.is = "live" =>
               /\ "subdevices" \in dev.res
               /\ "shared" \in dev.res => model \in OwnArrays
               /\ dev.res \cap {"irq_table", "int_status"} # {} => HasIrq
               /\ dev.destructor = IF model \in OwnArrays THEN "own" ELSE "default"
        /\ dev.is = "freed" =>
               slot \in {"refused", "empty"} /\ "irq_refused" \in past /\ Reinit[model] = "frees"

Handlers ==
    /\ ~ HasIrq => dev.handlers = 0 /\ ~ dev.known
    /\ Never({"replugged"}) => dev.handlers = IF dev.known THEN 1 ELSE 0
    /\ Never({"replugged", "not_removed"}) =>
           /\ ~ loaded => ~ dev.known
           /\ dev.listed =>
                  /\ dev.known <=> HasIrq /\ dev.plugged = "IN"
                  /\ dev.plugged = "IN" <=> slot = "bound" /\ Never({"reinit_failed"})

Registers ==
    /\ ~ OnPci => dev.res \cap Bus = {}
    /\ dev.listed /\ Never({"handler_refused", "not_removed"}) =>
           /\ dev.plugged # "IN" => dev.res \cap Bus = {}
           /\ slot \in {"empty", "probe", "refused", "reinit"} => dev.res \cap Bus = {}
    /\ slot = "irq" \/ (slot = "bound" /\ Never({"reinit_failed", "not_removed"})) =>
           /\ OnPci => Bus \subseteq dev.res
           /\ dev.plugged = "IN"
    /\ slot = "bound" /\ Never({"reinit_failed", "not_removed"}) =>
           /\ Never({"replugged"}) => dev.current
           /\ Never({"irq_refused", "handler_refused"}) =>
                  dev.lines = Constructor[model].lines \/ model = "me1400d"

References ==
    Never({"replugged", "reinit_failed"}) => dev.refs = IF dev.listed THEN 1 ELSE 0

Inv == /\ LifeType /\ Building /\ Place /\ Listed /\ Handlers /\ Registers /\ References
       /\ lost \subseteq MayBeLost

-----------------------------------------------------------------------------
(* The boards.                                                             *)

Kinds == {"instance", "init", "irq_table", "int_status", "shared", "firmware", "subdevices",
          "irq"}

\* The instance comes first, then its initialisation, and the interrupt last.
Orderly(s) ==
    /\ Len(s) \in Nat /\ Len(s) > 2 /\ DOMAIN s = 1 .. Len(s)
    /\ \A k \in 1 .. Len(s) :
           /\ s[k] \in Kinds
           /\ s[k] = "instance" <=> k = 1
           /\ s[k] = "init" <=> k = 2
           /\ s[k] = "irq" => k = Len(s)
    /\ \E k \in 1 .. Len(s) : s[k] = "subdevices"

Within(s, t) == \E k \in 1 .. Len(s) : s[k] = t

LEMMA OrderWithout == Orderly(WithoutIrq) /\ ~ Within(WithoutIrq, "shared")
BY DEF Orderly, Within, WithoutIrq, Kinds

LEMMA OrderWith ==
    Orderly(WithIrq) /\ ~ Within(WithIrq, "shared") /\ Within(WithIrq, "irq")
BY DEF Orderly, Within, WithIrq, Kinds

LEMMA OrderDownloaded ==
    Orderly(Downloaded) /\ ~ Within(Downloaded, "shared") /\ Within(Downloaded, "irq")
BY DEF Orderly, Within, Downloaded, Kinds

LEMMA Order1600 == Orderly(me1600_constr.stages)
<1> DEFINE s == <<"instance", "init", "shared", "subdevices">>
<1>1. Orderly(s)
  BY DEF Orderly, Kinds
<1> QED
  BY <1>1 DEF me1600_constr

LEMMA Order4700 ==
    /\ Orderly(me4700_constr.stages)
    /\ Within(me4700_constr.stages, "shared") /\ Within(me4700_constr.stages, "irq")
<1> DEFINE s == <<"instance", "init", "shared", "irq_table", "int_status", "firmware",
                  "subdevices", "irq">>
<1>1. Orderly(s) /\ Within(s, "shared") /\ Within(s, "irq")
  BY DEF Orderly, Within, Kinds
<1> QED
  BY <1>1 DEF me4700_constr

\* What the proofs need to know of a board: whoever has an interrupt has a handler for its
\* table, and only two boards have arrays of their own.
Family ==
    /\ Orderly(Stages)
    /\ Within(Stages, "shared") => model \in OwnArrays
    /\ model = "me4700" => Within(Stages, "shared")
    /\ HasIrq => /\ OnPci /\ model # "me1600" /\ Within(Stages, "irq")
                 /\ Handler[model] = Constructor[model].table
    /\ Constructor[model].lines \in Int

LEMMA Families == ASSUME model \in DOMAIN Constructor PROVE Family
<1> USE DEF Stages, HasIrq, OnPci, OwnArrays, Family
<1>1. CASE model = "me0600"
  <2>1. Constructor[model] = me0600_constr
    BY <1>1 DEF Constructor
  <2>2. Handler[model] = me0600_isr
    BY <1>1 DEF Handler
  <2> QED
    BY <1>1, <2>1, <2>2, OrderWith DEF me0600_constr, me0600_isr
<1>2. CASE model = "me0700"
  <2>1. Constructor[model] = me0700_constr
    BY <1>2 DEF Constructor
  <2>2. Handler[model] = me0700_isr
    BY <1>2 DEF Handler
  <2> QED
    BY <1>2, <2>1, <2>2, OrderDownloaded DEF me0700_constr, me0700_isr
<1>3. CASE model = "me0900"
  <2>1. Constructor[model] = me0900_constr
    BY <1>3 DEF Constructor
  <2> QED
    BY <1>3, <2>1, OrderWithout DEF me0900_constr
<1>4. CASE model = "me1000"
  <2>1. Constructor[model] = me1000_constr
    BY <1>4 DEF Constructor
  <2> QED
    BY <1>4, <2>1, OrderWithout DEF me1000_constr
<1>5. CASE model = "me1400"
  <2>1. Constructor[model] = me1400_plain
    BY <1>5 DEF Constructor
  <2> QED
    BY <1>5, <2>1, OrderWith DEF me1400_plain, me1400_constr
<1>6. CASE model = "me1400d"
  <2>1. Constructor[model] = me1400_constr
    BY <1>6 DEF Constructor
  <2>2. Handler[model] = me1400_isr
    BY <1>6 DEF Handler
  <2> QED
    BY <1>6, <2>1, <2>2, OrderWith DEF me1400_constr, me1400_isr
<1>7. CASE model = "me1600"
  <2>1. Constructor[model] = me1600_constr
    BY <1>7 DEF Constructor
  <2> QED
    BY <1>7, <2>1, Order1600 DEF me1600_constr
<1>8. CASE model = "me4600"
  <2>1. Constructor[model] = me4600_constr
    BY <1>8 DEF Constructor
  <2>2. Handler[model] = me4600_isr
    BY <1>8 DEF Handler
  <2> QED
    BY <1>8, <2>1, <2>2, OrderDownloaded DEF me4600_constr, me4600_isr
<1>9. CASE model = "me4700"
  <2>1. Constructor[model] = me4700_constr
    BY <1>9 DEF Constructor
  <2>2. Handler[model] = me4700_isr
    BY <1>9 DEF Handler
  <2> QED
    BY <1>9, <2>1, <2>2, Order4700 DEF me4700_constr, me4700_isr
<1>10. CASE model = "me6000"
  <2>1. Constructor[model] = me6000_constr
    BY <1>10 DEF Constructor
  <2>2. Handler[model] = me6000_isr
    BY <1>10 DEF Handler
  <2> QED
    BY <1>10, <2>1, <2>2, OrderDownloaded DEF me6000_constr, me6000_isr
<1>11. CASE model = "me8100"
  <2>1. Constructor[model] = me8100_constr
    BY <1>11 DEF Constructor
  <2>2. Handler[model] = me8100_isr
    BY <1>11 DEF Handler
  <2> QED
    BY <1>11, <2>1, <2>2, OrderWith DEF me8100_constr, me8100_isr
<1>12. CASE model = "me8200"
  <2>1. Constructor[model] = me8200_constr
    BY <1>12 DEF Constructor
  <2>2. Handler[model] = me8200_isr
    BY <1>12 DEF Handler
  <2> QED
    BY <1>12, <2>1, <2>2, OrderWith DEF me8200_constr, me8200_isr
<1>13. CASE model = "mephisto"
  <2>1. Constructor[model] = mephisto_constr
    BY <1>13 DEF Constructor
  <2> QED
    BY <1>13, <2>1, OrderWithout DEF mephisto_constr
<1>14. model \in {"me0600", "me0700", "me0900", "me1000", "me1400", "me1400d", "me1600", "me4600",
                  "me4700", "me6000", "me8100", "me8200", "mephisto"}
  BY DEF Constructor
<1> QED
  BY <1>1, <1>2, <1>3, <1>4, <1>5, <1>6, <1>7, <1>8, <1>9, <1>10, <1>11, <1>12, <1>13, <1>14

\* Boards with an interrupt are not refused when they come back and cannot be set up.
LEMMA Comebacks ==
    ASSUME model \in DOMAIN Constructor, HasIrq
    PROVE  Reinit[model] \in {"keeps", "frees"}
<1>1. model \notin {"me0900", "me1000", "me1600"}
  BY DEF HasIrq, Constructor, me0900_constr, me1000_constr, me1600_constr
<1>2. model \in {"me0600", "me0700", "me0900", "me1000", "me1400", "me1400d", "me1600", "me4600",
                 "me4700", "me6000", "me8100", "me8200", "mephisto"}
  BY DEF Constructor
<1> QED
  BY <1>1, <1>2 DEF Reinit, me0600_reinit, me0700_reinit, me1400_reinit, me4600_reinit,
     me4700_reinit, me6000_reinit, me8100_reinit, me8200_reinit, mephisto_reinit

-----------------------------------------------------------------------------
(* What the functions of a device do to it, field by field.                *)

\* What the steps themselves change.
AsBound(d, l) == [d EXCEPT !.refs = @ + 1, !.lines = l]
AsInvalid(d)  == [d EXCEPT !.plugged = "INVALID"]
AsOut(d)      == [d EXCEPT !.plugged = "OUT"]
AsBuilt(d)    == [d EXCEPT !.is = "live", !.listed = TRUE,
                           !.destructor = IF model = "me1600" THEN "own" ELSE @]

LEMMA DisconnectedFields ==
    ASSUME NEW d \in DevType, NEW e, e = me_device_disconnect(d)
    PROVE  /\ e \in DevType
           /\ e.is = d.is /\ e.listed = d.listed /\ e.plugged = d.plugged
           /\ e.current = d.current /\ e.refs = d.refs /\ e.destructor = d.destructor
           /\ e.res = d.res \ Bus
           /\ e.lines = 0
           /\ e.known = FALSE
           /\ e.handlers = IF d.known THEN d.handlers - 1 ELSE d.handlers
<1> DEFINE new_res == d.res \ Bus
           new_lines == 0
           new_known == FALSE
           new_handlers == IF d.known THEN d.handlers - 1 ELSE d.handlers
<1>1. /\ new_res \in SUBSET (Parts \cup Bus)
      /\ new_lines \in Int
      /\ new_known \in BOOLEAN
      /\ new_handlers \in Int
  BY DEF DevType
<1>2. e = [d EXCEPT !.res = new_res, !.lines = new_lines, !.known = new_known,
                    !.handlers = new_handlers]
  BY DEF me_device_disconnect, DevType
<1> HIDE DEF new_res, new_lines, new_known, new_handlers
<1>3. e \in DevType
  BY <1>1, <1>2 DEF DevType
<1>4. /\ e.res = new_res
      /\ e.lines = new_lines
      /\ e.known = new_known
      /\ e.handlers = new_handlers
  BY <1>2 DEF DevType
<1>5. /\ e.is = d.is /\ e.listed = d.listed /\ e.plugged = d.plugged
      /\ e.current = d.current /\ e.refs = d.refs /\ e.destructor = d.destructor
  BY <1>2 DEF DevType
<1> QED
  BY <1>3, <1>4, <1>5 DEF new_res, new_lines, new_known, new_handlers

LEMMA ReinitFields ==
    ASSUME NEW d \in DevType, NEW same \in BOOLEAN, NEW e, e = me_device_reinit(d, same)
    PROVE  /\ e \in DevType
           /\ e.is = d.is /\ e.listed = d.listed /\ e.handlers = d.handlers
           /\ e.known = d.known /\ e.lines = d.lines /\ e.refs = d.refs
           /\ e.destructor = d.destructor
           /\ e.plugged = "IN"
           /\ e.current = same
           /\ e.res = IF OnPci THEN d.res \cup Bus ELSE d.res
<1> DEFINE new_plugged == "IN"
           new_current == same
           new_res == IF OnPci THEN d.res \cup Bus ELSE d.res
<1>1. /\ new_plugged \in {"INVALID", "IN", "OUT"}
      /\ new_current \in BOOLEAN
      /\ new_res \in SUBSET (Parts \cup Bus)
  BY DEF DevType, OnPci
<1>2. e = [d EXCEPT !.plugged = new_plugged, !.current = new_current, !.res = new_res]
  BY DEF me_device_reinit, DevType
<1> HIDE DEF new_plugged, new_current, new_res
<1>3. e \in DevType
  BY <1>1, <1>2 DEF DevType
<1>4. /\ e.plugged = new_plugged
      /\ e.current = new_current
      /\ e.res = new_res
  BY <1>2 DEF DevType
<1>5. /\ e.is = d.is /\ e.listed = d.listed /\ e.handlers = d.handlers
      /\ e.known = d.known /\ e.lines = d.lines /\ e.refs = d.refs
      /\ e.destructor = d.destructor
  BY <1>2 DEF DevType
<1> QED
  BY <1>3, <1>4, <1>5 DEF new_plugged, new_current, new_res

LEMMA ReinitKeeps ==
    ASSUME NEW d \in DevType, NEW e, \E same \in BOOLEAN : e = me_device_reinit(d, same)
    PROVE  /\ e \in DevType
           /\ e.is = d.is /\ e.listed = d.listed /\ e.handlers = d.handlers
           /\ e.known = d.known /\ e.destructor = d.destructor
           /\ e.plugged = "IN"
           /\ e.res = IF OnPci THEN d.res \cup Bus ELSE d.res
<1>1. PICK same \in BOOLEAN : e = me_device_reinit(d, same)
  OBVIOUS
<1> QED
  BY <1>1, ReinitFields

LEMMA RequestFields ==
    ASSUME NEW d \in DevType, NEW e, e = request_irq(d)
    PROVE  /\ e \in DevType
           /\ e.is = d.is /\ e.listed = d.listed /\ e.plugged = d.plugged
           /\ e.res = d.res /\ e.current = d.current /\ e.lines = d.lines
           /\ e.refs = d.refs /\ e.destructor = d.destructor
           /\ e.handlers = d.handlers + 1
           /\ e.known = TRUE
<1> DEFINE new_handlers == d.handlers + 1
           new_known == TRUE
<1>1. /\ new_handlers \in Int
      /\ new_known \in BOOLEAN
  BY DEF DevType
<1>2. e = [d EXCEPT !.handlers = new_handlers, !.known = new_known]
  BY DEF request_irq, DevType
<1> HIDE DEF new_handlers, new_known
<1>3. e \in DevType
  BY <1>1, <1>2 DEF DevType
<1>4. /\ e.handlers = new_handlers
      /\ e.known = new_known
  BY <1>2 DEF DevType
<1>5. /\ e.is = d.is /\ e.listed = d.listed /\ e.plugged = d.plugged
      /\ e.res = d.res /\ e.current = d.current /\ e.lines = d.lines
      /\ e.refs = d.refs /\ e.destructor = d.destructor
  BY <1>2 DEF DevType
<1> QED
  BY <1>3, <1>4, <1>5 DEF new_handlers, new_known

LEMMA BoundFields ==
    ASSUME NEW d \in DevType, NEW l \in Int, NEW e, e = AsBound(d, l)
    PROVE  /\ e \in DevType
           /\ e.is = d.is /\ e.listed = d.listed /\ e.plugged = d.plugged
           /\ e.res = d.res /\ e.handlers = d.handlers /\ e.known = d.known
           /\ e.current = d.current /\ e.destructor = d.destructor
           /\ e.refs = d.refs + 1
           /\ e.lines = l
<1> DEFINE new_refs == d.refs + 1
           new_lines == l
<1>1. /\ new_refs \in Int
      /\ new_lines \in Int
  BY DEF DevType
<1>2. e = [d EXCEPT !.refs = new_refs, !.lines = new_lines]
  BY DEF AsBound, DevType
<1> HIDE DEF new_refs, new_lines
<1>3. e \in DevType
  BY <1>1, <1>2 DEF DevType
<1>4. /\ e.refs = new_refs
      /\ e.lines = new_lines
  BY <1>2 DEF DevType
<1>5. /\ e.is = d.is /\ e.listed = d.listed /\ e.plugged = d.plugged
      /\ e.res = d.res /\ e.handlers = d.handlers /\ e.known = d.known
      /\ e.current = d.current /\ e.destructor = d.destructor
  BY <1>2 DEF DevType
<1> QED
  BY <1>3, <1>4, <1>5 DEF new_refs, new_lines

LEMMA GivenUpFields ==
    ASSUME NEW d \in DevType, NEW e, e = AsInvalid(d)
    PROVE  /\ e \in DevType
           /\ e.is = d.is /\ e.listed = d.listed /\ e.res = d.res
           /\ e.handlers = d.handlers /\ e.known = d.known /\ e.current = d.current
           /\ e.lines = d.lines /\ e.refs = d.refs /\ e.destructor = d.destructor
           /\ e.plugged = "INVALID"
<1> DEFINE new_plugged == "INVALID"
<1>1. /\ new_plugged \in {"INVALID", "IN", "OUT"}
  BY DEF DevType
<1>2. e = [d EXCEPT !.plugged = new_plugged]
  BY DEF AsInvalid, DevType
<1> HIDE DEF new_plugged
<1>3. e \in DevType
  BY <1>1, <1>2 DEF DevType
<1>4. /\ e.plugged = new_plugged
  BY <1>2 DEF DevType
<1>5. /\ e.is = d.is /\ e.listed = d.listed /\ e.res = d.res
      /\ e.handlers = d.handlers /\ e.known = d.known /\ e.current = d.current
      /\ e.lines = d.lines /\ e.refs = d.refs /\ e.destructor = d.destructor
  BY <1>2 DEF DevType
<1> QED
  BY <1>3, <1>4, <1>5 DEF new_plugged

LEMMA OutFields ==
    ASSUME NEW d \in DevType, NEW e, e = AsOut(d)
    PROVE  /\ e \in DevType
           /\ e.is = d.is /\ e.listed = d.listed /\ e.res = d.res
           /\ e.handlers = d.handlers /\ e.known = d.known /\ e.current = d.current
           /\ e.lines = d.lines /\ e.refs = d.refs /\ e.destructor = d.destructor
           /\ e.plugged = "OUT"
<1> DEFINE new_plugged == "OUT"
<1>1. /\ new_plugged \in {"INVALID", "IN", "OUT"}
  BY DEF DevType
<1>2. e = [d EXCEPT !.plugged = new_plugged]
  BY DEF AsOut, DevType
<1> HIDE DEF new_plugged
<1>3. e \in DevType
  BY <1>1, <1>2 DEF DevType
<1>4. /\ e.plugged = new_plugged
  BY <1>2 DEF DevType
<1>5. /\ e.is = d.is /\ e.listed = d.listed /\ e.res = d.res
      /\ e.handlers = d.handlers /\ e.known = d.known /\ e.current = d.current
      /\ e.lines = d.lines /\ e.refs = d.refs /\ e.destructor = d.destructor
  BY <1>2 DEF DevType
<1> QED
  BY <1>3, <1>4, <1>5 DEF new_plugged

LEMMA FreedFields ==
    ASSUME NEW d \in DevType, NEW e, e = Freed(Destroyed(d))
    PROVE  /\ e \in DevType
           /\ e.is = "freed" /\ e.listed = d.listed /\ e.plugged = d.plugged
           /\ e.current = d.current /\ e.refs = d.refs /\ e.destructor = d.destructor
           /\ e.lines = d.lines /\ e.known = d.known /\ e.handlers = d.handlers
           /\ e.res \subseteq d.res
           /\ "instance" \notin e.res
           /\ d.destructor = "default" => e.res \cap {"subdevices", "irq_table", "int_status"} = {}
           /\ d.destructor = "own" => "shared" \notin e.res
<1> DEFINE x == Destroyed(d)
<1>1. /\ x \in DevType
      /\ x.is = d.is /\ x.listed = d.listed /\ x.plugged = d.plugged
      /\ x.current = d.current /\ x.refs = d.refs /\ x.destructor = d.destructor
      /\ x.lines = d.lines /\ x.known = d.known /\ x.handlers = d.handlers
      /\ x.res \subseteq d.res
      /\ d.destructor = "default" => x.res \cap {"subdevices", "irq_table", "int_status"} = {}
      /\ d.destructor = "own" => "shared" \notin x.res
  BY DEF Destroyed, me_device_deinit, DevType
<1> HIDE DEF x
<1> DEFINE r == x.res \ {"instance"}
<1>2. e = [x EXCEPT !.is = "freed", !.res = r] /\ r \in SUBSET (Parts \cup Bus)
  BY <1>1 DEF x, Freed, DevType
<1>3. r \subseteq x.res /\ "instance" \notin r
  OBVIOUS
<1> HIDE DEF r
<1>4. e \in DevType
  BY <1>1, <1>2 DEF DevType
<1>5. e.is = "freed" /\ e.res = r
  BY <1>1, <1>2 DEF DevType
<1>6. /\ e.listed = x.listed /\ e.plugged = x.plugged
           /\ e.current = x.current /\ e.refs = x.refs /\ e.destructor = x.destructor
           /\ e.lines = x.lines /\ e.known = x.known /\ e.handlers = x.handlers
  BY <1>1, <1>2 DEF DevType
<1> QED
  BY <1>1, <1>3, <1>4, <1>5, <1>6


LEMMA ClearedFields == ASSUME NEW d \in DevType, NEW e, e = Cleared(d)
    PROVE  /\ e \in DevType
           /\ e.is = "freed" /\ e.listed = FALSE /\ e.plugged = d.plugged
           /\ e.current = d.current /\ e.refs = d.refs - 1 /\ e.destructor = d.destructor
           /\ e.lines = d.lines /\ e.known = d.known /\ e.handlers = d.handlers
           /\ e.res = Freed(Destroyed(d)).res
<1> DEFINE x == Freed(Destroyed(d))
<1>1. /\ x \in DevType
           /\ x.is = "freed" /\ x.listed = d.listed /\ x.plugged = d.plugged
           /\ x.current = d.current /\ x.refs = d.refs /\ x.destructor = d.destructor
           /\ x.lines = d.lines /\ x.known = d.known /\ x.handlers = d.handlers
  BY FreedFields
<1> HIDE DEF x
<1>2. e = [x EXCEPT !.listed = FALSE, !.refs = x.refs - 1]
  BY <1>1 DEF Cleared, x, DevType
<1>3. x.refs - 1 \in Int
  BY <1>1 DEF DevType
<1>4. e \in DevType
  BY <1>1, <1>2, <1>3 DEF DevType
<1>5. e.listed = FALSE /\ e.refs = x.refs - 1
  BY <1>1, <1>2 DEF DevType
<1>6. /\ e.is = x.is /\ e.plugged = x.plugged /\ e.res = x.res
           /\ e.current = x.current /\ e.destructor = x.destructor
           /\ e.lines = x.lines /\ e.known = x.known /\ e.handlers = x.handlers
  BY <1>1, <1>2 DEF DevType
<1> QED
  BY <1>1, <1>4, <1>5, <1>6 DEF x

LEMMA CompletedFields ==
    ASSUME NEW d \in DevType, NEW e, e = AsBuilt(d)
    PROVE  /\ e \in DevType
           /\ e.plugged = d.plugged /\ e.res = d.res /\ e.handlers = d.handlers
           /\ e.known = d.known /\ e.current = d.current /\ e.lines = d.lines
           /\ e.refs = d.refs
           /\ e.is = "live"
           /\ e.listed = TRUE
           /\ e.destructor = IF model = "me1600" THEN "own" ELSE d.destructor
<1> DEFINE new_is == "live"
           new_listed == TRUE
           new_destructor == IF model = "me1600" THEN "own" ELSE d.destructor
<1>1. /\ new_is \in {"none", "building", "live", "freed"}
      /\ new_listed \in BOOLEAN
      /\ new_destructor \in {"none", "default", "own"}
  BY DEF DevType
<1>2. e = [d EXCEPT !.is = new_is, !.listed = new_listed, !.destructor = new_destructor]
  BY DEF AsBuilt, DevType
<1> HIDE DEF new_is, new_listed, new_destructor
<1>3. e \in DevType
  BY <1>1, <1>2 DEF DevType
<1>4. /\ e.is = new_is
      /\ e.listed = new_listed
      /\ e.destructor = new_destructor
  BY <1>2 DEF DevType
<1>5. /\ e.plugged = d.plugged /\ e.res = d.res /\ e.handlers = d.handlers
      /\ e.known = d.known /\ e.current = d.current /\ e.lines = d.lines
      /\ e.refs = d.refs
  BY <1>2 DEF DevType
<1> QED
  BY <1>3, <1>4, <1>5 DEF new_is, new_listed, new_destructor

LEMMA InstanceFields ==
    ASSUME NEW d \in DevType, NEW e, e = [d EXCEPT !.is = "building", !.res = @ \cup {"instance"}]
    PROVE  /\ e \in DevType
           /\ e.listed = d.listed /\ e.plugged = d.plugged /\ e.handlers = d.handlers
           /\ e.known = d.known /\ e.current = d.current /\ e.lines = d.lines
           /\ e.refs = d.refs /\ e.destructor = d.destructor
           /\ e.is = "building"
           /\ e.res = d.res \cup {"instance"}
<1> DEFINE new_is == "building"
           new_res == d.res \cup {"instance"}
<1>1. /\ new_is \in {"none", "building", "live", "freed"}
      /\ new_res \in SUBSET (Parts \cup Bus)
  BY DEF DevType, Parts
<1>2. e = [d EXCEPT !.is = new_is, !.res = new_res]
  BY DEF DevType
<1> HIDE DEF new_is, new_res
<1>3. e \in DevType
  BY <1>1, <1>2 DEF DevType
<1>4. /\ e.is = new_is
      /\ e.res = new_res
  BY <1>2 DEF DevType
<1>5. /\ e.listed = d.listed /\ e.plugged = d.plugged /\ e.handlers = d.handlers
      /\ e.known = d.known /\ e.current = d.current /\ e.lines = d.lines
      /\ e.refs = d.refs /\ e.destructor = d.destructor
  BY <1>2 DEF DevType
<1> QED
  BY <1>3, <1>4, <1>5 DEF new_is, new_res

LEMMA InitFields ==
    ASSUME NEW d \in DevType, NEW e, e = me_device_init(d)
    PROVE  /\ e \in DevType
           /\ e.is = d.is /\ e.listed = d.listed /\ e.handlers = d.handlers
           /\ e.known = d.known /\ e.lines = d.lines /\ e.refs = d.refs
           /\ e.plugged = "IN"
           /\ e.current = TRUE
           /\ e.destructor = "default"
           /\ e.res = IF OnPci THEN d.res \cup Bus ELSE d.res
<1> DEFINE new_plugged == "IN"
           new_current == TRUE
           new_destructor == "default"
           new_res == IF OnPci THEN d.res \cup Bus ELSE d.res
<1>1. /\ new_plugged \in {"INVALID", "IN", "OUT"}
      /\ new_current \in BOOLEAN
      /\ new_destructor \in {"none", "default", "own"}
      /\ new_res \in SUBSET (Parts \cup Bus)
  BY DEF DevType, OnPci
<1>2. e = [d EXCEPT !.plugged = new_plugged, !.current = new_current,
                    !.destructor = new_destructor, !.res = new_res]
  BY DEF me_device_init, DevType
<1> HIDE DEF new_plugged, new_current, new_destructor, new_res
<1>3. e \in DevType
  BY <1>1, <1>2 DEF DevType
<1>4. /\ e.plugged = new_plugged
      /\ e.current = new_current
      /\ e.destructor = new_destructor
      /\ e.res = new_res
  BY <1>2 DEF DevType
<1>5. /\ e.is = d.is /\ e.listed = d.listed /\ e.handlers = d.handlers
      /\ e.known = d.known /\ e.lines = d.lines /\ e.refs = d.refs
  BY <1>2 DEF DevType
<1> QED
  BY <1>3, <1>4, <1>5 DEF new_plugged, new_current, new_destructor, new_res

LEMMA PartFields ==
    ASSUME NEW d \in DevType, NEW s \in Parts, NEW e, e = [d EXCEPT !.res = @ \cup {s}]
    PROVE  /\ e \in DevType
           /\ e.is = d.is /\ e.listed = d.listed /\ e.plugged = d.plugged
           /\ e.handlers = d.handlers /\ e.known = d.known /\ e.current = d.current
           /\ e.lines = d.lines /\ e.refs = d.refs /\ e.destructor = d.destructor
           /\ e.res = d.res \cup {s}
<1> DEFINE new_res == d.res \cup {s}
<1>1. /\ new_res \in SUBSET (Parts \cup Bus)
  BY DEF DevType
<1>2. e = [d EXCEPT !.res = new_res]
  BY DEF DevType
<1> HIDE DEF new_res
<1>3. e \in DevType
  BY <1>1, <1>2 DEF DevType
<1>4. /\ e.res = new_res
  BY <1>2 DEF DevType
<1>5. /\ e.is = d.is /\ e.listed = d.listed /\ e.plugged = d.plugged
      /\ e.handlers = d.handlers /\ e.known = d.known /\ e.current = d.current
      /\ e.lines = d.lines /\ e.refs = d.refs /\ e.destructor = d.destructor
  BY <1>2 DEF DevType
<1> QED
  BY <1>3, <1>4, <1>5 DEF new_res

LEMMA SharedFields ==
    ASSUME NEW d \in DevType, NEW e, e = [d EXCEPT !.res = @ \cup {"shared"},
                           !.destructor = IF model = "me4700" THEN "own" ELSE @]
    PROVE  /\ e \in DevType
           /\ e.is = d.is /\ e.listed = d.listed /\ e.plugged = d.plugged
           /\ e.handlers = d.handlers /\ e.known = d.known /\ e.current = d.current
           /\ e.lines = d.lines /\ e.refs = d.refs
           /\ e.res = d.res \cup {"shared"}
           /\ e.destructor = IF model = "me4700" THEN "own" ELSE d.destructor
<1> DEFINE new_res == d.res \cup {"shared"}
           new_destructor == IF model = "me4700" THEN "own" ELSE d.destructor
<1>1. /\ new_res \in SUBSET (Parts \cup Bus)
      /\ new_destructor \in {"none", "default", "own"}
  BY DEF DevType, Parts
<1>2. e = [d EXCEPT !.res = new_res, !.destructor = new_destructor]
  BY DEF DevType
<1> HIDE DEF new_res, new_destructor
<1>3. e \in DevType
  BY <1>1, <1>2 DEF DevType
<1>4. /\ e.res = new_res
      /\ e.destructor = new_destructor
  BY <1>2 DEF DevType
<1>5. /\ e.is = d.is /\ e.listed = d.listed /\ e.plugged = d.plugged
      /\ e.handlers = d.handlers /\ e.known = d.known /\ e.current = d.current
      /\ e.lines = d.lines /\ e.refs = d.refs
  BY <1>2 DEF DevType
<1> QED
  BY <1>3, <1>4, <1>5 DEF new_res, new_destructor

\* A stage of a constructor.
LEMMA AcquiredFields ==
    ASSUME NEW d \in DevType, NEW s \in Kinds, NEW e, e = Acquired(d, s)
    PROVE  /\ e \in DevType
           /\ e.listed = d.listed /\ e.lines = d.lines /\ e.refs = d.refs
           /\ e.is = IF s = "instance" THEN "building" ELSE d.is
           /\ e.plugged = IF s = "init" THEN "IN" ELSE d.plugged
           /\ e.current <=> s = "init" \/ d.current
           /\ e.known <=> (s = "irq" /\ HasIrq) \/ d.known
           /\ e.handlers = IF s = "irq" /\ HasIrq THEN d.handlers + 1 ELSE d.handlers
           /\ e.res = d.res
                  \cup (IF s \in Parts /\ (s \in {"irq_table", "int_status"} => HasIrq)
                        THEN {s} ELSE {})
                  \cup (IF s = "init" /\ OnPci THEN Bus ELSE {})
           /\ e.destructor = IF s = "init" THEN "default"
                             ELSE IF s = "shared" /\ model = "me4700" THEN "own"
                             ELSE d.destructor
<1>1. CASE s = "instance"
  <2>1. e = [d EXCEPT !.is = "building", !.res = @ \cup {"instance"}]
    BY <1>1 DEF Acquired
  <2> QED
    BY <1>1, <2>1, InstanceFields DEF Parts, DevType
<1>2. CASE s = "init"
  <2>1. e = me_device_init(d)
    BY <1>2 DEF Acquired
  <2>2. /\ e \in DevType
        /\ e.is = d.is /\ e.listed = d.listed /\ e.handlers = d.handlers
        /\ e.known = d.known /\ e.lines = d.lines /\ e.refs = d.refs
        /\ e.plugged = "IN" /\ e.current = TRUE /\ e.destructor = "default"
        /\ e.res = IF OnPci THEN d.res \cup Bus ELSE d.res
    BY <2>1, InitFields
  <2> QED
    BY <1>2, <2>2 DEF Parts, DevType
<1>3. CASE s \in {"irq_table", "int_status"} /\ HasIrq
  <2>1. e = [d EXCEPT !.res = @ \cup {s}] /\ s \in Parts
    BY <1>3 DEF Acquired, Parts
  <2> QED
    BY <1>3, <2>1, PartFields DEF Parts, DevType
<1>4. CASE s = "shared"
  <2>1. e = [d EXCEPT !.res = @ \cup {"shared"},
                     !.destructor = IF model = "me4700" THEN "own" ELSE @]
    BY <1>4 DEF Acquired
  <2> QED
    BY <1>4, <2>1, SharedFields DEF Parts, DevType
<1>5. CASE s = "subdevices"
  <2>1. e = [d EXCEPT !.res = @ \cup {"subdevices"}] /\ "subdevices" \in Parts
    BY <1>5 DEF Acquired, Parts
  <2> QED
    BY <1>5, <2>1, PartFields DEF Parts, DevType
<1>6. CASE s = "irq" /\ HasIrq
  <2>1. e = request_irq(d)
    BY <1>6 DEF Acquired
  <2> QED
    BY <1>6, <2>1, RequestFields DEF Parts, DevType
<1>7. CASE s = "firmware" \/ (s \in {"irq_table", "int_status", "irq"} /\ ~ HasIrq)
  <2>1. e = d
    BY <1>7 DEF Acquired
  <2> QED
    BY <1>7, <2>1 DEF Parts, DevType
<1> QED
  BY <1>1, <1>2, <1>3, <1>4, <1>5, <1>6, <1>7 DEF Kinds

-----------------------------------------------------------------------------
(* The steps.                                                              *)

\* What a step that has failed in a new way excuses, only grows.
LEMMA LossesGrow ==
    ASSUME model' = model, past \subseteq past', loaded' => loaded
    PROVE  MayBeLost \subseteq MayBeLost'
BY DEF MayBeLost, Semaphore, OnPci, OwnDestructor

LEMMA InitHolds == LifeInit => Inv
<1> SUFFICES ASSUME LifeInit PROVE Inv
  OBVIOUS
<1>1. LifeType
  BY ModelsAssumption DEF LifeInit, LifeType, DevType, NoDevice, Slots
<1> QED
  BY <1>1 DEF LifeInit, Inv, Building, Place, Listed, Handlers, Registers, References, NoDevice,
     Never

\* Steps that leave the device as it is.
LEMMA PlugHolds == ASSUME Inv, Plug PROVE Inv'
<1>1. /\ model' = model /\ dev' = dev /\ lost' = lost /\ past \subseteq past'
      /\ loaded' = loaded /\ stage' = stage /\ slot = "empty" /\ slot' = "probe"
      /\ dev.is # "freed" /\ loaded /\ past' = past
  BY DEF Plug
<1>2. LifeType'
  BY <1>1 DEF Inv, LifeType, Slots
<1>3. MayBeLost \subseteq MayBeLost'
  BY <1>1, LossesGrow
<1> QED
  BY <1>1, <1>2, <1>3
  DEF Inv, Building, Place, Listed, Handlers, Registers, References, Never, OnPci, HasIrq

LEMMA ProbeRefusedHolds == ASSUME Inv, ProbeRefused PROVE Inv'
<1>1. /\ model' = model /\ dev' = dev /\ lost' = lost /\ past \subseteq past'
      /\ loaded' = loaded /\ stage' = stage /\ slot = "probe" /\ slot' = "refused" /\ past' = past
  BY DEF ProbeRefused
<1>2. LifeType'
  BY <1>1 DEF Inv, LifeType, Slots
<1>3. MayBeLost \subseteq MayBeLost'
  BY <1>1, LossesGrow
<1> QED
  BY <1>1, <1>2, <1>3
  DEF Inv, Building, Place, Listed, Handlers, Registers, References, Never, OnPci, HasIrq

LEMMA NoConstructorHolds == ASSUME Inv, NoConstructor PROVE Inv'
<1>1. /\ model' = model /\ dev' = dev /\ lost' = lost /\ past \subseteq past'
      /\ loaded' = loaded /\ stage' = stage /\ stage = 1 /\ slot \in {"construct", "reinit"}
      /\ slot' = "refused" /\ past' = past
  BY DEF NoConstructor
<1>2. LifeType'
  BY <1>1 DEF Inv, LifeType, Slots
<1>3. MayBeLost \subseteq MayBeLost'
  BY <1>1, LossesGrow
<1> QED
  BY <1>1, <1>2, <1>3
  DEF Inv, Building, Place, Listed, Handlers, Registers, References, Never, OnPci, HasIrq

LEMMA RemoveFailsHolds == ASSUME Inv, RemoveFails PROVE Inv'
<1>1. /\ model' = model /\ dev' = dev /\ lost' = lost /\ past \subseteq past'
      /\ loaded' = loaded /\ stage' = stage /\ slot = "bound" /\ slot' = "empty" /\ loaded
      /\ past' = past \cup {"not_removed"}
  BY DEF RemoveFails, Happened
<1>2. LifeType'
  BY <1>1 DEF Inv, LifeType, Slots
<1>3. MayBeLost \subseteq MayBeLost'
  BY <1>1, LossesGrow
<1> QED
  BY <1>1, <1>2, <1>3
  DEF Inv, Building, Place, Listed, Handlers, Registers, References, Never, OnPci, HasIrq

LEMMA RefusedRemovedHolds == ASSUME Inv, RefusedRemoved PROVE Inv'
<1>1. /\ model' = model /\ dev' = dev /\ lost' = lost /\ past \subseteq past'
      /\ loaded' = loaded /\ stage' = stage /\ slot = "refused" /\ slot' = "empty" /\ past' = past
  BY DEF RefusedRemoved
<1>2. LifeType'
  BY <1>1 DEF Inv, LifeType, Slots
<1>3. MayBeLost \subseteq MayBeLost'
  BY <1>1, LossesGrow
<1> QED
  BY <1>1, <1>2, <1>3
  DEF Inv, Building, Place, Listed, Handlers, Registers, References, Never, OnPci, HasIrq

LEMMA FindDeviceHolds == ASSUME Inv, FindDevice PROVE Inv'
<1>1. /\ model' = model /\ loaded' = loaded /\ past' = past /\ lost' = lost
      /\ slot = "probe" /\ stage' = 1 /\ dev \in DevType
      /\ slot' = IF dev.listed THEN "reinit" ELSE "construct"
      /\ dev' = IF dev.listed /\ dev.plugged = "IN" THEN me_device_disconnect(dev) ELSE dev
  BY DEF FindDevice, Inv, LifeType
<1> DEFINE cut == dev.listed /\ dev.plugged = "IN"
<1>2. /\ dev' \in DevType
      /\ dev'.is = dev.is /\ dev'.listed = dev.listed /\ dev'.plugged = dev.plugged
      /\ dev'.refs = dev.refs /\ dev'.destructor = dev.destructor
      /\ dev'.res = IF cut THEN dev.res \ Bus ELSE dev.res
      /\ dev'.known <=> dev.known /\ ~ cut
      /\ dev'.handlers = IF cut /\ dev.known THEN dev.handlers - 1 ELSE dev.handlers
      /\ ~ dev.listed => dev' = dev
  <2>1. CASE cut
    BY <1>1, <2>1, DisconnectedFields DEF DevType
  <2>2. CASE ~ cut
    BY <1>1, <2>2 DEF DevType
  <2> QED
    BY <2>1, <2>2
<1>3. LifeType'
  BY <1>1, <1>2 DEF Inv, LifeType, Slots
<1>4. MayBeLost \subseteq MayBeLost'
  BY <1>1, LossesGrow
<1>5. Building' /\ Place'
  BY <1>1, <1>2, Families
  DEF Inv, Building, Place, LifeType, DevType, NoDevice, Had, Stages, Orderly, Family,
      OnPci, HasIrq
<1>6. Listed'
  BY <1>1, <1>2 DEF Inv, Listed, Place, LifeType, HasIrq, NoDevice, Bus
<1>7. Handlers'
  BY <1>1, <1>2 DEF Inv, LifeType, DevType, Place, Handlers, Never, HasIrq, NoDevice
<1>8. Registers'
  BY <1>1, <1>2 DEF Inv, LifeType, DevType, Place, Registers, Never, OnPci, NoDevice
<1>9. References' /\ lost' \subseteq MayBeLost'
  BY <1>1, <1>2, <1>4 DEF Inv, Place, References, Never, NoDevice
<1> QED
  BY <1>3, <1>5, <1>6, <1>7, <1>8, <1>9 DEF Inv

LEMMA StagesOrder ==
    ASSUME Inv
    PROVE  /\ Len(Stages) \in Nat /\ Len(Stages) > 2 /\ 2 \in 1 .. Len(Stages)
           /\ \A k \in 1 .. Len(Stages) :
                  /\ Stages[k] \in Kinds
                  /\ Stages[k] = "instance" <=> k = 1
                  /\ Stages[k] = "init" <=> k = 2
                  /\ Stages[k] = "irq" => k = Len(Stages)
           /\ Within(Stages, "subdevices")
           /\ HasIrq => Within(Stages, "irq")
           /\ Within(Stages, "shared") => model \in OwnArrays
           /\ model = "me4700" => Within(Stages, "shared")
<1>1. Family
  BY Families DEF Inv, LifeType
<1>2. Orderly(Stages)
  BY <1>1 DEF Family
<1>3. Len(Stages) \in Nat /\ Len(Stages) > 2
  BY <1>2 DEF Orderly
<1>4. 2 \in 1 .. Len(Stages)
  BY <1>3
<1>5. \A k \in 1 .. Len(Stages) :
          /\ Stages[k] \in Kinds
          /\ Stages[k] = "instance" <=> k = 1
          /\ Stages[k] = "init" <=> k = 2
          /\ Stages[k] = "irq" => k = Len(Stages)
  BY <1>2 DEF Orderly
<1>6. Within(Stages, "subdevices")
  BY <1>2 DEF Orderly, Within
<1> QED
  BY <1>1, <1>3, <1>4, <1>5, <1>6 DEF Family

\* How far the constructor has come.
LEMMA HadNext ==
    ASSUME model' = model, stage \in Nat, stage # 0, stage' = stage + 1, NEW s
    PROVE  Had(s)' <=> Had(s) \/ Stages[stage] = s
<1>1. Stages' = Stages
  BY DEF Stages
<1>2. 1 .. stage' - 1 = (1 .. stage - 1) \cup {stage}
  OBVIOUS
<1> QED
  BY <1>1, <1>2 DEF Had

LEMMA BuildHolds == ASSUME Inv, Build PROVE Inv'
<1> DEFINE s == Stages[stage]
<1>1. /\ model' = model /\ loaded' = loaded /\ past' = past /\ lost' = lost
      /\ slot = "construct" /\ slot' = "construct" /\ stage' = stage + 1 /\ dev \in DevType
      /\ loaded /\ ~ dev.listed /\ past \subseteq {"build_failed"}
      /\ stage \in 1 .. Len(Stages) /\ s \in Kinds
      /\ dev' = Acquired(dev, s)
  BY Families DEF Build, Inv, LifeType, Place, Building, Family, Orderly
<1>2. /\ dev' \in DevType
      /\ dev'.listed = dev.listed /\ dev'.lines = dev.lines /\ dev'.refs = dev.refs
      /\ dev'.is = IF s = "instance" THEN "building" ELSE dev.is
      /\ dev'.plugged = IF s = "init" THEN "IN" ELSE dev.plugged
      /\ dev'.current <=> s = "init" \/ dev.current
      /\ dev'.known <=> (s = "irq" /\ HasIrq) \/ dev.known
      /\ dev'.handlers = IF s = "irq" /\ HasIrq THEN dev.handlers + 1 ELSE dev.handlers
      /\ dev'.res = dev.res
             \cup (IF s \in Parts /\ (s \in {"irq_table", "int_status"} => HasIrq)
                   THEN {s} ELSE {})
             \cup (IF s = "init" /\ OnPci THEN Bus ELSE {})
      /\ dev'.destructor = IF s = "init" THEN "default"
                           ELSE IF s = "shared" /\ model = "me4700" THEN "own"
                           ELSE dev.destructor
  BY <1>1, AcquiredFields
<1>3. /\ \A t : Had(t)' <=> Had(t) \/ s = t
      /\ HasIrq' = HasIrq /\ OnPci' = OnPci /\ Len(Stages)' = Len(Stages)
  <2>1. stage \in Nat /\ stage # 0
    BY <1>1 DEF Inv, LifeType
  <2> QED
    BY <1>1, <2>1, HadNext DEF HasIrq, OnPci, Stages
<1>4. /\ s = "instance" <=> stage = 1
      /\ s = "init" <=> stage = 2
      /\ s = "irq" => stage = Len(Stages) /\ ~ Had("irq")
      /\ Len(Stages) \in Nat
      /\ Had("init") <=> stage > 2
      /\ stage <= 2 => ~ Had("shared")
  <2>1. /\ Len(Stages) \in Nat /\ Len(Stages) > 2
        /\ \A k \in 1 .. Len(Stages) :
               /\ Stages[k] = "instance" <=> k = 1
               /\ Stages[k] = "init" <=> k = 2
               /\ Stages[k] = "irq" => k = Len(Stages)
    BY StagesOrder
  <2>2. \A k \in 1 .. stage - 1 : k \in 1 .. Len(Stages) /\ k # Len(Stages) /\ k < stage
    BY <1>1, <2>1
  <2>3. Had("init") <=> stage > 2
    BY <1>1, <2>1, <2>2 DEF Had
  <2>4. ~ Had("irq")
    BY <2>1, <2>2 DEF Had
  <2>5. stage <= 2 => ~ Had("shared")
    <3>1. stage <= 2 => \A k \in 1 .. stage - 1 : k = 1
      BY <1>1
    <3> QED
      BY <2>1, <3>1 DEF Had
  <2> QED
    BY <1>1, <2>1, <2>3, <2>4, <2>5
<1>5. LifeType'
  BY <1>1, <1>2 DEF Inv, LifeType, Slots
<1>6. Building'
  <2>1. stage' \in 1 .. Len(Stages)' + 1 /\ ~ dev'.listed /\ stage' > 1
    BY <1>1, <1>2, <1>3, <1>4
  <2>2. dev'.is = "building"
    BY <1>1, <1>2, <1>4 DEF Inv, Building
  <2>3. dev'.plugged = IF Had("init")' THEN "IN" ELSE "INVALID"
    BY <1>1, <1>2, <1>3 DEF Inv, Building
  <2>4. dev'.res = {r \in Parts : Had(r)' /\ (r \in {"irq_table", "int_status"} => HasIrq')}
                   \cup (IF Had("init")' /\ OnPci' THEN Bus ELSE {})
    BY <1>1, <1>2, <1>3 DEF Inv, Building
  <2>5. /\ dev'.handlers = IF HasIrq' /\ Had("irq")' THEN 1 ELSE 0
        /\ dev'.known <=> HasIrq' /\ Had("irq")'
        /\ dev'.current <=> Had("init")'
        /\ dev'.lines = 0 /\ dev'.refs = 0
    BY <1>1, <1>2, <1>3, <1>4 DEF Inv, Building
  <2>6. dev'.destructor =
            IF ~ Had("init")' THEN "none"
            ELSE IF model' = "me4700" /\ Had("shared")' THEN "own" ELSE "default"
    BY <1>1, <1>2, <1>3, <1>4 DEF Inv, Building
  <2> QED
    BY <2>1, <2>2, <2>3, <2>4, <2>5, <2>6 DEF Building
<1>7. Place' /\ Listed' /\ References'
  BY <1>1, <1>2 DEF Inv, Building, Place, Listed, References
<1>8. Handlers'
  BY <1>1, <1>2, <1>3, <1>4 DEF Inv, Building, Handlers
<1>9. Registers'
  BY <1>1, <1>2, <1>3 DEF Inv, Registers, Bus, Parts
<1>10. lost' \subseteq MayBeLost'
  BY <1>1, LossesGrow DEF Inv
<1> QED
  BY <1>5, <1>6, <1>7, <1>8, <1>9, <1>10 DEF Inv

\* What the error path of a constructor does not give back.
LEMMA ErrorPathLoses ==
    ASSUME Inv, slot = "construct", NEW d \in DevType, NEW s \in Kinds,
           s = "instance" <=> stage = 1, s = "init" <=> stage = 2,
           Had("init") <=> stage > 2,
           s \in {"irq_table", "int_status"} => HasIrq,
           s = "shared" => model \in OwnArrays,
           Had("shared") => model \in OwnArrays,
           s = "instance" => d = dev,
           d.destructor = dev.destructor, d.res \subseteq dev.res \cup ({s} \cap Parts)
    PROVE  ErrorPath(d, s).res \subseteq
               (IF model \in DOMAIN OwnDestructor THEN OwnDestructor[model] ELSE {})
               \cup (IF model = "me1600" THEN Bus \cup {"shared"} ELSE {})
               \cup (IF model = "me4700" THEN {"shared"} ELSE {})
<1>1. /\ d.res \subseteq Parts \cup Bus
      /\ "shared" \in d.res => model \in OwnArrays
      /\ d.res \cap {"irq_table", "int_status"} # {} => HasIrq
      /\ HasIrq => model # "me1600"
  BY Families DEF DevType, Inv, LifeType, Building, Family, Parts, Bus
<1>2. CASE s = "instance"
  BY <1>2 DEF Inv, Building, NoDevice, ErrorPath
<1>3. CASE model = "me1600" /\ s = "subdevices"
  <2>1. ErrorPath(d, s) = [d EXCEPT !.is = "freed", !.res = @ \ {"instance"}]
    BY <1>3 DEF ErrorPath, Freed
  <2>2. ErrorPath(d, s).res = d.res \ {"instance"}
    BY <2>1 DEF DevType
  <2> QED
    BY <1>1, <1>3, <2>2 DEF OwnDestructor, Parts, Bus
<1>4. CASE s # "instance" /\ ~ (model = "me1600" /\ s = "subdevices")
  <2> DEFINE c == me_device_disconnect(d)
             e == Freed(Destroyed(c))
  <2>1. /\ c \in DevType /\ c.destructor = d.destructor /\ c.res = d.res \ Bus
    BY DisconnectedFields
  <2>2. /\ e \in DevType /\ e.res \subseteq c.res /\ "instance" \notin e.res
        /\ c.destructor = "default" => e.res \cap {"subdevices", "irq_table", "int_status"} = {}
        /\ c.destructor = "own" => "shared" \notin e.res
    <3> HIDE DEF c
    <3> QED
      BY <2>1, FreedFields
  <2>3. ErrorPath(d, s).res = IF model = "me1600" THEN e.res \ {"shared"} ELSE e.res
    <3>1. ErrorPath(d, s) = IF model = "me1600" THEN [e EXCEPT !.res = @ \ {"shared"}] ELSE e
      BY <1>4 DEF ErrorPath
    <3> HIDE DEF e
    <3> QED
      BY <2>2, <3>1 DEF DevType
  <2> HIDE DEF c, e
  <2>4. CASE s = "init"
    <3>1. stage = 2 /\ ~ Had("init")
      BY <2>4
    <3>2. dev.res \subseteq {"instance"}
      <4>1. \A k \in 1 .. stage - 1 : Stages[k] = "instance"
        <5>1. 1 \in 1 .. Len(Stages)
          BY StagesOrder
        <5>2. \A k \in 1 .. stage - 1 : k = 1
          BY <3>1
        <5> QED
          BY <5>1, <5>2, StagesOrder
      <4>2. \A t : Had(t) => t = "instance"
        BY <4>1 DEF Had
      <4> QED
        BY <3>1, <4>2 DEF Inv, Building
    <3> QED
      BY <2>1, <2>2, <2>3, <2>4, <3>2 DEF Parts
  <2>5. CASE s # "init"
    <3>1. c.destructor = IF model = "me4700" /\ Had("shared") THEN "own" ELSE "default"
      <4>1. stage > 2
        BY <1>4, <2>5 DEF Inv, LifeType, Building
      <4> QED
        BY <4>1, <2>1 DEF Inv, Building
    <3>2. e.res \subseteq {"irq_table", "int_status", "shared", "subdevices"}
      BY <1>1, <2>1, <2>2 DEF Parts
    <3> QED
      BY <1>1, <2>1, <2>2, <2>3, <3>1, <3>2 DEF OwnDestructor, OwnArrays
  <2> QED
    BY <2>4, <2>5
<1> QED
  BY <1>2, <1>3, <1>4

LEMMA BuildFailsHolds == ASSUME Inv, BuildFails PROVE Inv'
<1> DEFINE s == Stages[stage]
<1>1. /\ model' = model /\ loaded' = loaded /\ stage' = stage /\ slot = "construct" /\ loaded
      /\ slot' = "refused" /\ dev' = NoDevice /\ past' = past \cup {"build_failed"}
      /\ past \subseteq {"build_failed"} /\ dev \in DevType
      /\ stage \in 1 .. Len(Stages) /\ s \in Kinds /\ CanFail(s)
  <2>1. stage \in 1 .. Len(Stages)
    <3>1. Orderly(Stages)
      BY Families DEF Inv, LifeType, Family
    <3> QED
      BY <3>1 DEF BuildFails, Orderly
  <2>2. s \in Kinds
    BY <2>1, StagesOrder
  <2>3. loaded /\ past \subseteq {"build_failed"} /\ dev \in DevType
    BY DEF BuildFails, Inv, LifeType, Place, Building
  <2> QED
    BY <2>1, <2>2, <2>3 DEF BuildFails, Happened
<1>2. PICK part \in BOOLEAN :
          /\ part => InParts(s)
          /\ lost' = lost \cup
                 ErrorPath([dev EXCEPT !.res = @ \cup IF part THEN {s} ELSE {}], s).res
  BY DEF BuildFails
<1>3. PICK d : d = [dev EXCEPT !.res = @ \cup IF part THEN {s} ELSE {}]
  OBVIOUS
<1>4. lost' = lost \cup ErrorPath(d, s).res
  BY <1>2, <1>3
<1>5. /\ d \in DevType /\ d.destructor = dev.destructor
      /\ d.res \subseteq dev.res \cup ({s} \cap Parts)
      /\ s = "instance" => d = dev
  <2>1. CASE part
    <3>1. s \in Parts /\ s # "instance"
      BY <1>2, <2>1 DEF InParts, Parts
    <3>2. d = [dev EXCEPT !.res = @ \cup {s}]
      BY <1>3, <2>1
    <3> QED
      BY <1>1, <3>1, <3>2, PartFields
  <2>2. CASE ~ part
    BY <1>1, <1>3, <2>2 DEF DevType
  <2> QED
    BY <2>1, <2>2
<1>6. /\ s = "instance" <=> stage = 1
      /\ s = "init" <=> stage = 2
      /\ Had("init") <=> stage > 2
      /\ Had("shared") => model \in OwnArrays
      /\ s = "shared" => model \in OwnArrays
      /\ s \in {"irq_table", "int_status"} => HasIrq
  <2>1. /\ Len(Stages) \in Nat /\ Len(Stages) > 2
        /\ \A k \in 1 .. Len(Stages) :
               /\ Stages[k] = "instance" <=> k = 1
               /\ Stages[k] = "init" <=> k = 2
               /\ Stages[k] = "shared" => model \in OwnArrays
    BY StagesOrder DEF Within
  <2>2. \A k \in 1 .. stage - 1 : k \in 1 .. Len(Stages) /\ k < stage
    BY <1>1, <2>1
  <2> QED
    BY <1>1, <2>1, <2>2 DEF Had, CanFail
<1>7. ErrorPath(d, s).res \subseteq MayBeLost'
  <2>1. ErrorPath(d, s).res \subseteq
            (IF model \in DOMAIN OwnDestructor THEN OwnDestructor[model] ELSE {})
            \cup (IF model = "me1600" THEN Bus \cup {"shared"} ELSE {})
            \cup (IF model = "me4700" THEN {"shared"} ELSE {})
    BY <1>1, <1>5, <1>6, ErrorPathLoses
  <2> QED
    BY <1>1, <2>1 DEF MayBeLost
<1>8. MayBeLost \subseteq MayBeLost'
  BY <1>1, LossesGrow
<1>9. LifeType'
  BY <1>1 DEF Inv, LifeType, Slots, DevType, NoDevice
<1>10. lost' \subseteq MayBeLost'
  BY <1>4, <1>7, <1>8 DEF Inv
<1> QED
  BY <1>1, <1>9, <1>10
  DEF Inv, Building, Place, Listed, Handlers, Registers, References, NoDevice, Never

LEMMA ConstructedHolds == ASSUME Inv, Constructed PROVE Inv'
<1> DEFINE l == Constructor[model].lines
<1>1. /\ model' = model /\ loaded' = loaded /\ past' = past /\ lost' = lost /\ stage' = stage
      /\ slot = "construct" /\ slot' = "bound" /\ stage = Len(Stages) + 1 /\ dev \in DevType
      /\ loaded /\ past \subseteq {"build_failed"} /\ l \in Int
  BY Families DEF Constructed, Bind, Inv, LifeType, Place, Building, Family
<1>2. /\ Had("init") /\ Had("subdevices")
      /\ HasIrq => Had("irq")
      /\ Had("shared") => model \in OwnArrays
      /\ model = "me4700" => Had("shared")
  <2>1. /\ Len(Stages) \in Nat /\ Stages[2] = "init" /\ 2 \in 1 .. Len(Stages)
        /\ Within(Stages, "subdevices")
        /\ HasIrq => Within(Stages, "irq")
        /\ Within(Stages, "shared") => model \in OwnArrays
        /\ model = "me4700" => Within(Stages, "shared")
    BY StagesOrder
  <2>2. 1 .. stage - 1 = 1 .. Len(Stages)
    BY <1>1, <2>1
  <2> QED
    BY <2>1, <2>2 DEF Had, Within
<1>0. PICK d : d = AsBuilt(dev) /\ dev' = AsBound(d, l)
  BY DEF Constructed, Bind, AsBuilt, AsBound
<1>3. /\ dev' \in DevType
      /\ dev'.is = "live" /\ dev'.listed = TRUE /\ dev'.plugged = dev.plugged
      /\ dev'.res = dev.res /\ dev'.handlers = dev.handlers /\ dev'.known = dev.known
      /\ dev'.current = dev.current
      /\ dev'.destructor = IF model = "me1600" THEN "own" ELSE dev.destructor
      /\ dev'.refs = dev.refs + 1 /\ dev'.lines = l
  <2>1. /\ d \in DevType
        /\ d.is = "live" /\ d.listed = TRUE /\ d.plugged = dev.plugged
        /\ d.res = dev.res /\ d.handlers = dev.handlers /\ d.known = dev.known
        /\ d.current = dev.current /\ d.refs = dev.refs
        /\ d.destructor = IF model = "me1600" THEN "own" ELSE dev.destructor
    BY <1>1, <1>0, CompletedFields
  <2>2. /\ dev' \in DevType
        /\ dev'.is = d.is /\ dev'.listed = d.listed /\ dev'.plugged = d.plugged
        /\ dev'.res = d.res /\ dev'.handlers = d.handlers /\ dev'.known = d.known
        /\ dev'.current = d.current /\ dev'.destructor = d.destructor
        /\ dev'.refs = d.refs + 1 /\ dev'.lines = l
    <3>1. l \in Int /\ dev' = AsBound(d, l) /\ d \in DevType
      BY <1>1, <1>0, <2>1
    <3> HIDE DEF l
    <3> QED
      BY <3>1, BoundFields
  <2> QED
    BY <2>1, <2>2
<1>4. LifeType'
  BY <1>1, <1>3 DEF Inv, LifeType, Slots
<1>5. Building' /\ Place' /\ References'
  BY <1>1, <1>3 DEF Inv, Building, Place, References
<1>6. Listed'
  BY <1>1, <1>2, <1>3 DEF Inv, Building, Listed, HasIrq, OwnArrays, Parts, Bus
<1>7. Handlers'
  BY <1>1, <1>2, <1>3 DEF Inv, Building, Handlers, Never, HasIrq
<1>8. Registers'
  BY <1>1, <1>2, <1>3 DEF Inv, Building, Registers, Never, OnPci
<1>9. lost' \subseteq MayBeLost'
  BY <1>1, LossesGrow DEF Inv
<1> QED
  BY <1>4, <1>5, <1>6, <1>7, <1>8, <1>9 DEF Inv

\* The steps of a board that has come back.
LEMMA ReinitFailsHolds == ASSUME Inv, ReinitFails PROVE Inv'
<1>1. /\ model' = model /\ loaded' = loaded /\ lost' = lost /\ stage' = stage /\ dev \in DevType
      /\ past' = past \cup {"reinit_failed"}
      /\ slot = "reinit" /\ slot' \in {"bound", "refused"} /\ dev.listed /\ OnPci
      /\ loaded /\ dev.is = "live"
  BY DEF ReinitFails, Bind, Refuse, Happened, Inv, LifeType, Place, Listed
<1>0. PICK d : d = AsInvalid(dev) /\ (dev' = d \/ dev' = AsBound(d, 0))
  BY DEF ReinitFails, Bind, Refuse, AsInvalid, AsBound
<1>2. /\ dev' \in DevType
      /\ dev'.is = dev.is /\ dev'.listed = dev.listed /\ dev'.plugged = "INVALID"
      /\ dev'.res = dev.res /\ dev'.handlers = dev.handlers /\ dev'.known = dev.known
      /\ dev'.destructor = dev.destructor
  <2>1. /\ d \in DevType
        /\ d.is = dev.is /\ d.listed = dev.listed /\ d.plugged = "INVALID"
        /\ d.res = dev.res /\ d.handlers = dev.handlers /\ d.known = dev.known
        /\ d.destructor = dev.destructor
    BY <1>1, <1>0, GivenUpFields
  <2>2. CASE dev' = AsBound(d, 0)
    BY <2>1, <2>2, BoundFields
  <2> QED
    BY <1>0, <2>1, <2>2
<1>3. LifeType'
  BY <1>1, <1>2 DEF Inv, LifeType, Slots
<1>4. MayBeLost \subseteq MayBeLost'
  BY <1>1, LossesGrow
<1>5. Building' /\ Place'
  BY <1>1, <1>2, Families
  DEF Inv, Building, Place, LifeType, DevType, NoDevice, Had, Stages, Orderly, Family,
      OnPci, HasIrq
<1>6. Listed'
  BY <1>1, <1>2 DEF Inv, Listed, Place, LifeType, HasIrq, NoDevice, Bus
<1>7. Handlers'
  BY <1>1, <1>2 DEF Inv, LifeType, DevType, Place, Handlers, Never, HasIrq, NoDevice
<1>8. Registers'
  BY <1>1, <1>2 DEF Inv, LifeType, DevType, Place, Registers, Never, OnPci, NoDevice
<1>9. References' /\ lost' \subseteq MayBeLost'
  BY <1>1, <1>2, <1>4 DEF Inv, Place, References, Never, NoDevice
<1> QED
  BY <1>3, <1>5, <1>6, <1>7, <1>8, <1>9 DEF Inv

LEMMA ReinitsHolds == ASSUME Inv, Reinits PROVE Inv'
<1>1. /\ model' = model /\ loaded' = loaded /\ lost' = lost /\ stage' = stage /\ dev \in DevType
      /\ past' = past \cup {"replugged"}
      /\ slot = "reinit" /\ slot' = "irq" /\ dev.listed
      /\ loaded /\ dev.is = "live"
  BY DEF Reinits, Happened, Inv, LifeType, Place, Listed
<1>0. PICK d :
          /\ \E same \in BOOLEAN : d = me_device_reinit(dev, same)
          /\ dev' = IF HasIrq THEN request_irq(d) ELSE d
  BY DEF Reinits
<1>2. /\ dev' \in DevType
      /\ dev'.is = dev.is /\ dev'.listed = dev.listed /\ dev'.plugged = "IN"
      /\ dev'.res = IF OnPci THEN dev.res \cup Bus ELSE dev.res
      /\ ~ HasIrq => dev'.handlers = dev.handlers /\ dev'.known = dev.known
      /\ dev'.destructor = dev.destructor
  <2>1. /\ d \in DevType
        /\ d.is = dev.is /\ d.listed = dev.listed /\ d.plugged = "IN"
        /\ d.res = IF OnPci THEN dev.res \cup Bus ELSE dev.res
        /\ d.handlers = dev.handlers /\ d.known = dev.known
        /\ d.destructor = dev.destructor
    BY <1>1, <1>0, ReinitKeeps
  <2>2. CASE HasIrq
    <3>1. dev' = request_irq(d)
      BY <1>0, <2>2
    <3> QED
      BY <2>1, <2>2, <3>1, RequestFields
  <2> QED
    BY <1>0, <2>1, <2>2
<1>3. LifeType'
  BY <1>1, <1>2 DEF Inv, LifeType, Slots
<1>4. MayBeLost \subseteq MayBeLost'
  BY <1>1, LossesGrow
<1>5. Building' /\ Place'
  BY <1>1, <1>2, Families
  DEF Inv, Building, Place, LifeType, DevType, NoDevice, Had, Stages, Orderly, Family,
      OnPci, HasIrq
<1>6. Listed'
  BY <1>1, <1>2 DEF Inv, Listed, Place, LifeType, HasIrq, NoDevice, Bus
<1>7. Handlers'
  BY <1>1, <1>2 DEF Inv, LifeType, DevType, Place, Handlers, Never, HasIrq, NoDevice
<1>8. Registers'
  BY <1>1, <1>2 DEF Inv, LifeType, DevType, Place, Registers, Never, OnPci, NoDevice
<1>9. References' /\ lost' \subseteq MayBeLost'
  BY <1>1, <1>2, <1>4 DEF Inv, Place, References, Never, NoDevice
<1> QED
  BY <1>3, <1>5, <1>6, <1>7, <1>8, <1>9 DEF Inv

LEMMA HandlerRefusedHolds == ASSUME Inv, HandlerRefused PROVE Inv'
<1>1. /\ model' = model /\ loaded' = loaded /\ lost' = lost /\ stage' = stage /\ dev \in DevType
      /\ past' = past \cup {"replugged", "handler_refused"}
      /\ slot = "reinit" /\ slot' \in {"bound", "refused"} /\ dev.listed /\ HasIrq
      /\ loaded /\ dev.is = "live"
  BY DEF HandlerRefused, Bind, Refuse, Inv, LifeType, Place, Listed
<1>0. PICK d :
          /\ \E same \in BOOLEAN : d = me_device_reinit(dev, same)
          /\ (dev' = d \/ dev' = AsBound(d, 0))
  BY DEF HandlerRefused, Bind, Refuse, AsBound
<1>2. /\ dev' \in DevType
      /\ dev'.is = dev.is /\ dev'.listed = dev.listed /\ dev'.plugged = "IN"
      /\ dev'.res = IF OnPci THEN dev.res \cup Bus ELSE dev.res
      /\ dev'.handlers = dev.handlers /\ dev'.known = dev.known
      /\ dev'.destructor = dev.destructor
  <2>1. /\ d \in DevType
        /\ d.is = dev.is /\ d.listed = dev.listed /\ d.plugged = "IN"
        /\ d.res = IF OnPci THEN dev.res \cup Bus ELSE dev.res
        /\ d.handlers = dev.handlers /\ d.known = dev.known
        /\ d.destructor = dev.destructor
    BY <1>1, <1>0, ReinitKeeps
  <2>2. CASE dev' = AsBound(d, 0)
    BY <2>1, <2>2, BoundFields
  <2> QED
    BY <1>0, <2>1, <2>2
<1>3. LifeType'
  BY <1>1, <1>2 DEF Inv, LifeType, Slots
<1>4. MayBeLost \subseteq MayBeLost'
  BY <1>1, LossesGrow
<1>5. Building' /\ Place'
  BY <1>1, <1>2, Families
  DEF Inv, Building, Place, LifeType, DevType, NoDevice, Had, Stages, Orderly, Family,
      OnPci, HasIrq
<1>6. Listed'
  BY <1>1, <1>2 DEF Inv, Listed, Place, LifeType, HasIrq, NoDevice, Bus
<1>7. Handlers'
  BY <1>1, <1>2 DEF Inv, LifeType, DevType, Place, Handlers, Never, HasIrq, NoDevice
<1>8. Registers'
  BY <1>1, <1>2 DEF Inv, LifeType, DevType, Place, Registers, Never, OnPci, NoDevice
<1>9. References' /\ lost' \subseteq MayBeLost'
  BY <1>1, <1>2, <1>4 DEF Inv, Place, References, Never, NoDevice
<1> QED
  BY <1>3, <1>5, <1>6, <1>7, <1>8, <1>9 DEF Inv

LEMMA FirmwareFailsHolds == ASSUME Inv, FirmwareFails PROVE Inv'
<1>1. /\ model' = model /\ loaded' = loaded /\ lost' = lost /\ stage' = stage /\ dev \in DevType
      /\ past' = past \cup {"reinit_failed"} /\ "replugged" \in past
      /\ slot = "irq" /\ slot' = "bound" /\ dev.listed
      /\ loaded /\ dev.is = "live"
      /\ dev' = AsBound(dev, 0)
  BY DEF FirmwareFails, Bind, Happened, Inv, LifeType, Place, Listed, AsBound
<1>2. /\ dev' \in DevType
      /\ dev'.is = dev.is /\ dev'.listed = dev.listed /\ dev'.plugged = dev.plugged
      /\ dev'.res = dev.res /\ dev'.handlers = dev.handlers /\ dev'.known = dev.known
      /\ dev'.destructor = dev.destructor
  <2>1. dev' = AsBound(dev, 0) /\ dev \in DevType
    BY <1>1
  <2> QED
    BY <2>1, BoundFields
<1>3. LifeType'
  BY <1>1, <1>2 DEF Inv, LifeType, Slots
<1>4. MayBeLost \subseteq MayBeLost'
  BY <1>1, LossesGrow
<1>5. Building' /\ Place'
  BY <1>1, <1>2, Families
  DEF Inv, Building, Place, LifeType, DevType, NoDevice, Had, Stages, Orderly, Family,
      OnPci, HasIrq
<1>6. Listed'
  BY <1>1, <1>2 DEF Inv, Listed, Place, LifeType, HasIrq, NoDevice, Bus
<1>7. Handlers'
  BY <1>1, <1>2 DEF Inv, LifeType, DevType, Place, Handlers, Never, HasIrq, NoDevice
<1>8. Registers'
  BY <1>1, <1>2 DEF Inv, LifeType, DevType, Place, Registers, Never, OnPci, NoDevice
<1>9. References' /\ lost' \subseteq MayBeLost'
  BY <1>1, <1>2, <1>4 DEF Inv, Place, References, Never, NoDevice
<1> QED
  BY <1>3, <1>5, <1>6, <1>7, <1>8, <1>9 DEF Inv

LEMMA InitIrqHolds == ASSUME Inv, InitIrq PROVE Inv'
<1> DEFINE l == IF model = "me1400d" THEN 1 ELSE Constructor[model].lines
<1>1. /\ model' = model /\ loaded' = loaded /\ lost' = lost /\ stage' = stage /\ dev \in DevType
      /\ past' = past /\ "replugged" \in past
      /\ slot = "irq" /\ slot' = "bound" /\ dev.listed
      /\ loaded /\ dev.is = "live"
  BY DEF InitIrq, Bind, Inv, LifeType, Place, Listed
<1>2. /\ dev' \in DevType
      /\ dev'.is = dev.is /\ dev'.listed = dev.listed /\ dev'.plugged = dev.plugged
      /\ dev'.res = dev.res /\ dev'.lines = l
      /\ ~ HasIrq => dev'.handlers = dev.handlers /\ dev'.known = dev.known
      /\ dev'.destructor = dev.destructor
  <2>1. PICK d : d = (IF HasIrq THEN request_irq(dev) ELSE dev) /\ dev' = AsBound(d, l)
    BY DEF InitIrq, Bind, AsBound
  <2>2. /\ d \in DevType
        /\ d.is = dev.is /\ d.listed = dev.listed /\ d.plugged = dev.plugged
        /\ d.res = dev.res /\ d.destructor = dev.destructor
        /\ ~ HasIrq => d.handlers = dev.handlers /\ d.known = dev.known
    <3>1. CASE HasIrq
      BY <1>1, <2>1, <3>1, RequestFields
    <3>2. CASE ~ HasIrq
      BY <1>1, <2>1, <3>2
    <3> QED
      BY <3>1, <3>2
  <2>3. l \in Int /\ dev' = AsBound(d, l) /\ d \in DevType
    BY <2>1, <2>2, Families DEF Inv, LifeType, Family
  <2>4. /\ dev' \in DevType
        /\ dev'.is = d.is /\ dev'.listed = d.listed /\ dev'.plugged = d.plugged
        /\ dev'.res = d.res /\ dev'.handlers = d.handlers /\ dev'.known = d.known
        /\ dev'.destructor = d.destructor /\ dev'.lines = l
    <3> HIDE DEF l
    <3> QED
      BY <2>3, BoundFields
  <2> HIDE DEF l
  <2> QED
    BY <2>2, <2>4
<1>3. LifeType'
  BY <1>1, <1>2 DEF Inv, LifeType, Slots
<1>4. MayBeLost \subseteq MayBeLost'
  BY <1>1, LossesGrow
<1>5. Building' /\ Place'
  BY <1>1, <1>2, Families
  DEF Inv, Building, Place, LifeType, DevType, NoDevice, Had, Stages, Orderly, Family,
      OnPci, HasIrq
<1>6. Listed'
  BY <1>1, <1>2 DEF Inv, Listed, Place, LifeType, HasIrq, NoDevice, Bus
<1>7. Handlers'
  BY <1>1, <1>2 DEF Inv, LifeType, DevType, Place, Handlers, Never, HasIrq, NoDevice
<1>8. Registers'
  BY <1>1, <1>2 DEF Inv, LifeType, DevType, Place, Registers, Never, OnPci, NoDevice
<1>9. References' /\ lost' \subseteq MayBeLost'
  BY <1>1, <1>2, <1>4 DEF Inv, Place, References, Never, NoDevice
<1> QED
  BY <1>3, <1>5, <1>6, <1>7, <1>8, <1>9 DEF Inv

LEMMA InitIrqFailsHolds == ASSUME Inv, InitIrqFails PROVE Inv'
<1>1. /\ model' = model /\ loaded' = loaded /\ lost' = lost /\ stage' = stage /\ dev \in DevType
      /\ past' = past \cup {"irq_refused"} /\ "replugged" \in past
      /\ slot = "irq" /\ dev.listed /\ HasIrq
      /\ loaded /\ dev.is = "live"
  BY DEF InitIrqFails, Bind, Refuse, Happened, Inv, LifeType, Place, Listed
<1>2. CASE Reinit[model] = "keeps"
  <2>1. slot' = "bound" /\ dev' = AsBound(dev, 0)
    BY <1>2 DEF InitIrqFails, Bind, AsBound
  <2>2. /\ dev' \in DevType
        /\ dev'.is = dev.is /\ dev'.listed = dev.listed /\ dev'.plugged = dev.plugged
        /\ dev'.res = dev.res /\ dev'.handlers = dev.handlers /\ dev'.known = dev.known
        /\ dev'.destructor = dev.destructor
    <3>1. dev' = AsBound(dev, 0) /\ dev \in DevType
      BY <1>1, <2>1
    <3> QED
      BY <3>1, BoundFields
  <2>3. LifeType'
    BY <1>1, <2>1, <2>2 DEF Inv, LifeType, Slots
  <2>4. Building' /\ Place' /\ References'
    BY <1>1, <2>1, <2>2 DEF Inv, Building, Place, References, Never
  <2>5. Listed'
    BY <1>1, <2>1, <2>2 DEF Inv, Listed, HasIrq
  <2>6. Handlers'
    BY <1>1, <2>1, <2>2 DEF Inv, Handlers, Never, HasIrq
  <2>7. Registers'
    BY <1>1, <2>1, <2>2 DEF Inv, Registers, Never, OnPci
  <2>8. lost' \subseteq MayBeLost'
    BY <1>1, LossesGrow DEF Inv
  <2> QED
    BY <2>3, <2>4, <2>5, <2>6, <2>7, <2>8 DEF Inv
<1>3. CASE Reinit[model] # "keeps"
  <2>1. /\ slot' = "refused" /\ Reinit[model] = "frees"
        /\ dev' = Freed(Destroyed(me_device_disconnect(dev)))
    BY <1>1, <1>3, Comebacks DEF InitIrqFails, Refuse, Inv, LifeType
  <2>2. /\ dev' \in DevType
        /\ dev'.is = "freed" /\ dev'.listed = dev.listed
        /\ dev'.res \cap Bus = {}
    <3>1. PICK c : c = me_device_disconnect(dev)
      OBVIOUS
    <3>2. c \in DevType /\ c.listed = dev.listed /\ c.res = dev.res \ Bus
      BY <1>1, <3>1, DisconnectedFields
    <3>3. dev' = Freed(Destroyed(c))
      BY <2>1, <3>1
    <3>4. /\ dev' \in DevType /\ dev'.is = "freed" /\ dev'.listed = c.listed
          /\ dev'.res \subseteq c.res
      BY <3>2, <3>3, FreedFields
    <3> QED
      BY <3>2, <3>4
  <2>3. LifeType'
    BY <1>1, <2>1, <2>2 DEF Inv, LifeType, Slots
  <2>4. Building' /\ Place' /\ References'
    BY <1>1, <2>1, <2>2 DEF Inv, Building, Place, References, Never
  <2>5. Listed'
    BY <1>1, <2>1, <2>2 DEF Inv, Listed
  <2>6. Handlers'
    BY <1>1, <2>1, <2>2 DEF Inv, Handlers, Never, HasIrq
  <2>7. Registers'
    BY <1>1, <2>1, <2>2 DEF Inv, Registers, OnPci
  <2>8. lost' \subseteq MayBeLost'
    BY <1>1, LossesGrow DEF Inv
  <2> QED
    BY <2>3, <2>4, <2>5, <2>6, <2>7, <2>8 DEF Inv
<1> QED
  BY <1>2, <1>3

\* The board is removed from a device that is on the list.
LEMMA RemovedFields ==
    ASSUME NEW d \in DevType, NEW e, e = Removed(d)
    PROVE  /\ e \in DevType
           /\ e.is = d.is /\ e.listed = d.listed /\ e.refs = d.refs /\ e.destructor = d.destructor
           /\ e.plugged # "IN"
           /\ e.res = IF d.plugged = "IN" THEN d.res \ Bus ELSE d.res
           /\ e.known <=> d.known /\ d.plugged # "IN"
           /\ e.handlers = IF d.known /\ d.plugged = "IN" THEN d.handlers - 1 ELSE d.handlers
<1>1. CASE d.plugged = "IN"
  <2>1. PICK c : c = me_device_disconnect(d)
    OBVIOUS
  <2>2. /\ c \in DevType
        /\ c.is = d.is /\ c.listed = d.listed /\ c.refs = d.refs /\ c.destructor = d.destructor
        /\ c.res = d.res \ Bus /\ c.known = FALSE
        /\ c.handlers = IF d.known THEN d.handlers - 1 ELSE d.handlers
    BY <2>1, DisconnectedFields
  <2>3. e = AsOut(c)
    BY <1>1, <2>1 DEF Removed, AsOut
  <2> QED
    BY <1>1, <2>2, <2>3, OutFields
<1>2. CASE d.plugged # "IN"
  BY <1>2 DEF Removed, DevType
<1> QED
  BY <1>1, <1>2

LEMMA me_removeHolds == ASSUME Inv, me_remove PROVE Inv'
<1>1. /\ model' = model /\ loaded' = loaded /\ past' = past /\ stage' = stage /\ dev \in DevType
      /\ slot = "bound" /\ slot' = "empty" /\ dev.listed
      /\ loaded /\ dev.is = "live"
      /\ dev' = Removed(dev) /\ lost' = lost \cup Semaphore
  BY DEF me_remove, Inv, LifeType, Place, Listed
<1>2. /\ dev' \in DevType
      /\ dev'.is = dev.is /\ dev'.listed = dev.listed /\ dev'.refs = dev.refs
      /\ dev'.destructor = dev.destructor /\ dev'.plugged # "IN"
      /\ dev'.res = IF dev.plugged = "IN" THEN dev.res \ Bus ELSE dev.res
      /\ dev'.known <=> dev.known /\ dev.plugged # "IN"
      /\ dev'.handlers = IF dev.known /\ dev.plugged = "IN" THEN dev.handlers - 1
                         ELSE dev.handlers
  <2>1. dev' = Removed(dev) /\ dev \in DevType
    BY <1>1
  <2> QED
    BY <2>1, RemovedFields
<1>3. LifeType'
  BY <1>1, <1>2 DEF Inv, LifeType, Slots
<1>4. Building' /\ Place' /\ References'
  BY <1>1, <1>2 DEF Inv, Building, Place, References, Never
<1>5. Listed'
  BY <1>1, <1>2 DEF Inv, Listed, HasIrq, Bus
<1>6. Handlers'
  BY <1>1, <1>2 DEF Inv, LifeType, DevType, Handlers, Never, HasIrq
<1>7. Registers'
  BY <1>1, <1>2 DEF Inv, Registers, Never, OnPci
<1>8. lost' \subseteq MayBeLost'
  <2>1. MayBeLost \subseteq MayBeLost'
    BY <1>1, LossesGrow
  <2>2. Semaphore \subseteq MayBeLost'
    BY <1>1 DEF Semaphore, MayBeLost, OnPci
  <2> QED
    BY <1>1, <2>1, <2>2 DEF Inv
<1> QED
  BY <1>3, <1>4, <1>5, <1>6, <1>7, <1>8 DEF Inv

LEMMA UnloadHolds == ASSUME Inv, Unload PROVE Inv'
<1>1. /\ model' = model /\ past' = past /\ stage' = stage /\ dev \in DevType
      /\ loaded /\ loaded' = FALSE /\ slot' = "empty" /\ dev.is # "freed"
      /\ slot \in {"empty", "bound", "refused"}
      /\ slot = "bound" => dev.listed
      /\ ~ dev.listed => dev = NoDevice
      /\ HasIrq => OnPci
  BY Families DEF Unload, Inv, LifeType, Place, Family
<1>0. PICK out :
          /\ out = IF slot = "bound" /\ OnPci THEN Removed(dev) ELSE dev
          /\ dev' = IF dev.listed THEN Cleared(out) ELSE out
          /\ lost' = lost \cup (IF dev.listed THEN Cleared(out).res ELSE {})
                          \cup (IF slot = "bound" THEN Semaphore ELSE {})
  BY DEF Unload
<1>2. /\ out \in DevType
      /\ out.listed = dev.listed /\ out.refs = dev.refs /\ out.destructor = dev.destructor
      /\ out.res = IF slot = "bound" /\ OnPci /\ dev.plugged = "IN" THEN dev.res \ Bus
                   ELSE dev.res
      /\ out.known <=> dev.known /\ ~ (slot = "bound" /\ OnPci /\ dev.plugged = "IN")
      /\ out.handlers = IF dev.known /\ slot = "bound" /\ OnPci /\ dev.plugged = "IN"
                        THEN dev.handlers - 1 ELSE dev.handlers
  <2>1. CASE slot = "bound" /\ OnPci
    <3>1. out = Removed(dev) /\ dev \in DevType
      BY <1>1, <1>0, <2>1
    <3>2. /\ out \in DevType
          /\ out.listed = dev.listed /\ out.refs = dev.refs /\ out.destructor = dev.destructor
          /\ out.res = IF dev.plugged = "IN" THEN dev.res \ Bus ELSE dev.res
          /\ out.known <=> dev.known /\ dev.plugged # "IN"
          /\ out.handlers = IF dev.known /\ dev.plugged = "IN" THEN dev.handlers - 1
                            ELSE dev.handlers
      BY <3>1, RemovedFields
    <3> QED
      BY <2>1, <3>2
  <2>2. CASE ~ (slot = "bound" /\ OnPci)
    BY <1>1, <1>0, <2>2
  <2> QED
    BY <2>1, <2>2
<1>3. CASE dev.listed
  <2>1. /\ dev' \in DevType /\ dev'.is = "freed" /\ ~ dev'.listed
        /\ dev'.refs = out.refs - 1 /\ dev'.known = out.known /\ dev'.handlers = out.handlers
        /\ dev'.res = Freed(Destroyed(out)).res
    <3>1. dev' = Cleared(out)
      BY <1>3, <1>0
    <3> QED
      BY <1>2, <3>1, ClearedFields
  <2>2. PICK gone : gone = Freed(Destroyed(out))
    OBVIOUS
  <2>3. /\ gone.res \subseteq out.res /\ "instance" \notin gone.res
        /\ out.destructor = "default" =>
               gone.res \cap {"subdevices", "irq_table", "int_status"} = {}
        /\ out.destructor = "own" => "shared" \notin gone.res
    BY <1>2, <2>2, FreedFields
  <2>4. gone.res \subseteq MayBeLost'
    <3>1. /\ dev.res \subseteq Parts \cup Bus /\ dev.is = "live"
          /\ "shared" \in dev.res => model \in OwnArrays
          /\ dev.res \cap {"irq_table", "int_status"} # {} => HasIrq
          /\ HasIrq => model # "me1600"
          /\ dev.destructor = IF model \in OwnArrays THEN "own" ELSE "default"
      BY <1>1, <1>3, Families DEF Inv, LifeType, DevType, Listed, Family
    <3>2. gone.res \cap Bus # {} => past \cap {"handler_refused", "not_removed"} # {}
      <4>1. gone.res \cap Bus \subseteq out.res
        BY <2>3
      <4>2. CASE slot = "bound"
        BY <1>2, <1>3, <4>1, <4>2 DEF Inv, Registers, Never
      <4>3. CASE slot # "bound"
        BY <1>1, <1>2, <1>3, <4>1, <4>3 DEF Inv, Registers, Never
      <4> QED
        BY <4>2, <4>3
    <3>3. CASE model \in OwnArrays
      <4>1. gone.res \subseteq {"subdevices", "irq_table", "int_status"} \cup Bus
        BY <1>2, <2>3, <3>1, <3>3 DEF Parts
      <4>2. model = "me1600" => gone.res \subseteq {"subdevices"} \cup Bus
        BY <1>2, <2>3, <3>1, <4>1 DEF Parts
      <4> QED
        BY <1>1, <3>2, <3>3, <4>1, <4>2 DEF MayBeLost, OwnDestructor, OwnArrays
    <3>4. CASE model \notin OwnArrays
      <4>1. gone.res \subseteq Bus
        BY <1>2, <2>3, <3>1, <3>4 DEF Parts
      <4> QED
        BY <1>1, <3>2, <4>1 DEF MayBeLost
    <3> QED
      BY <3>3, <3>4
  <2>5. lost' \subseteq MayBeLost'
    <3>1. MayBeLost \subseteq MayBeLost'
      BY <1>1, LossesGrow
    <3>2. Semaphore \subseteq MayBeLost'
      BY <1>1 DEF Semaphore, MayBeLost, OnPci
    <3>3. lost' \subseteq lost \cup gone.res \cup Semaphore
      <4>1. Cleared(out).res = gone.res
        BY <1>3, <1>0, <2>1, <2>2
      <4> QED
        BY <1>0, <4>1
    <3> QED
      BY <2>4, <3>1, <3>2, <3>3 DEF Inv
  <2>6. LifeType' /\ Building' /\ Place' /\ Listed'
    BY <1>1, <2>1 DEF Inv, LifeType, Slots, Building, Place, Listed
  <2>7. Handlers'
    BY <1>1, <1>2, <1>3, <2>1 DEF Inv, LifeType, DevType, Handlers, Never, HasIrq
  <2>8. Registers' /\ References'
    <3>1. ~ OnPci => dev'.res \cap Bus = {}
      BY <1>2, <2>1, <2>2, <2>3 DEF Inv, Registers
    <3> QED
      BY <1>1, <1>2, <1>3, <2>1, <3>1
      DEF Inv, LifeType, DevType, Registers, References, Never, OnPci
  <2> QED
    BY <2>5, <2>6, <2>7, <2>8 DEF Inv
<1>4. CASE ~ dev.listed
  <2>1. dev' = NoDevice /\ dev' = dev /\ lost' = lost
    <3>1. slot # "bound"
      BY <1>1, <1>4
    <3> QED
      BY <1>1, <1>4, <1>0, <3>1
  <2>2. lost' \subseteq MayBeLost'
    BY <1>1, <2>1, LossesGrow DEF Inv
  <2>3. LifeType'
    BY <1>1, <2>1 DEF Inv, LifeType, Slots
  <2> QED
    BY <1>1, <2>1, <2>2, <2>3
    DEF Inv, Building, Place, Listed, Handlers, Registers, References, NoDevice, Never
<1> QED
  BY <1>3, <1>4

LEMMA StutterHolds == ASSUME Inv, UNCHANGED lifeVars PROVE Inv'
BY DEF Inv, lifeVars, LifeType, Building, Place, Listed, Handlers, Registers, References, Had,
   Stages, HasIrq, OnPci, Never, MayBeLost, Semaphore, OwnDestructor, OwnArrays

LEMMA NextHolds == ASSUME Inv, [LifeNext]_lifeVars PROVE Inv'
<1>1. CASE Over \/ UNCHANGED lifeVars
  BY <1>1, StutterHolds DEF Over
<1> QED
  BY <1>1, PlugHolds, ProbeRefusedHolds, FindDeviceHolds, NoConstructorHolds, BuildHolds,
     BuildFailsHolds, ConstructedHolds, ReinitFailsHolds, ReinitsHolds, HandlerRefusedHolds,
     FirmwareFailsHolds, InitIrqHolds, InitIrqFailsHolds, me_removeHolds, RemoveFailsHolds,
     RefusedRemovedHolds, UnloadHolds
  DEF LifeNext

THEOREM LifeInvariant == LifeSpec => []Inv
BY InitHolds, NextHolds, PTL DEF LifeSpec

-----------------------------------------------------------------------------
\* Whatever a board, its slot and its module go through, whoever can be called or found is
\* still there, with the exceptions that NothingDangles names.
THEOREM DanglesHold == LifeSpec => []NothingDangles
<1>1. ASSUME Inv PROVE NothingDangles
  <2>1. /\ dev.listed /\ dev.is = "freed" =>
               "irq_refused" \in past /\ Reinit[model] = "frees"
        /\ dev.handlers > 1 => "replugged" \in past
    BY <1>1 DEF Inv, Listed, Handlers, Never
  <2>2. Resting /\ Never({"replugged", "not_removed"}) =>
            dev.handlers = IF slot = "bound" /\ HasIrq /\ Never({"reinit_failed"}) THEN 1 ELSE 0
    BY <1>1 DEF Inv, Resting, Place, Handlers, Never, NoDevice
  <2>3. dev.handlers > 0 /\ slot = "bound" =>
            "subdevices" \in dev.res /\ Handler[model] = Constructor[model].table
    BY <1>1, Families DEF Inv, LifeType, Family, Place, Listed, Handlers
  <2>4. slot = "bound" /\ Never({"reinit_failed", "not_removed"}) =>
            /\ OnPci => Bus \subseteq dev.res
            /\ dev.plugged = "IN"
            /\ Never({"replugged"}) => dev.current
            /\ Never({"irq_refused", "handler_refused"}) =>
                   dev.lines = Constructor[model].lines \/ model = "me1400d"
    BY <1>1 DEF Inv, Registers
  <2>5. slot = "refused" /\ Never({"handler_refused", "not_removed"}) =>
            dev.res \cap Bus = {}
    BY <1>1 DEF Inv, Place, Registers, NoDevice
  <2> QED
    BY <2>1, <2>2, <2>3, <2>4, <2>5 DEF NothingDangles
<1> QED
  BY <1>1, LifeInvariant, PTL

\* And what is lost is among the leaks that KnownLeaks names; the last reference of a device
\* goes with the module unless its board had come back.
THEOREM LeaksHold == LifeSpec => []KnownLeaks
<1>1. ASSUME Inv PROVE KnownLeaks
  BY <1>1 DEF Inv, KnownLeaks, Place, References, Never
<1> QED
  BY <1>1, LifeInvariant, PTL
=============================================================================
