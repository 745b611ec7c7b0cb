----------------------------- MODULE MCBoards -----------------------------
(***************************************************************************)
(* The boards for TLC: the subdevices of a board that is in use (Boards),  *)
(* with small sets of calls by the kind of the board, the analog outputs   *)
(* of an ME-1600 (ME1600AO), and the coming and going of a device          *)
(* (DeviceLife).  A behaviour is one of a part, chosen in its first state, *)
(* while the others stay where they start.                                 *)
(***************************************************************************)
EXTENDS Boards, ME1600AO, DeviceLife

VARIABLE part

vars == <<part, portvars, aoVars, lifeVars>>

Plain == {[flag |-> "none", mode |-> m, ref |-> r, type |-> "sw", chain |-> "default",
           edge |-> "none", channel |-> 0] :
             m \in Modes \ {"bit_pattern", "demux32"}, r \in {"none", "fifo_high"}}
Counting == {[mode |-> m, ref |-> r, flag |-> "none", type |-> "none", chain |-> "none",
              edge |-> "none", channel |-> 0] : m \in {"m2", "disable"}, r \in {"external", "10mhz", "previous"}}
Multipin == {[mode |-> m, flag |-> "multipin", trigger |-> FALSE, channel |-> 0] :
               m \in {"multipin_irq", "multipin_clk"}}
Bit(c) == [flag |-> "bit", channel |-> c]
Whole  == [flag |-> "none", channel |-> 0]
Upper  == [flag |-> "byte", channel |-> 1]
Calls(subs, args) == [sub : subs, arg : args]

Starting == {[flag |-> "none", source |-> "default", edge |-> "rising", arg |-> 0, channel |-> 0],
             [flag |-> "none", source |-> "default", edge |-> "any", arg |-> 1, channel |-> 0],
             [flag |-> "none", source |-> "default", edge |-> "not_used", arg |-> 0, channel |-> 0],
             [flag |-> "filter", source |-> "pattern", edge |-> "not_used", arg |-> 1, channel |-> 0]}
Waiting(n) == {[flag |-> "none", channel |-> 0, count |-> n]}

None == [reset |-> {}, config |-> {}, read |-> {}, write |-> {}, start |-> {}, wait |-> {}, stop |-> {}]

\* Boards of plain ports.
Porting ==
  "t1" :> [None EXCEPT !.reset = {0}, !.config = Calls({0}, Plain), !.read = Calls({0}, {Bit(9), Whole}),
                       !.write = [sub : {0}, arg : {Bit(0)}, value : {"low"}] \cup [sub : {0}, arg : {Upper}, value : {"high"}]]
  @@ "t2" :> [None EXCEPT !.reset = {1}, !.config = Calls({0}, {a \in Plain : a.mode = "output"})
                                       \cup Calls({1}, {a \in Plain : a.mode = "mux32m" /\ a.ref # "none"}),
                          !.write = [sub : {0, 1}, arg : {Bit(1), Whole}, value : {"high"}]]

\* Boards with counters; those of the ME-1400 share their clock registers
\* with an external interrupt, subdevice 2.
Counts ==
  "t1" :> [None EXCEPT !.reset = {0}, !.config = Calls({0}, Counting), !.read = Calls({0}, {Whole}),
                       !.write = [sub : {0}, arg : {Whole}, value : {"high"}]]
  @@ "t2" :> [None EXCEPT !.write = [sub : {0}, arg : {Whole}, value : {"low"}], !.config = Calls({1}, Counting)]
Clocks ==
  "t1" :> [None EXCEPT !.config = Calls({0}, {c \in Counting : c.mode = "m2" /\ c.ref # "previous"}) \cup Calls({2}, Multipin)]
  @@ "t2" :> [None EXCEPT !.config = Calls({1}, {c \in Counting : c.ref = "10mhz"}), !.stop = {2},
                          !.start = Calls({2}, {a \in Starting : a.arg = 0})]

\* Boards with interrupts.
Lines(starting, waiting) ==
  "t1" :> [None EXCEPT !.reset = {0}, !.wait = Calls({0}, Waiting(0)), !.stop = {0}]
  @@ "t2" :> [None EXCEPT !.reset = waiting, !.start = starting, !.wait = Calls(waiting, Waiting(1)),
                          !.stop = {1}, !.write = [sub : {1}, arg : {Bit(1)}, value : {"high"}]]

MCInputs ==
  [b \in Board |-> CASE b = "me4600_ctr" -> Counts
                     [] b \in {"me1400ab", "me1400cd"} -> Clocks
                     [] b = "me4600_irq" -> Lines(Calls({0}, Starting), {0})
                     [] b = "me0600_irq" -> Lines(Calls({0, 1}, Starting), {})
                     [] b \in {"me8100", "me8200_ex", "me8200_do"} -> Lines(Calls({0}, Starting), {})
                     [] b = "me8200" -> Lines(Calls({0}, {a \in Starting : a.edge # "any"}), {})
                     [] b = "me8100b" -> [t \in {"t1", "t2"} |-> [Porting[t] EXCEPT !.write = {}]]
                     [] OTHER -> Porting]

MCModels == DOMAIN Constructor

MCCalls1600 == "t1" :> {<<"config", 0>>, <<"write", 0>>, <<"reset", 1>>}
               @@ "t2" :> {<<"config", 1>>, <<"write", 1>>, <<"read", 1>>}

MCInit ==
    /\ AOInit
    /\ \/ part = "board" /\ Init /\ LifeInit /\ model = "me1000"
       \/ part = "outputs" /\ Init /\ board = "me1000" /\ LifeInit /\ model = "me1600"
       \/ part = "life" /\ LifeInit /\ Init /\ board = "me1000"

MCNext ==
    /\ UNCHANGED part
    /\ \/ part = "board" /\ Next /\ UNCHANGED <<aoVars, lifeVars>>
       \/ part = "outputs" /\ AONext /\ UNCHANGED <<portvars, lifeVars>>
       \/ part = "life" /\ LifeNext /\ UNCHANGED <<portvars, aoVars>>

MCSpec == MCInit /\ [][MCNext]_vars
=============================================================================
