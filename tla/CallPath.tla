------------------------------ MODULE CallPath ------------------------------
(***************************************************************************)
(* A call of the user library on its way to the subdevice, through the     *)
(* call tables of modules LibCalls, RpcCalls and DriverCalls.  The same    *)
(* call is made in C for a device of this computer and a second time in    *)
(* another way: for a device of another computer, whose server makes it    *)
(* with a library of its own, or through the extension for Python or Java. *)
(* What reaches the subdevices and what comes back are compared.  One step *)
(* hands a call from one layer to the next.                                *)
(***************************************************************************)
EXTENDS LibBuilds, Bindings, RpcCalls, DriverCalls, Naturals, SequencesExt

CONSTANT Lists  \* the devices of the entries of the lists tried

Sides == {"local", "other"}

\* Methods that send lists of entries, and the operations that wait in the driver.
ListMethods == {"SingleList", "StreamStartList", "StreamStopList"}
Waiting     == {"IrqWait", "Single", "SingleList", "StreamNewValues", "StreamRead",
                "StreamWrite", "StreamStart", "StreamStartList", "StreamStatus",
                "StreamStop", "StreamStopList"}

MethodOf(c) == IF c.level = "api" THEN IF c.fn = "meIOSingle" THEN "SingleList"
                                       ELSE Global[c.fn].method
               ELSE c.fn

VARIABLES
    call,   \* the call under way: where it enters (level), its function and its circumstances
    side,   \* whether it is made in C for a local device or in the other way, "done" after both
    work,   \* what is still to be handed on, first things first
    ops     \* what the subdevices, devices and main driver were asked to do, per side

pathVars == <<call, side, work, ops>>

\* A function called in a layer, for these entries of the list (<<1>> without a list),
\* by the library of the program or of the server.
Item(at, fn, in, out, entries, server) ==
    [at |-> at, fn |-> fn, in |-> in, out |-> out, entries |-> entries, server |-> server]

Start(c, s) ==
    LET at == IF s = "other" /\ c.other # "remote" THEN c.other ELSE c.level
    IN <<Item(at, c.fn, Methods[MethodOf(c)], Answers, [k \in DOMAIN c.devs |-> k], FALSE)>>

\* Circumstances: the program has the unified library, the one with an XML file or, for
\* devices of this computer and of another one, separate libraries; a list of several
\* entries may be non-blocking and one of its entries may fail; waiting for an interrupt
\* may go on from the count given; the operation may take longer than a short time-out of
\* the client; the ticks of a trigger may be large.
Calls ==
    LET globals == DOMAIN Global \cup {"meIOSingle"}
        of(level, fns, other) ==
            {c \in [level : {level}, fn : fns, devs : Lists, fails : 0 .. 3,
                    nonblocking : BOOLEAN, preserve : BOOLEAN, slow : BOOLEAN,
                    build : {"unified", "xml", "separate"}, other : {other}, ticks : Ticks] :
                 /\ MethodOf(c) \notin ListMethods =>
                        Len(c.devs) = 1 /\ c.fails = 0 /\ ~c.nonblocking
                 /\ c.fails <= Len(c.devs)
                 /\ c.preserve => c.fn = "meIOIrqWait"
                 /\ c.slow => MethodOf(c) \in Waiting /\ other = "remote"
                 /\ other # "remote" => c.build = "unified"
                 /\ c.ticks # "int" => c.fn = "meIOStreamConfig" /\ other # "remote"}
    IN of("api", globals, "remote") \cup of("virtual", Virtual, "remote")
       \cup UNION {of("api", DOMAIN Bound[b].lost, b) : b \in DOMAIN Bound}

PathInit == /\ call \in Calls
            /\ side = "local"
            /\ work = Start(call, "local")
            /\ ops = [s \in Sides |-> <<>>]

-----------------------------------------------------------------------------
\* The calls i makes according to an entry of a table, in the layer at.
Handed(i, at, table) ==
    [k \in DOMAIN table |-> Item(at, table[k].fn, i.in \cap table[k].in,
                                 i.out \cap table[k].out, i.entries, i.server)]

Replace(new) == work' = new \o Tail(work)
Here(at)     == side \in Sides /\ work # <<>> /\ Head(work).at = at

\* An extension hands on a call whose arguments it takes.  When the call fails, it takes
\* the answers back that it converts before it raises the exception.
BoundCall ==
    /\ side = "other" /\ work # <<>> /\ Head(work).at \in DOMAIN Bound
    /\ LET i == Head(work)
           b == Bound[i.at]
           trigger == IF call.ticks \in b.start.cut \cup b.conv.cut THEN {"trigger"} ELSE {}
           raised == call.fails # 0 /\ ~call.nonblocking
       IN Replace(IF i.fn # "meIOStreamConfig" \/ call.ticks \in b.start.taken \cap b.conv.taken
                  THEN <<[i EXCEPT !.at = "api", !.in = @ \ (b.lost[i.fn] \cup trigger),
                                   !.out = IF raised THEN @ \cap b.onError ELSE @]>>
                  ELSE <<>>)
    /\ UNCHANGED <<call, side, ops>>

\* A list of one value is a single value; its flags are refused and its entry gets no
\* error code.
GlobalSingle ==
    /\ Here("api") /\ Head(work).fn = "meIOSingle"
    /\ LET i == Head(work) IN
       IF Len(i.entries) > 1
       THEN Replace(<<[i EXCEPT !.at = "virtual", !.fn = "SingleList"]>>)
       ELSE IF call.nonblocking THEN Replace(<<>>)
       ELSE Replace(<<[i EXCEPT !.at = "virtual", !.fn = "Single", !.out = @ \cap {"value"}]>>)
    /\ UNCHANGED <<call, side, ops>>

\* The other global functions call the method, or set some of its inputs themselves.
GlobalCall ==
    /\ Here("api") /\ Head(work).fn # "meIOSingle"
    /\ LET i == Head(work)
           api == Global[i.fn]
           kept == IF call.preserve /\ ~i.server THEN i.in ELSE i.in \ api.fixed
       IN Replace(<<[i EXCEPT !.at = "virtual", !.fn = api.method, !.in = kept]>>)
    /\ UNCHANGED <<call, side, ops>>

\* The back end of the device: the driver of this computer, or a server.
BackEnd(i) == IF side = "other" /\ call.other = "remote" /\ ~i.server THEN "remote" ELSE "local"

\* The library that does this part of the call; a server has the one of the program, or
\* the one for drivers.
BuildOf(i) == IF call.build # "separate" THEN Builds[call.build]
              ELSE IF BackEnd(i) = "remote" THEN Builds.servers ELSE Builds.drivers

\* Calls of its own ME_LockAll() come without a wrapper.
VirtualCall ==
    /\ Here("virtual") /\ Head(work).fn \in Virtual \ ListMethods
    /\ LET i == Head(work)
           wrapped == BuildOf(i).wraps \cup {"LockDriver"}
       IN Replace(IF i.fn \in wrapped THEN <<[i EXCEPT !.at = BackEnd(i)]>> ELSE <<>>)
    /\ UNCHANGED <<call, side, ops>>

\* A bug: a group ends one entry after the cut.
GroupFrom_longer(entries, k) ==
    SelectSeq(entries, LAMBDA e : /\ e >= entries[k]
                                  /\ \A c \in 2 .. Len(entries) :
                                        call.devs[entries[c]] # call.devs[entries[c - 1]]
                                            /\ c > k => e <= entries[c])

\* A list is cut where the device changes.
Cuts(entries) == {k \in 2 .. Len(entries) : call.devs[entries[k]] # call.devs[entries[k - 1]]}
GroupFrom(entries, k) ==
    SelectSeq(entries, LAMBDA e : /\ e >= entries[k]
                                  /\ \A c \in Cuts(entries) : c > k => e < entries[c])

Groups(entries) ==
    LET starts == SetToSortSeq({1} \cup Cuts(entries), <)
    IN [g \in DOMAIN starts |-> GroupFrom(entries, starts[g])]

GroupItems(i, groups) ==
    [g \in DOMAIN groups |-> [i EXCEPT !.at = BackEnd(i), !.entries = groups[g]]]

VirtualSingleList ==
    /\ Here("virtual") /\ Head(work).fn = "SingleList"
    /\ Replace(GroupItems(Head(work), Groups(Head(work).entries)))
    /\ UNCHANGED <<call, side, ops>>

VirtualStartList ==
    /\ Here("virtual") /\ Head(work).fn = "StreamStartList"
    /\ Replace(GroupItems(Head(work), Groups(Head(work).entries)))
    /\ UNCHANGED <<call, side, ops>>

\* Unless it is non-blocking, the loop over the groups is left after the first group
\* even without an error, and the same group is sent again after the loop.
VirtualStopList ==
    /\ Here("virtual") /\ Head(work).fn = "StreamStopList"
    /\ LET i == Head(work)
           groups == Groups(i.entries)
       IN Replace(GroupItems(i, IF ~call.nonblocking /\ Len(groups) > 1
                                THEN <<groups[1], groups[1]>> ELSE groups))
    /\ UNCHANGED <<call, side, ops>>

LocalCall ==
    /\ Here("local")
    /\ LET i == Head(work) IN
       Replace(IF i.fn \in BuildOf(i).tables.local THEN Handed(i, "ioctl", Local[i.fn]) ELSE <<>>)
    /\ UNCHANGED <<call, side, ops>>

RemoteCall ==
    /\ Here("remote")
    /\ LET i == Head(work) IN
       Replace(IF i.fn \in BuildOf(i).tables.remote THEN Handed(i, "stub", Remote[i.fn]) ELSE <<>>)
    /\ UNCHANGED <<call, side, ops>>

\* The stub writes the message of its own procedure, which the server reads as one of
\* the procedure sent; the reply comes too late for a stub with a short time-out.
SendCall ==
    /\ Here("stub")
    /\ LET i == Head(work)
           stub == Stub[i.fn]
           late == call.slow /\ stub.waits = "short"
       IN Replace(<<[i EXCEPT !.at = "server", !.fn = stub.sends,
                              !.in = @ \cap Xdr[i.fn].params \cap Xdr[stub.sends].params,
                              !.out = IF late THEN {}
                                      ELSE @ \cap Xdr[i.fn].res \cap Xdr[stub.sends].res]>>)
    /\ UNCHANGED <<call, side, ops>>

ServeCall ==
    /\ Here("server") /\ Head(work).fn \in Dispatched
    /\ LET i == Head(work)
       IN Replace(Handed([i EXCEPT !.server = TRUE], "api", Service[i.fn]))
    /\ UNCHANGED <<call, side, ops>>

Ioctls ==
    /\ Here("ioctl")
    /\ Replace(<<[Head(work) EXCEPT !.at = "handler", !.fn = Ioctl[@]]>>)
    /\ UNCHANGED <<call, side, ops>>

\* A handler goes through the entries of a list one by one.
HandleCall ==
    /\ Here("handler") /\ Handler[Head(work).fn] # <<>>
    /\ LET i == Head(work)
           one(e) == Handed([i EXCEPT !.entries = <<e>>], "device", Handler[i.fn])
       IN Replace(FlattenSeq([k \in DOMAIN i.entries |-> one(i.entries[k])]))
    /\ UNCHANGED <<call, side, ops>>

DeviceForwards ==
    /\ Here("device") /\ Head(work).fn \in Forwarded
    /\ Replace(<<[Head(work) EXCEPT !.at = "subdevice"]>>)
    /\ UNCHANGED <<call, side, ops>>

DeviceRenames ==
    /\ Here("device") /\ Head(work).fn \in DOMAIN Renamed
    /\ Replace(Handed(Head(work), "subdevice", Renamed[Head(work).fn]))
    /\ UNCHANGED <<call, side, ops>>

\* The operation is done.  Unless the list is non-blocking, the handler and the library
\* give up the rest of it when an entry fails.
Execute ==
    /\ \/ Here("subdevice")
       \/ Here("device") /\ Head(work).fn \in DeviceItself
       \/ Here("handler") /\ Handler[Head(work).fn] = <<>>
    /\ LET i == Head(work) IN
       /\ ops' = [ops EXCEPT ![side] =
                      Append(@, [op |-> i.fn, in |-> i.in, out |-> i.out, entry |-> i.entries[1]])]
       /\ IF call.fails = i.entries[1] /\ ~call.nonblocking THEN work' = <<>> ELSE Replace(<<>>)
    /\ UNCHANGED <<call, side>>

\* The call has returned, and is made in the other way.
NextSide ==
    /\ side \in Sides /\ work = <<>>
    /\ side' = IF side = "local" THEN "other" ELSE "done"
    /\ work' = IF side = "local" THEN Start(call, "other") ELSE <<>>
    /\ UNCHANGED <<call, ops>>

PathNext == \/ BoundCall \/ GlobalSingle \/ GlobalCall \/ VirtualCall \/ VirtualSingleList
            \/ VirtualStartList \/ VirtualStopList \/ LocalCall \/ RemoteCall \/ SendCall
            \/ ServeCall \/ Ioctls \/ HandleCall \/ DeviceForwards \/ DeviceRenames \/ Execute
            \/ NextSide

-----------------------------------------------------------------------------
M(c)      == MethodOf(c)
Asked(s)  == [k \in DOMAIN ops[s] |-> [op |-> ops[s][k].op, in |-> ops[s][k].in,
                                       entry |-> ops[s][k].entry]]
Answer(s) == [k \in DOMAIN ops[s] |-> ops[s][k].out]

\* Lists of values with a group of one entry, which the server takes for a single value.
LoneValue(c) == LET groups == Groups([k \in DOMAIN c.devs |-> k])
                IN M(c) = "SingleList" /\ \E g \in DOMAIN groups : Len(groups[g]) = 1
OfProgram(c) == c.level = "api"

\* Calls that a server does not pass on as they are made.
NotSent(c) ==
    \/ M(c) \in {"SetOffset", "ParametersSet", "QuerySubdevicesNumberByType",
                 "QueryDriverName"}                    \* not sent at all
    \/ M(c) \in {"IrqTest", "IrqSetCallback"}          \* an interrupt is waited for instead
    \/ M(c) = "IrqWait" /\ (~OfProgram(c) \/ c.preserve)   \* the count is not sent
    \/ M(c) = "QuerySubdeviceTimer"                    \* asked for three times
    \/ M(c) = "QuerySubdeviceCapsArgs"                 \* the wrong procedure is sent
    \/ M(c) \in {"StreamRead", "StreamWrite", "StreamStop"} /\ ~OfProgram(c)  \* nor time-outs
    \/ /\ LoneValue(c) /\ c.nonblocking               \* refused by the server
       /\ Len(c.devs) > 1 \/ ~OfProgram(c)

\* Calls that are passed on, and whose answer is not what the driver gave.
AnswerLost(c) ==
    \/ M(c) = "StreamRead"                             \* the count is the one asked for
    \/ M(c) \in {"StreamStatus", "StreamStop", "StreamStopList"} /\ c.slow   \* given up
    \/ LoneValue(c)                                    \* no error code of the entry

\* A subdevice of another computer is asked for the same operations, with the same
\* inputs, in the same order, as one of this computer, except for the calls that are not
\* sent; and its answer comes back as that of this computer does, unless it is lost.
RemoteDoesTheSame ==
    side = "done" /\ call.other = "remote" =>
        /\ Asked("local") = Asked("other") <=> ~NotSent(call)
        /\ ~NotSent(call) /\ ~AnswerLost(call) => Answer("local") = Answer("other")

\* What an extension does not hand on: the count to go on from, the levels and large ticks
\* of a trigger, the time-outs of Java's lists.  Python refuses short ticks of conversions.
Missing(c) ==
    CASE c.preserve -> {"count"}
      [] c.other = "python" /\ M(c) = "StreamConfig" ->
             {"levels"} \cup IF c.ticks = "wide" THEN {"trigger"} ELSE {}
      [] c.other = "java" /\ M(c) \in {"SingleList", "StreamStartList"} -> {"timeout"}
      [] OTHER -> {}
Refused(c) == c.other = "python" /\ M(c) = "StreamConfig" /\ c.ticks = "int"
Raised(c)  == c.fails # 0 /\ ~c.nonblocking

\* A program in Python or Java asks for the same operations with the same inputs as one in
\* C, but for those missing, and gets the same answers, but for a list whose failure is an
\* exception of Python, which takes the place of the entries' error codes.
ExtensionsDoTheSame ==
    side = "done" /\ call.other # "remote" =>
        /\ Asked("other") = IF Refused(call) THEN <<>>
                            ELSE [k \in DOMAIN ops["local"] |->
                                      [Asked("local")[k] EXCEPT !.in = @ \ Missing(call)]]
        /\ ~Refused(call) =>
               Answer("other") = [k \in DOMAIN ops["local"] |->
                                      IF Raised(call) /\ call.other = "python" THEN {}
                                      ELSE Answer("local")[k]]

\* A call for a list that no entry fails reaches every entry once, except a blocking
\* stop of streams of several devices.
EveryEntryIsReached ==
    side = "done" /\ M(call) \in ListMethods /\ call.fails = 0 /\ Len(call.devs) > 1
        => ([k \in DOMAIN ops["local"] |-> ops["local"][k].entry]
                = [k \in DOMAIN call.devs |-> k]
            <=> ~(M(call) = "StreamStopList" /\ ~call.nonblocking
                  /\ Len(Groups([k \in DOMAIN call.devs |-> k])) > 1))
=============================================================================
