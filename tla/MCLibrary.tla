----------------------------- MODULE MCLibrary ------------------------------
(***************************************************************************)
(* The three parts of the user library for TLC: a call on its way through  *)
(* the layers (CallPath), the life of the library in a process (Library)   *)
(* and the threads of callbacks (Callbacks).  They do not share state: a   *)
(* behaviour is one of a part, chosen in its first state, while the others *)
(* stay where nothing is asked of them.                                    *)
(***************************************************************************)
EXTENDS CallPath, Library, Callbacks

VARIABLE part

vars == <<part, pathVars, libVars, cbVars>>

MCLists == {<<1>>, <<1, 1>>, <<1, 2>>, <<1, 1, 2>>}

\* One driver with a plugged and an unplugged device, one without a plugged device and
\* one of another computer.
MCThreads   == {"a", "b"}
MCAddresses == {"pci", "usb", "host"}
MCServers   == {"host"}
MCPlugged   == [pci |-> <<TRUE, FALSE>>, usb |-> <<FALSE>>, host |-> <<TRUE>>]
MCFiles     == {<<"host", "pci">>, <<"pci", "host">>, <<"host", "usb", "pci">>}
Idle        == [t \in MCThreads |-> <<>>]
MCScripts   ==
    {Idle,
     [a |-> <<"open", "set", "call", "release", "close">>, b |-> <<"open", "call", "close">>],
     [a |-> <<"open", "force set", "release", "close", "close", "open", "call", "close">>,
      b |-> <<>>],
     [a |-> <<"open", "open", "force close", "set">>, b |-> <<>>],
     [a |-> <<"set", "open", "check", "close">>, b |-> <<>>]}

\* Two threads on subdevices of their own wait for the same or for different things.
MCWorkers == {"w1", "w2"}
MCSubOf   == [w1 |-> 1, w2 |-> 2]
MCKinds   == {[w1 |-> "irq", w2 |-> k] : k \in {"irq", "start", "new values"}}
             \cup {[w1 |-> "stop", w2 |-> k] : k \in {"stop", "new values"}}

\* Where the parts stay that are not checked: after a call, closed, without threads.
PathRests == /\ call = [level |-> "api", fn |-> "meLockDevice", devs |-> <<1>>, fails |-> 0,
                        nonblocking |-> FALSE, preserve |-> FALSE, slow |-> FALSE,
                        build |-> "unified", other |-> "remote", ticks |-> "int"]
             /\ side = "local" /\ work = <<>> /\ ops = [s \in Sides |-> <<>>]
LibRests  == LibInit /\ script = Idle /\ conf = <<"pci">> /\ present = {}
CbRests   == CallbacksInit([w \in MCWorkers |-> "irq"]) /\ ~overRpc

MCInit ==
    \/ part = "path" /\ PathInit /\ LibRests /\ CbRests
    \/ part = "library" /\ PathRests /\ LibInit /\ conf \in MCFiles /\ script # Idle /\ CbRests
    \/ part = "callbacks" /\ PathRests /\ LibRests /\ \E ks \in MCKinds : CallbacksInit(ks)

MCNext ==
    /\ UNCHANGED part
    /\ \/ part = "path" /\ PathNext /\ UNCHANGED <<libVars, cbVars>>
       \/ part = "library" /\ LibNext /\ UNCHANGED <<pathVars, cbVars>>
       \/ part = "callbacks" /\ CallbacksNext /\ UNCHANGED <<pathVars, libVars>>

Spec == MCInit /\ [][MCNext]_vars /\ LibFairness /\ CallbacksFairness
=============================================================================
