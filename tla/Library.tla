------------------------------ MODULE Library -------------------------------
(***************************************************************************)
(* The life of the user library in one process (the build that reads the   *)
(* configuration of its drivers when it is opened): meOpen() and meClose() *)
(* count, the first opens the drivers and servers of the configuration     *)
(* file and the last closes them, and meLockDriver() locks all of them.    *)
(* Several threads of the process use it, next to another process that     *)
(* locks and uses the same drivers.  A server works off the requests of a  *)
(* connection one by one; a request that takes longer than the client's    *)
(* time-out is given up by the client and still done by the server.        *)
(***************************************************************************)
EXTENDS Integers, FiniteSets, SequencesExt

CONSTANTS
    Threads,      \* threads of the process that use the library
    Addresses,    \* addresses of the configuration file: drivers' files and servers
    Servers,      \* those of them that are served by another computer
    Plugged,      \* Plugged[a]: for each device of a, whether it is plugged in
    Scripts,      \* what the threads call: sets of functions from threads to sequences
    None          \* no thread

ASSUME LibraryAssumption ==
    /\ IsFiniteSet(Addresses) /\ Servers \subseteq Addresses
    /\ \A a \in Addresses : Plugged[a] \in Seq(BOOLEAN)
    /\ None \notin Threads

VARIABLES
    conf,       \* the addresses of the configuration file, in order
    present,    \* addresses at which there is a driver or server
    count,      \* open_count
    opens,      \* how often each thread has opened the library and not closed it
    mutex,      \* owner of open_count_mutex
    config,     \* Unv_Config: the device entries; entry k has logical number k - 1
    contexts,   \* all contexts made so far
    list,       \* Unv_Context: its contexts, and whether its head still exists
    lock,       \* me_filep of each driver: "free", "us", "forced" (us, whatever lies below), "other"
    inside,     \* me_count of each driver: threads and requests of ours inside
    inbox,      \* requests of ours that a server has still to do, and who waits for them
    broken,     \* contexts whose server has died
    rpc,        \* rpc_mutex of each server's context: its owner
    script,     \* what each thread still calls
    pc, idx, ctx, how, err,   \* each thread: step, position, context, lock asked, error
    reply,      \* its request: "none", "sent", "ok" or "error"
    alive,      \* whether the process still runs
    stuck       \* whether a lock of ours could not be released, or its release was given up

cfgVars  == <<conf, present, config, contexts, list>>
drvVars  == <<lock, inside, inbox, broken, rpc>>
tasks    == <<script, pc, idx, ctx, how, err, reply>>
libVars  == <<cfgVars, drvVars, count, opens, mutex, tasks, alive, stuck>>

LibInit ==
    /\ conf \in UNION {SetToSeqs(A) : A \in SUBSET Addresses \ {{}}}
    /\ present \in SUBSET ToSet(conf)
    /\ count = 0 /\ opens = [t \in Threads |-> 0] /\ mutex = None
    /\ config = <<>> /\ contexts = <<>>
    /\ list = [head |-> TRUE, of |-> <<>>]
    /\ lock = [a \in Addresses |-> "free"]
    /\ inside = [a \in Addresses |-> 0]
    /\ inbox = [a \in Addresses |-> <<>>]
    /\ broken = {}
    /\ rpc = [a \in Addresses |-> None]
    /\ script \in Scripts
    /\ pc = [t \in Threads |-> "idle"]
    /\ idx = [t \in Threads |-> 0]
    /\ ctx = [t \in Threads |-> 0]
    /\ how = [t \in Threads |-> "none"]
    /\ err = [t \in Threads |-> FALSE]
    /\ reply = [t \in Threads |-> "none"]
    /\ alive = TRUE /\ stuck = FALSE

-----------------------------------------------------------------------------
Goto(t, l)    == pc' = [pc EXCEPT ![t] = l]
Calling(t, f) == alive /\ pc[t] = "idle" /\ script[t] # <<>> /\ Head(script[t]) = f
Return(t)     == /\ pc' = [pc EXCEPT ![t] = "idle"]
                 /\ script' = [script EXCEPT ![t] = Tail(@)]
                 /\ idx' = [idx EXCEPT ![t] = 0]
                 /\ ctx' = [ctx EXCEPT ![t] = 0]
AddressOf(c)  == contexts[c].addr
Ours(a)       == lock[a] \in {"us", "forced"}
OfServer(c)     == AddressOf(c) \in Servers
Counted       == IF count < 0 THEN 0 ELSE count

\* meOpen(): the configuration file is read when nobody has the library open.
OpenLock(t) ==
    /\ Calling(t, "open") /\ mutex = None
    /\ mutex' = t
    /\ count' = Counted /\ UNCHANGED opens
    /\ Goto(t, IF Counted = 0 THEN "opening" ELSE "opened")
    /\ idx' = [idx EXCEPT ![t] = 1]
    /\ UNCHANGED <<cfgVars, drvVars, script, ctx, how, err, reply, alive, stuck>>

\* The device entries read from a driver: one for each device, plugged in or not.
ConfigRead(c, a) == [k \in DOMAIN Plugged[a] |-> [ctx |-> c, in |-> Plugged[a][k]]]
ConfigJoin(first, second) == first \o second

\* ContextAppend() fails once the head has been cleaned, which nobody notices.
ContextAppend(c) == IF list.head THEN [list EXCEPT !.of = Append(@, c)] ELSE list

\* ME_Open() of one address: its errors are dropped.
OpenDriver(t) ==
    /\ alive /\ pc[t] = "opening" /\ idx[t] <= Len(conf)
    /\ LET a == conf[idx[t]]
           c == Len(contexts) + 1
       IN IF a \in present
          THEN /\ contexts' = Append(contexts, [addr |-> a, fd |-> TRUE, freed |-> FALSE])
               /\ config' = ConfigJoin(config, ConfigRead(c, a))
               /\ list' = ContextAppend(c)
          ELSE UNCHANGED <<contexts, config, list>>
    /\ idx' = [idx EXCEPT ![t] = @ + 1]
    /\ UNCHANGED <<conf, present, drvVars, count, opens, mutex, script, pc, ctx, how, err, reply, alive,
                   stuck>>

OpenEnd(t) ==
    /\ alive
    /\ \/ pc[t] = "opened"
       \/ pc[t] = "opening" /\ idx[t] > Len(conf)
    /\ count' = count + 1
    /\ opens' = [opens EXCEPT ![t] = @ + 1]
    /\ mutex' = None
    /\ Return(t)
    /\ UNCHANGED <<cfgVars, drvVars, how, err, reply, alive, stuck>>

\* A bug: the last but one closes everything.
CloseLock_early(t) ==
    /\ Calling(t, "close") /\ mutex = None
    /\ mutex' = t
    /\ count' = Counted - 1
    /\ opens' = [opens EXCEPT ![t] = IF @ > 0 THEN @ - 1 ELSE 0]
    /\ Goto(t, IF Counted - 1 <= 1 THEN "closing" ELSE "closed")
    /\ idx' = [idx EXCEPT ![t] = 1]
    /\ UNCHANGED <<cfgVars, drvVars, script, ctx, how, err, reply, alive, stuck>>

\* meClose(): the last one closes everything; one too many leaves the count at -1.
CloseLock(t) ==
    /\ Calling(t, "close") /\ mutex = None
    /\ mutex' = t
    /\ count' = Counted - 1
    /\ opens' = [opens EXCEPT ![t] = IF @ > 0 THEN @ - 1 ELSE 0]
    /\ Goto(t, IF Counted - 1 = 0 THEN "closing" ELSE "closed")
    /\ idx' = [idx EXCEPT ![t] = 1]
    /\ UNCHANGED <<cfgVars, drvVars, script, ctx, how, err, reply, alive, stuck>>

\* meClose(ME_CLOSE_FORCE) closes whatever the count is.
CloseForce(t) ==
    /\ Calling(t, "force close") /\ mutex = None
    /\ mutex' = t
    /\ count' = 0 /\ opens' = [u \in Threads |-> 0]
    /\ Goto(t, "closing")
    /\ idx' = [idx EXCEPT ![t] = 1]
    /\ UNCHANGED <<cfgVars, drvVars, script, ctx, how, err, reply, alive, stuck>>

\* The contexts C are closed: a driver forgets the locks of a closed file, a server is
\* asked to close before the connection ends.
Hangup(C) ==
    LET closed == {c \in C : contexts[c].fd}
        at(a)  == \E c \in closed : AddressOf(c) = a
    IN /\ lock' = [a \in Addresses |->
                       IF at(a) /\ a \notin Servers /\ Ours(a) THEN "free" ELSE lock[a]]
       /\ inbox' = [a \in Addresses |->
                        IF \E c \in closed \ broken : AddressOf(c) = a /\ a \in Servers
                        THEN Append(inbox[a], [op |-> "close", from |-> None]) ELSE inbox[a]]

\* Close_Local() and Close_RPC(): a context is closed with its first plugged device.
CloseContext(t) ==
    /\ alive /\ pc[t] = "closing" /\ idx[t] <= Len(config)
    /\ LET c == config[idx[t]].ctx
           C == IF config[idx[t]].in THEN {c} ELSE {}
       IN /\ c \in C /\ OfServer(c) => rpc[AddressOf(c)] = None
          /\ Hangup(C)
          /\ contexts' = IF C = {} THEN contexts ELSE [contexts EXCEPT ![c].fd = FALSE]
    /\ idx' = [idx EXCEPT ![t] = @ + 1]
    /\ UNCHANGED <<conf, present, config, list, inside, broken, rpc, count, opens, mutex, script, pc,
                   ctx, how, err, reply, alive, stuck>>

\* A bug: the entries of the devices stay.
CloseConfig_keeps(t) ==
    /\ alive /\ pc[t] = "closing" /\ idx[t] > Len(config)
    /\ Goto(t, "cleaning")
    /\ UNCHANGED <<cfgVars, drvVars, count, opens, mutex, script, idx, ctx, how, err, reply, alive,
                   stuck>>

\* ConfigClean()
CloseConfig(t) ==
    /\ alive /\ pc[t] = "closing" /\ idx[t] > Len(config)
    /\ config' = <<>>
    /\ Goto(t, "cleaning")
    /\ UNCHANGED <<conf, present, contexts, list, drvVars, count, opens, mutex, script, idx, ctx, how,
                   err, reply, alive, stuck>>

\* del_rpc_context_instance() ends a connection that is still there;
\* del_local_context_instance() leaves a driver's file open.
Deleted(c) == [c EXCEPT !.fd = @ /\ c.addr \notin Servers, !.freed = TRUE]

\* ContextClean() frees the listed contexts and the head of the list.
CloseClean(t) ==
    /\ alive /\ pc[t] = "cleaning"
    /\ contexts' = [c \in DOMAIN contexts |->
                        IF c \in ToSet(list.of) THEN Deleted(contexts[c]) ELSE contexts[c]]
    /\ Hangup({c \in ToSet(list.of) : OfServer(c)})
    /\ list' = [head |-> FALSE, of |-> <<>>]
    /\ Goto(t, "closed")
    /\ UNCHANGED <<conf, present, config, inside, broken, rpc, count, opens, mutex, script, idx, ctx,
                   how, err, reply, alive, stuck>>

CloseEnd(t) ==
    /\ alive /\ pc[t] = "closed"
    /\ mutex' = None
    /\ Return(t)
    /\ UNCHANGED <<cfgVars, drvVars, count, opens, how, err, reply, alive, stuck>>

-----------------------------------------------------------------------------
\* me_lock_driver() of a driver asked with a file of ours: whether it may be refused.  It
\* is locked by another or calls are inside, of whose number only ours are known; unless
\* it is forced, devices and subdevices may be locked by another, but not below a lock of
\* ours that was not forced.
Refusals(a, op, force) ==
    LET locked == lock[a] = "other" /\ ~(force /\ op # "check")
        used   == op # "check" /\ inside[a] > 0
    IN IF locked \/ used THEN {TRUE}
       ELSE IF lock[a] = "us" \/ (force /\ lock[a] = "forced") THEN {FALSE} ELSE BOOLEAN
Locked(a, op, force) ==
    CASE op = "set"     -> IF force /\ lock[a] # "us" THEN "forced" ELSE "us"
      [] op = "release" -> "free"
      [] op = "check"   -> lock[a]

LockDriver(a, op, force, refused) ==
    /\ lock' = IF refused THEN lock ELSE [lock EXCEPT ![a] = Locked(a, op, force)]
    /\ stuck' = (stuck \/ (refused /\ op = "release" /\ Ours(a)))

\* meLockDriver(), which is ME_LockAll(): without a list of contexts the process dies.
LockAll(t) ==
    \E op \in {"set", "force set", "release", "check"} :
        /\ Calling(t, op)
        /\ alive' = list.head
        /\ IF list.head /\ list.of # <<>>
           THEN /\ Goto(t, IF op \in {"set", "release"} THEN "checking" ELSE "locking")
                /\ idx' = [idx EXCEPT ![t] = 1]
                /\ UNCHANGED <<script, ctx>>
           ELSE Return(t)
        /\ how' = [how EXCEPT ![t] = op]
        /\ err' = [err EXCEPT ![t] = FALSE]
        /\ UNCHANGED <<cfgVars, drvVars, count, opens, mutex, reply, stuck>>

Locking(t)  == pc[t] \in {"checking", "locking", "undoing"}
Context(t)  == IF Locking(t) THEN list.of[idx[t]] ELSE ctx[t]
Op(t)       == CASE pc[t] = "checking" -> "check"
                 [] pc[t] = "undoing"  -> "release"
                 [] pc[t] = "locking"  -> IF how[t] = "force set" THEN "set" ELSE how[t]
                 [] pc[t] = "calling"  -> "call"
Sets(t)     == how[t] \in {"set", "force set"}
Forced(t)   == how[t] = "force set" /\ pc[t] # "undoing"

\* A bug: a lock that fails is not undone.
LockNext_not_undone(t, failed) ==
    LET last == idx[t] = Len(list.of)
        on   == idx' = [idx EXCEPT ![t] = @ + 1] /\ UNCHANGED <<pc, script, ctx>>
    IN /\ err' = [err EXCEPT ![t] = failed]
       /\ IF failed THEN Return(t)
          ELSE IF ~last THEN on
          ELSE IF pc[t] = "checking"
               THEN /\ Goto(t, "locking") /\ idx' = [idx EXCEPT ![t] = 1]
                    /\ UNCHANGED <<script, ctx>>
               ELSE Return(t)

\* The loops over the contexts: checking and locking end at the first error, after which
\* a set releases all of them; each release overwrites the error.
LockNext(t, failed) ==
    LET last == idx[t] = Len(list.of)
        to(l) == Goto(t, l) /\ idx' = [idx EXCEPT ![t] = 1] /\ UNCHANGED <<script, ctx>>
        on    == idx' = [idx EXCEPT ![t] = @ + 1] /\ UNCHANGED <<pc, script, ctx>>
    IN /\ err' = [err EXCEPT ![t] = failed]
       /\ CASE pc[t] # "undoing" /\ failed -> IF Sets(t) THEN to("undoing") ELSE Return(t)
            [] pc[t] = "checking" /\ ~failed -> IF last THEN to("locking") ELSE on
            [] OTHER -> IF last THEN Return(t) ELSE on

\* A lock of a driver of this computer.
LockLocal(t) ==
    /\ alive /\ Locking(t) /\ ~OfServer(Context(t))
    /\ LET a == AddressOf(Context(t)) IN
       \E refused \in Refusals(a, Op(t), Forced(t)) :
           /\ LockDriver(a, Op(t), Forced(t), refused)
           /\ LockNext(t, refused)
    /\ UNCHANGED <<cfgVars, inside, inbox, broken, rpc, count, opens, mutex, how, reply, alive>>

\* A request to a server: the context's mutex is held until the reply.
RpcSend(t) ==
    /\ Locking(t) \/ pc[t] = "calling"
    /\ alive /\ reply[t] = "none" /\ OfServer(Context(t))
    /\ LET a == AddressOf(Context(t)) IN
       /\ rpc[a] = None
       /\ rpc' = [rpc EXCEPT ![a] = t]
       /\ IF Context(t) \in broken
          THEN reply' = [reply EXCEPT ![t] = "error"] /\ UNCHANGED inbox
          ELSE /\ reply' = [reply EXCEPT ![t] = "sent"]
               /\ inbox' = [inbox EXCEPT ![a] = Append(@,
                                [op |-> Op(t), from |-> t, force |-> Forced(t)])]
    /\ UNCHANGED <<cfgVars, lock, inside, broken, count, opens, mutex, script, pc, idx, ctx, how, err,
                   alive, stuck>>

\* A bug: a call that failed returns with the mutex of the connection.
RpcReturn_keeps(t) ==
    /\ alive /\ reply[t] \in {"ok", "error"}
    /\ reply' = [reply EXCEPT ![t] = "none"]
    /\ rpc' = IF reply[t] = "ok" THEN [rpc EXCEPT ![AddressOf(Context(t))] = None] ELSE rpc
    /\ IF Locking(t) THEN LockNext(t, reply[t] = "error") ELSE Return(t) /\ UNCHANGED err
    /\ UNCHANGED <<cfgVars, lock, inside, inbox, broken, count, opens, mutex, how, alive, stuck>>

\* The answer has come, or the call failed: E_COMMUNICATION.
RpcReturn(t) ==
    /\ alive /\ reply[t] \in {"ok", "error"}
    /\ reply' = [reply EXCEPT ![t] = "none"]
    /\ rpc' = [rpc EXCEPT ![AddressOf(Context(t))] = None]
    /\ IF Locking(t)
       THEN LockNext(t, reply[t] = "error")
       ELSE Return(t) /\ UNCHANGED err
    /\ UNCHANGED <<cfgVars, lock, inside, inbox, broken, count, opens, mutex, how, alive, stuck>>

\* The server does the oldest request; a reply nobody waits for is dropped.
Serve(a) ==
    /\ inbox[a] # <<>>
    /\ LET r == Head(inbox[a])
           answer(failed) == IF r.from = None THEN reply
                             ELSE [reply EXCEPT ![r.from] = IF failed THEN "error" ELSE "ok"]
       IN IF r.op \in {"close", "call"}
          THEN /\ lock' = IF r.op = "close" /\ Ours(a) THEN [lock EXCEPT ![a] = "free"]
                          ELSE lock
               /\ reply' = answer(r.op = "call" /\ lock[a] = "other")
               /\ UNCHANGED stuck
          ELSE \E refused \in Refusals(a, r.op, r.force) :
                   LockDriver(a, r.op, r.force, refused) /\ reply' = answer(refused)
    /\ inbox' = [inbox EXCEPT ![a] = Tail(@)]
    /\ UNCHANGED <<cfgVars, inside, broken, rpc, count, opens, mutex, script, pc, idx, ctx, how, err,
                   alive>>

\* Locks are waited for for 5 s; other calls of the model as long as it takes.  A release
\* that is given up ends its loop at this driver, which the server may release later.
RpcTimeOut(t) ==
    /\ alive /\ reply[t] = "sent" /\ Locking(t)
    /\ reply' = [reply EXCEPT ![t] = "error"]
    /\ inbox' = [inbox EXCEPT ![AddressOf(Context(t))] =
                     [k \in DOMAIN @ |-> IF @[k].from = t THEN [@[k] EXCEPT !.from = None]
                                         ELSE @[k]]]
    /\ stuck' = (stuck \/ (Op(t) = "release" /\ pc[t] = "locking"))
    /\ UNCHANGED <<cfgVars, lock, inside, broken, rpc, count, opens, mutex, script, pc, idx, ctx, how,
                   err, alive>>

\* The server of a connection dies: its files are closed, whoever waits gets an error.
ServerDies(a) ==
    /\ \E c \in DOMAIN contexts :
           /\ AddressOf(c) = a /\ a \in Servers /\ contexts[c].fd /\ c \notin broken
           /\ broken' = broken \cup {c}
    /\ lock' = IF Ours(a) THEN [lock EXCEPT ![a] = "free"] ELSE lock
    /\ reply' = [t \in Threads |-> IF \E k \in DOMAIN inbox[a] : inbox[a][k].from = t
                                   THEN "error" ELSE reply[t]]
    /\ inbox' = [inbox EXCEPT ![a] = <<>>]
    /\ UNCHANGED <<cfgVars, inside, rpc, count, opens, mutex, script, pc, idx, ctx, how, err, alive,
                   stuck>>

-----------------------------------------------------------------------------
\* Any other call: ConfigResolve() finds the entry of a logical device.
CallResolve(t) ==
    /\ Calling(t, "call")
    /\ \E logical \in 0 .. Len(config) :
           IF logical < Len(config) /\ config[logical + 1].in
           THEN /\ ctx' = [ctx EXCEPT ![t] = config[logical + 1].ctx]
                /\ Goto(t, "calling")
                /\ UNCHANGED <<script, idx>>
           ELSE Return(t)
    /\ UNCHANGED <<cfgVars, drvVars, count, opens, mutex, how, err, reply, alive, stuck>>

\* The call enters the driver unless another process has locked it ...
CallEnter(t) ==
    /\ alive /\ pc[t] = "calling" /\ ~OfServer(ctx[t])
    /\ LET a == AddressOf(ctx[t]) IN
       IF lock[a] = "other"
       THEN Return(t) /\ UNCHANGED inside
       ELSE /\ inside' = [inside EXCEPT ![a] = @ + 1]
            /\ Goto(t, "inside")
            /\ UNCHANGED <<script, idx, ctx>>
    /\ UNCHANGED <<cfgVars, lock, inbox, broken, rpc, count, opens, mutex, how, err, reply, alive,
                   stuck>>

\* ... and leaves it.
CallLeave(t) ==
    /\ alive /\ pc[t] = "inside"
    /\ inside' = [inside EXCEPT ![AddressOf(ctx[t])] = @ - 1]
    /\ Return(t)
    /\ UNCHANGED <<cfgVars, lock, inbox, broken, rpc, count, opens, mutex, how, err, reply, alive,
                   stuck>>

\* Another process locks a driver that is free and not in use, and releases its lock.
OtherLocks(a) ==
    /\ lock[a] \in {"free", "other"} /\ a \in present
    /\ lock[a] = "free" => inside[a] = 0
    /\ lock' = [lock EXCEPT ![a] = IF @ = "free" THEN "other" ELSE "free"]
    /\ UNCHANGED <<cfgVars, inside, inbox, broken, rpc, count, opens, mutex, tasks, alive, stuck>>

Step(t) ==
    \/ OpenLock(t) \/ OpenDriver(t) \/ OpenEnd(t) \/ CloseLock(t) \/ CloseForce(t)
    \/ CloseContext(t) \/ CloseConfig(t) \/ CloseClean(t) \/ CloseEnd(t)
    \/ LockAll(t) \/ LockLocal(t) \/ RpcSend(t) \/ RpcReturn(t)
    \/ CallResolve(t) \/ CallEnter(t) \/ CallLeave(t)

LibNext == \/ \E t \in Threads : Step(t) \/ RpcTimeOut(t)
           \/ \E a \in Addresses : Serve(a) \/ ServerDies(a) \/ OtherLocks(a)

LibSpec == LibInit /\ [][LibNext]_libVars

\* Threads run, a server works on and calls inside a driver return; nothing need time
\* out or die.
LibFairness == /\ \A t \in Threads : WF_libVars(Step(t))
               /\ \A a \in Addresses : WF_libVars(Serve(a))

-----------------------------------------------------------------------------
\* A thread that has opened the library and not closed it never works on a context that
\* another thread's meClose() has closed or freed.  (Not so for meClose(ME_CLOSE_FORCE), which
\* closes the library for all threads: none of them has it open any more, and whoever is inside a
\* call goes on with what is freed.)
TasksUseLiveContexts ==
    \A t \in Threads :
        opens[t] > 0 /\ (Locking(t) \/ pc[t] \in {"calling", "inside"}) =>
            /\ Locking(t) => idx[t] \in DOMAIN list.of
            /\ contexts[Context(t)].fd /\ ~contexts[Context(t)].freed

\* Between two calls of meOpen() and meClose(): while the library is open every driver
\* and server it found is open once and has an entry for each of its devices; when it is not,
\* nothing is open but contexts without a device that is plugged in.
HasDevice(c) == TRUE \in ToSet(Plugged[AddressOf(c)])
Open(a)      == {c \in DOMAIN contexts : AddressOf(c) = a /\ contexts[c].fd /\ HasDevice(c)}
EntriesOf(a) == {k \in DOMAIN config : AddressOf(config[k].ctx) = a}
FilesFollowCount ==
    mutex = None /\ alive =>
        /\ \A a \in Addresses : Cardinality(Open(a)) <= 1
        /\ count <= 0 => config = <<>> /\ \A a \in Addresses : Open(a) = {}
        /\ count > 0 => /\ \A a \in present : TRUE \in ToSet(Plugged[a]) => Open(a) # {}
                        /\ \A a \in Addresses :
                               Cardinality(EntriesOf(a)) = IF a \in present THEN Len(Plugged[a]) ELSE 0
                        /\ \A k \in DOMAIN config :
                               config[k].in => config[k].ctx \in Open(AddressOf(config[k].ctx))

\* meLockDriver() locks all drivers and servers or none of them, unless a lock could not
\* be released because a call of this process was inside or, the lock being forced, another
\* process had locked something below it; a release was given up because a server did not
\* answer in time; or a server died.  It is about the locks, not about the result: a set that
\* was undone returns the result of its last release, which is mostly a success.
LockAllOrNothing ==
    LET ours == {c \in ToSet(list.of) : Ours(AddressOf(c))}
        settled == /\ \A t \in Threads : ~Locking(t)
                   /\ \A a \in Addresses : inbox[a] = <<>>
                   /\ mutex = None
    IN settled /\ ~stuck /\ broken = {} => ours \in {{}, ToSet(list.of)}

\* Every call returns, unless the process died of a lock without a list of contexts.
CallsReturn == <>(~alive \/ \A t \in Threads : script[t] = <<>>)
=============================================================================
