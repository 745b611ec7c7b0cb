----------------------------- MODULE Callbacks ------------------------------
(***************************************************************************)
(* Callbacks of the user library.  Every callback that the program sets on *)
(* a subdevice gets a thread of its own, which waits in the driver or, for *)
(* a subdevice of another computer, in a server over a connection of its   *)
(* own, and then runs the callback under the mutex of the context, with    *)
(* its cancellation disabled.  Removing the callbacks of a subdevice, by   *)
(* call, by a reset or at the end, cancels the threads and frees their     *)
(* entries at once, while a thread may still be on its way to the mutex.   *)
(* What a thread reads from a freed entry is undefined: any value.         *)
(***************************************************************************)
EXTENDS Naturals, FiniteSets

CONSTANTS
    Workers,    \* threads for callbacks
    SubOf,      \* SubOf[w]: the subdevice whose callback w runs
    Free        \* the mutex has no owner

ASSUME CallbacksAssumption == Free \notin Workers

VARIABLES
    kind,       \* kind[w]: what w waits for
    overRpc,    \* whether the context is one of another computer
    reachable,  \* whether its server can be reached
    wpc,        \* where each thread is
    listed,     \* activeThreads: the threads whose entries are linked
    cbMutex,    \* callbackContextMutex: its owner
    pending,    \* threads that have been cancelled
    masked,     \* threads whose cancellation is disabled
    freed,      \* threads whose entry has been freed
    conn,       \* threads with a connection to the server
    result,     \* what the wait of each thread returned
    oldErr,     \* old_err of the functions, shared by all threads that run one
    after       \* callbacks a thread began after its removal (2: two or more)

cbVars == <<kind, overRpc, reachable, wpc, listed, cbMutex, pending, masked, freed, conn,
            result, oldErr, after>>

CallbacksInit(kinds) ==
    /\ kind = kinds
    /\ overRpc \in BOOLEAN
    /\ reachable = TRUE
    /\ wpc = [w \in Workers |-> "unused"]
    /\ listed = {} /\ pending = {} /\ masked = {} /\ freed = {} /\ conn = {}
    /\ cbMutex = Free
    /\ result = [w \in Workers |-> "ok"]
    /\ oldErr = [k \in {"start", "stop"} |-> "none"]
    /\ after = [w \in Workers |-> 0]

-----------------------------------------------------------------------------
Move(w, l) == wpc' = [wpc EXCEPT ![w] = l]

\* The value of context->cancel: 0 unless the entry has been freed.
Cancelled(w) == IF w \in freed THEN BOOLEAN ELSE {FALSE}

\* IrqSetCallback and StreamSetCallbacks: doCreateThread().
CreateThread(w) ==
    /\ wpc[w] = "unused" /\ cbMutex = Free
    /\ Move(w, "top")
    /\ listed' = listed \cup {w}
    /\ UNCHANGED <<kind, overRpc, reachable, cbMutex, pending, masked, freed, conn, result,
                   oldErr, after>>

\* A bug: the threads are not cancelled, their entries are only marked and freed.
DestroyThreads_uncancelled ==
    /\ cbMutex = Free
    /\ \E s \in {SubOf[w] : w \in listed} :
           /\ listed' = {w \in listed : SubOf[w] # s}
           /\ freed'  = freed \cup (listed \ listed')
    /\ UNCHANGED <<kind, overRpc, reachable, wpc, cbMutex, pending, masked, conn, result,
                   oldErr, after>>

\* doDestroyThread() of a subdevice, or of all when the context is closed.  (A thread does
\* not find itself here: it holds the mutex in its callback, see CallbackRemoves.)
DestroyThreads ==
    /\ cbMutex = Free
    /\ \E S \in {{w \in listed : SubOf[w] = s} : s \in {SubOf[w] : w \in Workers}} \cup {listed} :
           /\ S # {}
           /\ listed'  = listed \ S
           /\ pending' = pending \cup S
           /\ freed'   = freed \cup S
    /\ UNCHANGED <<kind, overRpc, reachable, wpc, cbMutex, masked, conn, result, oldErr, after>>

\* The functions that wait for a start or a stop remember what they reported last.
Reported(w, err) ==
    oldErr' = IF kind[w] \in DOMAIN oldErr THEN [oldErr EXCEPT ![kind[w]] = err] ELSE oldErr

\* The next turn of the loop: a thread of a server's subdevice first connects, and without
\* a server it goes on to the callback, its cancellation as it was.
Connect(w) ==
    /\ wpc[w] = "top"
    /\ IF ~overRpc \/ w \in conn \/ reachable
       THEN /\ masked' = masked \ {w}
            /\ conn' = IF overRpc THEN conn \cup {w} ELSE conn
            /\ Move(w, "waiting")
            /\ UNCHANGED oldErr
       ELSE /\ masked' = masked \cup {w}
            /\ Reported(w, "error")
            /\ Move(w, "locking")
            /\ UNCHANGED conn
    /\ UNCHANGED <<kind, overRpc, reachable, listed, cbMutex, pending, freed, result, after>>

\* clnt_create() and the calls of a client are cancellation points, and me_open may fail.
CancelledInCall(w) ==
    /\ overRpc /\ wpc[w] \in {"top", "waiting"}
    /\ \/ w \in pending \ masked
       \/ wpc[w] = "top" /\ w \notin conn
    /\ Move(w, "ended")
    /\ UNCHANGED <<kind, overRpc, reachable, listed, cbMutex, pending, masked, freed, conn,
                   result, oldErr, after>>

\* The wait ends: an interrupt is waited for for 100 ms, the others without a limit.
Outcomes(w) == CASE kind[w] = "irq"        -> {"ok", "error", "nothing"}
                 [] kind[w] = "new values" -> {"ok", "error", "nothing"}
                 [] OTHER                  -> {"ok", "error"}

Returns(w, r) ==
    /\ wpc[w] = "waiting"
    /\ r \in Outcomes(w)
    /\ overRpc /\ ~reachable => r = "error"
    /\ result' = [result EXCEPT ![w] = r]
    /\ conn' = IF overRpc /\ ~reachable THEN conn \ {w} ELSE conn
    /\ Move(w, "returned")
    /\ UNCHANGED <<kind, overRpc, reachable, listed, cbMutex, pending, masked, freed, oldErr,
                   after>>

WaitReturns(w) == \E r \in {"ok", "error", "nothing"} : Returns(w, r)

\* A bug: pthread_testcancel() is left out.
TestCancel_left_out(w) ==
    /\ wpc[w] = "returned"
    /\ Move(w, "tested")
    /\ UNCHANGED <<kind, overRpc, reachable, listed, cbMutex, pending, masked, freed, conn,
                   result, oldErr, after>>

\* pthread_testcancel()
TestCancel(w) ==
    /\ wpc[w] = "returned"
    /\ Move(w, IF w \in pending THEN "ended" ELSE "tested")
    /\ UNCHANGED <<kind, overRpc, reachable, listed, cbMutex, pending, masked, freed, conn,
                   result, oldErr, after>>

\* The stream threads do not report the error again that was the last one reported.
Report(w) ==
    /\ wpc[w] = "tested"
    /\ \E cancelled \in Cancelled(w) :
           LET repeated == /\ kind[w] \in DOMAIN oldErr
                           /\ result[w] = "error" /\ oldErr[kind[w]] = "error"
           IN IF cancelled
              THEN Move(w, "ended") /\ UNCHANGED <<masked, oldErr>>
              ELSE IF result[w] = "nothing" \/ repeated
              THEN Move(w, "top") /\ UNCHANGED <<masked, oldErr>>
              ELSE /\ Move(w, "locking")
                   /\ masked' = masked \cup {w}
                   /\ Reported(w, result[w])
    /\ result' = [result EXCEPT ![w] = "ok"]
    /\ UNCHANGED <<kind, overRpc, reachable, listed, cbMutex, pending, freed, conn, after>>

LockMutex(w) ==
    /\ wpc[w] = "locking" /\ cbMutex = Free
    /\ cbMutex' = w
    /\ Move(w, "callback")
    /\ after' = [after EXCEPT ![w] = IF w \in freed /\ @ < 2 THEN @ + 1 ELSE @]
    /\ UNCHANGED <<kind, overRpc, reachable, listed, pending, masked, freed, conn, result,
                   oldErr>>

\* The callback returns.  When it asks to stop, the threads of interrupts and starts look
\* for a cancellation before they stop and unlock: then they end with the mutex.
CallbackReturns(w) ==
    /\ wpc[w] = "callback"
    /\ \/ /\ kind[w] \in {"irq", "start"}
          /\ \E cancelled \in Cancelled(w) :
                 cancelled /\ Move(w, "ended") /\ UNCHANGED cbMutex
       \/ cbMutex' = Free /\ Move(w, "unlocked")
    /\ UNCHANGED <<kind, overRpc, reachable, listed, pending, masked, freed, conn, result,
                   oldErr, after>>

\* A callback that removes its own callbacks waits for the mutex its thread holds.
CallbackRemoves(w) ==
    /\ wpc[w] = "callback"
    /\ Move(w, "own mutex")
    /\ UNCHANGED <<kind, overRpc, reachable, listed, cbMutex, pending, masked, freed, conn,
                   result, oldErr, after>>

Unlocked(w) ==
    /\ wpc[w] = "unlocked"
    /\ \E cancelled \in Cancelled(w) : Move(w, IF cancelled THEN "ended" ELSE "top")
    /\ UNCHANGED <<kind, overRpc, reachable, listed, cbMutex, pending, masked, freed, conn,
                   result, oldErr, after>>

ServerGoes ==
    /\ overRpc
    /\ reachable' = ~reachable
    /\ UNCHANGED <<kind, overRpc, wpc, listed, cbMutex, pending, masked, freed, conn, result,
                   oldErr, after>>

Runs(w) == \/ Connect(w) \/ TestCancel(w) \/ Report(w) \/ CallbackReturns(w)
           \/ Unlocked(w)

CallbacksNext ==
    \/ \E w \in Workers : \/ CreateThread(w) \/ CancelledInCall(w) \/ WaitReturns(w)
                          \/ LockMutex(w) \/ CallbackRemoves(w) \/ Runs(w)
    \/ DestroyThreads \/ ServerGoes

\* Threads run, callbacks return, whoever tries for the mutex gets it in the end, and the
\* wait for an interrupt ends within 100 ms; the other waits need not end.
CallbacksFairness ==
    \A w \in Workers : /\ WF_cbVars(Runs(w))
                       /\ SF_cbVars(LockMutex(w))
                       /\ WF_cbVars(kind[w] = "irq" /\ WaitReturns(w))

-----------------------------------------------------------------------------
\* A callback of a driver of this computer that has been removed runs at most once more,
\* whatever its thread reads from the freed entry: it may be on its way to the mutex.
AtMostOnceMore == ~overRpc => \A w \in Workers : after[w] <= 1

\* The mutex is lost: its owner has ended, or waits for it itself.
MutexLost == cbMutex # Free /\ wpc[cbMutex] \in {"ended", "own mutex"}

\* The thread of an interrupt of this computer ends after its removal, unless the mutex
\* is lost.
RemovedThreadsEnd ==
    \A w \in Workers :
        ~overRpc /\ kind[w] = "irq" /\ w \in freed ~> wpc[w] = "ended" \/ MutexLost
=============================================================================
