---------------------------- MODULE ResourceLock ----------------------------
(***************************************************************************)
(* What one lock of the driver promises, whatever level it belongs to: a   *)
(* resource is entered by tasks and may be owned by one filep.  Ownership  *)
(* changes only while nobody is inside, and while it is owned only tasks   *)
(* of the owner enter.  DriverLock implements it for the driver, for every *)
(* device and for every subdevice.                                         *)
(***************************************************************************)
CONSTANTS Task, Filep, NULL

VARIABLES
    owner,      \* the filep that holds the resource, or NULL
    inside      \* the filep for which each task is inside, or NULL

vars == <<owner, inside>>

TypeOK ==
    /\ owner \in Filep \cup {NULL}
    /\ inside \in [Task -> Filep \cup {NULL}]

Init ==
    /\ owner = NULL
    /\ inside = [t \in Task |-> NULL]

Empty == \A t \in Task : inside[t] = NULL

Enter(t, f) ==
    /\ inside[t] = NULL
    /\ owner \in {NULL, f}
    /\ inside' = [inside EXCEPT ![t] = f]
    /\ UNCHANGED owner

Leave(t) ==
    /\ inside[t] # NULL
    /\ inside' = [inside EXCEPT ![t] = NULL]
    /\ UNCHANGED owner

Own(f) ==
    /\ Empty
    /\ owner' = f
    /\ UNCHANGED inside

Next ==
    \/ \E t \in Task, f \in Filep : Enter(t, f)
    \/ \E t \in Task : Leave(t)
    \/ \E f \in Filep \cup {NULL} : Own(f)

Spec == Init /\ [][Next]_vars

\* Whoever is inside runs for the owner, if there is one.
Exclusive == \A t \in Task : inside[t] # NULL => owner \in {NULL, inside[t]}
=============================================================================
