---------------------------- MODULE BoundedFifo ----------------------------
(***************************************************************************)
(* What the stream buffer of an analog input promises to the interrupt     *)
(* handler that fills it and to the ioctl that drains it: a bounded queue  *)
(* that never loses, repeats or reorders a value.  A buffer of size 0 does *)
(* not exist.                                                              *)
(***************************************************************************)
EXTENDS Integers, Sequences, SequencesExt

CONSTANTS Value, Zero, Size

VARIABLES queue, size, result

vars == <<queue, size, result>>

Reply(op, e, v) == result' = [op |-> op, err |-> e, value |-> v]

Access == {"get", "put", "unget", "rotate", "read"}

Init ==
    /\ queue = <<>>
    /\ size = 0
    /\ result = [op |-> "none", err |-> "SUCCESS", value |-> Zero]

Refuse(op, e) == Reply(op, e, Zero) /\ UNCHANGED <<queue, size>>

Put(v) ==
    /\ Len(queue) < size
    /\ queue' = Append(queue, v)
    /\ Reply("put", "SUCCESS", Zero)
    /\ UNCHANGED size

Full == size > 0 /\ Len(queue) = size /\ Refuse("put", "OVERFLOW")

Get ==
    /\ queue # <<>>
    /\ queue' = Tail(queue)
    /\ Reply("get", "SUCCESS", Head(queue))
    /\ UNCHANGED size

Empty == /\ size > 0 /\ queue = <<>>
         /\ \/ \E op \in {"get", "rotate", "read"} : Refuse(op, "UNDERFLOW")
            \/ Refuse("unget", "INTERNAL")

Unget ==
    /\ queue # <<>>
    /\ queue' = Front(queue)
    /\ Reply("unget", "SUCCESS", Zero)
    /\ UNCHANGED size

\* The oldest value is read and becomes the newest.
Rotate ==
    /\ queue # <<>>
    /\ queue' = Append(Tail(queue), Head(queue))
    /\ Reply("rotate", "SUCCESS", Head(queue))
    /\ UNCHANGED size

\* Reading by position returns what the cell holds, queued or not.
Read(v) == queue # <<>> /\ Reply("read", "SUCCESS", v) /\ UNCHANGED <<queue, size>>

OutOfRange == queue # <<>> /\ Refuse("read", "OVERFLOW")

\* Creation, destruction and reset all leave an empty queue.
Clear(n) ==
    /\ queue' = <<>>
    /\ size' = n
    /\ UNCHANGED result

Next ==
    \/ \E v \in Value : Put(v) \/ Read(v)
    \/ Full \/ Get \/ Empty \/ Unget \/ Rotate \/ OutOfRange
    \/ \E n \in Size \cup {0} : Clear(n)
    \/ size = 0 /\ \E op \in Access : Refuse(op, "INVALID_POINTER")

Spec == Init /\ [][Next]_vars
=============================================================================
