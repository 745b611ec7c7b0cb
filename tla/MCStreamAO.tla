----------------------------- MODULE MCStreamAO -----------------------------
(***************************************************************************)
(* Instances of StreamAO and ME6000AO for TLC: tasks of two kinds, each   *)
(* kind with the ioctls it issues.                                         *)
(***************************************************************************)
EXTENDS ME6000AO, TLC

CONSTANTS Controller, Observer, ControlOps, ObserveOps

MCTask == Controller \cup Observer
MCOp   == [t \in MCTask |-> IF t \in Controller THEN ControlOps ELSE ObserveOps]

NoLimit  == {[mode |-> "inf", count |-> 0]}
AnyLimit == NoLimit \cup {[mode |-> "scan", count |-> 2], [mode |-> "list", count |-> 1]}

\* A loop of three values comes more than three times.
LongLimit == {[mode |-> "scan", count |-> 10]}
=============================================================================
