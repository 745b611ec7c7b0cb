----------------------------- MODULE MCStreamAI -----------------------------
(***************************************************************************)
(* Instances of StreamAI for TLC: tasks of two kinds, each kind with the   *)
(* ioctls it issues.                                                       *)
(***************************************************************************)
EXTENDS StreamAI, TLC

CONSTANTS Controller, Observer, ControlOps, ObserveOps

MCTask == Controller \cup Observer
MCOp   == [t \in MCTask |-> IF t \in Controller THEN ControlOps ELSE ObserveOps]

Symmetric == Permutations(Controller) \cup Permutations(Observer)
=============================================================================
