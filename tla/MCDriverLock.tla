---------------------------- MODULE MCDriverLock ----------------------------
(***************************************************************************)
(* Instances of DriverLock for TLC.                                        *)
(***************************************************************************)
EXTENDS DriverLock, TLC


AllLockFlags == {{}, {"FORCE"}, {"PRESERVE"}, {"FORCE", "PRESERVE"}}
PlainFlags   == {{}, {"PRESERVE"}}
NoFlags      == {{}}
AnyReset     == {{}, {"UNPROTECTED"}}

\* Tasks and files are interchangeable; the symmetry is used for safety only.
Symmetric == Permutations(Task) \cup Permutations(Filep)
=============================================================================
