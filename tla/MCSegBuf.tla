------------------------------ MODULE MCSegBuf ------------------------------
(***************************************************************************)
(* Instances of SegBuf for TLC: two segments of two, and one of three.     *)
(***************************************************************************)
EXTENDS SegBuf

Geometries == {<<2, 2>>, <<1, 3>>, <<3, 1>>}
=============================================================================
