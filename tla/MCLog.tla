------------------------------- MODULE MCLog -------------------------------
(* Small instances of Log for TLC. *)
EXTENDS Log

CONSTANTS p1, p2, p3, b1, b2, v1, v2

ThreeProcs == {p1, p2, p3}
TwoBlocks == {b1, b2}
TwoValues == {v1, v2}
=============================================================================
