------------------------------- MODULE MCMlfq -------------------------------
(* Small instances of Mlfq for TLC. *)
EXTENDS Mlfq

CONSTANTS c0, c1

OneHart == {c0}
TwoHarts == {c0, c1}

(* A short set of slices that keeps every branch of yield(): expiry at     *)
(* once, expiry after a charge, no demotion at level 3.                    *)
ShortSlice == [q \in 0..3 |-> IF q = 1 THEN 2 ELSE 1]
=============================================================================
