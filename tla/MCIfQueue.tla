----------------------------- MODULE MCIfQueue ------------------------------
(* Instances of IfQueue: four messages, one of them twice as long. *)
EXTENDS IfQueue

CONSTANTS m1, m2, m3, m4

MCMsg == {m1, m2, m3, m4}
MCSize == [m \in MCMsg |-> IF m = m4 THEN 2 ELSE 1]
=============================================================================
