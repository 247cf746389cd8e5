------------------------------ MODULE MCStdio ------------------------------
(* Instances of Stdio for TLC: every stream of so many bytes. *)
EXTENDS Stdio

MCBytes == [s \in Streams |-> IF s = "out" THEN 4 ELSE 2]
=============================================================================
