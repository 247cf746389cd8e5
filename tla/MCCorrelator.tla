---------------------------- MODULE MCCorrelator ----------------------------
(* Instances of Correlator for TLC. *)
EXTENDS Correlator

\* Of three ids, the first two share a slot when there are two slots.
IdA == <<1>>
IdB == <<2, 1>>
IdC == <<2>>
MCIds == {IdA, IdB, IdC}
MCHash == [id \in MCIds |-> HashString(id, 65536)]
=============================================================================
