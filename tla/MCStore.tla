------------------------------ MODULE MCStore ------------------------------
(* Instances of Store for TLC. *)
EXTENDS Store

Request  == [type |-> "request",  err |-> FALSE, latency |-> 0, bytes |-> 1]
Failure  == [type |-> "response", err |-> TRUE,  latency |-> 2, bytes |-> 1]
Oversize == [type |-> "response", err |-> FALSE, latency |-> 1, bytes |-> 3]

MCShapes == {Request, Failure, Oversize}
MCOneStamp == {0}
=============================================================================
