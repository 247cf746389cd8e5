----------------------------- MODULE MCAlerter -----------------------------
(* Instances of Alerter for TLC. *)
EXTENDS Alerter

\* A failed response that was fast, and a good one that was slow.
MCKinds ==
  {[counted |-> TRUE, error |-> TRUE, latency |-> 1],
   [counted |-> TRUE, error |-> FALSE, latency |-> 4]}
=============================================================================
