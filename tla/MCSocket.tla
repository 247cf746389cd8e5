------------------------------ MODULE MCSocket ------------------------------
(* Instances of Socket for TLC. *)
EXTENDS Socket

\* The client writes an empty line, or a line and the beginning of another one, or
\* some of it; the target writes a byte.
SmallTexts ==
  [d \in Directions |->
     IF d = "IN" THEN {<<"lf">>, <<"x">>, <<"x", "lf">>, <<"x", "lf", "x">>} ELSE {<<"x">>}]
=============================================================================
