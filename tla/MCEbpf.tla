------------------------------- MODULE MCEbpf -------------------------------
(* Instances of Ebpf for TLC. *)
EXTENDS Ebpf, TLC

Object == <<"open", "close">>
EscapedQuote == <<"open", "quote", "backslash", "quote", "close", "quote", "close">>

MCTexts == {Object, EscapedQuote}
MCGarbage == {<<"close", "quote", "lf">>}
MCLines == {<<>>, <<"open", "cr">>}

MCOneText == {Object}
MCNone == {}

\* The CPUs are alike.
CpuSymmetry == Permutations(Cpus)
=============================================================================
