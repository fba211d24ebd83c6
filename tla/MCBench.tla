------------------------------- MODULE MCBench -------------------------------
(* Bench on small instances.                                               *)
EXTENDS Bench

SomeRuns == 1 .. 3
NoRuns == {0}
AnyOutputs == 0 .. 3
OneOutput == {1}
OneOrTwo == 1 .. 2
=============================================================================
