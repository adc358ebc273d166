---------------------------- MODULE MCSpanContext ----------------------------
(* Finite instances of SpanContext; the tasks are interchangeable.         *)
EXTENDS SpanContext, TLC

TaskSymmetry == Permutations(Task)
=============================================================================
