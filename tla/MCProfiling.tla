----------------------------- MODULE MCProfiling -----------------------------
(* Profiling tasks, the second accepted while the first still runs; the    *)
(* traces are interchangeable.                                             *)
EXTENDS Profiling, TLC

TraceSymmetry == Permutations(Trace)

MCStartTime == [s \in Serial |-> IF s = "first" THEN 0 ELSE 1]
MCFinishTime == [s \in Serial |-> IF s = "first" THEN 2 ELSE 3]
=============================================================================
