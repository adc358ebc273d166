--------------------------- MODULE MCReporterQueue ---------------------------
(* Model-checking instance of ReporterQueue.                               *)
EXTENDS ReporterQueue
=============================================================================
