-------------------------- MODULE MCGrpcConnectivity -------------------------
(* Model-checking instance of GrpcConnectivity.                            *)
EXTENDS GrpcConnectivity
=============================================================================
