---------------------------- MODULE MCGrpcStream ----------------------------
(* GrpcStream for TLC; its constants are numbers.                            *)
EXTENDS GrpcStream
=============================================================================
