---------------------------- MODULE MCGrpcService ----------------------------
(* Two calls and two workers: one of them may still be in dispatch when    *)
(* the other deletes its task.                                             *)
EXTENDS GrpcService
=============================================================================
