---------------------------- MODULE MCOplogServer ----------------------------
(* Two triads of two entities, a buffer of two and a checkpoint every two  *)
(* entries, so that checkpoints fall on a buffered or processed entry.  No *)
(* symmetry, since a temporal property is checked.                         *)
EXTENDS OplogServer, TLC
CONSTANTS t1, t2, e1, e2
MCEntityOf == t1 :> e1 @@ t2 :> e2
=============================================================================
