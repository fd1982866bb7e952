------------------------------ MODULE MCRWLock ------------------------------
(* The lock with four threads: enough for a writer inside, one blocked,    *)
(* one woken and a reader at the door.                                     *)
EXTENDS RWLock
=============================================================================
