------------------------------ MODULE LogReader ------------------------------
(***************************************************************************)
(* What the realtime indexer promises of its partition and the oplog       *)
(* server of Mongo's oplog: entries are read in the order of the log, none *)
(* is left out, and one that has not been read is never saved as read, so  *)
(* that a restart repeats entries rather than losing them.  It says        *)
(* nothing of when, or how often, the place is saved.                      *)
(***************************************************************************)
EXTENDS Integers

VARIABLES length,     \* of the log
          position,   \* entries read since, or skipped at, the last start
          saved       \* entries that the next start skips
readerVars == <<length, position, saved>>

ReaderInit == length = 0 /\ position = 0 /\ saved = 0

Grow == length' = length + 1 /\ UNCHANGED <<position, saved>>
Read == /\ position < length
        /\ position' = position + 1
        /\ UNCHANGED <<length, saved>>
Save == saved' \in 0..position /\ UNCHANGED <<length, position>>
Resume == position' = saved /\ UNCHANGED <<length, saved>>

ReaderNext == Grow \/ Read \/ Save \/ Resume

ReaderSpec == ReaderInit /\ [][ReaderNext]_readerVars
=============================================================================
