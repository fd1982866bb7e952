--------------------------- MODULE ReadersWriters ---------------------------
(***************************************************************************)
(* What lru_cache expects of the lock in utils/rw_lock.h: a critical       *)
(* section entered in a shared mode (rguard) or an exclusive one (wguard). *)
(* It says nothing of how a thread is delayed or woken.                    *)
(***************************************************************************)
CONSTANT Threads

VARIABLES readers, writers
rwVars == <<readers, writers>>

RWInit == readers = {} /\ writers = {}

BeginRead(t) == /\ t \notin readers \cup writers
                /\ writers = {}
                /\ readers' = readers \cup {t}
                /\ UNCHANGED writers

EndRead(t) == /\ t \in readers
              /\ readers' = readers \ {t}
              /\ UNCHANGED writers

BeginWrite(t) == /\ readers = {} /\ writers = {}
                 /\ writers' = {t}
                 /\ UNCHANGED readers

EndWrite(t) == /\ writers = {t}
               /\ writers' = {}
               /\ UNCHANGED readers

RWNext == \E t \in Threads :
            BeginRead(t) \/ EndRead(t) \/ BeginWrite(t) \/ EndWrite(t)

RWSpec == RWInit /\ [][RWNext]_rwVars
=============================================================================
