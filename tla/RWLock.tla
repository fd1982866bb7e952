------------------------------- MODULE RWLock -------------------------------
(***************************************************************************)
(* The readers-writer lock of the SQL server, utils/rw_lock.{h,cpp}.       *)
(*                                                                         *)
(* Each member function holds m_Lock except while it waits on one of the   *)
(* two condition variables, so a call is one step when its predicate       *)
(* holds at once and otherwise a step that blocks, a wake-up, and a step   *)
(* that evaluates the predicate again.  A condition variable is the set of *)
(* threads blocked on it; "...Woken" threads have been notified and have   *)
(* yet to take m_Lock again.                                               *)
(***************************************************************************)
EXTENDS Integers, FiniteSets

CONSTANT Threads
ASSUME ThreadsFinite == IsFiniteSet(Threads)

VARIABLES m_readCount,   \* readers inside
          m_writeCount,  \* writers inside or on their way in
          m_isWriting,   \* a writer is inside
          pc             \* where each thread is with respect to the lock

vars == <<m_readCount, m_writeCount, m_isWriting, pc>>

At(l) == {t \in Threads : pc[t] = l}
Readers == At("reading")
Writing == At("writing")
WriterAt == {"writeWait", "writeWoken", "writing"}
Writers == {t \in Threads : pc[t] \in WriterAt}

Init == /\ m_readCount = 0
        /\ m_writeCount = 0
        /\ m_isWriting = FALSE
        /\ pc = [t \in Threads |-> "idle"]

-----------------------------------------------------------------------------
(* lockRead: the first evaluation of the predicate and every later one.    *)
ReadPredicateNoPreference == ~m_isWriting  \* mutant: waits for the writer inside only
ReadPredicate == m_writeCount = 0

EnterRead(t) == /\ pc[t] \in {"idle", "readWoken"}
                /\ ReadPredicate
                /\ m_readCount' = m_readCount + 1
                /\ pc' = [pc EXCEPT ![t] = "reading"]
                /\ UNCHANGED <<m_writeCount, m_isWriting>>

BlockRead(t) == /\ pc[t] \in {"idle", "readWoken"}
                /\ ~ReadPredicate
                /\ pc' = [pc EXCEPT ![t] = "readWait"]
                /\ UNCHANGED <<m_readCount, m_writeCount, m_isWriting>>

(* lockWrite counts the writer before it waits, which holds readers back.  *)
WritePredicateReadersOnly == m_readCount = 0  \* mutant: m_isWriting is not tested
WritePredicateWriterOnly == ~m_isWriting      \* mutant: m_readCount is not tested
WritePredicate == m_readCount = 0 /\ ~m_isWriting

AnnounceFastPath(t) ==  \* mutant: a writer that has to wait is not counted
  m_writeCount' = IF pc[t] = "idle" /\ WritePredicate THEN m_writeCount + 1
                                                      ELSE m_writeCount
Announce(t) == m_writeCount' = IF pc[t] = "idle" THEN m_writeCount + 1
                                                 ELSE m_writeCount

EnterWrite(t) == /\ pc[t] \in {"idle", "writeWoken"}
                 /\ WritePredicate
                 /\ Announce(t)
                 /\ m_isWriting' = TRUE
                 /\ pc' = [pc EXCEPT ![t] = "writing"]
                 /\ UNCHANGED m_readCount

BlockWrite(t) == /\ pc[t] \in {"idle", "writeWoken"}
                 /\ ~WritePredicate
                 /\ Announce(t)
                 /\ pc' = [pc EXCEPT ![t] = "writeWait"]
                 /\ UNCHANGED <<m_readCount, m_isWriting>>

(* notify_one(m_writeCond) by t, which becomes idle: one blocked writer is *)
(* woken, or nobody when none is blocked.                                  *)
WakeOneWriter(t) ==
  \/ /\ At("writeWait") = {}
     /\ pc' = [pc EXCEPT ![t] = "idle"]
  \/ \E w \in At("writeWait") :
        pc' = [pc EXCEPT ![t] = "idle", ![w] = "writeWoken"]

(* notify_all(m_readCond) by t, which becomes idle.                        *)
WakeOneReader(t) ==  \* mutant: notify_one in the place of notify_all
  \/ /\ At("readWait") = {}
     /\ pc' = [pc EXCEPT ![t] = "idle"]
  \/ \E r \in At("readWait") :
        pc' = [pc EXCEPT ![t] = "idle", ![r] = "readWoken"]
WakeAllReaders(t) ==
  pc' = [u \in Threads |-> IF u = t THEN "idle"
                           ELSE IF pc[u] = "readWait" THEN "readWoken"
                           ELSE pc[u]]

UnlockReadSilent(t) == /\ pc[t] = "reading"  \* mutant: no notification
                       /\ m_readCount' = m_readCount - 1
                       /\ pc' = [pc EXCEPT ![t] = "idle"]
                       /\ UNCHANGED <<m_writeCount, m_isWriting>>
UnlockRead(t) == /\ pc[t] = "reading"
                 /\ m_readCount' = m_readCount - 1
                 /\ IF m_readCount' = 0 /\ m_writeCount > 0
                      THEN WakeOneWriter(t)
                      ELSE pc' = [pc EXCEPT ![t] = "idle"]
                 /\ UNCHANGED <<m_writeCount, m_isWriting>>

UnlockWrite(t) == /\ pc[t] = "writing"
                  /\ m_isWriting' = FALSE
                  /\ m_writeCount' = m_writeCount - 1
                  /\ IF m_writeCount' = 0 THEN WakeAllReaders(t)
                                          ELSE WakeOneWriter(t)
                  /\ UNCHANGED m_readCount

(* std::condition_variable may return from wait without a notification.    *)
Spurious(t) == /\ pc[t] \in {"readWait", "writeWait"}
               /\ pc' = [pc EXCEPT ![t] = IF pc[t] = "readWait" THEN "readWoken"
                                                                ELSE "writeWoken"]
               /\ UNCHANGED <<m_readCount, m_writeCount, m_isWriting>>

-----------------------------------------------------------------------------
Next == \E t \in Threads :
          \/ EnterRead(t) \/ BlockRead(t) \/ UnlockRead(t)
          \/ EnterWrite(t) \/ BlockWrite(t) \/ UnlockWrite(t)
          \/ Spurious(t)

Spec == Init /\ [][Next]_vars

(* A thread inside leaves (the guards unlock in their destructors), and a  *)
(* woken thread gets m_Lock; no thread is obliged to ask for the lock, and *)
(* no spurious wake-up is owed to anybody.                                 *)
Resume(t) == \/ pc[t] = "readWoken" /\ (EnterRead(t) \/ BlockRead(t))
             \/ pc[t] = "writeWoken" /\ (EnterWrite(t) \/ BlockWrite(t))
Fairness == \A t \in Threads : /\ WF_vars(UnlockRead(t) \/ UnlockWrite(t))
                               /\ WF_vars(Resume(t))
FairSpec == Spec /\ Fairness

-----------------------------------------------------------------------------
TypeOK == /\ m_readCount \in Nat
          /\ m_writeCount \in Nat
          /\ m_isWriting \in BOOLEAN
          /\ pc \in [Threads -> {"idle", "readWait", "readWoken", "reading"}
                                  \cup WriterAt]

(* The two counters and the flag are what the set of threads inside and    *)
(* on their way says, so no call of lock or unlock miscounts.              *)
CountersExact == /\ m_readCount = Cardinality(Readers)
                 /\ m_writeCount = Cardinality(Writers)
                 /\ m_isWriting <=> Writing # {}

(* A map and list of lru_cache are never written while another thread      *)
(* reads or writes them.                                                   *)
MutualExclusion == /\ Writing # {} => Readers = {}
                   /\ \A t, u \in Writing : t = u

(* No wake-up is lost: a thread blocked on m_readCond has a writer to wait *)
(* for, and while writers are blocked on m_writeCond some thread is inside *)
(* or has been notified, so there is always somebody to wake the next one. *)
NoLostWakeup ==
  /\ At("readWait") # {} => Writers # {}
  /\ At("writeWait") # {} => Readers \cup Writing \cup At("writeWoken") # {}

(* Writers are preferred: a reader never gets in ahead of a writer that    *)
(* already waits in lockWrite.                                             *)
NoReaderOvertakes ==
  [][\A t \in Threads : t \notin Readers /\ pc'[t] = "reading" => Writers = {}]_vars

(* The lock never stands still: when threads are blocked in lockRead or    *)
(* lockWrite, some thread is admitted later on, without any spurious wake. *)
Waiting == {t \in Threads : pc[t] \in {"readWait", "readWoken", "writeWait", "writeWoken"}}
Progress == Waiting # {} ~> Readers \cup Writing # {}

(* The two condition variables implement the lock the cache relies on.     *)
Lock == INSTANCE ReadersWriters WITH readers <- Readers, writers <- Writing
LockImplemented == Lock!RWSpec
=============================================================================
