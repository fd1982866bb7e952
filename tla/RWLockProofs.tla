---------------------------- MODULE RWLockProofs ----------------------------
(***************************************************************************)
(* Proofs about RWLock for any finite set of threads.  The inductive       *)
(* invariant is the type invariant and the exactness of the two counters   *)
(* (without it the predicates that threads wait for mean nothing), under   *)
(* which exclusion and the absence of lost wake-ups are inductive.         *)
(***************************************************************************)
EXTENDS RWLock, FiniteSetTheorems, TLAPS

IInv == TypeOK /\ CountersExact /\ MutualExclusion /\ NoLostWakeup

LEMMA ThreadSetsFinite ==
  ASSUME NEW S \in SUBSET Threads
  PROVE  IsFiniteSet(S) /\ Cardinality(S) \in Nat
BY FS_Subset, FS_CardinalityType, ThreadsFinite

LEMMA ThreadSetsEmpty ==
  ASSUME NEW S \in SUBSET Threads
  PROVE  Cardinality(S) = 0 <=> S = {}
BY FS_EmptySet, ThreadSetsFinite

LEMMA ThreadSetsAdd ==
  ASSUME NEW S \in SUBSET Threads, NEW t \in Threads \ S
  PROVE  Cardinality(S \cup {t}) = Cardinality(S) + 1
BY FS_AddElement, ThreadSetsFinite

LEMMA ThreadSetsRemove ==
  ASSUME NEW S \in SUBSET Threads, NEW t \in S
  PROVE  Cardinality(S \ {t}) = Cardinality(S) - 1
BY FS_RemoveElement, ThreadSetsFinite

(* The counters decide the predicates of the waits.                        *)
LEMMA CountersDecide ==
  ASSUME TypeOK, CountersExact
  PROVE  /\ m_readCount = 0 <=> Readers = {}
         /\ m_writeCount = 0 <=> Writers = {}
         /\ Writing \subseteq Writers
<1>1. Readers \in SUBSET Threads /\ Writers \in SUBSET Threads
  BY DEF Readers, Writers, At
<1>2. Writing \subseteq Writers
  BY DEF Writing, Writers, At, WriterAt
<1> QED BY <1>1, <1>2, ThreadSetsEmpty DEF CountersExact

THEOREM InitInv == Init => IInv
<1> SUFFICES ASSUME Init PROVE IInv
  OBVIOUS
<1>1. Readers = {} /\ Writers = {} /\ Writing = {}
      /\ At("readWait") = {} /\ At("writeWait") = {}
  BY DEF Init, Readers, Writers, Writing, At, WriterAt
<1>2. TypeOK
  BY DEF Init, TypeOK
<1>3. CountersExact
  BY <1>1, FS_EmptySet DEF Init, CountersExact
<1> QED BY <1>1, <1>2, <1>3 DEF IInv, MutualExclusion, NoLostWakeup

-----------------------------------------------------------------------------
LEMMA EnterReadInv ==
  ASSUME IInv, NEW t \in Threads, EnterRead(t)
  PROVE  IInv'
<1> USE DEF IInv
<1>1. Writers = {} /\ Writing = {}
  BY CountersDecide DEF EnterRead, ReadPredicate
<1>2. Readers' = Readers \cup {t} /\ t \notin Readers /\ Readers \in SUBSET Threads
  BY DEF EnterRead, Readers, At, TypeOK
<1>3. Writers' = {} /\ Writing' = {} /\ At("writeWait")' = {}
  BY <1>1 DEF EnterRead, Writers, Writing, At, WriterAt, TypeOK
<1>4. At("readWait")' = {}
  BY <1>1 DEF EnterRead, NoLostWakeup, At, TypeOK
<1>5. TypeOK'
  BY DEF EnterRead, TypeOK
<1>6. CountersExact'
  BY <1>1, <1>2, <1>3, ThreadSetsAdd DEF EnterRead, CountersExact
<1> QED BY <1>3, <1>4, <1>5, <1>6 DEF MutualExclusion, NoLostWakeup

LEMMA BlockReadInv ==
  ASSUME IInv, NEW t \in Threads, BlockRead(t)
  PROVE  IInv'
<1> USE DEF IInv
<1>1. Writers # {}
  BY CountersDecide DEF BlockRead, ReadPredicate
<1>2. /\ Readers' = Readers /\ Writers' = Writers /\ Writing' = Writing
      /\ At("writeWait")' = At("writeWait") /\ At("writeWoken")' = At("writeWoken")
  BY DEF BlockRead, Readers, Writers, Writing, At, WriterAt, TypeOK
<1>3. TypeOK'
  BY DEF BlockRead, TypeOK
<1> QED BY <1>1, <1>2, <1>3 DEF BlockRead, CountersExact, MutualExclusion, NoLostWakeup

(* A writer that arrives is counted once, at its first evaluation.         *)
LEMMA AnnounceCounts ==
  ASSUME IInv, NEW t \in Threads, Announce(t), pc[t] \in {"idle", "writeWoken"},
         Writers' = Writers \cup {t}
  PROVE  m_writeCount' \in Nat /\ m_writeCount' = Cardinality(Writers')
<1> USE DEF IInv
<1>1. Writers \in SUBSET Threads
  BY DEF Writers
<1>2. CASE pc[t] = "idle"
  <2>1. t \notin Writers
    BY <1>2 DEF Writers, WriterAt
  <2> QED BY <1>1, <1>2, <2>1, ThreadSetsAdd DEF Announce, CountersExact, TypeOK
<1>3. CASE pc[t] = "writeWoken"
  <2>1. Writers' = Writers
    BY <1>3 DEF Writers, WriterAt
  <2> QED BY <1>3, <2>1 DEF Announce, CountersExact, TypeOK
<1> QED BY <1>2, <1>3

LEMMA EnterWriteInv ==
  ASSUME IInv, NEW t \in Threads, EnterWrite(t)
  PROVE  IInv'
<1> USE DEF IInv
<1>1. Readers = {} /\ Writing = {}
  BY CountersDecide DEF EnterWrite, WritePredicate, CountersExact
<1>2. Writers' = Writers \cup {t} /\ Writing' = {t} /\ Readers' = {}
  BY <1>1 DEF EnterWrite, Readers, Writers, Writing, At, WriterAt, TypeOK
<1>3. m_writeCount' \in Nat /\ m_writeCount' = Cardinality(Writers')
  BY <1>2, AnnounceCounts DEF EnterWrite
<1>4. TypeOK'
  BY <1>3 DEF EnterWrite, TypeOK, WriterAt
<1>5. CountersExact'
  BY <1>1, <1>2, <1>3 DEF EnterWrite, CountersExact
<1> QED BY <1>2, <1>4, <1>5 DEF MutualExclusion, NoLostWakeup

LEMMA BlockWriteInv ==
  ASSUME IInv, NEW t \in Threads, BlockWrite(t)
  PROVE  IInv'
<1> USE DEF IInv
<1>1. Readers \cup Writing # {}
  BY CountersDecide DEF BlockWrite, WritePredicate, CountersExact
<1>2. Writers' = Writers \cup {t} /\ Writing' = Writing /\ Readers' = Readers
  BY DEF BlockWrite, Readers, Writers, Writing, At, WriterAt, TypeOK
<1>3. m_writeCount' \in Nat /\ m_writeCount' = Cardinality(Writers')
  BY <1>2, AnnounceCounts DEF BlockWrite
<1>4. TypeOK'
  BY <1>3 DEF BlockWrite, TypeOK, WriterAt
<1>5. CountersExact'
  BY <1>2, <1>3 DEF BlockWrite, CountersExact
<1> QED BY <1>1, <1>2, <1>4, <1>5 DEF MutualExclusion, NoLostWakeup

(* UnlockRead hands over to at most one blocked writer: the threads that   *)
(* wait or write stay the same set of writers.                             *)
LEMMA UnlockReadInv ==
  ASSUME IInv, NEW t \in Threads, UnlockRead(t)
  PROVE  IInv'
<1> USE DEF IInv
<1>1. t \in Readers /\ Readers \in SUBSET Threads
  BY DEF UnlockRead, Readers, At
<1>2. Writing = {}
  BY <1>1 DEF MutualExclusion
<1>3. \/ m_readCount' # 0 /\ pc' = [pc EXCEPT ![t] = "idle"]
      \/ At("writeWait") = {} /\ pc' = [pc EXCEPT ![t] = "idle"]
      \/ m_writeCount = 0 /\ pc' = [pc EXCEPT ![t] = "idle"]
      \/ \E w \in At("writeWait") : pc' = [pc EXCEPT ![t] = "idle", ![w] = "writeWoken"]
  BY DEF UnlockRead, WakeOneWriter, TypeOK
<1>4. /\ Readers' = Readers \ {t} /\ Writers' = Writers /\ Writing' = Writing
      /\ At("readWait")' = At("readWait") /\ pc' \in [Threads -> {"idle", "readWait",
            "readWoken", "reading"} \cup WriterAt]
  <2>1. CASE pc' = [pc EXCEPT ![t] = "idle"]
    BY <2>1, <1>1 DEF Readers, Writers, Writing, At, WriterAt, TypeOK
  <2>2. CASE \E w \in At("writeWait") : pc' = [pc EXCEPT ![t] = "idle", ![w] = "writeWoken"]
    BY <2>2, <1>1 DEF Readers, Writers, Writing, At, WriterAt, TypeOK
  <2> QED BY <1>3, <2>1, <2>2
<1>5. m_readCount' = Cardinality(Readers')
  BY <1>1, <1>4, ThreadSetsRemove DEF UnlockRead, CountersExact
<1>6. TypeOK'
  BY <1>1, <1>4, <1>5, ThreadSetsFinite DEF UnlockRead, TypeOK
<1>7. CountersExact'
  BY <1>4, <1>5 DEF UnlockRead, CountersExact
<1>8. MutualExclusion'
  BY <1>2, <1>4 DEF MutualExclusion
<1>9. At("writeWait")' # {} => (Readers \cup Writing \cup At("writeWoken"))' # {}
  <2>1. CASE m_readCount' # 0
    BY <2>1, <1>5, FS_EmptySet
  <2>2. CASE At("writeWait") = {} /\ pc' = [pc EXCEPT ![t] = "idle"]
    BY <2>2, <1>1 DEF At, Readers, TypeOK
  <2>3. CASE m_writeCount = 0 /\ pc' = [pc EXCEPT ![t] = "idle"]
    <3>1. At("writeWait") = {}
      BY <2>3, CountersDecide DEF At, Writers, WriterAt
    <3> QED BY <2>3, <3>1, <1>1 DEF At, Readers, TypeOK
  <2>4. CASE \E w \in At("writeWait") : pc' = [pc EXCEPT ![t] = "idle", ![w] = "writeWoken"]
    BY <2>4, <1>1 DEF At, Readers, TypeOK
  <2> QED BY <1>3, <2>1, <2>2, <2>3, <2>4
<1> QED BY <1>4, <1>6, <1>7, <1>8, <1>9 DEF NoLostWakeup

(* The last writer out releases every blocked reader; any other one hands  *)
(* over to a writer.                                                       *)
LEMMA UnlockWriteInv ==
  ASSUME IInv, NEW t \in Threads, UnlockWrite(t)
  PROVE  IInv'
<1> USE DEF IInv
<1>1. t \in Writing /\ Writing = {t} /\ t \in Writers /\ Writers \in SUBSET Threads /\ Readers = {}
  BY DEF UnlockWrite, Writing, Writers, At, WriterAt, MutualExclusion
<1>2. m_writeCount' = Cardinality(Writers \ {t})
  BY <1>1, ThreadSetsRemove DEF UnlockWrite, CountersExact
<1>3. m_writeCount' \in Nat /\ (m_writeCount' = 0 <=> Writers = {t})
  BY <1>1, <1>2, ThreadSetsFinite, ThreadSetsEmpty
<1>4. CASE m_writeCount' = 0
  <2>1. /\ Readers' = {} /\ Writers' = {} /\ Writing' = {}
        /\ At("readWait")' = {} /\ At("writeWait")' = {}
        /\ pc' \in [Threads -> {"idle", "readWait", "readWoken", "reading"} \cup WriterAt]
    BY <1>1, <1>3, <1>4
    DEF UnlockWrite, WakeAllReaders, Readers, Writers, Writing, At, WriterAt, TypeOK
  <2>2. TypeOK' /\ CountersExact'
    BY <1>1, <1>3, <1>4, <2>1, FS_EmptySet DEF UnlockWrite, TypeOK, CountersExact
  <2> QED BY <2>1, <2>2 DEF MutualExclusion, NoLostWakeup
<1>5. CASE m_writeCount' # 0
  <2>1. WakeOneWriter(t)
    BY <1>5 DEF UnlockWrite
  <2>2. /\ Readers' = {} /\ Writers' = Writers \ {t} /\ Writing' = {}
        /\ pc' \in [Threads -> {"idle", "readWait", "readWoken", "reading"} \cup WriterAt]
        /\ At("writeWait")' # {} => At("writeWoken")' # {}
    <3>1. CASE At("writeWait") = {} /\ pc' = [pc EXCEPT ![t] = "idle"]
      BY <3>1, <1>1 DEF Readers, Writers, Writing, At, WriterAt, TypeOK
    <3>2. CASE \E w \in At("writeWait") : pc' = [pc EXCEPT ![t] = "idle", ![w] = "writeWoken"]
      BY <3>2, <1>1 DEF Readers, Writers, Writing, At, WriterAt, TypeOK
    <3> QED BY <2>1, <3>1, <3>2 DEF WakeOneWriter
  <2>3. Writers' # {}
    BY <1>1, <1>3, <1>5, <2>2
  <2>4. TypeOK' /\ CountersExact'
    BY <1>1, <1>2, <1>3, <2>2 DEF UnlockWrite, TypeOK, CountersExact
  <2> QED BY <2>2, <2>3, <2>4 DEF MutualExclusion, NoLostWakeup
<1> QED BY <1>4, <1>5

LEMMA SpuriousInv ==
  ASSUME IInv, NEW t \in Threads, Spurious(t)
  PROVE  IInv'
<1> USE DEF IInv
<1>1. Readers' = Readers /\ Writers' = Writers /\ Writing' = Writing
  BY DEF Spurious, Readers, Writers, Writing, At, WriterAt, TypeOK
<1>2. TypeOK'
  BY DEF Spurious, TypeOK, WriterAt
<1>3. At("readWait")' # {} => At("readWait") # {}
  BY DEF Spurious, At, TypeOK
<1>4. At("writeWait")' # {} => (Readers \cup Writing \cup At("writeWoken"))' # {}
  <2>1. At("writeWait")' # {} => At("writeWait") # {}
    BY DEF Spurious, At, TypeOK
  <2>2. At("writeWoken") # {} => At("writeWoken")' # {}
    BY DEF Spurious, At, TypeOK
  <2> QED BY <1>1, <2>1, <2>2 DEF NoLostWakeup
<1> QED BY <1>1, <1>2, <1>3, <1>4 DEF Spurious, CountersExact, MutualExclusion, NoLostWakeup

-----------------------------------------------------------------------------
THEOREM StepInv == IInv /\ [Next]_vars => IInv'
<1> SUFFICES ASSUME IInv, [Next]_vars PROVE IInv'
  OBVIOUS
<1>1. CASE UNCHANGED vars
  BY <1>1 DEF vars, IInv, TypeOK, CountersExact, MutualExclusion, NoLostWakeup,
              Readers, Writers, Writing, At
<1>2. CASE Next
  BY <1>2, EnterReadInv, BlockReadInv, UnlockReadInv, EnterWriteInv, BlockWriteInv,
     UnlockWriteInv, SpuriousInv DEF Next
<1> QED BY <1>1, <1>2

(* The inductive invariant holds of every behaviour of the lock.           *)
THEOREM LockInvariant == Spec => []IInv
<1> QED BY InitInv, StepInv, PTL DEF Spec

(* The counters and the threads' places keep their types.                  *)
THEOREM LockTyped == Spec => []TypeOK
<1>1. IInv => TypeOK
  BY DEF IInv
<1> QED BY <1>1, LockInvariant, PTL

(* rguard and wguard exclude each other, and two wguards too, whatever the *)
(* number of threads.                                                      *)
THEOREM LockExcludes == Spec => []MutualExclusion
<1>1. IInv => MutualExclusion
  BY DEF IInv
<1> QED BY <1>1, LockInvariant, PTL

(* Nobody sleeps on a condition variable that nobody will signal.          *)
THEOREM LockKeepsWakeups == Spec => []NoLostWakeup
<1>1. IInv => NoLostWakeup
  BY DEF IInv
<1> QED BY <1>1, LockInvariant, PTL

(* m_readCount, m_writeCount and m_isWriting never drift from the threads  *)
(* they stand for.                                                         *)
THEOREM LockCounts == Spec => []CountersExact
<1>1. IInv => CountersExact
  BY DEF IInv
<1> QED BY <1>1, LockInvariant, PTL

(* Writer preference, for any number of readers and writers.               *)
THEOREM LockPrefersWriters == Spec => NoReaderOvertakes
<1>1. IInv /\ [Next]_vars
      => [\A t \in Threads : t \notin Readers /\ pc'[t] = "reading" => Writers = {}]_vars
  <2> SUFFICES ASSUME IInv, Next, NEW t \in Threads, t \notin Readers, pc'[t] = "reading"
               PROVE  Writers = {}
    BY DEF NoReaderOvertakes
  <2>1. CASE \E u \in Threads : EnterRead(u)
    BY <2>1, CountersDecide DEF EnterRead, ReadPredicate, IInv
  <2>2. CASE \E u \in Threads : \/ BlockRead(u) \/ UnlockRead(u) \/ EnterWrite(u)
                               \/ BlockWrite(u) \/ UnlockWrite(u) \/ Spurious(u)
    <3>1. pc[t] # "reading" /\ pc \in [Threads -> {"idle", "readWait", "readWoken", "reading"}
                                               \cup WriterAt]
      BY DEF Readers, At, IInv, TypeOK
    <3> QED BY <2>2, <3>1 DEF BlockRead, UnlockRead, EnterWrite, BlockWrite, UnlockWrite,
               Spurious, WakeOneWriter, WakeAllReaders, At
  <2> QED BY <2>1, <2>2 DEF Next
<1> QED BY <1>1, LockInvariant, PTL DEF Spec, NoReaderOvertakes

(* Every step of the condition-variable lock is a step of the lock the     *)
(* cache relies on, or leaves who is inside as it was.                     *)
THEOREM LockRefines == Spec => LockImplemented
<1>1. Init => Lock!RWInit
  BY DEF Init, Lock!RWInit, Readers, Writing, At
<1>2. IInv /\ [Next]_vars => [Lock!RWNext]_(Lock!rwVars)
  <2> SUFFICES ASSUME IInv, [Next]_vars PROVE [Lock!RWNext]_(Lock!rwVars)
    OBVIOUS
  <2> USE DEF IInv
  <2>1. ASSUME NEW t \in Threads, EnterRead(t) PROVE Lock!BeginRead(t)
    <3>1. Writing = {} /\ t \notin Readers
      BY <2>1, CountersDecide DEF EnterRead, ReadPredicate, Readers, At
    <3> QED BY <2>1, <3>1 DEF EnterRead, Lock!BeginRead, Readers, Writing, At, TypeOK
  <2>2. ASSUME NEW t \in Threads, EnterWrite(t) PROVE Lock!BeginWrite(t)
    <3>1. Writing = {} /\ Readers = {}
      BY <2>2, CountersDecide DEF EnterWrite, WritePredicate, CountersExact
    <3> QED BY <2>2, <3>1 DEF EnterWrite, Lock!BeginWrite, Readers, Writing, At, TypeOK
  <2>3. ASSUME NEW t \in Threads, UnlockRead(t) PROVE Lock!EndRead(t)
    <3>1. t \in Readers
      BY <2>3 DEF UnlockRead, Readers, At
    <3>2. CASE pc' = [pc EXCEPT ![t] = "idle"]
      BY <3>1, <3>2 DEF Lock!EndRead, Readers, Writing, At, TypeOK
    <3>3. CASE \E w \in At("writeWait") : pc' = [pc EXCEPT ![t] = "idle", ![w] = "writeWoken"]
      BY <3>1, <3>3 DEF Lock!EndRead, Readers, Writing, At, TypeOK
    <3> QED BY <2>3, <3>2, <3>3 DEF UnlockRead, WakeOneWriter
  <2>4. ASSUME NEW t \in Threads, UnlockWrite(t) PROVE Lock!EndWrite(t)
    <3>1. Writing = {t} /\ Readers = {}
      BY <2>4 DEF UnlockWrite, Writing, At, MutualExclusion
    <3>2. CASE pc' = [pc EXCEPT ![t] = "idle"]
      BY <3>1, <3>2 DEF Lock!EndWrite, Readers, Writing, At, TypeOK
    <3>3. CASE \E w \in At("writeWait") : pc' = [pc EXCEPT ![t] = "idle", ![w] = "writeWoken"]
      BY <3>1, <3>3 DEF Lock!EndWrite, Readers, Writing, At, TypeOK
    <3>4. CASE WakeAllReaders(t)
      BY <3>1, <3>4 DEF WakeAllReaders, Lock!EndWrite, Readers, Writing, At, TypeOK
    <3> QED BY <2>4, <3>2, <3>3, <3>4 DEF UnlockWrite, WakeOneWriter
  <2>5. ASSUME NEW t \in Threads, BlockRead(t) \/ BlockWrite(t) \/ Spurious(t)
        PROVE  UNCHANGED Lock!rwVars
    BY <2>5 DEF BlockRead, BlockWrite, Spurious, Lock!rwVars, Readers, Writing, At, TypeOK
  <2>6. CASE UNCHANGED vars
    BY <2>6 DEF vars, Lock!rwVars, Readers, Writing, At
  <2> QED BY <2>1, <2>2, <2>3, <2>4, <2>5, <2>6 DEF Next, Lock!RWNext
<1> QED BY <1>1, <1>2, LockInvariant, PTL DEF Spec, LockImplemented, Lock!RWSpec
=============================================================================
