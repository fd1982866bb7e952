----------------------- MODULE PropertyIdServiceProofs -----------------------
(***************************************************************************)
(* Proofs about PropertyIdService for any properties and any number of     *)
(* pages: the counter of subtasks is exact, and the service is not ready   *)
(* before every page is loaded, unless a page failed.  That rests on the   *)
(* mutex the callback of SCAN holds between sending a page's MGET and      *)
(* counting the next SCAN.                                                 *)
(***************************************************************************)
EXTENDS PropertyIdService, FiniteSetTheorems, TLAPS

(* Pages are asked for as they come, and hold what SCAN has returned.  The *)
(* page whose SCAN callback holds the mutex can only be refused.           *)
PagesAsked == /\ \A p \in Pages : mget[p] = "none" <=> p > pages
              /\ \A x \in scanned : \E p \in 1..pages : x \in keys[p]
              /\ scan = "finished" => scanned = Properties
              /\ scan = "locked" => /\ pages \in Pages
                                    /\ mget[pages] = "sent" \/ pages \in failed

(* A page answered is a page loaded or a page known to have failed.        *)
Answered(p) == mget[p] \in {"counted", "done"}
PagesAnswered == \A p \in Pages :
                   /\ mget[p] = "done" /\ p \notin failed => keys[p] \subseteq m_propertyMap
                   /\ mget[p] = "counted" => p \in failed

(* When the service is ready nothing is on its way, or only pages behind   *)
(* one that failed.                                                        *)
ReadyIsLast == m_ready => \/ scan = "finished" /\ Waiting = {}
                          \/ \E f \in failed : \A p \in 1..f : Answered(p)

LoadInv == TypeOK /\ CountExact /\ PagesAsked /\ PagesAnswered /\ ReadyIsLast

-----------------------------------------------------------------------------
(* The pages that wait for their MGET are finitely many.                   *)
LEMMA WaitingFinite == ASSUME TypeOK PROVE IsFiniteSet(Waiting) /\ Cardinality(Waiting) \in Nat
<1>1. IsFiniteSet(Pages)
  BY MaxPagesPositive, FS_Interval DEF Pages
<1>2. IsFiniteSet(Waiting)
  BY <1>1, FS_Subset DEF Waiting
<1> QED BY <1>2, FS_CardinalityType

(* Loading begins with one subtask, the first SCAN.                        *)
LEMMA InitLoad == Init => LoadInv
<1> SUFFICES ASSUME Init PROVE LoadInv
  OBVIOUS
<1>1. TypeOK
  <2>1. mget \in [Pages -> {"none", "sent", "counted", "done"}]
    BY DEF Init
  <2>2. keys \in [Pages -> SUBSET Properties]
    BY DEF Init
  <2>3. m_propertyMap \subseteq Properties /\ scanned \subseteq Properties
    BY DEF Init
  <2>4. m_ready \in BOOLEAN
    BY DEF Init
  <2>5. m_subtask_count \in Nat /\ pages \in 0..MaxPages
    BY MaxPagesPositive DEF Init
  <2>6. scan \in {"sent", "locked", "finished", "lost"} /\ failed \subseteq Pages
    BY DEF Init
  <2> QED BY <2>1, <2>2, <2>3, <2>4, <2>5, <2>6 DEF TypeOK
<1>2. Waiting = {}
  BY DEF Init, Waiting
<1>3. CountExact
  BY <1>2, FS_EmptySet DEF Init, CountExact
<1>4. PagesAsked /\ PagesAnswered /\ ReadyIsLast
  BY MaxPagesPositive DEF Init, PagesAsked, PagesAnswered, ReadyIsLast, Pages
<1> QED BY <1>1, <1>3, <1>4 DEF LoadInv

(* The pages up to one that failed were all asked for.                     *)
LEMMA FailedIsPage == ASSUME TypeOK, NEW f \in failed PROVE 1..f \subseteq Pages /\ f \in Nat
BY MaxPagesPositive DEF TypeOK, Pages

(* Pages that are answered stay so, and so does the reason to be ready.    *)
LEMMA ReadyKeeps ==
  ASSUME TypeOK, ReadyIsLast, m_ready' => m_ready, failed \subseteq failed',
         \A p \in Pages : Answered(p) => Answered(p)',
         scan = "finished" /\ Waiting = {} => scan' = "finished" /\ Waiting' = {}
  PROVE  ReadyIsLast'
<1> SUFFICES ASSUME m_ready, NEW f \in failed, \A p \in 1..f : Answered(p)
             PROVE  \A p \in 1..f : Answered(p)'
  BY DEF ReadyIsLast
<1> QED BY FailedIsPage

(* A page moves the subtask of its SCAN to its MGET.                       *)
LEMMA ScanPageKeeps ==
  ASSUME LoadInv, NEW page \in SUBSET Properties, ScanPage(page)
  PROVE  LoadInv'
<1> USE DEF LoadInv
<1> DEFINE q == pages + 1
<1>1. /\ q \in Pages /\ pages' = q /\ pages \in Nat /\ pages' \in 0..MaxPages
      /\ mget[q] = "none"
      /\ mget' = [mget EXCEPT ![q] = "sent"]
      /\ keys' = [keys EXCEPT ![q] = page]
      /\ scanned' = scanned \cup page
      /\ scan = "sent" /\ scan' = "locked"
      /\ UNCHANGED <<m_propertyMap, m_subtask_count, m_ready, failed>>
  BY MaxPagesPositive DEF ScanPage, TypeOK, Pages, PagesAsked
<1> HIDE DEF q
<1>2. TypeOK'
  BY <1>1 DEF TypeOK
<1>3. q \notin Waiting /\ Waiting' = Waiting \cup {q}
  BY <1>1 DEF Waiting, TypeOK
<1>4. CountExact'
  <2>1. Cardinality(Waiting') = Cardinality(Waiting) + 1
    BY <1>3, WaitingFinite, FS_AddElement
  <2> QED BY <2>1, <1>1, WaitingFinite DEF CountExact
<1>5. PagesAsked'
  <2>1. \A p \in Pages : (mget[p] = "none" <=> p > pages)'
    BY <1>1 DEF PagesAsked, TypeOK, Pages, q
  <2>2. ASSUME NEW x \in scanned' PROVE \E p \in 1..pages' : x \in keys'[p]
    <3>1. CASE x \in page
      BY <3>1, <1>1 DEF TypeOK, q
    <3>2. CASE x \in scanned
      <4>1. PICK p \in 1..pages : x \in keys[p]
        BY <3>2 DEF PagesAsked
      <4>2. p \in 1..pages' /\ p # q /\ p \in Pages
        BY <4>1, <1>1, MaxPagesPositive DEF q, Pages
      <4> QED BY <4>1, <4>2, <1>1 DEF TypeOK
    <3> QED BY <3>1, <3>2, <1>1
  <2>3. (mget[pages])' = "sent"
    BY <1>1 DEF TypeOK
  <2> QED BY <2>1, <2>2, <2>3, <1>1 DEF PagesAsked
<1>6. PagesAnswered'
  BY <1>1 DEF PagesAnswered, TypeOK
<1>7. ReadyIsLast'
  <2>1. \A p \in Pages : Answered(p) => Answered(p)'
    BY <1>1 DEF Answered, TypeOK
  <2> QED BY <2>1, <1>1, ReadyKeeps
<1> QED BY <1>2, <1>4, <1>5, <1>6, <1>7

(* The next SCAN is counted before it is sent, the last leaves no subtask, *)
(* and a lost one keeps its own for ever.                                  *)
LEMMA ScanRestKeeps ==
  ASSUME LoadInv, ScanMore \/ ScanEnds \/ ScanLost
  PROVE  LoadInv'
<1> USE DEF LoadInv
<1>1. UNCHANGED <<m_propertyMap, m_ready, scanned, pages, mget, keys, failed>>
  BY DEF ScanMore, ScanEnds, ScanLost
<1>2. Waiting' = Waiting
  BY <1>1 DEF Waiting
<1>3. TypeOK'
  BY <1>1 DEF TypeOK, ScanMore, ScanEnds, ScanLost
<1>4. CountExact'
  BY <1>2, WaitingFinite DEF CountExact, TypeOK, ScanMore, ScanEnds, ScanLost
<1>5. PagesAsked'
  BY <1>1 DEF PagesAsked, ScanMore, ScanEnds, ScanLost
<1>6. PagesAnswered'
  BY <1>1 DEF PagesAnswered
<1>7. ReadyIsLast'
  <2>1. scan # "finished" /\ \A p \in Pages : Answered(p) => Answered(p)'
    BY <1>1 DEF Answered, ScanMore, ScanEnds, ScanLost
  <2> QED BY <2>1, <1>1, ReadyKeeps
<1> QED BY <1>3, <1>4, <1>5, <1>6, <1>7

(* An answered MGET gives its subtask back.                                *)
LEMMA AnswerCounts ==
  ASSUME LoadInv, NEW p \in Pages, MgetLoaded(p) \/ MgetRefused(p)
  PROVE  /\ Waiting' = Waiting \ {p} /\ m_subtask_count' \in Nat
         /\ CountExact'
<1> USE DEF LoadInv
<1>1. /\ p \in Waiting /\ UNCHANGED scan /\ m_subtask_count' = m_subtask_count - 1
      /\ \E s \in {"done", "counted"} : mget' = [mget EXCEPT ![p] = s]
  BY DEF MgetLoaded, MgetRefused, Waiting
<1>2. Waiting' = Waiting \ {p}
  BY <1>1 DEF Waiting, TypeOK
<1>3. Cardinality(Waiting') = Cardinality(Waiting) - 1 /\ Cardinality(Waiting') \in Nat
  <2>1. IsFiniteSet(Waiting \ {p})
    BY WaitingFinite, FS_RemoveElement
  <2> QED BY <1>1, <1>2, <2>1, WaitingFinite, FS_RemoveElement, FS_CardinalityType
<1>4. CountExact' /\ m_subtask_count' \in Nat
  BY <1>1, <1>3, WaitingFinite DEF CountExact
<1> QED BY <1>2, <1>4

(* A page that is loaded makes the service ready only as the last one:     *)
(* SCAN is then over, for its callback does not hold the mutex.            *)
LEMMA LoadedKeeps == ASSUME LoadInv, NEW p \in Pages, MgetLoaded(p) PROVE LoadInv'
<1> USE DEF LoadInv
<1>1. /\ mget[p] = "sent" /\ scan # "locked"
      /\ m_propertyMap' = m_propertyMap \cup keys[p]
      /\ mget' = [mget EXCEPT ![p] = "done"]
      /\ m_ready' = (m_ready \/ m_subtask_count' = 0)
      /\ UNCHANGED <<scan, scanned, pages, keys, failed>>
  BY DEF MgetLoaded, MutexFree, ReadyIfZero
<1>2. /\ Waiting' = Waiting \ {p} /\ m_subtask_count' \in Nat /\ CountExact'
  BY AnswerCounts
<1>3. TypeOK'
  BY <1>1, <1>2 DEF TypeOK
<1>4. PagesAsked' /\ PagesAnswered'
  BY <1>1 DEF PagesAsked, PagesAnswered, TypeOK
<1>5. ReadyIsLast'
  <2>1. CASE m_subtask_count' = 0
    <3>1. IsFiniteSet(Waiting') /\ Cardinality(Waiting') = 0 /\ scan = "finished"
      BY <2>1, <1>1, <1>2, <1>3, WaitingFinite, FS_RemoveElement, FS_CardinalityType
         DEF CountExact, TypeOK
    <3> QED BY <3>1, <1>1, FS_EmptySet DEF ReadyIsLast
  <2>2. CASE m_subtask_count' # 0
    <3>1. \A r \in Pages : Answered(r) => Answered(r)'
      BY <1>1 DEF Answered, TypeOK
    <3> QED BY <3>1, <2>2, <1>1, <1>2, ReadyKeeps
  <2> QED BY <2>1, <2>2
<1> QED BY <1>2, <1>3, <1>4, <1>5

(* A page that failed is counted without the mutex, and is known for it.   *)
LEMMA RefusedKeeps ==
  ASSUME LoadInv, NEW p \in Pages, MgetRefused(p) \/ MgetTested(p)
  PROVE  LoadInv'
<1> USE DEF LoadInv
<1>1. CASE MgetRefused(p)
  <2>1. Waiting' = Waiting \ {p} /\ m_subtask_count' \in Nat /\ CountExact'
    BY <1>1, AnswerCounts
  <2>2. TypeOK'
    BY <1>1, <2>1 DEF TypeOK, MgetRefused
  <2>3. PagesAsked' /\ PagesAnswered'
    BY <1>1 DEF PagesAsked, PagesAnswered, TypeOK, MgetRefused
  <2>4. ReadyIsLast'
    <3>1. \A r \in Pages : Answered(r) => Answered(r)'
      BY <1>1 DEF Answered, TypeOK, MgetRefused
    <3> QED BY <3>1, <2>1, <1>1, ReadyKeeps DEF MgetRefused
  <2> QED BY <2>1, <2>2, <2>3, <2>4
<1>2. CASE MgetTested(p)
  <2>1. Waiting' = Waiting
    BY <1>2 DEF MgetTested, Waiting, TypeOK
  <2>2. CountExact'
    BY <1>2, <2>1 DEF CountExact, MgetTested
  <2>3. TypeOK'
    BY <1>2 DEF TypeOK, MgetTested, ReadyIfZero
  <2>4. p \in failed
    BY <1>2 DEF MgetTested, PagesAnswered
  <2>5. PagesAsked' /\ PagesAnswered'
    BY <1>2, <2>4 DEF PagesAsked, PagesAnswered, TypeOK, MgetTested
  <2>6. \A r \in Pages : Answered(r) => Answered(r)'
    BY <1>2 DEF Answered, TypeOK, MgetTested
  <2>7. ReadyIsLast'
    <3>1. CASE m_subtask_count # 0
      BY <3>1, <2>1, <2>6, <1>2, ReadyKeeps DEF MgetTested, ReadyIfZero
    <3>2. CASE m_subtask_count = 0
      <4>1. Waiting = {} /\ scan \in {"locked", "finished"}
        BY <3>2, WaitingFinite, FS_EmptySet DEF CountExact, TypeOK
      <4>2. CASE scan = "finished"
        BY <4>1, <4>2, <2>1, <1>2 DEF ReadyIsLast, MgetTested
      <4>3. CASE scan = "locked"
        <5>1. pages \in failed
          BY <4>1, <4>3 DEF PagesAsked, Waiting
        <5>2. \A r \in 1..pages : Answered(r)
          BY <4>1, MaxPagesPositive DEF PagesAsked, Waiting, Answered, TypeOK, Pages
        <5>3. pages \in failed' /\ \A r \in 1..pages : Answered(r)'
          BY <5>1, <5>2, <2>6, <1>2, FailedIsPage DEF MgetTested
        <5> QED BY <5>3 DEF ReadyIsLast
      <4> QED BY <4>1, <4>2, <4>3
    <3> QED BY <3>1, <3>2
  <2> QED BY <2>2, <2>3, <2>5, <2>7
<1> QED BY <1>1, <1>2

(* Every step keeps the invariant.                                         *)
LEMMA NextKeeps == LoadInv /\ [Next]_vars => LoadInv'
<1> SUFFICES ASSUME LoadInv, [Next]_vars PROVE LoadInv'
  OBVIOUS
<1>1. CASE Scan
  BY <1>1, ScanPageKeeps, ScanRestKeeps DEF Scan
<1>2. CASE \E p \in Pages : Mget(p)
  BY <1>2, LoadedKeeps, RefusedKeeps DEF Mget
<1>3. CASE UNCHANGED vars
  BY <1>3 DEF vars, LoadInv, TypeOK, CountExact, Waiting, PagesAsked, PagesAnswered, ReadyIsLast,
             Answered
<1> QED BY <1>1, <1>2, <1>3 DEF Next

-----------------------------------------------------------------------------
(* The inductive invariant holds of every behaviour.                       *)
THEOREM LoadInvariant == Spec => []LoadInv
BY InitLoad, NextKeeps, PTL DEF Spec

(* The service's state keeps its types; the counter never goes below zero. *)
THEOREM LoadTyped == Spec => []TypeOK
<1>1. LoadInv => TypeOK
  BY DEF LoadInv
<1> QED BY <1>1, LoadInvariant, PTL

(* The counter is the number of pages SCAN owes or MGET has not answered.  *)
THEOREM LoadCounts == Spec => []CountExact
<1>1. LoadInv => CountExact
  BY DEF LoadInv
<1> QED BY <1>1, LoadInvariant, PTL

(* A property without id when the service is ready was in a page that      *)
(* failed, or in none up to the refused page that made the service ready.  *)
LEMMA ReadyIsLoaded == LoadInv => ReadyMeansLoaded
<1> SUFFICES ASSUME LoadInv, m_ready, NEW x \in Properties, x \notin m_propertyMap
             PROVE  \E f \in failed : x \in keys[f] \/ \A p \in 1..f : x \notin keys[p]
  BY DEF ReadyMeansLoaded
<1> USE DEF LoadInv
<1>1. ASSUME NEW p \in Pages, Answered(p), x \in keys[p] PROVE p \in failed
  BY <1>1 DEF PagesAnswered, Answered
<1>2. CASE scan = "finished" /\ Waiting = {}
  <2>1. PICK p \in 1..pages : x \in keys[p]
    BY <1>2 DEF PagesAsked
  <2>2. p \in Pages /\ ~(p > pages)
    BY MaxPagesPositive DEF TypeOK, Pages
  <2>3. Answered(p)
    BY <1>2, <2>2 DEF TypeOK, PagesAsked, Waiting, Answered
  <2> QED BY <1>1, <2>1, <2>2, <2>3
<1>3. CASE \E f \in failed : \A p \in 1..f : Answered(p)
  <2>1. PICK f \in failed : \A p \in 1..f : Answered(p)
    BY <1>3
  <2>2. 1..f \subseteq Pages
    BY FailedIsPage
  <2> QED BY <1>1, <2>1, <2>2
<1> QED BY <1>2, <1>3 DEF ReadyIsLast

(* A ready service has the id of every property, but for the pages that    *)
(* failed and those behind one.                                            *)
THEOREM ReadyLoaded == Spec => []ReadyMeansLoaded
BY LoadInvariant, ReadyIsLoaded, PTL

(* The map changes under the readers that a ready service lets in without  *)
(* a lock only by a page behind one that failed: of the others no MGET is  *)
(* left that could load.                                                   *)
THEOREM ReadyFrozen == Spec => LateOnlyBehindFailed
<1> DEFINE Late == \E p \in Pages, f \in failed : f < p /\ mget'[p] # mget[p]
<1>1. LoadInv /\ [Next]_vars => [m_ready /\ m_propertyMap' # m_propertyMap => Late]_vars
  <2> SUFFICES ASSUME LoadInv, [Next]_vars, m_ready, m_propertyMap' # m_propertyMap
               PROVE  Late
    OBVIOUS
  <2> USE DEF LoadInv
  <2>1. PICK p \in Pages : MgetLoaded(p)
    BY DEF Next, Scan, Mget, ScanPage, ScanMore, ScanEnds, ScanLost, MgetRefused, MgetTested, vars
  <2>2. p \in Waiting /\ mget[p] = "sent" /\ mget'[p] # mget[p]
    BY <2>1 DEF MgetLoaded, Waiting, TypeOK
  <2>3. PICK f \in failed : \A r \in 1..f : Answered(r)
    BY <2>2 DEF ReadyIsLast
  <2>4. f < p
    BY <2>2, <2>3, FailedIsPage, MaxPagesPositive DEF Answered, Pages
  <2> QED BY <2>2, <2>4
<1> QED BY <1>1, LoadInvariant, PTL DEF Spec, LateOnlyBehindFailed
=============================================================================
