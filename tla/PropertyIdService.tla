-------------------------- MODULE PropertyIdService --------------------------
(***************************************************************************)
(* Loading of the property ids from Redis, property_id_service.cpp of the  *)
(* indexer (the SQL server has a copy): SCAN returns the keys page by      *)
(* page, an MGET per page returns their ids, and m_subtask_count counts    *)
(* the pages that are not loaded yet.  The one that brings it to zero      *)
(* declares the service ready, and from then on getPropertyId reads the    *)
(* map without the mutex.                                                  *)
(*                                                                         *)
(* The callback of a SCAN holds m_mutex from before it sends the page's    *)
(* MGET until after it has sent the next SCAN; the callback of an MGET     *)
(* takes m_mutex to load a page, but not to count a failure.               *)
(***************************************************************************)
EXTENDS Integers, FiniteSets

CONSTANTS Properties,      \* keys of the property database
          MaxPages         \* bound: replies of SCAN, empty ones included
ASSUME PropertiesFinite == IsFiniteSet(Properties)
ASSUME MaxPagesPositive == MaxPages \in Nat \ {0}

VARIABLES m_propertyMap,   \* properties whose id has been loaded
          m_subtask_count,
          m_ready,
          scan,            \* the SCAN: sent, in its callback, finished or lost
          scanned,         \* properties SCAN has returned
          pages,           \* pages received so far
          mget,            \* page -> progress of its MGET
          keys,            \* page -> properties asked for
          failed           \* history: pages whose MGET did not return ids
vars == <<m_propertyMap, m_subtask_count, m_ready, scan, scanned, pages, mget, keys, failed>>

Pages == 1..MaxPages

Init == /\ m_propertyMap = {}
        /\ m_subtask_count = 1     \* init calls scan("0")
        /\ m_ready = FALSE
        /\ scan = "sent"
        /\ scanned = {}
        /\ pages = 0
        /\ mget = [p \in Pages |-> "none"]
        /\ keys = [p \in Pages |-> {}]
        /\ failed = {}

MutexNotTaken == TRUE  \* mutant: the callback of MGET takes no mutex
MutexFree == scan # "locked"

-----------------------------------------------------------------------------
(* The SCAN callback, first half: a page, whose MGET is sent.  SCAN may    *)
(* return keys again, or none, and ends no sooner than it returned all.    *)
ScanPage(page) ==
  /\ scan = "sent"
  /\ pages < MaxPages
  /\ pages + 1 = MaxPages => scanned \cup page = Properties
  /\ pages' = pages + 1
  /\ scanned' = scanned \cup page
  /\ mget' = [mget EXCEPT ![pages'] = "sent"]
  /\ keys' = [keys EXCEPT ![pages'] = page]
  /\ scan' = "locked"
  /\ UNCHANGED <<m_propertyMap, m_subtask_count, m_ready, failed>>

(* Second half: the next SCAN is counted and sent, unless the cursor is 0. *)
ScanMoreUncounted == /\ scan = "locked"  \* mutant: only init counts its SCAN
                     /\ pages < MaxPages
                     /\ scan' = "sent"
                     /\ UNCHANGED <<m_propertyMap, m_subtask_count, m_ready, scanned, pages,
                                    mget, keys, failed>>
ScanMore == /\ scan = "locked"
            /\ pages < MaxPages
            /\ m_subtask_count' = m_subtask_count + 1
            /\ scan' = "sent"
            /\ UNCHANGED <<m_propertyMap, m_ready, scanned, pages, mget, keys, failed>>

ScanEnds == /\ scan = "locked"
            /\ scanned = Properties
            /\ scan' = "finished"
            /\ UNCHANGED <<m_propertyMap, m_subtask_count, m_ready, scanned, pages, mget, keys, failed>>

(* A failed SCAN or an error reply: the callback does nothing.             *)
ScanLost == /\ scan = "sent"
            /\ scan' = "lost"
            /\ UNCHANGED <<m_propertyMap, m_subtask_count, m_ready, scanned, pages, mget, keys, failed>>

-----------------------------------------------------------------------------
ReadyIfZero(n) == m_ready' = (m_ready \/ n = 0)

(* An array: loaded, counted and tested under the mutex.  An MGET without  *)
(* keys is answered by an error.                                           *)
MgetLoaded(p) == /\ mget[p] = "sent" /\ MutexFree
                 /\ keys[p] # {}
                 /\ m_propertyMap' = m_propertyMap \cup keys[p]
                 /\ m_subtask_count' = m_subtask_count - 1
                 /\ ReadyIfZero(m_subtask_count')
                 /\ mget' = [mget EXCEPT ![p] = "done"]
                 /\ UNCHANGED <<scan, scanned, pages, keys, failed>>

(* An error reply or a failed task: counted without the mutex, and tested  *)
(* in a second access to the atomic counter.                               *)
MgetRefusedTwice(p) ==  \* mutant: an error reply is counted as such and as an answer
  /\ mget[p] = "sent"
  /\ m_subtask_count' = m_subtask_count - 2
  /\ mget' = [mget EXCEPT ![p] = "counted"]
  /\ failed' = failed \cup {p}
  /\ UNCHANGED <<m_propertyMap, m_ready, scan, scanned, pages, keys>>
MgetRefusedUntested(p) ==  \* mutant: only a page that was loaded tests the counter
  /\ mget[p] = "sent"
  /\ m_subtask_count' = m_subtask_count - 1
  /\ mget' = [mget EXCEPT ![p] = "done"]
  /\ failed' = failed \cup {p}
  /\ UNCHANGED <<m_propertyMap, m_ready, scan, scanned, pages, keys>>
MgetRefused(p) == /\ mget[p] = "sent"
                  /\ m_subtask_count' = m_subtask_count - 1
                  /\ mget' = [mget EXCEPT ![p] = "counted"]
                  /\ failed' = failed \cup {p}
                  /\ UNCHANGED <<m_propertyMap, m_ready, scan, scanned, pages, keys>>

MgetTested(p) == /\ mget[p] = "counted"
                 /\ ReadyIfZero(m_subtask_count)
                 /\ mget' = [mget EXCEPT ![p] = "done"]
                 /\ UNCHANGED <<m_propertyMap, m_subtask_count, scan, scanned, pages, keys, failed>>

-----------------------------------------------------------------------------
Scan == (\E page \in SUBSET Properties : ScanPage(page)) \/ ScanMore \/ ScanEnds \/ ScanLost
Mget(p) == MgetLoaded(p) \/ MgetRefused(p) \/ MgetTested(p)
Next == Scan \/ \E p \in Pages : Mget(p)

Spec == Init /\ [][Next]_vars
(* Workflow calls back for every request, and the callbacks run to the end.*)
FairSpec == Spec /\ WF_vars(Scan) /\ \A p \in Pages : WF_vars(Mget(p))

-----------------------------------------------------------------------------
TypeOK == /\ m_propertyMap \subseteq Properties /\ scanned \subseteq Properties
          /\ m_subtask_count \in Nat
          /\ m_ready \in BOOLEAN
          /\ scan \in {"sent", "locked", "finished", "lost"}
          /\ pages \in 0..MaxPages
          /\ mget \in [Pages -> {"none", "sent", "counted", "done"}]
          /\ keys \in [Pages -> SUBSET Properties]
          /\ failed \subseteq Pages

(* The counter is the number of pages that SCAN owes or MGET has not       *)
(* answered: a page is counted once, by the SCAN that finds it, and that   *)
(* of a lost SCAN for ever.                                                *)
Waiting == {p \in Pages : mget[p] = "sent"}
CountExact == m_subtask_count = Cardinality(Waiting)
                                  + (IF scan \in {"sent", "lost"} THEN 1 ELSE 0)

(* Ready means that every property has its id, but for the pages that      *)
(* failed: the service is not ready between two pages, because the MGET    *)
(* callback that would count to zero waits for the SCAN callback's mutex.  *)
(* Only a refused page, counted without the mutex, can make it ready       *)
(* before the next SCAN is counted; what is missing then comes behind it.  *)
ReadyMeansLoaded == m_ready => \A x \in Properties \ m_propertyMap :
  \E f \in failed : x \in keys[f] \/ \A p \in 1..f : x \notin keys[p]

(* The map changes under the readers that getPropertyId lets in without a  *)
(* lock once the service is ready only by pages behind one that failed.    *)
LateOnlyBehindFailed ==
  [][m_ready /\ m_propertyMap' # m_propertyMap =>
       \E p \in Pages, f \in failed : f < p /\ mget'[p] # mget[p]]_vars

(* init returns, whatever becomes of the MGETs, unless a SCAN failed.      *)
BecomesReady == <>(m_ready \/ scan = "lost")
=============================================================================
