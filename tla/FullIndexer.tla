----------------------------- MODULE FullIndexer -----------------------------
(***************************************************************************)
(* The full indexer: one producer per first digit of the kgc_ids reads its *)
(* triads from Mongo, collects those of one entity after another into jobs *)
(* and submits them to WorkerThreads; startFullIndexer waits for the       *)
(* producers, shuts the pool down and waits for the workers.               *)
(*                                                                         *)
(* The aggregation does not sort, so a cursor returns the triads of its    *)
(* producer in any order.  A producer that finds the queue full sleeps     *)
(* once and goes on: isFull changes nothing, and is left out.              *)
(***************************************************************************)
EXTENDS WorkerThreads, SequencesExt

CONSTANTS Producers, ProducerOf  \* ProducerOf[e] reads the triads of entity e
ASSUME ProducersTyped == ProducerOf \in [Entities -> Producers]
ASSUME TriadsFinite == IsFiniteSet(Triads)

VARIABLES rest,             \* what each cursor has yet to return
          currentEntityId,
          indexJob,         \* triads collected for currentEntityId
          submitted,        \* producers whose run has returned
          main,             \* where startFullIndexer is
          missed,           \* history: workers about to sleep at the last notification
          unparsed,         \* history: triads that did not parse
          started,          \* history: entities a job was begun for
          scattered         \* history: entities begun more than once
producerVars == <<rest, currentEntityId, indexJob, submitted, unparsed, started, scattered>>
vars == <<poolVars, producerVars, main, missed>>

NoEntity == "none"
ASSUME NoEntityIsNone == NoEntity \notin Entities
TriadsOf(e) == {t \in Triads : EntityOf[t] = e}
Matched(p) == {t \in Triads : ProducerOf[EntityOf[t]] = p}

Init == /\ InitPool
        /\ rest \in {r \in [Producers -> UNION {SetToSeqs(Matched(p)) : p \in Producers}] :
                        \A p \in Producers : r[p] \in SetToSeqs(Matched(p))}
        /\ currentEntityId = [p \in Producers |-> NoEntity]
        /\ indexJob = [p \in Producers |-> {}]
        /\ submitted = {}
        /\ main = "producers" /\ missed = {}
        /\ unparsed = {} /\ started = {} /\ scattered = {}

-----------------------------------------------------------------------------
(* FullIndexer::run, one document of the cursor.                           *)
ParseError(p) == /\ rest[p] # <<>>
                 /\ rest' = [rest EXCEPT ![p] = Tail(@)]
                 /\ unparsed' = unparsed \cup {Head(rest[p])}
                 /\ UNCHANGED <<poolVars, currentEntityId, indexJob, submitted, started,
                                scattered, main, missed>>

NextTriad(p) == /\ rest[p] # <<>>
                /\ EntityOf[Head(rest[p])] = currentEntityId[p]
                /\ rest' = [rest EXCEPT ![p] = Tail(@)]
                /\ indexJob' = [indexJob EXCEPT ![p] = @ \cup {Head(rest[p])}]
                /\ UNCHANGED <<poolVars, currentEntityId, submitted, unparsed, started,
                               scattered, main, missed>>

NextEntity(p) ==
  /\ rest[p] # <<>>
  /\ LET t == Head(rest[p]) e == EntityOf[t] IN
       /\ e # currentEntityId[p]
       /\ IF indexJob[p] = {} THEN UNCHANGED poolVars ELSE Submit(indexJob[p])
       /\ indexJob' = [indexJob EXCEPT ![p] = {t}]
       /\ currentEntityId' = [currentEntityId EXCEPT ![p] = e]
       /\ started' = started \cup {e}
       /\ scattered' = scattered \cup ({e} \cap started)
  /\ rest' = [rest EXCEPT ![p] = Tail(@)]
  /\ UNCHANGED <<submitted, unparsed, main, missed>>

(* Behind the loop the last job is submitted, an empty one, too.           *)
LastJob(p) == /\ rest[p] = <<>>
              /\ p \notin submitted
              /\ Submit(indexJob[p])
              /\ submitted' = submitted \cup {p}
              /\ indexJob' = [indexJob EXCEPT ![p] = {}]
              /\ UNCHANGED <<rest, currentEntityId, unparsed, started, scattered, main,
                             missed>>

(* What the cursor throws leaves the thread and ends the process, and so   *)
(* may a failed put: its callback prints an entity that went out of scope  *)
(* when the puts were started.                                             *)
CursorThrows(p) == /\ rest[p] # <<>>
                   /\ main' = "dead"
                   /\ UNCHANGED <<poolVars, producerVars, missed>>
LogFailure(w, s) == /\ PutFailed(w, s)
                    /\ main' \in {main, "dead"}
                    /\ UNCHANGED <<producerVars, missed>>

-----------------------------------------------------------------------------
(* startFullIndexer: delete fullIndex, delete workerThreadPool.            *)
JoinProducers == /\ main = "producers"
                 /\ submitted = Producers
                 /\ Shutdown
                 /\ main' = "shutdown"
                 /\ UNCHANGED <<producerVars, missed>>
DestroyPool == /\ main = "shutdown"
               /\ NotifyAll
               /\ main' = "workers"
               /\ missed' = {w \in Workers : pc[w] = "tested"}
               /\ UNCHANGED producerVars
JoinWorkers == /\ main = "workers"
               /\ AllReturned
               /\ main' = "done"
               /\ UNCHANGED <<poolVars, producerVars, missed>>

-----------------------------------------------------------------------------
Produce(p) == ParseError(p) \/ NextTriad(p) \/ NextEntity(p) \/ LastJob(p)
RunWorker(w) == /\ TakeJob(w) \/ Quit(w) \/ TestPredicate(w) \/ Sleep(w)
                /\ UNCHANGED <<producerVars, main, missed>>
WakeUp(w) == Spurious(w) /\ UNCHANGED <<producerVars, main, missed>>
Put(w, s) == PutDone(w, s) /\ UNCHANGED <<producerVars, main, missed>>
Main == JoinProducers \/ DestroyPool \/ JoinWorkers

Next == /\ main # "dead"
        /\ \/ \E p \in Producers : Produce(p) \/ CursorThrows(p)
           \/ \E w \in Workers : RunWorker(w) \/ WakeUp(w)
           \/ \E w \in Workers, s \in Stores : Put(w, s) \/ LogFailure(w, s)
           \/ Main

Spec == Init /\ [][Next]_vars

(* Threads run, and get a mutex that is free again and again; Workflow     *)
(* calls back for every put.                                               *)
Alive == main # "dead"
Fairness == /\ \A p \in Producers : SF_vars(Alive /\ Produce(p))
            /\ \A w \in Workers : SF_vars(Alive /\ RunWorker(w))
            /\ \A w \in Workers, s \in Stores :
                 WF_vars(Alive /\ (Put(w, s) \/ LogFailure(w, s)))
            /\ WF_vars(Alive /\ Main)
FairSpec == Spec /\ Fairness

-----------------------------------------------------------------------------
TypeOK == /\ PoolTypeOK
          /\ rest \in [Producers -> Seq(Triads)]
          /\ currentEntityId \in [Producers -> Entities \cup {NoEntity}]
          /\ indexJob \in [Producers -> SUBSET Triads]
          /\ submitted \subseteq Producers
          /\ main \in {"producers", "shutdown", "workers", "done", "dead"}
          /\ missed \subseteq Workers /\ unparsed \subseteq Triads
          /\ started \subseteq Entities /\ scattered \subseteq started

(* When startFullIndexer returns, every store has every entity with all    *)
(* its triads that parsed: no job was left in the queue by a worker that   *)
(* saw the shutdown, none is still being written by one that returned, and *)
(* no two entities got into one job.  Two exceptions: the put failed, or   *)
(* the cursor returned the entity's triads in pieces, of which the last    *)
(* one written replaces the others.                                        *)
LoadComplete == main = "done" =>
  \A e \in Entities, s \in Stores :
    \/ store[s][e] = TriadsOf(e) \ unparsed
    \/ <<s, e>> \in failed
    \/ e \in scattered /\ store[s][e] \subseteq TriadsOf(e)

(* The load ends, and everything is written before, unless the process     *)
(* dies or no worker ever looks at the queue because of what its counter   *)
(* happened to hold.  The end may be missed all the same: a worker that    *)
(* went to sleep between shutdown and the notification is never woken, and *)
(* one whose counter was not zero never returns.                           *)
Loaded == submitted = Producers /\ m_queue = <<>> /\ \A w \in Workers : pending[w] = {}
NeverRan(w) == pc[w] = "running" /\ subtasks[w] > 0 /\ pending[w] = {}
Overslept(w) == w \in missed /\ pc[w] = "waiting"
LoadEnds == <>[]( \/ main = "dead"
                  \/ \A w \in Workers : NeverRan(w)
                  \/ Loaded /\ (main = "done" \/ \E w \in Workers : NeverRan(w) \/ Overslept(w)))
=============================================================================
