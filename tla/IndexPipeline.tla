---------------------------- MODULE IndexPipeline ----------------------------
(***************************************************************************)
(* The realtime indexer of one Kafka partition: RealtimeIndexer consumes   *)
(* messages, EntityDispatcher threads read the entity's triads from Mongo, *)
(* WorkerThreads write the entity to three Redis zones and to              *)
(* ElasticSearch, and the offset of each message is saved in Redis.        *)
(*                                                                         *)
(* A version of an entity is the place in the log of the change that made  *)
(* it, and NoDoc is an entity without triads, or a store without the       *)
(* document.  Whether triads parse is a matter of what they hold, hence of *)
(* the version.  Requests to the stores are asynchronous: they are in      *)
(* flight from the step that starts them to the step that applies or loses *)
(* them.                                                                   *)
(***************************************************************************)
EXTENDS Integers, Sequences, FiniteSets, SequencesExt

CONSTANTS Entities, Stores,          \* hb, js, gd and es
          Dispatchers, Workers,      \* threads
          Operations,                \* of the messages that may occur
          DispatcherLimit,           \* 4000: submit waits above it
          m_capacity,                \* of WorkerThreads
          Patchy, Garbled,           \* versions: not all, no triads parse
          MaxLog, MaxCrashes         \* bounds of the environment
ASSUME ThreadsFinite == IsFiniteSet(Dispatchers) /\ IsFiniteSet(Workers)
ASSUME StoresExist == Stores # {}
ASSUME LimitsNatural == DispatcherLimit \in Nat /\ m_capacity \in Nat
ASSUME OperationsKnown == Operations \subseteq {"upsert", "delete", "other", "malformed"}
ASSUME VersionsNamed == Patchy \cup Garbled \subseteq Nat \ {0}
ASSUME BoundsNatural == MaxLog \in Nat /\ MaxCrashes \in Nat

VARIABLES mongo,        \* entity -> its current version
          log,          \* the partition: messages [operation, kgc_id]
          position,     \* next offset to consume
          savedOffset,  \* what the offset key holds in Redis
          offsetSets,   \* SETs of the offset key in flight
          m_queue,      \* EntityDispatcher's queue of entity ids
          dispatcher,   \* what each dispatcher thread does
          jobs,         \* WorkerThreads' queue of [kgc_id, version]
          worker,       \* job of each worker, with the stores yet to answer
          deletes,      \* deletions in flight: <<store, entity>>
          store,        \* store -> entity -> version of its document
          crashes,      \* crashes so far
          looping,      \* workers whose subtasks started above zero
          suspect       \* history: entities no clean update has repaired
env == <<mongo, log>>
offsets == <<position, savedOffset, offsetSets>>
threads == <<m_queue, dispatcher, jobs, worker>>
process == <<crashes, looping>>
vars == <<mongo, log, offsets, threads, deletes, store, process, suspect>>

NoDoc == 0
Versions == 0..MaxLog
Docs == -MaxLog..MaxLog

(* The document made of those triads of a version that parse.              *)
Document(version) == IF version \in Patchy THEN -version ELSE version
Idle == [pc |-> "idle"]

Init == /\ mongo = [e \in Entities |-> NoDoc]
        /\ log = <<>>
        /\ position = 0 /\ savedOffset = 0 /\ offsetSets = {}
        /\ m_queue = <<>>
        /\ dispatcher = [d \in Dispatchers |-> Idle]
        /\ jobs = <<>>
        /\ worker = [w \in Workers |-> Idle]
        /\ deletes = {}
        /\ store = [s \in Stores |-> [e \in Entities |-> NoDoc]]
        /\ crashes = 0
        /\ looping \in SUBSET Workers  \* subtasks is not initialised
        /\ suspect = {}

-----------------------------------------------------------------------------
(* The producer: Mongo changes, and a message about it follows.            *)
Change(e, op) ==
  /\ Len(log) < MaxLog
  /\ op = "delete" => mongo[e] # NoDoc
  /\ log' = Append(log, [operation |-> op, kgc_id |-> e])
  /\ mongo' = [mongo EXCEPT ![e] = CASE op = "upsert" -> Len(log) + 1
                                     [] op = "delete" -> NoDoc
                                     [] OTHER -> mongo[e]]
  /\ UNCHANGED <<offsets, threads, deletes, store, process, suspect>>

-----------------------------------------------------------------------------
(* Work on e that has been taken from the log and is not finished.         *)
Busy(f, e) == \E t \in DOMAIN f : f[t] # Idle /\ f[t].kgc_id = e
InFlight(e) == \/ e \in ToSet(m_queue)
               \/ Busy(dispatcher, e) \/ Busy(worker, e)
               \/ \E i \in DOMAIN jobs : jobs[i].kgc_id = e
               \/ \E s \in Stores : <<s, e>> \in deletes

(* The history variable: a message about e consumed while nothing about e  *)
(* is in flight is a clean update, any other one makes e suspect.          *)
Judge(e) == suspect' = IF InFlight(e) THEN suspect \cup {e} ELSE suspect \ {e}

(* consume_cb: upserts are queued, deletions are sent off at once, other   *)
(* operations are ignored, and the offset is saved in every case.  What    *)
(* json::parse or the look-up of kgc_id rejects is thrown out of the       *)
(* callback, see Abort.                                                    *)
ConsumeUpsert(e) == /\ Len(m_queue) <= DispatcherLimit
                    /\ m_queue' = Append(m_queue, e)
                    /\ Judge(e)
                    /\ UNCHANGED deletes
ConsumeDelete(e) == /\ deletes' = deletes \cup {<<s, e>> : s \in Stores}
                    /\ Judge(e)
                    /\ UNCHANGED m_queue
ConsumeElseDelete ==  \* mutant: what is no upsert is taken for a deletion
  /\ position < Len(log)
  /\ LET msg == log[position + 1] IN
       IF msg.operation = "upsert" THEN ConsumeUpsert(msg.kgc_id)
                                   ELSE ConsumeDelete(msg.kgc_id)
  /\ log[position + 1].operation # "malformed"
  /\ offsetSets' = offsetSets \cup {position}
  /\ position' = position + 1
  /\ UNCHANGED <<env, savedOffset, dispatcher, jobs, worker, store, process>>
Consume ==
  /\ position < Len(log)
  /\ LET msg == log[position + 1] IN
       \/ msg.operation = "upsert" /\ ConsumeUpsert(msg.kgc_id)
       \/ msg.operation = "delete" /\ ConsumeDelete(msg.kgc_id)
       \/ msg.operation = "other" /\ UNCHANGED <<m_queue, deletes, suspect>>
  /\ offsetSets' = offsetSets \cup {position}
  /\ position' = position + 1
  /\ UNCHANGED <<env, savedOffset, dispatcher, jobs, worker, store, process>>

(* The SETs of the offset key are applied in any order, or lost.           *)
SaveOffset(o) == /\ o \in offsetSets
                 /\ offsetSets' = offsetSets \ {o}
                 /\ savedOffset' \in {o, savedOffset}
                 /\ UNCHANGED <<env, position, threads, deletes, store, process, suspect>>

-----------------------------------------------------------------------------
(* EntityDispatcher::run.  Triads that do not parse are logged and left    *)
(* out, and when nothing is left there is no job.                          *)
TakeEntity(d) == /\ dispatcher[d] = Idle
                 /\ m_queue # <<>>
                 /\ dispatcher' = [dispatcher EXCEPT ![d] =
                                     [pc |-> "popped", kgc_id |-> Head(m_queue)]]
                 /\ m_queue' = Tail(m_queue)
                 /\ UNCHANGED <<env, offsets, jobs, worker, deletes, store, process, suspect>>

GetEntityTriads(d) ==
  /\ dispatcher[d].pc = "popped"
  /\ LET e == dispatcher[d].kgc_id IN
     dispatcher' = [dispatcher EXCEPT ![d] =
                      IF mongo[e] \in {NoDoc} \cup Garbled THEN Idle
                      ELSE [pc |-> "loaded", kgc_id |-> e, version |-> Document(mongo[e])]]
  /\ UNCHANGED <<env, offsets, m_queue, jobs, worker, deletes, store, process, suspect>>

IsFullLate == m_capacity + 1 < Len(jobs)  \* mutant: off by one
IsFull == m_capacity < Len(jobs)

(* isFull is tested without the mutex that submit then takes.              *)
SeeRoom(d) == /\ dispatcher[d].pc = "loaded"
              /\ ~IsFull
              /\ dispatcher' = [dispatcher EXCEPT ![d].pc = "admitted"]
              /\ UNCHANGED <<env, offsets, m_queue, jobs, worker, deletes, store, process, suspect>>

SubmitJob(d) == /\ dispatcher[d].pc = "admitted"
                /\ jobs' = Append(jobs, [kgc_id |-> dispatcher[d].kgc_id,
                                         version |-> dispatcher[d].version])
                /\ dispatcher' = [dispatcher EXCEPT ![d] = Idle]
                /\ UNCHANGED <<env, offsets, m_queue, worker, deletes, store, process, suspect>>

-----------------------------------------------------------------------------
(* WorkerThreads::run: subtasks counts the stores that have not answered,  *)
(* and the next job waits until all have.  A worker whose counter happened *)
(* to start above zero waits for answers that nobody owes it.              *)
StartJobKept(w) ==  \* mutant: front without pop
  /\ worker[w] = Idle /\ w \notin looping
  /\ jobs # <<>>
  /\ worker' = [worker EXCEPT ![w] =
       [pc |-> "writing", kgc_id |-> Head(jobs).kgc_id,
        version |-> Head(jobs).version, subtasks |-> Stores]]
  /\ UNCHANGED <<env, offsets, m_queue, dispatcher, jobs, deletes, store, process, suspect>>
StartJob(w) == /\ worker[w] = Idle /\ w \notin looping
               /\ jobs # <<>>
               /\ worker' = [worker EXCEPT ![w] =
                    [pc |-> "writing", kgc_id |-> Head(jobs).kgc_id,
                     version |-> Head(jobs).version, subtasks |-> Stores]]
               /\ jobs' = Tail(jobs)
               /\ UNCHANGED <<env, offsets, m_queue, dispatcher, deletes, store, process, suspect>>

(* The callback of one put, the last of which sets the worker free.        *)
AnsweredBusy(w, s) ==  \* mutant: the worker waits on when no answer is due
  worker' = [worker EXCEPT ![w].subtasks = @ \ {s}]
Answered(w, s) ==
  worker' = [worker EXCEPT ![w] = IF @.subtasks = {s} THEN Idle
                                  ELSE [worker[w] EXCEPT !.subtasks = @ \ {s}]]

PutDone(w, s) == /\ worker[w] # Idle /\ s \in worker[w].subtasks
                 /\ store' = [store EXCEPT ![s][worker[w].kgc_id] = worker[w].version]
                 /\ Answered(w, s)
                 /\ UNCHANGED <<env, offsets, m_queue, dispatcher, jobs, deletes, process, suspect>>

(* A failed put is logged, counted as answered and not tried again.        *)
PutFailed(w, s) == /\ worker[w] # Idle /\ s \in worker[w].subtasks
                   /\ Answered(w, s)
                   /\ suspect' = suspect \cup {worker[w].kgc_id}
                   /\ UNCHANGED <<env, offsets, m_queue, dispatcher, jobs, deletes, store, process>>

DeleteDone(s, e) == /\ <<s, e>> \in deletes
                    /\ deletes' = deletes \ {<<s, e>>}
                    /\ store' = [store EXCEPT ![s][e] = NoDoc]
                    /\ UNCHANGED <<env, offsets, threads, process, suspect>>

DeleteFailed(s, e) == /\ <<s, e>> \in deletes
                      /\ deletes' = deletes \ {<<s, e>>}
                      /\ suspect' = suspect \cup {e}
                      /\ UNCHANGED <<env, offsets, threads, store, process>>

-----------------------------------------------------------------------------
(* The process dies, with everything it held in memory and every request   *)
(* that has not reached its server; RealtimeIndexer::init of the next one  *)
(* reads the saved offset and consumes from it.                            *)
Restart(offset) ==
  /\ position' = offset
  /\ offsetSets' = {}
  /\ m_queue' = <<>> /\ jobs' = <<>>
  /\ dispatcher' = [d \in Dispatchers |-> Idle]
  /\ worker' = [w \in Workers |-> Idle]
  /\ looping' \in SUBSET Workers
  /\ deletes' = {}
  /\ suspect' = suspect \cup {e \in Entities : InFlight(e)}
  /\ UNCHANGED <<env, savedOffset, store>>

CrashFromEnd == /\ crashes < MaxCrashes  \* mutant: consumption starts at the end
                /\ crashes' = crashes + 1
                /\ Restart(Len(log))
Crash == /\ crashes < MaxCrashes
         /\ crashes' = crashes + 1
         /\ Restart(savedOffset)

(* Nothing catches what consume_cb throws.                                 *)
Abort == /\ position < Len(log)
         /\ log[position + 1].operation = "malformed"
         /\ Restart(savedOffset)
         /\ UNCHANGED crashes

-----------------------------------------------------------------------------
Dispatch(d) == TakeEntity(d) \/ GetEntityTriads(d) \/ SeeRoom(d) \/ SubmitJob(d)
Put(w, s) == PutDone(w, s) \/ PutFailed(w, s)
Delete(s, e) == DeleteDone(s, e) \/ DeleteFailed(s, e)

Next == \/ \E e \in Entities, op \in Operations : Change(e, op)
        \/ Consume
        \/ \E o \in offsetSets : SaveOffset(o)
        \/ \E d \in Dispatchers : Dispatch(d)
        \/ \E w \in Workers : StartJob(w)
        \/ \E w \in Workers, s \in Stores : Put(w, s)
        \/ \E s \in Stores, e \in Entities : Delete(s, e)
        \/ Crash \/ Abort

Spec == Init /\ [][Next]_vars

(* Threads that can run do, and Workflow calls back for every request.     *)
Fairness == /\ WF_vars(Consume)
            /\ \A d \in Dispatchers : WF_vars(Dispatch(d))
            /\ \A w \in Workers : WF_vars(StartJob(w))
            /\ \A w \in Workers, s \in Stores : WF_vars(Put(w, s))
            /\ \A s \in Stores, e \in Entities : WF_vars(Delete(s, e))
FairSpec == Spec /\ Fairness

-----------------------------------------------------------------------------
Job == [kgc_id : Entities, version : Docs]
TypeOK ==
  /\ mongo \in [Entities -> Versions]
  /\ log \in Seq([operation : Operations, kgc_id : Entities])
  /\ position \in Nat /\ savedOffset \in Nat /\ offsetSets \subseteq Nat
  /\ m_queue \in Seq(Entities)
  /\ dispatcher \in [Dispatchers -> {Idle}
       \cup [pc : {"popped"}, kgc_id : Entities]
       \cup [pc : {"loaded", "admitted"}, kgc_id : Entities, version : Docs]]
  /\ jobs \in Seq(Job)
  /\ worker \in [Workers -> {Idle} \cup [pc : {"writing"}, kgc_id : Entities,
                                         version : Docs, subtasks : (SUBSET Stores) \ {{}}]]
  /\ deletes \subseteq Stores \X Entities
  /\ store \in [Stores -> [Entities -> Docs]]
  /\ crashes \in Nat /\ looping \subseteq Workers
  /\ suspect \subseteq Entities

(* Although room is tested before the mutex is taken, the two queues stay  *)
(* within a bound: one consumer overshoots the first by one message, and   *)
(* the dispatcher threads the second by one job each.                      *)
QueuesBounded == /\ Len(m_queue) <= DispatcherLimit + 1
                 /\ Len(jobs) <= m_capacity + Cardinality(Dispatchers)

Quiescent == /\ position = Len(log)
             /\ \A e \in Entities : ~InFlight(e)

(* The store holds what Mongo's triads of the entity make.                 *)
Current(s, e) == store[s][e] = Document(mongo[e])

(* When all messages have been worked off, every store holds the document  *)
(* of those of Mongo's triads that parse (or none, if Mongo has no triads  *)
(* of the entity), except of entities whose last message was handled while *)
(* an earlier one still was, lost a write, or was cut by a crash.  Of an   *)
(* entity none of whose triads parses the stores keep what they had.       *)
Converged == Quiescent => \A e \in Entities \ suspect :
                            mongo[e] \notin Garbled => \A s \in Stores : Current(s, e)

(* A store that holds what Mongo's triads make (a document, or none) is    *)
(* only taken back by a request still in flight if messages of the entity  *)
(* overlapped, or if the message that repairs it is yet to be consumed: a  *)
(* late put never revives a deleted document for good, nor does a deletion *)
(* replayed after a restart remove a live one for good.                    *)
CurrentStaysCurrent ==
  [][\A s \in Stores, e \in Entities :
       /\ UNCHANGED mongo
       /\ mongo[e] \notin Garbled
       /\ Current(s, e)
       /\ store'[s][e] # store[s][e]
       => \/ e \in suspect
          \/ \E i \in position + 1..Len(log) : log[i].kgc_id = e]_vars

(* No message is passed over: what is behind a malformed message is never  *)
(* consumed, however often the process is restarted, and a restart from    *)
(* the saved offset never starts behind a message that was not consumed.   *)
NothingSkipped == \A i \in DOMAIN log :
  log[i].operation = "malformed" => position < i /\ savedOffset < i

(* The indexer implements the pool that WorkerThreads is shown to be in    *)
(* FullIndexer, up to crashes, and a reader that resumes: whatever SETs of *)
(* the offset are lost or overtaken, the saved one is never ahead of what  *)
(* was consumed, and messages are consumed one after the other.            *)
AtWork == [w \in Workers |->
             IF worker[w] = Idle THEN [waits |-> {}]
             ELSE [job |-> [kgc_id |-> worker[w].kgc_id, version |-> worker[w].version],
                   waits |-> worker[w].subtasks]]
Pool == INSTANCE JobPool WITH Jobs <- Job, Void <- {}, queue <- jobs, at <- AtWork
Reader == INSTANCE LogReader WITH length <- Len(log), saved <- savedOffset
PoolAndReaderImplemented == Pool!LossySpec /\ Reader!ReaderSpec

(* Once Mongo and the process are left alone, and no message is malformed, *)
(* everything is worked off as long as one worker's counter started at     *)
(* zero: without any, jobs are queued that nobody ever takes.              *)
Drains == <>[](Quiescent \/ looping = Workers)
=============================================================================
