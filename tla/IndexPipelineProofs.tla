------------------------- MODULE IndexPipelineProofs -------------------------
(***************************************************************************)
(* Proofs about IndexPipeline for any entities, stores, threads, queue     *)
(* limits, lengths of the log and numbers of crashes.  The stores converge *)
(* because whatever is in flight about an entity whose messages are all    *)
(* consumed, and did not overlap, carries what Mongo holds, and covers     *)
(* every store that does not hold it yet.                                  *)
(***************************************************************************)
EXTENDS IndexPipeline, FiniteSetTheorems, SequenceTheorems, TLAPS

-----------------------------------------------------------------------------
(* A value put behind a queue.                                             *)
LEMMA AppendSet ==
  ASSUME NEW S, NEW s \in Seq(S), NEW x \in S
  PROVE  /\ Append(s, x) \in Seq(S) /\ Len(Append(s, x)) = Len(s) + 1
         /\ ToSet(Append(s, x)) = ToSet(s) \cup {x}
<1>1. /\ Append(s, x) \in Seq(S) /\ Len(Append(s, x)) = Len(s) + 1
      /\ \A i \in 1..Len(s) : Append(s, x)[i] = s[i]
      /\ Append(s, x)[Len(s) + 1] = x
  OBVIOUS
<1>2. /\ DOMAIN s = 1..Len(s) /\ DOMAIN Append(s, x) = 1..Len(s) + 1 /\ Len(s) \in Nat
  BY <1>1
<1>3. \A i \in 1..Len(s) + 1 : i \in 1..Len(s) \/ i = Len(s) + 1
  BY <1>2
<1>4. 1..Len(s) \subseteq 1..Len(s) + 1 /\ Len(s) + 1 \in 1..Len(s) + 1
  BY <1>2
<1> QED BY <1>1, <1>2, <1>3, <1>4 DEF ToSet

(* A queue is its first element and the rest.                              *)
LEMMA TailSet ==
  ASSUME NEW S, NEW s \in Seq(S), s # <<>>
  PROVE  /\ Tail(s) \in Seq(S) /\ Len(Tail(s)) = Len(s) - 1 /\ Head(s) \in S
         /\ ToSet(s) = {Head(s)} \cup ToSet(Tail(s))
<1>1. /\ Tail(s) \in Seq(S) /\ Len(Tail(s)) = Len(s) - 1 /\ Head(s) \in S
      /\ Len(s) \in Nat \ {0} /\ Head(s) = s[1]
      /\ \A i \in 1..Len(s) - 1 : Tail(s)[i] = s[i + 1]
  OBVIOUS
<1>2. DOMAIN s = 1..Len(s) /\ DOMAIN Tail(s) = 1..Len(s) - 1
  BY <1>1
<1>3. \A i \in 1..Len(s) : i = 1 \/ (i - 1 \in 1..Len(s) - 1 /\ s[i] = Tail(s)[i - 1])
  BY <1>1
<1>4. \A i \in 1..Len(s) - 1 : i + 1 \in 1..Len(s)
  BY <1>1
<1> DEFINE t == Tail(s)
<1> HIDE DEF t
<1>5. ASSUME NEW x \in ToSet(s) PROVE x \in {Head(s)} \cup ToSet(t)
  <2>1. PICK i \in 1..Len(s) : x = s[i]
    BY <1>2 DEF ToSet
  <2> QED BY <2>1, <1>1, <1>2, <1>3 DEF ToSet, t
<1>6. ASSUME NEW x \in ToSet(t) PROVE x \in ToSet(s)
  BY <1>1, <1>2, <1>4 DEF ToSet, t
<1>7. Head(s) \in ToSet(s)
  BY <1>1, <1>2 DEF ToSet
<1> QED BY <1>1, <1>5, <1>6, <1>7 DEF t

-----------------------------------------------------------------------------
(* The offset saved, those on their way and the next one, in this order;   *)
(* nothing malformed is behind the last.                                   *)
OffsetsOrdered == /\ savedOffset <= position /\ position <= Len(log)
                  /\ \A o \in offsetSets : o < position
                  /\ \A i \in 1..Len(log) : log[i].operation = "malformed" => position < i

(* Every dispatcher that has seen room adds at most one job.               *)
Admitted == {d \in Dispatchers : dispatcher[d].pc = "admitted"}
RoomKept == /\ Len(m_queue) <= DispatcherLimit + 1
            /\ Len(jobs) + Cardinality(Admitted) <= m_capacity + Cardinality(Dispatchers)

(* Mongo holds what the last message that changed an entity says.          *)
Writes(e) == {i \in 1..Len(log) :
                log[i].kgc_id = e /\ log[i].operation \in {"upsert", "delete"}}
MongoFollowsLog ==
  \A e \in Entities : \A i \in Writes(e) : (\A j \in Writes(e) : j <= i) =>
    mongo[e] = IF log[i].operation = "upsert" THEN i ELSE NoDoc

(* Work that will write a version of e, and to the store s.                *)
Held(e) == \/ e \in ToSet(m_queue)
           \/ \E d \in Dispatchers : dispatcher[d] # Idle /\ dispatcher[d].kgc_id = e
           \/ \E j \in ToSet(jobs) : j.kgc_id = e
Written(e, s) == \E w \in Workers : worker[w] # Idle /\ worker[w].kgc_id = e
                                    /\ s \in worker[w].subtasks

(* An entity is settled when its changes are consumed and did not overlap, *)
(* and some triads of the last one parse.                                  *)
Settled(e) == e \notin suspect /\ mongo[e] \notin Garbled /\ \A i \in Writes(e) : i <= position

(* Writes and deletions are not in flight together; what was read of Mongo *)
(* is what Mongo holds; and each store has it or will get it.              *)
Compatible(e) == /\ mongo[e] = NoDoc => ~Held(e) /\ \A s \in Stores : ~Written(e, s)
                 /\ mongo[e] # NoDoc => \A s \in Stores : <<s, e>> \notin deletes
Fresh(e) ==
  /\ \A d \in Dispatchers :
       dispatcher[d].pc \in {"loaded", "admitted"} /\ dispatcher[d].kgc_id = e
         => dispatcher[d].version = Document(mongo[e])
  /\ \A j \in ToSet(jobs) : j.kgc_id = e => j.version = Document(mongo[e])
  /\ \A w \in Workers : worker[w] # Idle /\ worker[w].kgc_id = e
                         => worker[w].version = Document(mongo[e])
Covered(e) == \A s \in Stores : \/ Current(s, e)
                                \/ Held(e) \/ Written(e, s) \/ <<s, e>> \in deletes
SettledRight ==
  \A e \in Entities : Settled(e) => Compatible(e) /\ Fresh(e) /\ Covered(e)

PipelineInv == TypeOK /\ OffsetsOrdered /\ RoomKept /\ MongoFollowsLog /\ SettledRight

-----------------------------------------------------------------------------
(* What a dispatcher and a worker are when they are not idle.              *)
Popped == [pc : {"popped"}, kgc_id : Entities]
Loaded == [pc : {"loaded", "admitted"}, kgc_id : Entities, version : Docs]
Writing == [pc : {"writing"}, kgc_id : Entities, version : Docs,
            subtasks : (SUBSET Stores) \ {{}}]

(* A dispatcher that has read a version, and a worker at work, have the    *)
(* fields of their records.                                                *)
LEMMA ThreadsAre ==
  ASSUME TypeOK
  PROVE  /\ DOMAIN dispatcher = Dispatchers /\ DOMAIN worker = Workers
         /\ \A d \in Dispatchers : dispatcher[d] \in {Idle} \cup Popped \cup Loaded
         /\ \A d \in Dispatchers : dispatcher[d].pc = "popped" => dispatcher[d] \in Popped
         /\ \A d \in Dispatchers :
              dispatcher[d].pc \in {"loaded", "admitted"} => dispatcher[d] \in Loaded
         /\ \A d \in Dispatchers :
              dispatcher[d] # Idle => dispatcher[d].pc # "idle" /\ dispatcher[d].kgc_id \in Entities
         /\ \A w \in Workers : worker[w] # Idle => worker[w] \in Writing
<1>1. /\ dispatcher \in [Dispatchers -> {Idle} \cup Popped \cup Loaded]
      /\ worker \in [Workers -> {Idle} \cup Writing]
  BY DEF TypeOK, Popped, Loaded, Writing
<1>2. Idle.pc = "idle"
  BY DEF Idle
<1>3. /\ \A x \in Popped : x.pc = "popped" /\ x.kgc_id \in Entities
      /\ \A x \in Loaded : x.pc \in {"loaded", "admitted"} /\ x.kgc_id \in Entities
  BY DEF Popped, Loaded
<1> QED BY <1>1, <1>2, <1>3

(* InFlight in the terms of the invariant.                                 *)
LEMMA InFlightIs ==
  ASSUME TypeOK, NEW e \in Entities
  PROVE  /\ ~InFlight(e) => /\ ~Held(e)
                            /\ \A s \in Stores : ~Written(e, s) /\ <<s, e>> \notin deletes
                            /\ \A w \in Workers : worker[w] # Idle => worker[w].kgc_id # e
<1>1. DOMAIN dispatcher = Dispatchers /\ DOMAIN worker = Workers
  BY ThreadsAre
<1> QED BY <1>1 DEF InFlight, Busy, Held, Written, ToSet

-----------------------------------------------------------------------------
(* No document is a document, versions are, and so is what is made of one. *)
LEMMA DocumentTyped ==
  /\ NoDoc \in Versions /\ NoDoc \in Docs /\ Versions \subseteq Docs
  /\ Document(NoDoc) = NoDoc /\ \A v \in Versions : Document(v) \in Docs
BY BoundsNatural, VersionsNamed DEF NoDoc, Versions, Docs, Document

(* The state has its types at first.                                       *)
LEMMA InitTyped == Init => TypeOK
<1> SUFFICES ASSUME Init PROVE TypeOK
  OBVIOUS
<1>1. NoDoc \in Versions /\ NoDoc \in Docs
  BY DocumentTyped
<1>2. mongo \in [Entities -> Versions] /\ store \in [Stores -> [Entities -> Docs]]
  BY <1>1 DEF Init
<1>3. /\ log \in Seq([operation : Operations, kgc_id : Entities])
      /\ m_queue \in Seq(Entities) /\ jobs \in Seq(Job)
  BY DEF Init
<1>4. position \in Nat /\ savedOffset \in Nat /\ offsetSets \subseteq Nat /\ crashes \in Nat
      /\ looping \subseteq Workers
  BY DEF Init
<1>5. \A d \in Dispatchers : dispatcher[d] \in {Idle}
  BY DEF Init
<1>6. \A w \in Workers : worker[w] \in {Idle}
  BY DEF Init
<1> QED BY <1>2, <1>3, <1>4 DEF Init, TypeOK

(* A consumed message names an entity, and its offset is a number.         *)
LEMMA ConsumeTyped == ASSUME TypeOK, Consume PROVE TypeOK'
<1> DEFINE e == log[position + 1].kgc_id
<1>1. log[position + 1] \in [operation : Operations, kgc_id : Entities] /\ e \in Entities
  <2> DEFINE M == [operation : Operations, kgc_id : Entities]
  <2>1. log \in Seq(M) /\ position + 1 \in 1..Len(log)
    BY DEF TypeOK, Consume
  <2>2. \A m \in M : m.kgc_id \in Entities
    OBVIOUS
  <2> HIDE DEF M
  <2>3. log[position + 1] \in M
    BY <2>1, ElementOfSeq
  <2>4. e \in Entities
    BY <2>2, <2>3
  <2> QED BY <2>3, <2>4 DEF M
<1> HIDE DEF e
<1>2. /\ position' \in Nat /\ offsetSets' \subseteq Nat
      /\ UNCHANGED <<mongo, log, savedOffset, dispatcher, jobs, worker, store, crashes, looping>>
  <2>1. position \in Nat /\ offsetSets \subseteq Nat
    BY DEF TypeOK
  <2>2. /\ position' = position + 1 /\ offsetSets' = offsetSets \cup {position}
        /\ UNCHANGED <<env, savedOffset, dispatcher, jobs, worker, store, process>>
    BY DEF Consume
  <2> QED BY <2>1, <2>2 DEF env, process
<1>3. /\ m_queue' \in Seq(Entities) /\ deletes' \subseteq Stores \X Entities
      /\ suspect' \subseteq Entities
  <2>1. CASE ConsumeUpsert(e)
    BY <1>1, <2>1 DEF ConsumeUpsert, Judge, TypeOK
  <2>2. CASE ConsumeDelete(e)
    BY <1>1, <2>2 DEF ConsumeDelete, Judge, TypeOK
  <2>3. CASE UNCHANGED <<m_queue, deletes, suspect>>
    BY <2>3 DEF TypeOK
  <2> QED BY <2>1, <2>2, <2>3 DEF Consume, e
<1> QED BY <1>2, <1>3 DEF TypeOK

(* A restart empties the memory of the process.                            *)
LEMMA RestartTyped ==
  ASSUME TypeOK, NEW offset \in Nat, Restart(offset), crashes' \in Nat
  PROVE  TypeOK'
<1>1. /\ m_queue' \in Seq(Entities) /\ jobs' \in Seq(Job)
      /\ dispatcher' = [d \in Dispatchers |-> Idle] /\ worker' = [w \in Workers |-> Idle]
      /\ deletes' = {} /\ offsetSets' = {} /\ position' \in Nat
      /\ suspect' \subseteq Entities /\ looping' \subseteq Workers
      /\ UNCHANGED <<mongo, log, savedOffset, store>>
  BY DEF Restart, env, TypeOK
<1> QED BY <1>1 DEF TypeOK

(* A dispatcher holds an entity, and then a version of it.                 *)
LEMMA DispatchTyped ==
  ASSUME TypeOK, NEW d \in Dispatchers, Dispatch(d)
  PROVE  TypeOK'
<1> DEFINE D == {Idle} \cup Popped \cup Loaded
<1>1. /\ UNCHANGED <<mongo, log, position, savedOffset, offsetSets, worker, deletes, store,
                      crashes, looping, suspect>>
  BY DEF Dispatch, TakeEntity, GetEntityTriads, SeeRoom, SubmitJob, env, offsets, process
<1>2. dispatcher \in [Dispatchers -> D]
  BY DEF TypeOK, Popped, Loaded
<1>3. \E x \in D : dispatcher' = [dispatcher EXCEPT ![d] = x]
  <2>1. CASE TakeEntity(d)
    <3>1. Head(m_queue) \in Entities
      BY <2>1, TailSet DEF TakeEntity, TypeOK
    <3> QED BY <2>1, <3>1 DEF TakeEntity, Popped
  <2>2. CASE GetEntityTriads(d)
    <3> DEFINE x == dispatcher[d].kgc_id
    <3>1. x \in Entities
      BY <2>2, ThreadsAre DEF GetEntityTriads, Popped
    <3>2. Document(mongo[x]) \in Docs
      BY <3>1, DocumentTyped DEF TypeOK
    <3> QED BY <2>2, <3>1, <3>2 DEF GetEntityTriads, Loaded
  <2>3. CASE SeeRoom(d)
    <3>1. dispatcher[d] \in Loaded
      BY <2>3, ThreadsAre DEF SeeRoom
    <3>2. [dispatcher[d] EXCEPT !.pc = "admitted"] \in Loaded
      BY <3>1 DEF Loaded
    <3> QED BY <2>3, <3>2 DEF SeeRoom
  <2>4. CASE SubmitJob(d)
    BY <2>4 DEF SubmitJob
  <2> QED BY <2>1, <2>2, <2>3, <2>4 DEF Dispatch
<1>4. m_queue' \in Seq(Entities)
  <2>1. CASE TakeEntity(d)
    BY <2>1, TailSet DEF TakeEntity, TypeOK
  <2>2. CASE ~TakeEntity(d)
    BY <2>2 DEF Dispatch, GetEntityTriads, SeeRoom, SubmitJob, TypeOK
  <2> QED BY <2>1, <2>2
<1>5. jobs' \in Seq(Job)
  <2>1. CASE SubmitJob(d)
    <3>1. dispatcher[d] \in Loaded
      BY <2>1, ThreadsAre DEF SubmitJob
    <3>2. [kgc_id |-> dispatcher[d].kgc_id, version |-> dispatcher[d].version] \in Job
      BY <3>1 DEF Loaded, Job
    <3> QED BY <2>1, <3>2, AppendSet DEF SubmitJob, TypeOK
  <2>2. CASE ~SubmitJob(d)
    BY <2>2 DEF Dispatch, TakeEntity, GetEntityTriads, SeeRoom, TypeOK
  <2> QED BY <2>1, <2>2
<1>6. dispatcher' \in [Dispatchers -> D]
  BY <1>2, <1>3
<1> HIDE DEF D
<1> QED BY <1>1, <1>4, <1>5, <1>6 DEF TypeOK, D, Popped, Loaded

(* A store after a write of one document.                                  *)
LEMMA StoreTyped ==
  ASSUME TypeOK, NEW s \in Stores, NEW e \in Entities, NEW v \in Docs,
         store' = [store EXCEPT ![s][e] = v]
  PROVE  /\ store' \in [Stores -> [Entities -> Docs]]
         /\ store'[s][e] = v
         /\ \A q \in Stores, f \in Entities : ~(q = s /\ f = e) => store'[q][f] = store[q][f]
<1>1. store \in [Stores -> [Entities -> Docs]] /\ store[s] \in [Entities -> Docs]
  BY DEF TypeOK
<1> DEFINE row == [store[s] EXCEPT ![e] = v]
<1>2. /\ row \in [Entities -> Docs] /\ row[e] = v
      /\ \A f \in Entities : f # e => row[f] = store[s][f]
  BY <1>1
<1>3. store' = [store EXCEPT ![s] = row]
  OBVIOUS
<1> HIDE DEF row
<1>4. /\ store' \in [Stores -> [Entities -> Docs]] /\ store'[s] = row
      /\ \A q \in Stores : q # s => store'[q] = store[q]
  BY <1>1, <1>2, <1>3
<1> QED BY <1>2, <1>4

(* The callback of one put leaves a worker idle or with fewer stores.      *)
LEMMA AnsweredTyped ==
  ASSUME TypeOK, NEW w \in Workers, worker[w] # Idle, NEW s \in worker[w].subtasks, Answered(w, s)
  PROVE  /\ worker' \in [Workers -> {Idle} \cup Writing]
         /\ \A u \in Workers : u # w => worker'[u] = worker[u]
         /\ worker[w].subtasks = {s} => worker'[w] = Idle
         /\ worker[w].subtasks # {s} =>
              /\ worker'[w] # Idle /\ worker'[w].kgc_id = worker[w].kgc_id
              /\ worker'[w].version = worker[w].version
              /\ worker'[w].subtasks = worker[w].subtasks \ {s}
<1>1. worker \in [Workers -> {Idle} \cup Writing] /\ worker[w] \in Writing
  BY ThreadsAre DEF TypeOK, Writing
<1> DEFINE r == [worker[w] EXCEPT !.subtasks = @ \ {s}]
<1>2. worker[w].subtasks # {s} =>
        /\ r \in Writing /\ r.pc = "writing"
        /\ r.kgc_id = worker[w].kgc_id /\ r.version = worker[w].version
        /\ r.subtasks = worker[w].subtasks \ {s}
  BY <1>1 DEF Writing
<1>3. \A x \in Writing : x # Idle
  <2>1. Idle.pc = "idle"
    BY DEF Idle
  <2> QED BY <2>1 DEF Writing
<1>4. worker' = [worker EXCEPT ![w] = IF worker[w].subtasks = {s} THEN Idle ELSE r]
  BY DEF Answered
<1> HIDE DEF r
<1> QED BY <1>1, <1>2, <1>3, <1>4

(* A put that is done has written one document of one store.               *)
LEMMA PutDoneIs ==
  ASSUME TypeOK, NEW w \in Workers, NEW s \in Stores, PutDone(w, s)
  PROVE  /\ store' \in [Stores -> [Entities -> Docs]]
         /\ store'[s][worker[w].kgc_id] = worker[w].version
         /\ \A q \in Stores, f \in Entities :
              ~(q = s /\ f = worker[w].kgc_id) => store'[q][f] = store[q][f]
<1> DEFINE c == worker[w].kgc_id
           v == worker[w].version
<1>1. c \in Entities /\ v \in Docs
  BY ThreadsAre DEF PutDone, Writing
<1>2. store' = [store EXCEPT ![s][c] = v]
  BY DEF PutDone
<1> HIDE DEF c, v
<1>3. /\ store' \in [Stores -> [Entities -> Docs]]
      /\ store'[s][c] = v
      /\ \A q \in Stores, f \in Entities : ~(q = s /\ f = c) => store'[q][f] = store[q][f]
  BY <1>1, <1>2, StoreTyped, ZenonT(40)
<1> QED BY <1>3 DEF c, v

(* So has a deletion, which leaves none.                                   *)
LEMMA DeleteDoneIs ==
  ASSUME TypeOK, NEW s \in Stores, NEW c \in Entities, DeleteDone(s, c)
  PROVE  /\ store' \in [Stores -> [Entities -> Docs]]
         /\ store'[s][c] = NoDoc
         /\ \A q \in Stores, f \in Entities : ~(q = s /\ f = c) => store'[q][f] = store[q][f]
<1>1. NoDoc \in Docs
  BY DocumentTyped
<1>2. store' = [store EXCEPT ![s][c] = NoDoc]
  BY DEF DeleteDone
<1> QED BY <1>1, <1>2, StoreTyped, ZenonT(40)

(* A worker holds a job, and the stores that have not answered.            *)
LEMMA WorkTyped ==
  ASSUME TypeOK, NEW w \in Workers,
         StartJob(w) \/ \E s \in Stores : Put(w, s)
  PROVE  TypeOK'
<1>1. UNCHANGED <<mongo, log, position, savedOffset, offsetSets, m_queue, dispatcher, deletes,
                   crashes, looping>>
  BY DEF StartJob, Put, PutDone, PutFailed, env, offsets, process
<1>2. CASE StartJob(w)
  <2> DEFINE r == [pc |-> "writing", kgc_id |-> Head(jobs).kgc_id,
                   version |-> Head(jobs).version, subtasks |-> Stores]
  <2>1. Head(jobs) \in Job /\ jobs' \in Seq(Job)
    BY <1>2, TailSet DEF StartJob, TypeOK
  <2>2. r \in Writing
    BY <2>1, StoresExist DEF Job, Writing
  <2>3. worker' = [worker EXCEPT ![w] = r] /\ UNCHANGED <<store, suspect>>
    BY <1>2 DEF StartJob
  <2> HIDE DEF r
  <2>4. worker' \in [Workers -> {Idle} \cup Writing]
    BY <2>2, <2>3 DEF TypeOK, Writing
  <2> QED BY <1>1, <2>1, <2>3, <2>4 DEF TypeOK, Writing
<1>3. ASSUME NEW s \in Stores, Put(w, s) PROVE TypeOK'
  <2>1. worker[w] # Idle /\ s \in worker[w].subtasks /\ Answered(w, s) /\ UNCHANGED jobs
    BY <1>3 DEF Put, PutDone, PutFailed
  <2>2. worker' \in [Workers -> {Idle} \cup Writing]
    BY <2>1, AnsweredTyped
  <2>3. worker[w].kgc_id \in Entities /\ worker[w].version \in Docs
    BY <2>1, ThreadsAre DEF Writing
  <2>4. store' \in [Stores -> [Entities -> Docs]]
    <3>1. CASE PutDone(w, s)
      BY <3>1, PutDoneIs
    <3>2. CASE PutFailed(w, s)
      BY <3>2 DEF PutFailed, TypeOK
    <3> QED BY <1>3, <3>1, <3>2 DEF Put
  <2>5. suspect' \subseteq Entities
    BY <1>3, <2>3 DEF Put, PutDone, PutFailed, TypeOK
  <2> QED BY <1>1, <2>1, <2>2, <2>4, <2>5 DEF TypeOK, Writing
<1> QED BY <1>2, <1>3

(* Deletions name a store and an entity.                                   *)
LEMMA DeleteTyped ==
  ASSUME TypeOK, NEW s \in Stores, NEW e \in Entities, Delete(s, e)
  PROVE  TypeOK'
<1>1. UNCHANGED <<mongo, log, position, savedOffset, offsetSets, m_queue, dispatcher, jobs,
                   worker, crashes, looping>>
  BY DEF Delete, DeleteDone, DeleteFailed, env, offsets, threads, process
<1>2. deletes' \subseteq Stores \X Entities /\ suspect' \subseteq Entities
  BY DEF Delete, DeleteDone, DeleteFailed, TypeOK
<1>3. store' \in [Stores -> [Entities -> Docs]]
  <2>1. CASE DeleteDone(s, e)
    BY <2>1, DeleteDoneIs
  <2>2. CASE DeleteFailed(s, e)
    BY <2>2 DEF DeleteFailed, TypeOK
  <2> QED BY <2>1, <2>2 DEF Delete
<1> QED BY <1>1, <1>2, <1>3 DEF TypeOK

(* The log grows by a message, whose place is a version in Mongo.          *)
LEMMA ChangeTyped ==
  ASSUME TypeOK, NEW e \in Entities, NEW op \in Operations, Change(e, op)
  PROVE  TypeOK'
<1> DEFINE m == [operation |-> op, kgc_id |-> e]
           M == [operation : Operations, kgc_id : Entities]
<1>1. m \in M /\ log \in Seq(M)
  BY DEF TypeOK
<1>2. log' = Append(log, m)
  BY DEF Change
<1>3. Len(log) + 1 \in Versions /\ NoDoc \in Versions
  BY BoundsNatural DEF Change, TypeOK, NoDoc, Versions
<1>4. mongo' \in [Entities -> Versions]
  BY <1>3 DEF Change, TypeOK
<1> HIDE DEF m, M
<1>5. log' \in Seq(M)
  BY <1>1, <1>2, AppendSet
<1> QED BY <1>4, <1>5 DEF Change, offsets, threads, process, TypeOK, M

(* Every step keeps the types.                                             *)
LEMMA TypesKept == TypeOK /\ [Next]_vars => TypeOK'
<1> SUFFICES ASSUME TypeOK, [Next]_vars PROVE TypeOK'
  OBVIOUS
<1>1. ASSUME NEW o \in offsetSets, SaveOffset(o) PROVE TypeOK'
  BY <1>1 DEF SaveOffset, env, threads, process, TypeOK
<1>2. CASE Crash
  <2>1. savedOffset \in Nat /\ crashes' \in Nat
    BY <1>2 DEF Crash, TypeOK
  <2> QED BY <1>2, <2>1, RestartTyped DEF Crash
<1>3. CASE Abort
  <2>1. savedOffset \in Nat /\ crashes' \in Nat
    BY <1>3 DEF Abort, TypeOK
  <2> QED BY <1>3, <2>1, RestartTyped DEF Abort
<1>4. CASE UNCHANGED vars
  BY <1>4 DEF vars, env, offsets, threads, process, TypeOK
<1> QED BY <1>1, <1>2, <1>3, <1>4, ChangeTyped, ConsumeTyped, DispatchTyped, WorkTyped,
           DeleteTyped DEF Next

-----------------------------------------------------------------------------
(* A restart begins at the saved offset, which is not ahead of the next    *)
(* message, and no offset is ahead of a malformed one.                     *)
LEMMA OffsetsKept == TypeOK /\ OffsetsOrdered /\ [Next]_vars => OffsetsOrdered'
<1> SUFFICES ASSUME TypeOK, OffsetsOrdered, [Next]_vars PROVE OffsetsOrdered'
  OBVIOUS
<1>1. position \in Nat /\ savedOffset \in Nat /\ offsetSets \subseteq Nat /\ Len(log) \in Nat
  BY DEF TypeOK
<1>2. ASSUME NEW e \in Entities, NEW op \in Operations, Change(e, op) PROVE OffsetsOrdered'
  <2>1. log \in Seq([operation : Operations, kgc_id : Entities])
    BY DEF TypeOK
  <2>2. /\ Len(log') = Len(log) + 1
        /\ \A i \in 1..Len(log) : log'[i] = log[i]
    BY <1>2, <2>1 DEF Change
  <2>3. \A i \in 1..Len(log') : i \in 1..Len(log) \/ i = Len(log) + 1
    BY <1>1, <2>2
  <2> QED BY <1>1, <1>2, <2>2, <2>3 DEF OffsetsOrdered, Change, offsets
<1>3. CASE Consume
  <2>1. /\ position' = position + 1 /\ position < Len(log)
        /\ offsetSets' = offsetSets \cup {position}
        /\ UNCHANGED <<log, savedOffset>>
    BY <1>3 DEF Consume, env
  <2>2. log[position + 1].operation # "malformed"
    BY <1>3 DEF Consume
  <2> QED BY <1>1, <2>1, <2>2 DEF OffsetsOrdered
<1>4. ASSUME NEW o \in offsetSets, SaveOffset(o) PROVE OffsetsOrdered'
  BY <1>1, <1>4 DEF OffsetsOrdered, SaveOffset, env
<1>5. ASSUME Restart(savedOffset) PROVE OffsetsOrdered'
  BY <1>1, <1>5 DEF OffsetsOrdered, Restart, env
<1>6. ASSUME UNCHANGED <<log, offsets>> PROVE OffsetsOrdered'
  BY <1>6 DEF OffsetsOrdered, offsets
<1>7. ASSUME NEW d \in Dispatchers, Dispatch(d) PROVE UNCHANGED <<log, offsets>>
  BY <1>7 DEF Dispatch, TakeEntity, GetEntityTriads, SeeRoom, SubmitJob, env
<1>8. ASSUME NEW w \in Workers, StartJob(w) \/ \E s \in Stores : Put(w, s)
      PROVE  UNCHANGED <<log, offsets>>
  BY <1>8 DEF StartJob, Put, PutDone, PutFailed, env
<1>9. ASSUME NEW s \in Stores, NEW e \in Entities, Delete(s, e) PROVE UNCHANGED <<log, offsets>>
  BY <1>9 DEF Delete, DeleteDone, DeleteFailed, env
<1>10. CASE UNCHANGED vars
  BY <1>6, <1>10 DEF vars, env
<1> QED BY <1>2, <1>3, <1>4, <1>5, <1>6, <1>7, <1>8, <1>9, <1>10 DEF Next, Crash, Abort

(* Room is seen before the mutex is taken, once per dispatcher.            *)
LEMMA RoomStays == TypeOK /\ RoomKept /\ [Next]_vars => RoomKept'
<1> SUFFICES ASSUME TypeOK, RoomKept, [Next]_vars PROVE RoomKept'
  OBVIOUS
<1>1. /\ m_queue \in Seq(Entities) /\ jobs \in Seq(Job)
      /\ Len(m_queue) \in Nat /\ Len(jobs) \in Nat
      /\ DispatcherLimit \in Nat /\ m_capacity \in Nat
  BY LimitsNatural DEF TypeOK
<1>2. /\ IsFiniteSet(Admitted) /\ Cardinality(Admitted) \in Nat
      /\ Cardinality(Dispatchers) \in Nat
  <2>1. IsFiniteSet(Dispatchers) /\ Admitted \subseteq Dispatchers
    BY ThreadsFinite DEF Admitted
  <2> QED BY <2>1, FS_Subset, FS_CardinalityType
<1>3. ASSUME UNCHANGED <<m_queue, jobs, dispatcher>> PROVE RoomKept'
  BY <1>3 DEF RoomKept, Admitted
<1>4. ASSUME NEW e \in Entities, NEW op \in Operations, Change(e, op) PROVE RoomKept'
  BY <1>3, <1>4 DEF Change, threads
<1>5. CASE Consume
  <2>1. /\ UNCHANGED <<jobs, dispatcher>> 
        /\ \/ UNCHANGED m_queue
           \/ \E e \in Entities : Len(m_queue) <= DispatcherLimit /\ m_queue' = Append(m_queue, e)
    <3>1. log[position + 1].kgc_id \in Entities
      <4> DEFINE M == [operation : Operations, kgc_id : Entities]
      <4>1. log \in Seq(M) /\ position + 1 \in 1..Len(log)
        BY <1>5 DEF TypeOK, Consume
      <4>2. \A m \in M : m.kgc_id \in Entities
        OBVIOUS
      <4> HIDE DEF M
      <4> QED BY <4>1, <4>2, ElementOfSeq
    <3> QED BY <1>5, <3>1 DEF Consume, ConsumeUpsert, ConsumeDelete
  <2>2. Len(m_queue') <= DispatcherLimit + 1
    BY <1>1, <2>1, AppendSet DEF RoomKept
  <2> QED BY <2>1, <2>2 DEF RoomKept, Admitted
<1>6. ASSUME NEW d \in Dispatchers, Dispatch(d) PROVE RoomKept'
  <2>1. dispatcher \in [Dispatchers -> {Idle} \cup Popped \cup Loaded] /\ Idle.pc = "idle"
    BY DEF TypeOK, Popped, Loaded, Idle
  <2>2. CASE TakeEntity(d)
    <3>1. /\ dispatcher'[d].pc = "popped"
          /\ \A c \in Dispatchers : c # d => dispatcher'[c] = dispatcher[c]
      BY <2>1, <2>2 DEF TakeEntity
    <3>2. Admitted' = Admitted
      BY <2>1, <2>2, <3>1 DEF TakeEntity, Admitted
    <3>3. Len(m_queue') = Len(m_queue) - 1
      BY <1>1, <2>2, TailSet DEF TakeEntity
    <3> QED BY <1>1, <2>2, <3>2, <3>3 DEF TakeEntity, RoomKept
  <2>3. CASE GetEntityTriads(d)
    <3>1. /\ dispatcher'[d].pc # "admitted"
          /\ \A c \in Dispatchers : c # d => dispatcher'[c] = dispatcher[c]
      BY <2>1, <2>3 DEF GetEntityTriads
    <3>2. Admitted' = Admitted
      BY <2>3, <3>1 DEF GetEntityTriads, Admitted
    <3> QED BY <2>3, <3>2 DEF GetEntityTriads, RoomKept
  <2>4. CASE SeeRoom(d)
    <3>1. Admitted' \subseteq Dispatchers
      BY DEF Admitted
    <3>2. Cardinality(Admitted') <= Cardinality(Dispatchers) /\ Cardinality(Admitted') \in Nat
      BY <3>1, ThreadsFinite, FS_Subset, FS_CardinalityType
    <3>3. Len(jobs) <= m_capacity
      BY <1>1, <2>4 DEF SeeRoom, IsFull
    <3> QED BY <1>1, <1>2, <2>4, <3>2, <3>3 DEF SeeRoom, RoomKept
  <2>5. CASE SubmitJob(d)
    <3>1. dispatcher' = [dispatcher EXCEPT ![d] = Idle]
      BY <2>5 DEF SubmitJob
    <3>2. d \in Admitted /\ Admitted' = Admitted \ {d}
      BY <2>1, <2>5, <3>1 DEF SubmitJob, Admitted
    <3>3. Cardinality(Admitted') = Cardinality(Admitted) - 1
      BY <1>2, <3>2, FS_RemoveElement
    <3>4. Len(jobs') = Len(jobs) + 1
      BY <1>1, <2>5 DEF SubmitJob
    <3> QED BY <1>1, <1>2, <2>5, <3>3, <3>4 DEF SubmitJob, RoomKept
  <2> QED BY <1>6, <2>2, <2>3, <2>4, <2>5 DEF Dispatch
<1>7. ASSUME NEW w \in Workers, StartJob(w) PROVE RoomKept'
  <2>1. Len(jobs') = Len(jobs) - 1
    BY <1>1, <1>7, TailSet DEF StartJob
  <2> QED BY <1>1, <1>2, <1>7, <2>1 DEF StartJob, RoomKept, Admitted
<1>8. ASSUME NEW w \in Workers, NEW s \in Stores, Put(w, s) PROVE RoomKept'
  BY <1>3, <1>8 DEF Put, PutDone, PutFailed
<1>9. ASSUME NEW s \in Stores, NEW e \in Entities, Delete(s, e) PROVE RoomKept'
  BY <1>3, <1>9 DEF Delete, DeleteDone, DeleteFailed, threads
<1>10. ASSUME NEW o \in offsetSets, SaveOffset(o) PROVE RoomKept'
  BY <1>3, <1>10 DEF SaveOffset, threads
<1>11. ASSUME Restart(savedOffset) PROVE RoomKept'
  <2>1. Admitted' = {} /\ Len(m_queue') = 0 /\ Len(jobs') = 0
    BY <1>11 DEF Restart, Admitted, Idle
  <2> QED BY <1>1, <1>2, <2>1, FS_EmptySet DEF RoomKept
<1>12. CASE UNCHANGED vars
  BY <1>3, <1>12 DEF vars, threads
<1> QED BY <1>4, <1>5, <1>6, <1>7, <1>8, <1>9, <1>10, <1>11, <1>12 DEF Next, Crash, Abort

-----------------------------------------------------------------------------
(* A message appended to the log is what makes the version in Mongo.       *)
LEMMA MongoKept == TypeOK /\ MongoFollowsLog /\ [Next]_vars => MongoFollowsLog'
<1> SUFFICES ASSUME TypeOK, MongoFollowsLog, [Next]_vars PROVE MongoFollowsLog'
  OBVIOUS
<1>1. ASSUME NEW e \in Entities, NEW op \in Operations, Change(e, op) PROVE MongoFollowsLog'
  <2> DEFINE m == [operation |-> op, kgc_id |-> e]
             n == Len(log) + 1
  <2>1. m.operation = op /\ m.kgc_id = e
    OBVIOUS
  <2>2. /\ Len(log) \in Nat /\ Len(log') = n
        /\ \A i \in 1..Len(log) : log'[i] = log[i]
        /\ log'[n] = m
    BY <1>1 DEF Change, TypeOK
  <2>3. mongo \in [Entities -> Versions]
    BY DEF TypeOK
  <2>4. /\ \A x \in Entities : x # e => mongo'[x] = mongo[x]
        /\ op = "upsert" => mongo'[e] = n
        /\ op = "delete" => mongo'[e] = NoDoc
        /\ op \notin {"upsert", "delete"} => mongo'[e] = mongo[e]
    BY <1>1, <2>3 DEF Change
  <2> HIDE DEF m
  <2>5. \A i \in 1..Len(log') : i \in 1..Len(log) \/ i = n
    BY <2>2
  <2>6. \A i \in 1..Len(log) : i \in 1..Len(log') /\ i < n
    BY <2>2
  <2>7. n \in 1..Len(log')
    BY <2>2
  <2>8. ASSUME NEW x \in Entities
        PROVE  IF x = e /\ op \in {"upsert", "delete"}
               THEN n \in Writes(x)' /\ \A i \in Writes(x)' : i # n => i < n
               ELSE Writes(x)' = Writes(x)
    BY <2>1, <2>2, <2>5, <2>6, <2>7 DEF Writes
  <2>9. ASSUME NEW x \in Entities, NEW i \in Writes(x)', \A j \in Writes(x)' : j <= i
        PROVE  mongo'[x] = IF log'[i].operation = "upsert" THEN i ELSE NoDoc
    <3>1. CASE x = e /\ op \in {"upsert", "delete"}
      <4>1. n <= i /\ (i # n => i < n) /\ i \in Nat
        BY <2>8, <2>9, <3>1 DEF Writes
      <4>2. i = n
        BY <2>2, <4>1
      <4> QED BY <2>1, <2>2, <2>4, <3>1, <4>2
    <3>2. CASE ~(x = e /\ op \in {"upsert", "delete"})
      <4>1. Writes(x)' = Writes(x) /\ mongo'[x] = mongo[x]
        BY <2>4, <2>8, <3>2
      <4>2. i \in 1..Len(log) /\ log'[i] = log[i]
        BY <2>2, <2>9, <4>1 DEF Writes
      <4> QED BY <2>9, <4>1, <4>2 DEF MongoFollowsLog
    <3> QED BY <3>1, <3>2
  <2> QED BY <2>9 DEF MongoFollowsLog
<1>2. ASSUME UNCHANGED env PROVE MongoFollowsLog'
  BY <1>2 DEF MongoFollowsLog, Writes, env
<1>3. \/ \E e \in Entities, op \in Operations : Change(e, op)
      \/ UNCHANGED env
  <2>1. Consume \/ Crash \/ Abort \/ UNCHANGED vars => UNCHANGED env
    BY DEF Consume, Crash, Abort, Restart, vars, env
  <2>2. ASSUME NEW o \in offsetSets, SaveOffset(o) PROVE UNCHANGED env
    BY <2>2 DEF SaveOffset
  <2>3. ASSUME NEW d \in Dispatchers, Dispatch(d) PROVE UNCHANGED env
    BY <2>3 DEF Dispatch, TakeEntity, GetEntityTriads, SeeRoom, SubmitJob
  <2>4. ASSUME NEW w \in Workers, StartJob(w) \/ \E s \in Stores : Put(w, s) PROVE UNCHANGED env
    BY <2>4 DEF StartJob, Put, PutDone, PutFailed
  <2>5. ASSUME NEW s \in Stores, NEW e \in Entities, Delete(s, e) PROVE UNCHANGED env
    BY <2>5 DEF Delete, DeleteDone, DeleteFailed
  <2> QED BY <2>1, <2>2, <2>3, <2>4, <2>5 DEF Next
<1> QED BY <1>1, <1>2, <1>3

-----------------------------------------------------------------------------
(* What SettledRight says of one entity, with its parts.                   *)
Right(e) == Compatible(e) /\ Fresh(e) /\ Covered(e)

(* An entity that is settled after a step that consumes nothing and clears *)
(* no suspicion was settled before it, and so right.                       *)
LEMMA SettledBefore ==
  ASSUME SettledRight, NEW e \in Entities, Settled(e)',
         UNCHANGED <<mongo, log, position>>, e \in suspect => e \in suspect'
  PROVE  Settled(e) /\ Right(e)
<1>1. Settled(e)
  BY DEF Settled, Writes
<1> QED BY <1>1 DEF SettledRight, Right

(* A change of a settled entity unsettles it until its message is consumed.*)
LEMMA ChangeSettles ==
  ASSUME PipelineInv, NEW c \in Entities, NEW op \in Operations, Change(c, op),
         NEW e \in Entities, Settled(e)'
  PROVE  Right(e)'
<1> DEFINE m == [operation |-> op, kgc_id |-> c]
           n == Len(log) + 1
<1>1. m.operation = op /\ m.kgc_id = c
  OBVIOUS
<1>2. /\ Len(log) \in Nat /\ Len(log') = n
      /\ \A i \in 1..Len(log) : log'[i] = log[i]
      /\ log'[n] = m
  BY DEF Change, TypeOK, PipelineInv
<1>3. position \in Nat /\ position <= Len(log)
  BY DEF PipelineInv, TypeOK, OffsetsOrdered
<1>4. UNCHANGED <<position, m_queue, dispatcher, jobs, worker, deletes, store, suspect>>
  BY DEF Change, offsets, threads
<1> HIDE DEF m
<1>5. n \in 1..Len(log') /\ \A i \in 1..Len(log) : i \in 1..Len(log')
  BY <1>2
<1>6. mongo'[e] = mongo[e]
  <2>1. CASE c = e /\ op \in {"upsert", "delete"}
    <3>1. n \in Writes(e)'
      BY <1>1, <1>2, <1>5, <2>1 DEF Writes
    <3>2. n <= position
      BY <1>4, <3>1 DEF Settled
    <3> QED BY <1>2, <1>3, <3>2
  <2>2. CASE ~(c = e /\ op \in {"upsert", "delete"})
    BY <2>2 DEF Change, PipelineInv, TypeOK
  <2> QED BY <2>1, <2>2
<1>7. Settled(e)
  BY <1>2, <1>4, <1>5, <1>6 DEF Settled, Writes
<1>8. Right(e)
  BY <1>7 DEF PipelineInv, SettledRight, Right
<1> QED BY <1>4, <1>6, <1>8 DEF Right, Compatible, Fresh, Document, Covered, Current, Held, Written

(* Reading an entity takes it from the queue, and leaves it held.          *)
LEMMA TakeSettles ==
  ASSUME PipelineInv, NEW d \in Dispatchers, TakeEntity(d), NEW e \in Entities, Settled(e)'
  PROVE  Right(e)'
<1>1. UNCHANGED <<mongo, log, position, jobs, worker, deletes, store, suspect>>
  BY DEF TakeEntity, env, offsets
<1>2. Right(e)
  BY <1>1, SettledBefore DEF PipelineInv
<1>3. /\ dispatcher[d] = Idle
      /\ dispatcher' = [dispatcher EXCEPT ![d] = [pc |-> "popped", kgc_id |-> Head(m_queue)]]
      /\ DOMAIN dispatcher = Dispatchers
  BY DEF TakeEntity, PipelineInv, TypeOK
<1>4. /\ dispatcher'[d].pc = "popped" /\ dispatcher'[d].kgc_id = Head(m_queue)
      /\ dispatcher'[d] # Idle
      /\ \A c \in Dispatchers : c # d => dispatcher'[c] = dispatcher[c]
  BY <1>3 DEF Idle
<1>5. ToSet(m_queue) = {Head(m_queue)} \cup ToSet(m_queue')
  BY TailSet DEF TakeEntity, PipelineInv, TypeOK
<1>6. Held(e)' <=> Held(e)
  BY <1>1, <1>3, <1>4, <1>5 DEF Held
<1>7. \A s \in Stores : Written(e, s)' <=> Written(e, s)
  BY <1>1 DEF Written
<1>8. Fresh(e)'
  BY <1>1, <1>2, <1>4 DEF Fresh, Document, Right
<1> QED BY <1>1, <1>2, <1>6, <1>7, <1>8 DEF Right, Compatible, Covered, Current

(* A settled entity without a document in Mongo is not held, and triads of *)
(* a settled one parse, so that dispatchers drop others only.              *)
LEMMA TriadsSettle ==
  ASSUME PipelineInv, NEW d \in Dispatchers, GetEntityTriads(d), NEW e \in Entities, Settled(e)'
  PROVE  Right(e)'
<1>1. UNCHANGED <<mongo, log, position, m_queue, jobs, worker, deletes, store, suspect>>
  BY DEF GetEntityTriads, env, offsets
<1>2. Right(e)
  BY <1>1, SettledBefore DEF PipelineInv
<1> DEFINE x == dispatcher[d].kgc_id
           r == [pc |-> "loaded", kgc_id |-> x, version |-> Document(mongo[x])]
<1>3. /\ dispatcher[d].pc = "popped" /\ dispatcher[d] # Idle
      /\ dispatcher' = [dispatcher EXCEPT ![d] = IF mongo[x] \in {NoDoc} \cup Garbled
                                                  THEN Idle ELSE r]
      /\ DOMAIN dispatcher = Dispatchers
  BY DEF GetEntityTriads, PipelineInv, TypeOK, Idle
<1>4. r # Idle /\ r.pc = "loaded" /\ r.kgc_id = x /\ r.version = Document(mongo[x]) /\ Idle.pc = "idle"
  <2>1. r.pc = "loaded" /\ Idle.pc = "idle"
    BY DEF Idle
  <2> QED BY <2>1
<1> HIDE DEF r
<1>5. \A c \in Dispatchers : c # d => dispatcher'[c] = dispatcher[c]
  BY <1>3
<1>6. x = e => mongo[e] # NoDoc /\ dispatcher'[d] = r
  BY <1>1, <1>2, <1>3 DEF Right, Compatible, Held, Settled
<1>7. dispatcher'[d] \in {Idle, r}
  BY <1>3
<1> HIDE DEF x
<1>8. x = dispatcher[d].kgc_id
  BY DEF x
<1>9. Held(e)' <=> Held(e)
  <2>1. CASE x = e
    BY <1>1, <1>3, <1>4, <1>5, <1>6, <1>8, <2>1 DEF Held
  <2>2. CASE x # e
    BY <1>1, <1>3, <1>4, <1>5, <1>7, <1>8, <2>2 DEF Held
  <2> QED BY <2>1, <2>2
<1>10. \A s \in Stores : Written(e, s)' <=> Written(e, s)
  BY <1>1 DEF Written
<1>11. Fresh(e)'
  BY <1>1, <1>2, <1>4, <1>5, <1>7 DEF Fresh, Document, Right
<1> QED BY <1>1, <1>2, <1>9, <1>10, <1>11 DEF Right, Compatible, Covered, Current

(* What was read of Mongo is passed on as it is.                           *)
LEMMA SubmitSettles ==
  ASSUME PipelineInv, NEW d \in Dispatchers, SeeRoom(d) \/ SubmitJob(d),
         NEW e \in Entities, Settled(e)'
  PROVE  Right(e)'
<1>1. UNCHANGED <<mongo, log, position, m_queue, worker, deletes, store, suspect>>
  BY DEF SeeRoom, SubmitJob, env, offsets
<1>2. Right(e)
  BY <1>1, SettledBefore DEF PipelineInv
<1>3. /\ dispatcher[d] \in Loaded /\ dispatcher[d] # Idle
      /\ DOMAIN dispatcher = Dispatchers /\ Idle.pc = "idle"
  BY ThreadsAre DEF SeeRoom, SubmitJob, PipelineInv, Idle
<1>4. \A s \in Stores : Written(e, s)' <=> Written(e, s)
  BY <1>1 DEF Written
<1>5. (Held(e)' <=> Held(e)) /\ Fresh(e)'
  <2>1. CASE SeeRoom(d)
    <3>1. UNCHANGED jobs /\ \A c \in Dispatchers : c # d => dispatcher'[c] = dispatcher[c]
      BY <2>1 DEF SeeRoom
    <3>2. /\ dispatcher[d].pc = "loaded" /\ dispatcher'[d].pc = "admitted"
          /\ dispatcher'[d].kgc_id = dispatcher[d].kgc_id
          /\ dispatcher'[d].version = dispatcher[d].version
      BY <1>3, <2>1 DEF SeeRoom, Loaded
    <3>3. dispatcher'[d] # Idle
      BY <1>3, <3>2
    <3> QED BY <1>1, <1>2, <1>3, <3>1, <3>2, <3>3 DEF Held, Fresh, Document, Right
  <2>2. CASE SubmitJob(d)
    <3> DEFINE j == [kgc_id |-> dispatcher[d].kgc_id, version |-> dispatcher[d].version]
    <3>1. j.kgc_id = dispatcher[d].kgc_id /\ j.version = dispatcher[d].version /\ j \in Job
      BY <1>3 DEF Loaded, Job
    <3>2. jobs' = Append(jobs, j) /\ jobs \in Seq(Job)
      BY <2>2 DEF SubmitJob, PipelineInv, TypeOK
    <3> HIDE DEF j
    <3>3. ToSet(jobs') = ToSet(jobs) \cup {j}
      BY <3>1, <3>2, AppendSet
    <3>4. /\ dispatcher'[d] = Idle /\ dispatcher[d].pc = "admitted"
          /\ \A c \in Dispatchers : c # d => dispatcher'[c] = dispatcher[c]
      BY <1>3, <2>2 DEF SubmitJob
    <3>5. Held(e)' <=> Held(e)
      BY <1>1, <1>3, <3>1, <3>3, <3>4 DEF Held
    <3>6. Fresh(e)'
      BY <1>1, <1>2, <1>3, <3>1, <3>3, <3>4 DEF Fresh, Document, Right
    <3> QED BY <3>5, <3>6
  <2> QED BY <2>1, <2>2
<1> QED BY <1>1, <1>2, <1>4, <1>5 DEF Right, Compatible, Covered, Current

(* A job that is started is going to be written to every store.            *)
LEMMA StartSettles ==
  ASSUME PipelineInv, NEW w \in Workers, StartJob(w), NEW e \in Entities, Settled(e)'
  PROVE  Right(e)'
<1>1. UNCHANGED <<mongo, log, position, m_queue, dispatcher, deletes, store, suspect>>
  BY DEF StartJob, env, offsets
<1>2. Right(e)
  BY <1>1, SettledBefore DEF PipelineInv
<1> DEFINE r == [pc |-> "writing", kgc_id |-> Head(jobs).kgc_id,
                 version |-> Head(jobs).version, subtasks |-> Stores]
<1>3. /\ worker[w] = Idle /\ worker' = [worker EXCEPT ![w] = r] /\ DOMAIN worker = Workers
  BY DEF StartJob, PipelineInv, TypeOK
<1>4. /\ r # Idle /\ r.kgc_id = Head(jobs).kgc_id /\ r.version = Head(jobs).version
      /\ r.subtasks = Stores
  <2>1. r.pc = "writing" /\ Idle.pc = "idle"
    BY DEF Idle
  <2> QED BY <2>1
<1> HIDE DEF r
<1>5. worker'[w] = r /\ \A u \in Workers : u # w => worker'[u] = worker[u]
  BY <1>3
<1>6. ToSet(jobs) = {Head(jobs)} \cup ToSet(jobs')
  BY TailSet DEF StartJob, PipelineInv, TypeOK
<1>7. \A s \in Stores : Written(e, s)' <=> Written(e, s) \/ Head(jobs).kgc_id = e
  BY <1>3, <1>4, <1>5 DEF Written
<1>8. Held(e) <=> Held(e)' \/ Head(jobs).kgc_id = e
  BY <1>1, <1>6 DEF Held
<1>9. Fresh(e)'
  BY <1>1, <1>2, <1>4, <1>5, <1>6 DEF Fresh, Document, Right
<1> QED BY <1>1, <1>2, <1>7, <1>8, <1>9 DEF Right, Compatible, Covered, Current

(* A worker that holds a settled entity writes what Mongo holds.           *)
LEMMA PutSettles ==
  ASSUME PipelineInv, NEW w \in Workers, NEW s \in Stores, Put(w, s),
         NEW e \in Entities, Settled(e)'
  PROVE  Right(e)'
<1>1. /\ UNCHANGED <<mongo, log, position, m_queue, dispatcher, jobs, deletes>>
      /\ worker[w] # Idle /\ s \in worker[w].subtasks /\ Answered(w, s)
      /\ e \in suspect => e \in suspect'
  BY DEF Put, PutDone, PutFailed, env, offsets
<1>2. Right(e)
  BY <1>1, SettledBefore DEF PipelineInv
<1>3. worker[w].kgc_id \in Entities /\ worker[w].version \in Docs
  BY <1>1, ThreadsAre DEF PipelineInv, Writing
<1>4. /\ \A u \in Workers : u # w => worker'[u] = worker[u]
      /\ worker[w].subtasks = {s} => worker'[w] = Idle
      /\ worker[w].subtasks # {s} =>
           /\ worker'[w] # Idle /\ worker'[w].kgc_id = worker[w].kgc_id
           /\ worker'[w].version = worker[w].version
           /\ worker'[w].subtasks = worker[w].subtasks \ {s}
  BY <1>1, AnsweredTyped DEF PipelineInv
<1>5. Held(e)' <=> Held(e)
  BY <1>1 DEF Held
<1>6. \A q \in Stores : Written(e, q)' => Written(e, q)
  BY <1>1, <1>4 DEF Written
<1>7. \A q \in Stores : Written(e, q) /\ ~(q = s /\ worker[w].kgc_id = e) => Written(e, q)'
  BY <1>1, <1>4 DEF Written
<1>8. Fresh(e)'
  BY <1>1, <1>2, <1>4 DEF Fresh, Document, Right
<1>9. Covered(e)'
  <2>1. CASE PutFailed(w, s)
    <3>1. worker[w].kgc_id # e
      BY <2>1 DEF PutFailed, Settled
    <3> QED BY <1>1, <1>2, <1>5, <1>7, <2>1, <3>1 DEF Covered, Current, Right, PutFailed
  <2>2. CASE PutDone(w, s)
    <3>1. /\ store'[s][worker[w].kgc_id] = worker[w].version
          /\ \A q \in Stores, f \in Entities :
               ~(q = s /\ f = worker[w].kgc_id) => store'[q][f] = store[q][f]
      BY <2>2, PutDoneIs DEF PipelineInv
    <3>2. worker[w].kgc_id = e => worker[w].version = Document(mongo[e])
      BY <1>1, <1>2 DEF Right, Fresh, Document
    <3> QED BY <1>1, <1>2, <1>5, <1>7, <3>1, <3>2 DEF Covered, Current, Right
  <2> QED BY <2>1, <2>2 DEF Put
<1> QED BY <1>1, <1>2, <1>5, <1>6, <1>8, <1>9 DEF Right, Compatible

(* A deletion of a settled entity finds none in Mongo either.              *)
LEMMA DeleteSettles ==
  ASSUME PipelineInv, NEW s \in Stores, NEW c \in Entities, Delete(s, c),
         NEW e \in Entities, Settled(e)'
  PROVE  Right(e)'
<1>1. /\ UNCHANGED <<mongo, log, position, m_queue, dispatcher, jobs, worker>>
      /\ <<s, c>> \in deletes /\ deletes' = deletes \ {<<s, c>>}
      /\ e \in suspect => e \in suspect'
  BY DEF Delete, DeleteDone, DeleteFailed, env, offsets, threads
<1>2. Right(e)
  BY <1>1, SettledBefore DEF PipelineInv
<1>3. (Held(e)' <=> Held(e)) /\ \A q \in Stores : Written(e, q)' <=> Written(e, q)
  BY <1>1 DEF Held, Written
<1>4. Fresh(e)'
  BY <1>1, <1>2 DEF Fresh, Document, Right
<1>5. Covered(e)'
  <2>1. CASE DeleteFailed(s, c)
    <3>1. c # e
      BY <2>1 DEF DeleteFailed, Settled
    <3> QED BY <1>1, <1>2, <1>3, <2>1, <3>1 DEF Covered, Current, Right, DeleteFailed
  <2>2. CASE DeleteDone(s, c)
    <3>1. /\ store'[s][c] = NoDoc
          /\ \A q \in Stores, f \in Entities : ~(q = s /\ f = c) => store'[q][f] = store[q][f]
      BY <2>2, DeleteDoneIs DEF PipelineInv
    <3>2. c = e => Document(mongo[e]) = NoDoc
      BY <1>1, <1>2, DocumentTyped DEF Right, Compatible
    <3> QED BY <1>1, <1>2, <1>3, <3>1, <3>2 DEF Covered, Current, Right
  <2> QED BY <2>1, <2>2 DEF Delete
<1> QED BY <1>1, <1>2, <1>3, <1>4, <1>5 DEF Right, Compatible

(* A message that is consumed while nothing is in flight is the last word  *)
(* on its entity, and starts all that is in flight about it.               *)
LEMMA ConsumeSettles ==
  ASSUME PipelineInv, Consume, NEW e \in Entities, Settled(e)'
  PROVE  Right(e)'
<1> DEFINE n == position + 1
           c == log[n].kgc_id
           op == log[n].operation
<1>1. /\ UNCHANGED <<mongo, log, dispatcher, jobs, worker, store>>
      /\ n \in 1..Len(log) /\ position' = n /\ position \in Nat
  BY DEF Consume, env, PipelineInv, TypeOK
<1>2. /\ op \in {"upsert", "delete", "other"}
      /\ op = "upsert" => ConsumeUpsert(c)
      /\ op = "delete" => ConsumeDelete(c)
      /\ op = "other" => UNCHANGED <<m_queue, deletes, suspect>>
  BY DEF Consume
<1>3. c \in Entities
  <2> DEFINE M == [operation : Operations, kgc_id : Entities]
  <2>1. log \in Seq(M)
    BY DEF PipelineInv, TypeOK
  <2>2. \A m \in M : m.kgc_id \in Entities
    OBVIOUS
  <2> HIDE DEF M
  <2> QED BY <1>1, <2>1, <2>2, ElementOfSeq
<1>4. op = "upsert" => ToSet(m_queue') = ToSet(m_queue) \cup {c}
  <2>1. m_queue \in Seq(Entities)
    BY DEF PipelineInv, TypeOK
  <2>2. ToSet(Append(m_queue, c)) = ToSet(m_queue) \cup {c}
    BY <1>3, <2>1, AppendSet
  <2> QED BY <1>2, <2>2 DEF ConsumeUpsert
<1>5. \A s \in Stores : Written(e, s)' <=> Written(e, s)
  BY <1>1 DEF Written
<1>6. CASE c = e /\ op \in {"upsert", "delete"}
  <2>1. ~InFlight(e)
    BY <1>2, <1>6 DEF ConsumeUpsert, ConsumeDelete, Judge, Settled
  <2>2. /\ ~Held(e) /\ \A s \in Stores : ~Written(e, s) /\ <<s, e>> \notin deletes
        /\ \A w \in Workers : worker[w] # Idle => worker[w].kgc_id # e
    BY <2>1, InFlightIs DEF PipelineInv
  <2>3. mongo[e] = IF op = "upsert" THEN n ELSE NoDoc
    <3>1. n \in Writes(e)
      BY <1>1, <1>6 DEF Writes
    <3>2. \A j \in Writes(e) : j <= n
      BY <1>1 DEF Settled, Writes
    <3> QED BY <3>1, <3>2 DEF PipelineInv, MongoFollowsLog
  <2>4. Fresh(e)'
    <3>1. \A d \in Dispatchers :
            dispatcher[d].pc \in {"loaded", "admitted"} => dispatcher[d].kgc_id # e
      BY <2>2 DEF Held, Idle
    <3> QED BY <1>1, <2>2, <3>1 DEF Fresh, Document, Held
  <2>5. CASE op = "upsert"
    <3>1. Held(e)'
      BY <1>4, <1>6, <2>5 DEF Held
    <3>2. mongo'[e] # NoDoc
      BY <1>1, <2>3, <2>5 DEF NoDoc
    <3>3. UNCHANGED deletes
      BY <1>2, <2>5 DEF ConsumeUpsert
    <3> QED BY <2>2, <2>4, <3>1, <3>2, <3>3 DEF Right, Compatible, Covered, Current
  <2>6. CASE op = "delete"
    <3>1. UNCHANGED m_queue /\ deletes' = deletes \cup {<<s, e>> : s \in Stores}
      BY <1>2, <1>6, <2>6 DEF ConsumeDelete
    <3>2. ~Held(e)'
      BY <1>1, <2>2, <3>1 DEF Held
    <3>3. mongo'[e] = NoDoc
      BY <1>1, <2>3, <2>6
    <3>4. \A s \in Stores : <<s, e>> \in deletes'
      BY <3>1
    <3> QED BY <1>5, <2>2, <2>4, <3>2, <3>3, <3>4 DEF Right, Compatible, Covered, Current
  <2> QED BY <1>6, <2>5, <2>6
<1>7. CASE ~(c = e /\ op \in {"upsert", "delete"})
  <2>1. e \in suspect => e \in suspect'
    BY <1>2, <1>7 DEF ConsumeUpsert, ConsumeDelete, Judge
  <2>2. n \notin Writes(e)
    BY <1>7 DEF Writes
  <2>3. Settled(e)
    <3>1. \A i \in Writes(e) : i <= n /\ i \in Nat
      BY <1>1 DEF Settled, Writes
    <3>2. \A i \in Writes(e) : i <= position
      BY <1>1, <2>2, <3>1
    <3> QED BY <1>1, <2>1, <3>2 DEF Settled
  <2>4. Right(e)
    BY <2>3 DEF PipelineInv, SettledRight, Right
  <2>5. (e \in ToSet(m_queue') <=> e \in ToSet(m_queue))
        /\ \A s \in Stores : <<s, e>> \in deletes' <=> <<s, e>> \in deletes
    BY <1>2, <1>4, <1>7 DEF ConsumeUpsert, ConsumeDelete
  <2>6. Held(e)' <=> Held(e)
    BY <1>1, <2>5 DEF Held
  <2>7. Fresh(e)'
    BY <1>1, <2>4 DEF Right, Fresh, Document
  <2> QED BY <1>1, <1>5, <2>4, <2>5, <2>6, <2>7 DEF Right, Compatible, Covered, Current
<1> QED BY <1>6, <1>7

(* What is settled after a restart had nothing in flight before it.        *)
LEMMA RestartSettles ==
  ASSUME PipelineInv, Restart(savedOffset), NEW e \in Entities, Settled(e)'
  PROVE  Right(e)'
<1>1. /\ UNCHANGED <<mongo, log, store>> /\ position' = savedOffset
      /\ m_queue' = <<>> /\ jobs' = <<>> /\ deletes' = {}
      /\ dispatcher' = [d \in Dispatchers |-> Idle] /\ worker' = [w \in Workers |-> Idle]
  BY DEF Restart, env
<1>2. ~InFlight(e) /\ e \notin suspect
  BY DEF Restart, Settled
<1>3. savedOffset <= position /\ savedOffset \in Nat /\ position \in Nat
  BY DEF PipelineInv, OffsetsOrdered, TypeOK
<1>4. \A i \in Writes(e) : i <= savedOffset /\ i \in Nat
  BY <1>1 DEF Settled, Writes
<1>5. Settled(e)
  BY <1>1, <1>2, <1>3, <1>4 DEF Settled
<1>6. Right(e)
  BY <1>5 DEF PipelineInv, SettledRight, Right
<1>7. \A s \in Stores : Current(s, e)
  BY <1>2, <1>6, InFlightIs DEF PipelineInv, Right, Covered, Current
<1>8. ToSet(<<>>) = {}
  BY DEF ToSet
<1>9. /\ \A d \in Dispatchers : dispatcher'[d] = Idle
      /\ \A w \in Workers : worker'[w] = Idle
      /\ Idle.pc = "idle"
  BY <1>1 DEF Idle
<1>10. ~Held(e)' /\ Fresh(e)' /\ \A s \in Stores : ~Written(e, s)'
  BY <1>1, <1>8, <1>9 DEF Held, Fresh, Document, Written
<1> QED BY <1>1, <1>7, <1>10 DEF Right, Compatible, Covered, Current

-----------------------------------------------------------------------------
(* What is in flight about settled entities stays right.                   *)
LEMMA SettledStays == PipelineInv /\ [Next]_vars => SettledRight'
<1> SUFFICES ASSUME PipelineInv, [Next]_vars, NEW e \in Entities, Settled(e)'
             PROVE  Right(e)'
  BY DEF SettledRight, Right
<1>1. CASE UNCHANGED <<mongo, log, position, threads, deletes, store, suspect>>
  <2>1. Right(e)
    BY <1>1, SettledBefore DEF PipelineInv
  <2> QED BY <1>1, <2>1 DEF threads, Right, Compatible, Fresh, Document, Covered, Current, Held, Written
<1>2. ASSUME NEW o \in offsetSets, SaveOffset(o) PROVE Right(e)'
  BY <1>1, <1>2 DEF SaveOffset, env
<1>3. ASSUME NEW d \in Dispatchers, Dispatch(d) PROVE Right(e)'
  BY <1>3, TakeSettles, TriadsSettle, SubmitSettles DEF Dispatch
<1>4. Crash \/ Abort => Right(e)'
  BY RestartSettles DEF Crash, Abort
<1>5. UNCHANGED vars => Right(e)'
  BY <1>1 DEF vars, env, offsets
<1> QED BY <1>2, <1>3, <1>4, <1>5, ChangeSettles, ConsumeSettles, StartSettles, PutSettles,
           DeleteSettles DEF Next

-----------------------------------------------------------------------------
(* In every behaviour of the pipeline: types, offsets before the first     *)
(* malformed message, bounded queues, and settled entities put right.      *)
THEOREM PipelineInvariant == Spec => []PipelineInv
<1>1. Init => PipelineInv
  <2> SUFFICES ASSUME Init PROVE PipelineInv
    OBVIOUS
  <2>1. OffsetsOrdered
    BY DEF Init, OffsetsOrdered
  <2>2. RoomKept
    <3>1. Admitted = {} /\ Len(m_queue) = 0 /\ Len(jobs) = 0
      BY DEF Init, Admitted, Idle
    <3>2. Cardinality(Admitted) = 0 /\ Cardinality(Dispatchers) \in Nat
      BY <3>1, ThreadsFinite, FS_EmptySet, FS_CardinalityType
    <3> QED BY <3>1, <3>2, LimitsNatural DEF RoomKept
  <2>3. MongoFollowsLog
    BY DEF Init, MongoFollowsLog, Writes
  <2>4. SettledRight
    <3>1. ToSet(<<>>) = {}
      BY DEF ToSet
    <3>2. \A e \in Entities : ~Held(e) /\ \A s \in Stores : ~Written(e, s)
      BY <3>1 DEF Init, Held, Written
    <3>3. /\ \A d \in Dispatchers : dispatcher[d].pc \notin {"loaded", "admitted"}
          /\ \A w \in Workers : worker[w] = Idle
      BY DEF Init, Idle
    <3>4. \A e \in Entities : Fresh(e)
      BY <3>1, <3>3 DEF Fresh, Document, Init
    <3>5. \A e \in Entities : mongo[e] = NoDoc /\ \A s \in Stores : store[s][e] = NoDoc
      BY DEF Init
    <3> QED BY <3>2, <3>4, <3>5, DocumentTyped DEF SettledRight, Compatible, Covered, Current
  <2> QED BY <2>1, <2>2, <2>3, <2>4, InitTyped DEF PipelineInv
<1>2. PipelineInv /\ [Next]_vars => PipelineInv'
  BY TypesKept, OffsetsKept, RoomStays, MongoKept, SettledStays DEF PipelineInv
<1> QED BY <1>1, <1>2, PTL DEF Spec

(* Every variable has its type, in particular no worker waits for nothing. *)
THEOREM PipelineTyped == Spec => []TypeOK
<1>1. PipelineInv => TypeOK
  BY DEF PipelineInv
<1> QED BY <1>1, PipelineInvariant, PTL

(* The queues of the dispatchers and of the workers overshoot their limits *)
(* by one message, and by one job of each dispatcher.                      *)
THEOREM PipelineBounded == Spec => []QueuesBounded
<1>1. PipelineInv => QueuesBounded
  <2> SUFFICES ASSUME PipelineInv PROVE QueuesBounded
    OBVIOUS
  <2>1. Admitted \subseteq Dispatchers /\ Cardinality(Admitted) \in Nat
    BY ThreadsFinite, FS_Subset, FS_CardinalityType DEF Admitted
  <2>2. Len(jobs) \in Nat /\ m_capacity \in Nat /\ Cardinality(Dispatchers) \in Nat
    BY LimitsNatural, ThreadsFinite, FS_CardinalityType DEF PipelineInv, TypeOK
  <2> QED BY <2>1, <2>2 DEF PipelineInv, RoomKept, QueuesBounded
<1> QED BY <1>1, PipelineInvariant, PTL

(* No restart passes over a message: neither the next offset nor the saved *)
(* one is ever behind a malformed message.                                 *)
THEOREM PipelineSkipsNothing == Spec => []NothingSkipped
<1>1. PipelineInv => NothingSkipped
  <2> SUFFICES ASSUME PipelineInv PROVE NothingSkipped
    OBVIOUS
  <2>1. DOMAIN log = 1..Len(log) /\ position \in Nat /\ savedOffset \in Nat
    BY DEF PipelineInv, TypeOK
  <2> QED BY <2>1 DEF PipelineInv, OffsetsOrdered, NothingSkipped
<1> QED BY <1>1, PipelineInvariant, PTL

(* When everything is worked off, each store holds what those triads make  *)
(* that parse, of the entities whose messages did not overlap, fail or     *)
(* meet a crash.                                                           *)
THEOREM PipelineConverges == Spec => []Converged
<1>1. PipelineInv => Converged
  <2> SUFFICES ASSUME PipelineInv, Quiescent, NEW e \in Entities, e \notin suspect,
                      mongo[e] \notin Garbled
               PROVE  \A s \in Stores : Current(s, e)
    BY DEF Converged
  <2>1. Settled(e)
    BY DEF Settled, Writes, Quiescent, PipelineInv, TypeOK
  <2>2. Covered(e)
    BY <2>1 DEF PipelineInv, SettledRight
  <2> QED BY <2>2, InFlightIs DEF PipelineInv, Quiescent, Covered, Current
<1> QED BY <1>1, PipelineInvariant, PTL

(* A store that holds what Mongo's triads make is taken back only if       *)
(* messages of the entity overlapped, or one is still to be consumed.      *)
THEOREM PipelineStaysCurrent == Spec => CurrentStaysCurrent
<1> DEFINE Kept == \A s \in Stores, e \in Entities :
                     /\ UNCHANGED mongo
                     /\ mongo[e] \notin Garbled
                     /\ Current(s, e)
                     /\ store'[s][e] # store[s][e]
                     => \/ e \in suspect
                        \/ \E i \in position + 1..Len(log) : log[i].kgc_id = e
<1>1. PipelineInv /\ [Next]_vars => [Kept]_vars
  <2> SUFFICES ASSUME PipelineInv, [Next]_vars, NEW s \in Stores, NEW e \in Entities,
                      store'[s][e] # store[s][e], Current(s, e), e \notin suspect,
                      mongo[e] \notin Garbled,
                      \A i \in position + 1..Len(log) : log[i].kgc_id # e
               PROVE  FALSE
    OBVIOUS
  <2>1. Settled(e)
    <3>1. \A i \in 1..Len(log) : i <= position \/ i \in position + 1..Len(log)
      BY DEF PipelineInv, TypeOK
    <3> QED BY <3>1 DEF Settled, Writes
  <2>2. Compatible(e) /\ Fresh(e)
    BY <2>1 DEF PipelineInv, SettledRight
  <2>3. ASSUME NEW w \in Workers, NEW q \in Stores, PutDone(w, q) PROVE FALSE
    <3>1. /\ store'[q][worker[w].kgc_id] = worker[w].version
          /\ ~(s = q /\ e = worker[w].kgc_id) => store'[s][e] = store[s][e]
      BY <2>3, PutDoneIs DEF PipelineInv
    <3> QED BY <2>2, <2>3, <3>1 DEF Fresh, Current, PutDone
  <2>4. ASSUME NEW q \in Stores, NEW c \in Entities, DeleteDone(q, c) PROVE FALSE
    <3>1. /\ store'[q][c] = NoDoc
          /\ ~(s = q /\ e = c) => store'[s][e] = store[s][e]
      BY <2>4, DeleteDoneIs DEF PipelineInv
    <3> QED BY <2>2, <2>4, <3>1, DocumentTyped DEF Compatible, Current, DeleteDone
  <2>5. \/ UNCHANGED store
        \/ \E w \in Workers, q \in Stores : PutDone(w, q)
        \/ \E q \in Stores, c \in Entities : DeleteDone(q, c)
    <3>1. Consume \/ Crash \/ Abort \/ UNCHANGED vars => UNCHANGED store
      BY DEF Consume, Crash, Abort, Restart, vars
    <3>2. ASSUME NEW c \in Entities, NEW op \in Operations, Change(c, op) PROVE UNCHANGED store
      BY <3>2 DEF Change
    <3>3. ASSUME NEW o \in offsetSets, SaveOffset(o) PROVE UNCHANGED store
      BY <3>3 DEF SaveOffset
    <3>4. ASSUME NEW d \in Dispatchers, Dispatch(d) PROVE UNCHANGED store
      BY <3>4 DEF Dispatch, TakeEntity, GetEntityTriads, SeeRoom, SubmitJob
    <3>5. ASSUME NEW w \in Workers, StartJob(w) PROVE UNCHANGED store
      BY <3>5 DEF StartJob
    <3>6. ASSUME NEW w \in Workers, NEW q \in Stores, PutFailed(w, q) PROVE UNCHANGED store
      BY <3>6 DEF PutFailed
    <3>7. ASSUME NEW q \in Stores, NEW c \in Entities, DeleteFailed(q, c) PROVE UNCHANGED store
      BY <3>7 DEF DeleteFailed
    <3> QED BY <3>1, <3>2, <3>3, <3>4, <3>5, <3>6, <3>7 DEF Next, Put, Delete
  <2> QED BY <2>3, <2>4, <2>5
<1> QED BY <1>1, PipelineInvariant, PTL DEF Spec, CurrentStaysCurrent
-----------------------------------------------------------------------------
(* What the pool is to its users: the queue of jobs, and for each worker   *)
(* its job and the stores it waits for.                                    *)
AtOne(x) == IF x = Idle THEN [waits |-> {}]
            ELSE [job |-> [kgc_id |-> x.kgc_id, version |-> x.version], waits |-> x.subtasks]

LEMMA AtWorkIs == /\ AtWork = [w \in Workers |-> AtOne(worker[w])]
                  /\ AtWork' = [w \in Workers |-> AtOne(worker'[w])]
                  /\ Pool!Free = AtOne(Idle) /\ Pool!Free = [waits |-> {}]
BY DEF AtWork, AtOne, Pool!Free

(* A step that neither queue nor workers see is none of the pool's, the    *)
(* start of a job takes it, and each callback answers for one store.       *)
LEMMA PoolStays == UNCHANGED <<jobs, worker>> => UNCHANGED Pool!jobVars
BY DEF Pool!jobVars, AtWork

LEMMA PoolTakes ==
  ASSUME TypeOK, NEW w \in Workers, StartJob(w)
  PROVE  Pool!Take(w)
<1> DEFINE j == Head(jobs)
           x == [pc |-> "writing", kgc_id |-> j.kgc_id, version |-> j.version, subtasks |-> Stores]
<1>1. /\ worker[w] = Idle /\ jobs # <<>> /\ jobs' = Tail(jobs)
      /\ worker' = [worker EXCEPT ![w] = x]
  BY DEF StartJob
<1>2. j \in Job /\ DOMAIN worker = Workers
  BY <1>1 DEF TypeOK
<1>3. AtOne(x) = [job |-> j, waits |-> Stores]
  <2>1. [kgc_id |-> j.kgc_id, version |-> j.version] = j
    BY <1>2 DEF Job
  <2>2. x # Idle /\ x.kgc_id = j.kgc_id /\ x.version = j.version /\ x.subtasks = Stores
    <3>1. x.pc = "writing" /\ Idle.pc = "idle"
      BY DEF Idle
    <3> QED BY <3>1
  <2> QED BY <2>1, <2>2 DEF AtOne
<1>4. Pool!With(j) = [job |-> j, waits |-> Stores]
  BY DEF Pool!With
<1> HIDE DEF x, j
<1>5. AtWork[w] = Pool!Free
  BY <1>1, AtWorkIs
<1>6. AtWork' = [AtWork EXCEPT ![w] = Pool!With(j)]
  BY <1>1, <1>2, <1>3, <1>4, AtWorkIs
<1> QED BY <1>1, <1>5, <1>6 DEF Pool!Take, j

LEMMA PoolAnswers ==
  ASSUME TypeOK, NEW w \in Workers, NEW s \in Stores, Put(w, s)
  PROVE  Pool!Answer(w, s)
<1> DEFINE x == worker[w]
           rest == [job |-> [kgc_id |-> x.kgc_id, version |-> x.version],
                    waits |-> x.subtasks \ {s}]
<1>1. x # Idle /\ s \in x.subtasks /\ Answered(w, s) /\ UNCHANGED jobs
  BY DEF Put, PutDone, PutFailed
<1>2. /\ \A u \in Workers : u # w => worker'[u] = worker[u]
      /\ x.subtasks = {s} => worker'[w] = Idle
      /\ x.subtasks # {s} =>
           /\ worker'[w] # Idle /\ worker'[w].kgc_id = x.kgc_id
           /\ worker'[w].version = x.version
           /\ worker'[w].subtasks = x.subtasks \ {s}
  BY <1>1, AnsweredTyped
<1>3. AtOne(x) = [job |-> [kgc_id |-> x.kgc_id, version |-> x.version], waits |-> x.subtasks]
  BY <1>1 DEF AtOne
<1>4. Pool!Without(AtOne(x), s) = IF x.subtasks = {s} THEN Pool!Free ELSE rest
  BY <1>3 DEF Pool!Without
<1>5. AtOne(worker'[w]) = IF x.subtasks = {s} THEN Pool!Free ELSE rest
  <2>1. CASE x.subtasks = {s}
    BY <1>2, <2>1, AtWorkIs
  <2>2. CASE x.subtasks # {s}
    BY <1>2, <2>2 DEF AtOne
  <2> QED BY <2>1, <2>2
<1> HIDE DEF rest
<1>6. AtWork' = [AtWork EXCEPT ![w] = Pool!Without(AtOne(x), s)]
  BY <1>2, <1>4, <1>5, AtWorkIs
<1>7. AtWork[w] = AtOne(x) /\ s \in AtWork[w].waits
  BY <1>1, <1>3, AtWorkIs
<1> QED BY <1>1, <1>6, <1>7 DEF Pool!Answer

(* A step of the log, the offsets or the process, of a thread or a store.  *)
LEMMA StepIs ==
  ASSUME [Next]_vars
  PROVE  \/ \E e \in Entities, op \in Operations : Change(e, op)
         \/ Consume
         \/ \E o \in offsetSets : SaveOffset(o)
         \/ Restart(savedOffset)
         \/ /\ UNCHANGED <<log, offsets>>
            /\ \/ \E d \in Dispatchers : SubmitJob(d)
               \/ \E w \in Workers : StartJob(w)
               \/ \E w \in Workers, s \in Stores : Put(w, s)
               \/ UNCHANGED <<jobs, worker>>
<1>1. ASSUME NEW d \in Dispatchers, Dispatch(d)
      PROVE  UNCHANGED <<log, offsets>> /\ (SubmitJob(d) \/ UNCHANGED <<jobs, worker>>)
  BY <1>1 DEF Dispatch, TakeEntity, GetEntityTriads, SeeRoom, SubmitJob, env
<1>2. ASSUME NEW w \in Workers, StartJob(w) \/ \E s \in Stores : Put(w, s)
      PROVE  UNCHANGED <<log, offsets>>
  BY <1>2 DEF StartJob, Put, PutDone, PutFailed, env
<1>3. ASSUME NEW s \in Stores, NEW e \in Entities, Delete(s, e)
      PROVE  UNCHANGED <<log, offsets>> /\ UNCHANGED <<jobs, worker>>
  BY <1>3 DEF Delete, DeleteDone, DeleteFailed, env, threads
<1>4. UNCHANGED vars => UNCHANGED <<log, offsets>> /\ UNCHANGED <<jobs, worker>>
  BY DEF vars, env, threads
<1> QED BY <1>1, <1>2, <1>3, <1>4 DEF Next, Crash, Abort

(* The workers are the pool that JobPool describes, which a crash empties, *)
(* and consumption is the reader of LogReader: nothing is saved before it  *)
(* was consumed, and a restart repeats messages, but passes over none.     *)
THEOREM PipelineRefines == Spec => PoolAndReaderImplemented
<1>1. Init => Pool!JobInit /\ Reader!ReaderInit
  BY DEF Init, Pool!JobInit, Pool!Free, AtWork, Reader!ReaderInit
<1>2. PipelineInv /\ [Next]_vars => [Pool!JobNext \/ Pool!Lose]_(Pool!jobVars)
  <2> SUFFICES ASSUME PipelineInv, [Next]_vars
               PROVE  [Pool!JobNext \/ Pool!Lose]_(Pool!jobVars)
    OBVIOUS
  <2> USE DEF PipelineInv
  <2>1. CASE \/ \E e \in Entities, op \in Operations : Change(e, op)
             \/ Consume
             \/ \E o \in offsetSets : SaveOffset(o)
    <3>1. UNCHANGED <<jobs, worker>>
      BY <2>1 DEF Change, Consume, SaveOffset, threads
    <3> QED BY <3>1, PoolStays
  <2>2. ASSUME Restart(savedOffset) PROVE Pool!Lose
    <3>1. jobs' = <<>> /\ worker' = [w \in Workers |-> Idle]
      BY <2>2 DEF Restart
    <3>2. AtWork' = [w \in Workers |-> Pool!Free]
      BY <3>1, AtWorkIs
    <3> QED BY <3>1, <3>2 DEF Pool!Lose
  <2>3. ASSUME NEW d \in Dispatchers, SubmitJob(d) PROVE Pool!JobNext
    <3> DEFINE j == [kgc_id |-> dispatcher[d].kgc_id, version |-> dispatcher[d].version]
    <3>1. jobs' = Append(jobs, j) /\ worker' = worker /\ dispatcher[d].pc = "admitted"
      BY <2>3 DEF SubmitJob
    <3>2. j \in Job
      BY <3>1, ThreadsAre DEF Loaded, Job
    <3>3. AtWork' = AtWork
      BY <3>1, AtWorkIs
    <3> QED BY <3>1, <3>2, <3>3 DEF Pool!Submit, Pool!JobNext
  <2>4. ASSUME NEW w \in Workers, StartJob(w) PROVE Pool!JobNext
    BY <2>4, PoolTakes DEF Pool!JobNext
  <2>5. ASSUME NEW w \in Workers, NEW s \in Stores, Put(w, s) PROVE Pool!JobNext
    BY <2>5, PoolAnswers DEF Pool!JobNext
  <2> QED BY <2>1, <2>2, <2>3, <2>4, <2>5, StepIs, PoolStays
<1>3. PipelineInv /\ [Next]_vars => [Reader!ReaderNext]_(Reader!readerVars)
  <2> SUFFICES ASSUME PipelineInv, [Next]_vars
               PROVE  [Reader!ReaderNext]_(Reader!readerVars)
    OBVIOUS
  <2>1. /\ position \in Nat /\ savedOffset \in Nat /\ savedOffset <= position
        /\ \A o \in offsetSets : o \in Nat /\ o < position
        /\ log \in Seq([operation : Operations, kgc_id : Entities])
    BY DEF PipelineInv, TypeOK, OffsetsOrdered
  <2> USE DEF Reader!ReaderNext, offsets
  <2>2. ASSUME NEW e \in Entities, NEW op \in Operations, Change(e, op) PROVE Reader!Grow
    BY <2>1, <2>2 DEF Change, Reader!Grow
  <2>3. ASSUME Consume PROVE Reader!Read
    BY <2>3 DEF Consume, env, Reader!Read
  <2>4. ASSUME NEW o \in offsetSets, SaveOffset(o) PROVE Reader!Save
    BY <2>1, <2>4 DEF SaveOffset, env, Reader!Save
  <2>5. ASSUME Restart(savedOffset) PROVE Reader!Resume
    BY <2>5 DEF Restart, env, Reader!Resume
  <2>6. UNCHANGED <<log, offsets>> => UNCHANGED Reader!readerVars
    BY DEF Reader!readerVars
  <2> QED BY <2>2, <2>3, <2>4, <2>5, <2>6, StepIs
<1>4. Spec => Pool!LossySpec
  BY <1>1, <1>2, PipelineInvariant, PTL DEF Spec, Pool!LossySpec
<1>5. Spec => Reader!ReaderSpec
  BY <1>1, <1>3, PipelineInvariant, PTL DEF Spec, Reader!ReaderSpec
<1> QED BY <1>4, <1>5 DEF PoolAndReaderImplemented
=============================================================================
