# TLA+ models of tupu

tupu serves a knowledge graph. Two C++ programs carry its logic: the *indexer* (`src/tupu_indexer`)
keeps Redis and ElasticSearch in step with the triads in MongoDB, and the *SQL server*
(`src/tupu_sql_server`) answers SQL-like queries from the two. This directory specifies the parts of
both in which order, failure and concurrency decide, checks the specifications with TLC and proves
theorems about them with TLAPS.

## Inventory

| component | state it keeps | operations | hard because of | correct when |
|---|---|---|---|---|
| `utils/rw_lock` (SQL server) | two counters, a flag, two condition variables | lock and unlock, for reading and writing | 16 handler threads, missed or spurious wake-ups | exclusive, no lost wake-up, writers first, never still |
| `utils/lru_cache` | a map and a list, each referring to the other | insert, get, clear | a wall clock, capacity, long call sequences | mutual index, bounded, dead entries evicted first |
| SQL queries: `sql_scheduler`, `simple_sql_service`, `doc_service` | per request a stack of tasks and a Workflow series; two caches shared by all | dispatch, callbacks of ElasticSearch and Redis | nested queries, failures at each callback, caches filled by others | the answer is what the query means, given once, fresh when forced |
| gRPC service | a queue, five workers, two completion queues, an `SQLTask` per call | submit, handle, proceed, terminate | a task passes between eight owners, one of which deletes it; shutdown | one owner at a time, every call over or the service stopped |
| HTTP service, controllers | none beyond the request | routing, parameters, replies | - | - |
| SQL analyzer, `Entity` | ids of properties | cutting nested queries out, splitting WHERE, term ids | brackets, quotes and keywords are found by position; two programs compute the same ids | an answer is what the request means |
| `PropertyIdService` (in both programs) | map of ids, counter, ready flag | scan, MGET callbacks, init | callbacks in any order, half under a mutex | ready means complete and final, but for pages that failed |
| oplog server | listener, buffer, processor, map of triads and checkpoint in Redis | tail, batch, look up, publish | two threads, unordered requests, crashes | every change leads to a message |
| realtime indexer | offset, queue of `EntityDispatcher`, queue of its workers | consume, dispatch, put, delete | 50 + n threads, requests in flight, crashes, replays, triads that do not parse | the stores converge to MongoDB |
| full indexer | a cursor and a job per producer | run, destructors | unordered cursors, joins | complete when it returns |
| `WorkerThreads` | a queue, a condition variable, a counter on each worker's stack | submit, run, callbacks, shutdown | four callbacks per job, a counter nobody initialises, a flag set outside the mutex | no job lost, no put under way at the end |
| clients, utilities, logging, update API, `grpc_client`, `white_board` | none of interest | - | - | - |

How they interact: the oplog server publishes entity ids to Kafka; a realtime indexer consumes a
partition, reads the entity's triads from MongoDB and writes the entity to three Redis zones and to
ElasticSearch. A SQL request creates a `TaskContext`, its series of Workflow tasks asks
ElasticSearch for ids and Redis for documents, each through an `lru_cache` guarded by an `rw_lock`.
The indexer and the SQL server share nothing but those stores.

`PROJECT.json` lists the hazards at their lines, with the properties that catch them.

## Modules

| module | models | notes |
|---|---|---|
| `ReadersWriters` | what `rguard` and `wguard` promise | abstract; refined by `RWLock` |
| `RWLock` | `rw_lock.h`, `rw_lock.cpp` | `pc` holds each thread's place; a condition variable is the set of threads waiting on it |
| `TimedCache` | what the services expect of `lru_cache`: a map of dated entries | abstract; refined by `LruCache` |
| `JobPool` | what both indexers expect of `WorkerThreads` | abstract; refined by `WorkerThreads` in `FullIndexer`, and by `IndexPipeline` |
| `LogReader` | what reading a partition, or the oplog, promises across restarts | abstract; refined by `IndexPipeline` and `OplogServer` |
| `LruCache` | `lru_cache.h` | one step per member function, because the guards exclude each other, which `RWLock` shows |
| `IndexPipeline` | `realtime_indexer.cpp`, `entity_dispatcher.h`, `worker_threads.*` as they use it | a version of an entity is the place of its change in the log; `Patchy` and `Garbled` name the versions some or none of whose triads parse; `looping` are the workers whose counter started above zero |
| `WorkerThreads` | `worker_threads.*` | the member functions only, each step under the mutex or not as in the code; who calls them says the module that extends it |
| `FullIndexer` | `full_indexer.*`, `startFullIndexer` | extends `WorkerThreads` with producers, `main` and the destructors |
| `OplogServer` | `oplog/` | an entry is its place in the oplog; all Redis requests are in flight from one step to another |
| `PropertyIdService` | `property_id_service.cpp` | the SCAN callback is two steps, since an MGET may be answered between them |
| `SqlServer` | `sql_scheduler.cpp`, `simple_sql_service.cpp`, `doc_service.cpp`, and from the controllers and `sql_task.cpp` how a request begins and ends | `calls[r]` is the rest of the running callback, so that the code after an inner callback returns is there too |
| `GrpcService` | `grpc_service.*`, `sql_task.*` | tasks are numbered in the order of their creation; the search is either answered within `dispatch` or waits for Workflow; `Unparsable` names the tasks whose search gets a reply that does not parse, and so a second callback |
| `SqlAnalyzer` | `simple_sql_analyzer.cpp`, `sql_clause_analyzer.cpp`, the stack of `sql_scheduler.cpp`, `Entity::calculateTermList` | texts are sequences of tokens, blanks among them; where the code counts characters (three behind AND and OR, six in front of a nested SELECT, four of `ID =`) so does `Width`; `Meaning` is the reference semantics of a request |
| `RWLockProofs`, `LruCacheProofs`, `IndexPipelineProofs`, `FullIndexerProofs`, `OplogServerProofs`, `PropertyIdServiceProofs`, `GrpcServiceProofs`, `SqlServerProofs` | - | theorems about the module of that name |

Names of variables and actions are those of the code. Each step is what the code does between two
points at which others can act: a critical section, one access to an atomic, the run of a callback
up to its next access to something shared, the moment an asynchronous request takes effect. History
variables (`suspect`, `excused`, `faults`, `failed`, `setBack`, `used`, `crashes`, `missed`,
`unparsed`, `started`, `scattered`, `inline`, `dangling`, `abandoned`, `call`) are read only by
properties and by the bounds on crashes and failures.

`SqlServer` treats a query as a name with the list of queries nested in it (`Query`), what
ElasticSearch finds for it as an operator `Hits` of the query and the results written into it, and a
text as the pair of the two; what becomes of the text itself is in `SqlAnalyzer`. A lookup in a
cache finds what was inserted last for its key, or misses: the entry may have been evicted, or be
too old, which is no longer so when the clock is set back. That is what `TimedCache` promises, and
`LruCache` is shown to implement it. `InOrder` is the loop along a vector of ids, in `getDocs`
as in `sqlPostProcess`: it keeps repetitions, and the order.

In `IndexPipeline` the SET of the offset and in `OplogServer` the SETs of the checkpoint, the MSETs
and the DELs are sets of requests in flight, taken out in any order, and applied or lost.

A wait on a condition variable is two steps in `WorkerThreads` and `GrpcService`: the test of the
predicate, after which the worker still holds the mutex, and the sleep. `shutdown` and `terminate`
take no mutex, so they come between. In `RWLock` every notification is given under the mutex and the
two are one step.

Three places of the code had to be read with care. `main.cc:26` has the `init` of the SQL server's
`PropertyIdService` commented out, so that the ids it knows are none; `SqlAnalyzer` starts with
either map. `GRPCService` starts its threads with a member `run` it does not declare; `handleTask`,
which nothing calls, is their body in `GrpcService`. `pId < 0` in the analyzer compares an unsigned
number and is never true.

### Not done yet

1. A clock in `SqlServer`, for the age of cached documents (`doc_service.cpp:99`).
2. `GrpcService` over `SqlServer` instead of a search that ends in one of three ways.

## Runs

| run | instance | shows |
|---|---|---|
| `rwlock` | 4 threads | `MutualExclusion`, `NoLostWakeup`, `NoReaderOvertakes`, `Progress`, and that the lock implements `ReadersWriters`; deadlock is checked |
| `lru_cache` | 4 keys, capacity 3, lifetime 2, clock up to 3 | `MapMatchesList`, `EvictsDeadFirst`, and that the cache implements `TimedCache`; deadlock is checked |
| `lru_recency` | 3 keys, capacity 2 | finding: what was just hit is evicted, contrary to the comment in `lru_cache.h:55` |
| `index_pipeline` | 2 entities, 2 stores, 2 dispatchers, 2 workers, 3 messages, 1 crash, both queue limits 0; triads of the second version do not parse, of the third in part | `QueuesBounded`, `Converged`, `NothingSkipped`, `CurrentStaysCurrent` |
| `index_liveness` | 1 entity, 2 messages, 1 crash, no malformed message; triads of the first version parse in part, of the second not at all | `Drains`, and that the indexer implements `JobPool` and `LogReader` |
| `oplog_server` | 2 triads, buffer of 2, checkpoint every 2, 3 entries, 1 crash | `EachEntryOnce`, `ChangesPublished`, `DrainsOrSticks`, and that the listener implements `LogReader` |
| `property_ids` | 3 properties, 3 pages | `ReadyMeansLoaded`, `LateOnlyBehindFailed`, `BecomesReady` |
| `full_indexer` | 2 producers, one of them without triads, 3 triads of 2 entities, 2 workers, 2 stores, counters that start at 0 or 1 | `LoadComplete`, `LoadEnds`, and that the worker threads implement `JobPool` |
| `sql_server` | 2 requests among 4 kinds, nesting depth 3, 2 versions, 1 failure | `AnswersRight`, `AnsweredOnce`, `ForcedAnswersFresh` |
| `sql_liveness` | 2 requests, 2 failures | `EventuallyAnswered` |
| `grpc_service` | 2 calls, 2 workers; the reply to the first search does not parse | `OneOwner`, `Settles` |
| `sql_analyzer` | some 9400 requests of up to 3 conditions, nested up to 3 deep, with and without blanks, 6 entities, ids of 8 bits | `WhereMeans`, `SubTasksBracketed` |

### Bounds

They are constants, and guards of the environment's actions only: `MaxLog`, `MaxCrashes`,
`MaxPages`, `MaxTime`, `MaxVersion`, `MaxFaults`, `MaxCalls`. Four threads give the lock two writers
and two readers that wait at once. A capacity of three with four keys makes evictions follow
refreshes and a list with a first, a middle and a last node. Queue limits of 0 in the pipeline mean
that one message, or one job, fills a queue, so that three messages make the consumer and both
dispatchers wait. The counters of the workers start at zero or above in every combination, and again
after a crash. Triads that do not parse belong to one version of the log, and those that parse in
part to another, so that either may come before or behind clean ones of its entity. Two messages of
one entity, a dispatcher and a worker each, are what it takes to overtake. A buffer of two and a
checkpoint every two entries let a checkpoint fall on an entry that is buffered, one in the batch
and one that is published. Three pages allow a first, a middle and a last one. In `sql_server` a
query with two nested ones, one of which has another inside, exercises every path of the stack, and
a second request for one of the inner queries shares both caches with it.

In `full_indexer` one producer has two entities, one with two triads that the cursor may return
apart, so that jobs are split, queued behind each other and taken by different workers; the other
submits the empty job that ends every producer. Two workers let one sleep, or return, while the
other writes. With two calls and two workers a third task listens while one worker is still in
`dispatch` of a task that the other deletes; of the two searches one calls back twice, the other
once. The requests of `sql_analyzer` combine conditions of every form (plain, quoted, set, nested)
and operator with AND, OR and brackets, over entities that differ in priority, prefix, order and
case of their triads; every one is written without blanks and with one around each word and
operator, and those with ID also with none to two in front of an operator and with none or one
behind it, around words and behind a bracket (24 combinations); ids of 8 bits instead of 32 make the
unknown id, all bits set, a number of its own all the same.

Deadlock is not checked where the bounded environment, or the program, really stops: the pipeline
when the log has been worked off, the oplog server likewise or behind a failed MGET, the property
service when it is ready, the SQL server when all requests are over, the full indexer when it has
returned, died or overslept, the gRPC service when it has stopped or hangs, the analyzer when it has
answered.

### Fairness

- `RWLock`: a thread inside leaves, since the guards unlock in their destructors and the code under
  them does not wait; a woken thread gets the mutex in the end. Nobody must ask for the lock, and no
  spurious wake-up is owed.
- `IndexPipeline`, `OplogServer`, `PropertyIdService`, `SqlServer`: threads that can run do (their
  loops poll or wait on a condition variable that is notified), and Workflow calls back for every
  task, with success or a failure, since connections and replies have timeouts. *Which* answer comes
  is not fair: an MGET may always fail. The environment (new messages, crashes, rewrites) is not
  fair either.
- `WorkerThreads`, `FullIndexer`, `GrpcService`: the same, with strong fairness for the threads that
  compete for a mutex. Others take it again and again, each time for a few instructions, and a
  thread that keeps asking gets it. Spurious wake-ups, calls, signals and exceptions are owed to
  nobody, nor is the second callback of `GrpcService`. There the answers, the reports of `Finish`
  and the two threads of `handleRequests` share one condition each, which asks for less than one for
  every task and thread would: what happens finitely often need not be told apart.

## Findings

`lru_recency`: `insert` calls the end of its list "the end of most recently used list", but `get`
never moves a node, so recency of use plays no part in eviction.

What the other properties must excuse says as much about the code, and is modelled, not assumed
away:

- `Converged`, `CurrentStaysCurrent`: a failed put is not repeated, and of overlapping messages
  about an entity the older document may win (`suspect`). A store converges to the document of the
  triads that parse (`Document`), which may be fewer than it held before; of an entity none of whose
  triads parses it keeps what it had (`Garbled`).
- `Drains`: when every worker's counter happens to start above zero, nobody takes a job, the queues
  fill and the consumer waits for ever. One worker that starts at zero is enough.
- `NothingSkipped`: a malformed message stops its partition for good.
- `ChangesPublished`: a change is lost when the look-up of its triad misses, which a MSET still in
  flight is enough for, when Kafka refuses, or in a crash behind the checkpoint (`excused`).
- `DrainsOrSticks`: one failed MGET stops the processor.
- `ReadyMeansLoaded`, `LateOnlyBehindFailed`: one page refused while the SCAN callback still holds
  the mutex may declare the service ready before the next page, which then changes the map under
  readers that take no lock.
- `AnsweredOnce`: a reply of ElasticSearch that does not parse makes a request go on twice.
- `AnswersRight`: a reply without hits is cached like any other, and read by later requests.
- `EventuallyAnswered`: an error reply of Redis leaves the request unanswered.
- `LoadComplete`: a failed put is not repeated, and an entity whose triads the unsorted cursor
  returns in pieces is indexed once for every piece, each time without the others (`scattered`).
- `LoadEnds`: a worker between the test and the wait misses the one notification of the destructor,
  and one whose counter happens to start above zero never takes a job and never returns; what a
  cursor throws, and sometimes a failed put, ends the process.
- `OneOwner`: a task answered from the caches within `dispatch` is used after it was handed on, and
  perhaps deleted (`inline`), and so is one whose search calls back again behind a reply of
  ElasticSearch that does not parse (`Unparsable`). A reply that cannot be sent leaves its task to
  nobody (`abandoned`).
- `Settles`: the second callback finishes a call twice, which the library answers with an abort
  while the task exists (`aborted`). `terminate` hangs on a worker that missed its notification, and
  on a call that was open when the workers left.
- `WhereMeans`, `SubTasksBracketed` (`Misread`): AND and OR side by side without brackets, a
  condition repeated, ID with `!=`, an unknown operator, keywords or commas inside words, and
  brackets at both ends of a text with a nested query that do not belong together. Besides, where
  the code counts characters: a bracket or quote directly behind OR, of which `splitSubTask` skips
  three as it does for AND (`EatenByOr`); a nested query of ID that blanks or `!=` push out of the
  six characters in front of SELECT (`FarId`), and one of a property whose name ends in ID, which is
  taken for it (`EndsInId`); and ID among conditions whose AND or OR has no blanks around it, which
  `isIDSearch` takes for a search by ids alone (`OneId`).

## Proofs

`RWLockProofs`, for any finite set of threads. The inductive invariant joins `TypeOK`,
`CountersExact`, `MutualExclusion` and `NoLostWakeup`; none of them is inductive alone. Exclusion
rests on the counters, because the predicates of the waits read only them; the counters need
exclusion, because the flag is cleared when *a* writer leaves; and `NoLostWakeup` needs the exact
counters to know that whoever leaves last sees a count above zero. The proof takes one action after
the other, with lemmas on how the sets of readers and writers, and hence their cardinalities, change
when one thread moves. `NoReaderOvertakes` and the refinement of `ReadersWriters` follow from the
invariant step by step.

`LruCacheProofs`, for any keys, values, capacity, lifetime and clock. The inductive invariant joins
the types, the mutual index of map and list, that both have the same size, and the bound. The
equality of sizes is what carries the bound from the map, whose size the code tests, to the list.
Lemmas say what pushing, removing and dropping the last node do to the keys of a list without
duplicates.

`SortedByAge` and `EvictsDeadFirst` use a second invariant on top: the list is sorted and nothing on
it is dated in the future, as long as the clock has not been set back. Eviction takes the last,
hence oldest, node; if it is alive, so are all the others.

`IndexPipelineProofs`, for any entities, stores, threads, limits, lengths of the log and numbers of
crashes. The inductive invariant has four parts besides `TypeOK`. `OffsetsOrdered` puts the saved
offset, the ones on their way and the consumer's position in order, with nothing malformed behind;
it carries `NothingSkipped` across lost and reordered SETs. `RoomKept` counts, per dispatcher, the
job it may still add after it has seen room, which bounds the queue by capacity plus dispatchers
although nobody tests and submits in one step. `MongoFollowsLog` ties versions to places in the log.
`SettledRight` says of an entity whose changes are all consumed and did not overlap that what is in
flight about it is the document of what MongoDB holds (`Fresh`), that no write and deletion are in
flight together (`Compatible`), and that each store has it or will get it (`Covered`); with nothing
in flight that is `Converged`.

`FullIndexerProofs`, for any triads, producers, workers and stores, and whatever the counters hold
at first. The triads that an entity's cursor has returned are in exactly one place: its producer's
job, the queue, a worker that has not written them everywhere, or the stores (`EntitiesRight`). That
needs jobs of one entity each (`JobsRight`), cursors without repetitions (`CursorsRight`, which is
where `SetToSeqs` comes in), and, for the end, that a returned worker has seen both the shutdown and
an empty queue, and that the counter of a worker at work is the number of its open puts
(`WorkersRight`). A worker exists, so when `main` is done all producers have submitted and the queue
is empty.

`OplogServerProofs`, for any buffer, checkpoint distance, oplog and number of crashes.
`ChangesPublished` is not inductive: a crash forgets what is behind the cursor, for which
`CheckpointBehind` is needed (no checkpoint, saved or on its way, is ahead of the cursor), and the
processor drops a batch, for which `BatchProgress` says what each of its phases has achieved.
`HeldInOrder` says that the batch and the buffer hold the last places before the cursor, one after
the other, and gives `EachEntryOnce`.

`PropertyIdServiceProofs`, for any properties and number of pages. The counter is the number of
subtasks by a count of the pages that wait (`CountExact`); `PagesAsked` and `PagesAnswered` say what
a page holds; `ReadyIsLast`, that nothing is on its way once the service is ready but pages behind
one that failed, holds because the callback of SCAN keeps its mutex from the MGET of a page until
the next SCAN is counted: in between only that page can be answered without the mutex, by a refusal.

`GrpcServiceProofs`, for any workers and number of calls. Every task created is of exactly one of
eight kinds: listening, in `scq_`, queued, with a worker, searched for, finishing, in `cq_`, or
over; of its kind it is there once (`OneKind`, `Once`). Each step takes one task from one kind to
the next. `LastListens` shows that one task listens at a time, and what is left of it behind the
shutdown. `OneOwner` follows by counting owners. The second callback takes a task from no kind: it
ends the process, or uses a task that is gone, which is an exception `OneOwner` names.

`SqlServerProofs`, for any queries, entities, facts, hits, requests, numbers of versions and of
failures, and whatever the caches lose. The inductive invariant has these parts besides the types,
which are stated per request (`Own`), since what may be in a request depends on it: a forced one
holds no document older than Redis was when it came, which is all that `ForcedAnswersFresh` needs
together with `DocsGrow`, that versions only grow.

`OneThread` counts: calls to be made, tasks in the series and answers given are at most one in all,
until a reply does not parse. `AnsweredOnce` is a part of it. It also lets the other parts speak of
*the* next call, since nothing is behind it.

`StackNested` says that each task but the first runs the next open query of the one below it
(`NestedIn`), so that what `Return` writes goes to where it belongs. `RunsRight` says of a request
that has met no failure what its run has achieved: the results written into each text are those of
the queries in it (`TasksRight`), the next call (`CallRight`), or the task that is answered next
(`TaskRight`), is about the ids the query means, or those the answer is to show (`Wanted`), and the
documents at hand and those asked for are together the ones that exist. Once `Respond` is reached
that is `AnswersOf`, hence `AnswersRight`.

`CacheRight` is where the two cache keys of `simple_sql_service.cpp` meet. A lookup is made under
the text of the task (`:201`), an entry under the text of the request (`:157`). They differ for
every nested query, and the hits of an inner query are stored under the text of the outer one. No
answer is wrong for it: that text still has queries in it, whereas lookups are made only for texts
without (`Resolved`), and a request without nested queries searches for its own text only
(`SearchFor`). `CacheRight` therefore speaks of resolved texts, and the cost is that nested queries
are never found in the cache.

Two proofs in it would be inductions, for which the prover has no scheme: what `InOrder` finds along
a vector, and that the recursive function `Meaning` satisfies its own definition (`MeaningUnfolds`).
Both refute a least counterexample instead, the first among numbers, the second among queries, where
`QueriesNest` provides it.

### Refinements

Besides the lock, four modules are proved to implement what others rely on. The initial states are
mapped to initial states; each step of the code's module is, under its inductive invariant, a step
of the abstract one or leaves its variables alone.

`CacheRefines`: `LruCache` implements `TimedCache`. The value of a cached key is in the map and its
date in the list, behind the iterator (`Held`), so every case of `insert` has to be followed through
the list: the nodes that stay hold what they held although each has moved. That needs the mutual
index, and the equal sizes for what an eviction costs. The last call with its result is a variable
of both (`call`), so that a lookup is answered by what was inserted.

`PoolRefines` and `PipelineRefines`: the worker threads of the full indexer, with their condition
variable, and the coarser ones of `IndexPipeline` implement the same `JobPool`. In `JobPool` a
worker waits for a set of stores (`AtWork`); the code has a counter that nobody initialises, and
that it is the number of open puts while a job is at work (`WorkersRight`) is what shows that a
worker that competes for the queue owes nothing. A counter that starts above zero only keeps its
worker out of the pool.

`PipelineRefines` and `ServerRefines`: the consumer of a partition and the listener of the oplog
implement the same `LogReader`. `OffsetsOrdered`, respectively `CheckpointBehind`, say that no SET
that may still be applied, in whatever order, is ahead of what was read.

All the proofs rest on the named assumptions of their modules only: finite sets of threads, stores,
triads or strings, at least one worker and one store, natural bounds, and constants of their types.
Those of `SqlServer` say besides that ids of links are ids of entities, that what ElasticSearch
finds for a query is a vector of strings, and that a nested query is a part of the text around it
(`QueriesNest`), as any text of finite length has it. TLC evaluates all of them on the instances of
the runs.

`CountersExact`, `Bounded`, `SortedByAge` and `CountExact` are theorems (`LockCounts`,
`CacheBounded`, `CacheSorted`, `LoadCounts`) and parts of the inductive invariants above; no run
repeats them.

Model-checked only: all liveness (the prover has no rules for fairness); `WhereMeans` and
`SubTasksBracketed` of `SqlAnalyzer`, which reads and splits texts with recursive operators, and
whose reference semantics is one; and the finding, which is a counterexample. Every safety property
of the other runs is a theorem.

## Not modelled

- MongoDB, Kafka, Redis, ElasticSearch and Workflow, beyond what the code can see of them. Updates
  in the oplog are assumed to carry the id in `o`, as the listener expects; one that does not would
  end the process.
- One partition is modelled. The `RealtimeIndexer` of each has an `EntityDispatcher` of its own
  (`realtime_indexer.h:40`); what those of several partitions share is the pool of workers, whose
  jobs then come from more dispatcher threads, as many as the theorems allow for.
- The oplog server publishes the bare id of an entity (`oplog_processor.cpp:163`), while
  `consume_cb` expects JSON; the topics are configurable and differ by default, so that what meets
  what is a matter of deployment. The two are modelled apart.
- `getDocs` looks up its ids one by one; the model looks them up in one step. The entries are
  independent of each other, and the lock is not held between them.
- Ordering of results by an index field, encodings, formats of replies and logging: data, not
  control. A negative LIMIT, which compares as a huge unsigned number and keeps everything, is not
  among the queries.
- In `SqlAnalyzer` collisions of `hash64`, what LIMIT and ORDER BY do to the result, and the weights
  of an `Entity`. Blanks inside names and values of a request are not among the instances.
- In `FullIndexer` `isFull`, after which a producer sleeps once and submits all the same.
- The components that `PROJECT.json` marks as not modelled, with the reason for each.
