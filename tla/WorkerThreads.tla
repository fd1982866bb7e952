---------------------------- MODULE WorkerThreads ----------------------------
(***************************************************************************)
(* The pool of the indexer: a queue of jobs under a mutex with a condition *)
(* variable, and workers that write the entity of a job to every store.    *)
(* The module has the pool's member functions; FullIndexer says who calls  *)
(* them.                                                                   *)
(*                                                                         *)
(* A job is the set of triads of one entity.  The mutex is held from one   *)
(* step to another only by a worker that has evaluated the predicate of    *)
(* its wait and has not gone to sleep: shutdown and the destructor, which  *)
(* do not take the mutex, may come between.                                *)
(***************************************************************************)
EXTENDS Integers, Sequences, FiniteSets

CONSTANTS Workers,       \* threads of the pool
          Stores,        \* hb, js, gd and es
          Triads, Entities, EntityOf,
          Garbage        \* what an uninitialised counter may hold
ASSUME PoolFinite == IsFiniteSet(Workers) /\ IsFiniteSet(Stores)
ASSUME PoolExists == Workers # {} /\ Stores # {}
ASSUME TriadsTyped == EntityOf \in [Triads -> Entities]
ASSUME GarbageNatural == Garbage \subseteq Nat

VARIABLES m_shutdown,
          m_queue,
          pc,            \* where each worker is
          subtasks,      \* the counter on each worker's stack
          job,           \* what it works on, or has last worked on
          pending,       \* stores whose callback has not run
          store,         \* store -> entity -> triads of its document
          failed         \* history: <<store, entity>> of puts that failed
stores == <<store, failed>>
poolVars == <<m_shutdown, m_queue, pc, subtasks, job, pending, stores>>

Places == {"running", "tested", "waiting", "woken", "returned"}

InitPool == /\ m_shutdown = FALSE
            /\ m_queue = <<>>
            /\ pc = [w \in Workers |-> "running"]
            /\ subtasks \in [Workers -> Garbage]
            /\ job = [w \in Workers |-> {}]
            /\ pending = [w \in Workers |-> {}]
            /\ store = [s \in Stores |-> [e \in Entities |-> {}]]
            /\ failed = {}

MutexFree == \A w \in Workers : pc[w] # "tested"
Waiting == {w \in Workers : pc[w] = "waiting"}

-----------------------------------------------------------------------------
(* submit: the notification is given under the mutex.                      *)
Submit(j) == /\ MutexFree
             /\ m_queue' = Append(m_queue, j)
             /\ IF Waiting = {} THEN UNCHANGED pc
                ELSE \E w \in Waiting : pc' = [pc EXCEPT ![w] = "woken"]
             /\ UNCHANGED <<m_shutdown, subtasks, job, pending, stores>>

(* run: a worker that has seen its counter at zero, or was woken, gets the *)
(* mutex and evaluates the predicate.  With a job in the queue it takes    *)
(* it, and starts the four puts unless it is empty.                        *)
Competes(w) == /\ MutexFree
               /\ \/ pc[w] = "running" /\ subtasks[w] <= 0
                  \/ pc[w] = "woken"

TakeJob(w) == /\ Competes(w)
              /\ m_queue # <<>>
              /\ m_queue' = Tail(m_queue)
              /\ pc' = [pc EXCEPT ![w] = "running"]
              /\ IF Head(m_queue) = {} THEN UNCHANGED <<job, subtasks, pending>>
                 ELSE /\ job' = [job EXCEPT ![w] = Head(m_queue)]
                      /\ subtasks' = [subtasks EXCEPT ![w] = Cardinality(Stores)]
                      /\ pending' = [pending EXCEPT ![w] = Stores]
              /\ UNCHANGED <<m_shutdown, stores>>

(* With an empty queue it returns if the pool is shut down ...             *)
QuitAtOnce(w) == /\ Competes(w)  \* mutant: m_shutdown is tested before the queue
                 /\ m_shutdown
                 /\ pc' = [pc EXCEPT ![w] = "returned"]
                 /\ UNCHANGED <<m_shutdown, m_queue, subtasks, job, pending, stores>>
Quit(w) == /\ Competes(w)
           /\ m_queue = <<>>
           /\ m_shutdown
           /\ pc' = [pc EXCEPT ![w] = "returned"]
           /\ UNCHANGED <<m_shutdown, m_queue, subtasks, job, pending, stores>>

(* ... and goes to sleep if not, in two steps.                             *)
TestPredicate(w) == /\ Competes(w)
                    /\ m_queue = <<>>
                    /\ ~m_shutdown
                    /\ pc' = [pc EXCEPT ![w] = "tested"]
                    /\ UNCHANGED <<m_shutdown, m_queue, subtasks, job, pending, stores>>
Sleep(w) == /\ pc[w] = "tested"
            /\ pc' = [pc EXCEPT ![w] = "waiting"]
            /\ UNCHANGED <<m_shutdown, m_queue, subtasks, job, pending, stores>>
Spurious(w) == /\ pc[w] = "waiting"
               /\ pc' = [pc EXCEPT ![w] = "woken"]
               /\ UNCHANGED <<m_shutdown, m_queue, subtasks, job, pending, stores>>

(* The callbacks of the puts: whatever came of it, the counter goes down.  *)
EntityIn(j) == EntityOf[CHOOSE t \in j : TRUE]
CallBack(w, s) == /\ s \in pending[w]
                  /\ pending' = [pending EXCEPT ![w] = @ \ {s}]
                  /\ subtasks' = [subtasks EXCEPT ![w] = @ - 1]
                  /\ UNCHANGED <<m_shutdown, m_queue, pc, job>>
PutDoneTwice(w, s) == /\ s \in pending[w]  \* mutant: counted at the put and in its callback
                      /\ pending' = [pending EXCEPT ![w] = @ \ {s}]
                      /\ subtasks' = [subtasks EXCEPT ![w] = @ - 2]
                      /\ store' = [store EXCEPT ![s][EntityIn(job[w])] = job[w]]
                      /\ UNCHANGED <<m_shutdown, m_queue, pc, job, failed>>
PutDone(w, s) == /\ CallBack(w, s)
                 /\ store' = [store EXCEPT ![s][EntityIn(job[w])] = job[w]]
                 /\ UNCHANGED failed
PutFailed(w, s) == /\ CallBack(w, s)
                   /\ failed' = failed \cup {<<s, EntityIn(job[w])>>}
                   /\ UNCHANGED store

(* shutdown and the first line of the destructor, neither under the mutex. *)
Shutdown == /\ m_shutdown' = TRUE
            /\ UNCHANGED <<m_queue, pc, subtasks, job, pending, stores>>
NotifyOne == /\ IF Waiting = {} THEN UNCHANGED pc  \* mutant: the destructor wakes one
                ELSE \E w \in Waiting : pc' = [pc EXCEPT ![w] = "woken"]
             /\ UNCHANGED <<m_shutdown, m_queue, subtasks, job, pending, stores>>
NotifyAll == /\ pc' = [w \in Workers |-> IF w \in Waiting THEN "woken" ELSE pc[w]]
             /\ UNCHANGED <<m_shutdown, m_queue, subtasks, job, pending, stores>>
AllReturned == \A w \in Workers : pc[w] = "returned"

-----------------------------------------------------------------------------
PoolTypeOK == /\ m_shutdown \in BOOLEAN
              /\ m_queue \in Seq(SUBSET Triads)
              /\ pc \in [Workers -> Places]
              /\ subtasks \in [Workers -> Nat]
              /\ job \in [Workers -> SUBSET Triads]
              /\ pending \in [Workers -> SUBSET Stores]
              /\ store \in [Stores -> [Entities -> SUBSET Triads]]
              /\ failed \subseteq Stores \X Entities

(* The pool implements what its users expect of one: the counter on a      *)
(* worker's stack, whatever it held at first, lets the worker look at the  *)
(* queue only when all of its puts were answered, and no job is taken      *)
(* twice or out of turn however workers sleep, wake and compete.           *)
AtWork == [w \in Workers |-> IF pending[w] = {} THEN [waits |-> {}]
                             ELSE [job |-> job[w], waits |-> pending[w]]]
Pool == INSTANCE JobPool WITH Jobs <- SUBSET Triads, Void <- {{}},
                              queue <- m_queue, at <- AtWork
PoolImplemented == Pool!JobSpec
=============================================================================
