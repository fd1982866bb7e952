----------------------------- MODULE GrpcService -----------------------------
(***************************************************************************)
(* GRPCService and the life of its SQLTasks.  A task is registered with    *)
(* the server before its call arrives; the notification comes through      *)
(* scq_, a worker proceeds with the task and starts its search, which      *)
(* answers at once when everything is cached, and in a callback of         *)
(* Workflow otherwise; the end of Finish comes through cq_, and the worker *)
(* that proceeds with it a second time deletes the task.  A reply of       *)
(* ElasticSearch that does not parse makes a search call back again.       *)
(*                                                                         *)
(* The five threads are started with GRPCService::run, which the class     *)
(* does not have; handleTask, which nothing else calls, is their body      *)
(* here.  Tasks are numbered in the order they are created in.             *)
(***************************************************************************)
EXTENDS Integers, Sequences, FiniteSets, SequencesExt

CONSTANTS Workers,
          MaxCalls,   \* bounds the calls of clients
          Unparsable  \* tasks whose search gets a reply that does not parse
ASSUME WorkersFinite == IsFiniteSet(Workers)
ASSUME MaxCallsNatural == MaxCalls \in Nat
ASSUME UnparsableTasks == Unparsable \subseteq 1..MaxCalls

VARIABLES listening,  \* tasks registered, whose call has not arrived
          created,    \* number of tasks created
          status_,    \* of each task: PROCESS, FINISH, or gone when deleted
          scq, cq,    \* the completion queues: events <<task, ok>>
          t1, t2,     \* the threads of handleRequests, on cq_ and on scq_
          last,       \* tag and ok of t1, as Next has left them
          m_queue,
          pc, at,     \* where each worker is, and with which task
          series,     \* tasks whose search waits for Workflow
          finishing,  \* tasks whose Finish is under way
          aborted,    \* an assertion of the library has ended the process
          m_finish,
          main,       \* where terminate is
          inline,     \* history: tasks answered within dispatch
          dangling,   \* history: tasks used after their deletion
          abandoned,  \* history: tasks nobody will delete
          missed      \* history: workers about to sleep at the notification
server == <<listening, created, scq, cq, t1, t2, last>>
work == <<m_queue, pc, at, series, finishing, status_>>
history == <<inline, dangling, abandoned, missed>>
vars == <<server, work, aborted, m_finish, main, history>>

Tasks == 1..MaxCalls + 1
Places == {"loop", "tested", "waiting", "woken", "proceed", "dispatch", "answered", "returned"}
NoTask == 0
Unset == <<NoTask, FALSE>>  \* tag and ok of t1 are not initialised

Init == /\ listening = {1} /\ created = 1
        /\ status_ = [t \in Tasks |-> "PROCESS"]
        /\ scq = {} /\ cq = {} /\ t1 = "test" /\ t2 = "test"
        /\ last = Unset
        /\ m_queue = <<>>
        /\ pc = [w \in Workers |-> "loop"] /\ at = [w \in Workers |-> NoTask]
        /\ series = {} /\ finishing = {} /\ aborted = FALSE
        /\ m_finish = FALSE /\ main = "up"
        /\ inline = {} /\ dangling = {} /\ abandoned = {} /\ missed = {}

-----------------------------------------------------------------------------
(* No step is taken by a process that was aborted.                         *)
Lives == ~aborted /\ aborted' = FALSE

(* A client calls: the registered task gets the call.                      *)
Arrive(t) == /\ Lives /\ t \in listening
             /\ t <= MaxCalls
             /\ main # "down"
             /\ listening' = listening \ {t}
             /\ scq' = scq \cup {<<t, TRUE>>}
             /\ UNCHANGED <<created, cq, t1, t2, last, work, m_finish, main, history>>

(* submit *)
MutexFree == \A w \in Workers : pc[w] # "tested"
Waiting == {w \in Workers : pc[w] = "waiting"}
SubmitSilent(t) == /\ MutexFree  \* mutant: nobody is notified
                   /\ m_queue' = Append(m_queue, t)
                   /\ UNCHANGED pc
Submit(t) == /\ MutexFree
             /\ m_queue' = Append(m_queue, t)
             /\ IF Waiting = {} THEN UNCHANGED pc
                ELSE \E w \in Waiting : pc' = [pc EXCEPT ![w] = "woken"]

-----------------------------------------------------------------------------
(* handleRequests, thread t2: a new call registers the next task.          *)
TestT2 == /\ Lives /\ t2 = "test"
          /\ t2' = IF m_finish THEN "exited" ELSE "next"
          /\ UNCHANGED <<listening, created, scq, cq, t1, last, work, m_finish, main, history>>
RegisterTwice == /\ listening' = listening \cup {created + 1, created + 2}  \* mutant
                 /\ created' = created + 2
Register == /\ listening' = listening \cup {created + 1}
            /\ created' = created + 1
CallArrived == /\ Lives /\ t2 = "next"
               /\ \E e \in scq :
                    /\ scq' = scq \ {e}
                    /\ IF e[2] THEN Register /\ Submit(e[1])
                               ELSE UNCHANGED <<listening, created, m_queue, pc>>
               /\ t2' = "test"
               /\ UNCHANGED <<cq, t1, last, at, series, finishing, status_, m_finish, main,
                              history>>

(* Thread t1: a reply that was sent is handed to a worker; one that could  *)
(* not be sent is forgotten, and its task with it.                         *)
TestT1 == /\ Lives /\ t1 = "test"
          /\ t1' = IF m_finish THEN "exited" ELSE "next"
          /\ UNCHANGED <<listening, created, scq, cq, t2, last, work, m_finish, main, history>>
ReplySent == /\ Lives /\ t1 = "next"
             /\ \E e \in cq :
                  /\ cq' = cq \ {e}
                  /\ last' = e
                  /\ IF e[2] THEN Submit(e[1]) /\ UNCHANGED abandoned
                             ELSE /\ abandoned' = abandoned \cup {e[1]}
                                  /\ UNCHANGED <<m_queue, pc>>
             /\ t1' = "test"
             /\ UNCHANGED <<listening, created, scq, t2, at, series, finishing, status_,
                            m_finish, main, inline, dangling, missed>>

(* Next on a queue that is shut down and empty leaves tag and ok alone,    *)
(* and what it returns is not looked at: the last event is taken again, or *)
(* whatever the variables hold when there was none.                        *)
(* scq_ still has the registration that failed, and t2 stops behind it.    *)
Again == \/ (last[2] \/ last = Unset) /\ Submit(last[1])
         \/ ~last[2] /\ UNCHANGED <<m_queue, pc>>
Drained1 == /\ Lives /\ t1 = "next" /\ main = "down" /\ cq = {}
            /\ Again
            /\ t1' = "test"
            /\ UNCHANGED <<listening, created, scq, cq, t2, last, at, series, finishing, status_,
                           m_finish, main, history>>

-----------------------------------------------------------------------------
(* handleTask: under the mutex a worker stops, takes a task, or finds that *)
(* it has to wait; terminate does not take the mutex and may come between. *)
Competes(w) == MutexFree /\ pc[w] \in {"loop", "woken"}
Stop(w) == /\ Lives /\ Competes(w) /\ m_finish
           /\ pc' = [pc EXCEPT ![w] = "returned"]
           /\ UNCHANGED <<server, m_queue, at, series, finishing, status_, m_finish, main, history>>
TakeKept(w) == /\ Lives /\ Competes(w)  \* mutant: front without pop
               /\ ~m_finish /\ m_queue # <<>>
               /\ at' = [at EXCEPT ![w] = Head(m_queue)]
               /\ pc' = [pc EXCEPT ![w] = "proceed"]
               /\ UNCHANGED <<server, m_queue, series, finishing, status_, m_finish, main, history>>
Take(w) == /\ Lives /\ Competes(w) /\ ~m_finish /\ m_queue # <<>>
           /\ at' = [at EXCEPT ![w] = Head(m_queue)]
           /\ m_queue' = Tail(m_queue)
           /\ pc' = [pc EXCEPT ![w] = "proceed"]
           /\ UNCHANGED <<server, series, finishing, status_, m_finish, main, history>>
TestPredicate(w) == /\ Lives /\ Competes(w) /\ ~m_finish /\ m_queue = <<>>
                    /\ pc' = [pc EXCEPT ![w] = "tested"]
                    /\ UNCHANGED <<server, m_queue, at, series, finishing, status_, m_finish,
                                   main, history>>
Sleep(w) == /\ Lives /\ pc[w] = "tested"
            /\ pc' = [pc EXCEPT ![w] = "waiting"]
            /\ UNCHANGED <<server, m_queue, at, series, finishing, status_, m_finish,
                           main, history>>
Spurious(w) == /\ Lives /\ pc[w] = "waiting"
               /\ pc' = [pc EXCEPT ![w] = "woken"]
               /\ UNCHANGED <<server, m_queue, at, series, finishing, status_, m_finish, main,
                              history>>

(* proceed: a new task starts its series, a finished one is deleted.       *)
StartSeries(w) == /\ Lives /\ pc[w] = "proceed" /\ status_[at[w]] = "PROCESS"
                  /\ pc' = [pc EXCEPT ![w] = "dispatch"]
                  /\ UNCHANGED <<server, m_queue, at, series, finishing, status_, m_finish, main,
                                 history>>
Delete(w) == /\ Lives /\ pc[w] = "proceed" /\ status_[at[w]] # "PROCESS"
             /\ status_' = [status_ EXCEPT ![at[w]] = "gone"]
             /\ dangling' = IF status_[at[w]] = "gone" THEN dangling \cup {at[w]} ELSE dangling
             /\ pc' = [pc EXCEPT ![w] = "loop"] /\ at' = [at EXCEPT ![w] = NoTask]
             /\ UNCHANGED <<server, m_queue, series, finishing, m_finish, main, inline, abandoned,
                            missed>>

(* callback: the status first, so that the task is over when it comes back.*)
Callback(t) == /\ status_' = [status_ EXCEPT ![t] = "FINISH"]
               /\ finishing' = finishing \cup {t}

(* callback behind a reply that did not parse: at once, or, of a nested    *)
(* query, when the queries around it have been searched again.  The        *)
(* library asserts that a call is finished once; of a task that is deleted *)
(* nothing can be said.                                                    *)
Answered(t) == status_[t] # "PROCESS"
CallbackAgain(t) == /\ ~aborted /\ t \in Unparsable /\ Answered(t)
                    /\ IF status_[t] = "gone"
                       THEN dangling' = dangling \cup {t} /\ UNCHANGED aborted
                       ELSE aborted' = TRUE /\ UNCHANGED dangling
                    /\ UNCHANGED <<server, work, m_finish, main, inline, abandoned, missed>>

(* dispatch: searchBySql waits for ElasticSearch or Redis, whose task runs *)
(* when subtask_done is through with this one ...                          *)
SearchLater(w) == /\ Lives /\ pc[w] = "dispatch"
                  /\ series' = series \cup {at[w]}
                  /\ pc' = [pc EXCEPT ![w] = "loop"] /\ at' = [at EXCEPT ![w] = NoTask]
                  /\ UNCHANGED <<server, m_queue, finishing, status_, m_finish, main, history>>
(* ... or answers from the caches; then subtask_done comes after Finish.   *)
SearchCached(w) == /\ Lives /\ pc[w] = "dispatch"
                   /\ Callback(at[w])
                   /\ inline' = inline \cup {at[w]}
                   /\ pc' = [pc EXCEPT ![w] = "answered"]
                   /\ UNCHANGED <<server, m_queue, at, series, m_finish, main, dangling,
                                  abandoned, missed>>
SubtaskDone(w) == /\ Lives /\ pc[w] = "answered"
                  /\ dangling' = IF status_[at[w]] = "gone" THEN dangling \cup {at[w]}
                                                            ELSE dangling
                  /\ pc' = [pc EXCEPT ![w] = "loop"] /\ at' = [at EXCEPT ![w] = NoTask]
                  /\ UNCHANGED <<server, m_queue, series, finishing, status_, m_finish, main,
                                 inline, abandoned, missed>>

(* The callbacks of the series: the answer, or an error that nobody is     *)
(* told of (SqlServer, MgetError), in both branches when there are two.    *)
SeriesAnswers(t) == /\ Lives /\ t \in series
                    /\ series' = series \ {t}
                    /\ Callback(t)
                    /\ UNCHANGED <<server, m_queue, pc, at, m_finish, main, history>>
SeriesForgets(t) == /\ Lives /\ t \in series
                    /\ series' = series \ {t}
                    /\ abandoned' = abandoned \cup {t}
                    /\ UNCHANGED <<server, m_queue, pc, at, finishing, status_, m_finish, main,
                                   inline, dangling, missed>>

(* The library reports that a reply was sent, or could not be.             *)
FinishDone(t, ok) == /\ Lives /\ t \in finishing
                     /\ finishing' = finishing \ {t}
                     /\ cq' = cq \cup {<<t, ok>>}
                     /\ UNCHANGED <<listening, created, scq, t1, t2, last, m_queue, pc, at, series,
                                    status_, m_finish, main, history>>

-----------------------------------------------------------------------------
(* terminate, which a signal calls.                                        *)
SetFinish == /\ Lives /\ main = "up"
             /\ m_finish' = TRUE
             /\ main' = "stopping"
             /\ UNCHANGED <<server, work, history>>
NotifyAll == /\ Lives /\ main = "stopping"
             /\ pc' = [w \in Workers |-> IF w \in Waiting THEN "woken" ELSE pc[w]]
             /\ missed' = {w \in Workers : pc[w] = "tested"}
             /\ main' = "notified"
             /\ UNCHANGED <<server, m_queue, at, series, finishing, status_, m_finish, inline,
                            dangling, abandoned>>
JoinWorkers == /\ Lives /\ main = "notified"
               /\ \A w \in Workers : pc[w] = "returned"
               /\ main' = "joined"
               /\ UNCHANGED <<server, work, m_finish, history>>

(* The server shuts down when no call is open, then the queues; the task   *)
(* that listened is reported as failed.                                    *)
Open == {t \in 1..created : t \notin listening /\ status_[t] # "gone"}
ShutdownAll == /\ Lives /\ main = "joined"
               /\ Open = {}
               /\ scq' = scq \cup {<<t, FALSE>> : t \in listening}
               /\ listening' = {}
               /\ main' = "down"
               /\ UNCHANGED <<created, cq, t1, t2, last, work, m_finish, history>>

-----------------------------------------------------------------------------
HandleRequests2 == TestT2 \/ CallArrived
HandleRequests1 == TestT1 \/ ReplySent \/ Drained1
HandleTask(w) == \/ Stop(w) \/ Take(w) \/ TestPredicate(w) \/ Sleep(w)
                 \/ StartSeries(w) \/ Delete(w)
                 \/ SearchLater(w) \/ SearchCached(w) \/ SubtaskDone(w)
Answer(t) == SeriesAnswers(t) \/ SeriesForgets(t)
Terminate == NotifyAll \/ JoinWorkers \/ ShutdownAll

Next == \/ \E t \in Tasks : Arrive(t) \/ Answer(t) \/ CallbackAgain(t)
        \/ \E t \in Tasks, ok \in BOOLEAN : FinishDone(t, ok)
        \/ HandleRequests1 \/ HandleRequests2
        \/ \E w \in Workers : HandleTask(w) \/ Spurious(w)
        \/ SetFinish \/ Terminate

Spec == Init /\ [][Next]_vars

(* Threads run, and get a mutex that is free again and again; Workflow     *)
(* calls back, gRPC reports the end of every Finish, as long as the        *)
(* process lives.  Nobody has to call, to call back again or to terminate. *)
(* What only happens finitely often need not be told apart.                *)
Fairness == /\ SF_vars(HandleRequests1 \/ HandleRequests2)
            /\ \A w \in Workers : SF_vars(HandleTask(w))
            /\ WF_vars(\E t \in Tasks : Answer(t))
            /\ WF_vars(\E t \in Tasks, ok \in BOOLEAN : FinishDone(t, ok))
            /\ WF_vars(Terminate)
FairSpec == Spec /\ Fairness

-----------------------------------------------------------------------------
TypeOK == /\ created \in Tasks /\ listening \subseteq 1..created
          /\ status_ \in [Tasks -> {"PROCESS", "FINISH", "gone"}]
          /\ scq \subseteq Tasks \X BOOLEAN /\ cq \subseteq Tasks \X BOOLEAN
          /\ t1 \in {"test", "next", "exited"} /\ t2 \in {"test", "next", "exited"}
          /\ last \in (Tasks \cup {NoTask}) \X BOOLEAN
          /\ m_queue \in Seq(Tasks \cup {NoTask})
          /\ pc \in [Workers -> Places] /\ at \in [Workers -> Tasks \cup {NoTask}]
          /\ series \subseteq Tasks /\ finishing \subseteq Tasks /\ aborted \in BOOLEAN
          /\ m_finish \in BOOLEAN
          /\ main \in {"up", "stopping", "notified", "joined", "down"}
          /\ inline \subseteq Tasks /\ dangling \subseteq Tasks /\ abandoned \subseteq Tasks
          /\ missed \subseteq Workers

(* A task has one owner at a time, who knows what to do with it: no queue, *)
(* worker or callback has a task that another one has, or that is deleted, *)
(* until the queues are shut down, when nobody is left to take a stale     *)
(* tag.  There are two exceptions: a task that was answered within         *)
(* dispatch, which its worker still uses while it is finished and deleted  *)
(* elsewhere, and one whose search calls back again.                       *)
Owners(t) == {<<"scq", ok>> : ok \in {x \in BOOLEAN : <<t, x>> \in scq}}
             \cup {<<"cq", ok>> : ok \in {x \in BOOLEAN : <<t, x>> \in cq}}
             \cup {<<"m_queue", i>> : i \in {j \in DOMAIN m_queue : m_queue[j] = t}}
             \cup {<<"worker", w>> : w \in {x \in Workers : at[x] = t /\ pc[x] # "answered"}}
             \cup {o \in {<<"listening", t>>} : t \in listening}
             \cup {o \in {<<"series", t>>} : t \in series}
             \cup {o \in {<<"finishing", t>>} : t \in finishing}
OneOwner == main # "down" =>
  /\ \A t \in 1..created :
       Cardinality(Owners(t)) = IF status_[t] = "gone" \/ t \in abandoned THEN 0 ELSE 1
  /\ dangling \subseteq inline \cup Unparsable

(* The service settles, unless a second callback ends it.  While it runs,  *)
(* every call that arrived is over in the end and its task deleted, unless *)
(* the client was gone or the search forgot the request.  Told to stop it  *)
(* stops, unless a worker went to sleep between the flag and the           *)
(* notification, or a call was open when the workers left: nobody finishes *)
(* it, and the server waits for it.                                        *)
CallsOver == \A t \in Open : t \in abandoned
Stopped == main = "down" /\ t1 = "exited" /\ t2 = "exited"
Hangs == \/ \E w \in missed : pc[w] = "waiting"
         \/ main = "joined" /\ Open # {}
Settles == <>[](aborted \/ IF m_finish THEN Stopped \/ Hangs ELSE CallsOver)
=============================================================================
