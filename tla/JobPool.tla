------------------------------- MODULE JobPool -------------------------------
(***************************************************************************)
(* What both indexers expect of their WorkerThreads: each job submitted    *)
(* goes to one worker, the oldest first, and a worker gets no other until  *)
(* every store has answered about its last.  It says nothing of how a      *)
(* worker waits for either, nor of how it is stopped.                      *)
(***************************************************************************)
EXTENDS Sequences

CONSTANTS Jobs, Workers, Stores,
          Void    \* jobs about nothing, for which no store is asked

VARIABLES queue,
          at      \* worker -> its job, and the stores it waits for
jobVars == <<queue, at>>

Free == [waits |-> {}]
With(j) == IF j \in Void THEN Free ELSE [job |-> j, waits |-> Stores]
Without(task, s) == IF task.waits = {s} THEN Free
                                        ELSE [task EXCEPT !.waits = @ \ {s}]

JobInit == queue = <<>> /\ at = [w \in Workers |-> Free]

Submit(j) == queue' = Append(queue, j) /\ UNCHANGED at

Take(w) == /\ at[w] = Free
           /\ queue # <<>>
           /\ at' = [at EXCEPT ![w] = With(Head(queue))]
           /\ queue' = Tail(queue)

Answer(w, s) == /\ s \in at[w].waits
                /\ at' = [at EXCEPT ![w] = Without(@, s)]
                /\ UNCHANGED queue

(* The process dies.                                                       *)
Lose == queue' = <<>> /\ at' = [w \in Workers |-> Free]

JobNext == \/ \E j \in Jobs : Submit(j)
           \/ \E w \in Workers : Take(w)
           \/ \E w \in Workers, s \in Stores : Answer(w, s)

JobSpec == JobInit /\ [][JobNext]_jobVars
LossySpec == JobInit /\ [][JobNext \/ Lose]_jobVars
=============================================================================
