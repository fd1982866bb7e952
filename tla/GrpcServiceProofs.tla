--------------------------- MODULE GrpcServiceProofs ---------------------------
(***************************************************************************)
(* Proofs about GrpcService for any set of workers and any number of       *)
(* calls.  A task has one owner because it is always of one kind: every    *)
(* step takes a task from one kind to the next.                            *)
(***************************************************************************)
EXTENDS GrpcService, FiniteSetTheorems, TLAPS

-----------------------------------------------------------------------------
(* A value put behind a queue.                                             *)
LEMMA AppendSet ==
  ASSUME NEW S, NEW s \in Seq(S), NEW x \in S
  PROVE  /\ Append(s, x) \in Seq(S) /\ Len(Append(s, x)) = Len(s) + 1
         /\ ToSet(Append(s, x)) = ToSet(s) \cup {x}
<1>1. /\ Append(s, x) \in Seq(S) /\ Len(Append(s, x)) = Len(s) + 1
      /\ \A i \in 1..Len(s) : Append(s, x)[i] = s[i]
      /\ Append(s, x)[Len(s) + 1] = x
  OBVIOUS
<1>2. /\ DOMAIN s = 1..Len(s) /\ DOMAIN Append(s, x) = 1..Len(s) + 1 /\ Len(s) \in Nat
  BY <1>1
<1>3. \A i \in 1..Len(s) + 1 : i \in 1..Len(s) \/ i = Len(s) + 1
  BY <1>2
<1>4. 1..Len(s) \subseteq 1..Len(s) + 1 /\ Len(s) + 1 \in 1..Len(s) + 1
  BY <1>2
<1> QED BY <1>1, <1>2, <1>3, <1>4 DEF ToSet

(* A queue is its first element and the rest.                              *)
LEMMA TailSet ==
  ASSUME NEW S, NEW s \in Seq(S), s # <<>>
  PROVE  /\ Tail(s) \in Seq(S) /\ Len(Tail(s)) = Len(s) - 1 /\ Head(s) \in S
         /\ ToSet(s) = {Head(s)} \cup ToSet(Tail(s))
<1>1. /\ Tail(s) \in Seq(S) /\ Len(Tail(s)) = Len(s) - 1 /\ Head(s) \in S
      /\ Len(s) \in Nat \ {0} /\ Head(s) = s[1]
      /\ \A i \in 1..Len(s) - 1 : Tail(s)[i] = s[i + 1]
  OBVIOUS
<1>2. DOMAIN s = 1..Len(s) /\ DOMAIN Tail(s) = 1..Len(s) - 1
  BY <1>1
<1>3. \A i \in 1..Len(s) : i = 1 \/ (i - 1 \in 1..Len(s) - 1 /\ s[i] = Tail(s)[i - 1])
  BY <1>1
<1>4. \A i \in 1..Len(s) - 1 : i + 1 \in 1..Len(s)
  BY <1>1
<1> DEFINE t == Tail(s)
<1> HIDE DEF t
<1>5. ASSUME NEW x \in ToSet(s) PROVE x \in {Head(s)} \cup ToSet(t)
  <2>1. PICK i \in 1..Len(s) : x = s[i]
    BY <1>2 DEF ToSet
  <2> QED BY <2>1, <1>1, <1>2, <1>3 DEF ToSet, t
<1>6. ASSUME NEW x \in ToSet(t) PROVE x \in ToSet(s)
  BY <1>1, <1>2, <1>4 DEF ToSet, t
<1>7. Head(s) \in ToSet(s)
  BY <1>1, <1>2 DEF ToSet
<1> QED BY <1>1, <1>5, <1>6, <1>7 DEF t

(* In a queue without repetitions the first element does not come again.   *)
Distinct(s) == \A i, j \in 1..Len(s) : i # j => s[i] # s[j]
LEMMA DistinctTail ==
  ASSUME NEW S, NEW s \in Seq(S), s # <<>>, Distinct(s)
  PROVE  Distinct(Tail(s)) /\ Head(s) \notin ToSet(Tail(s))
<1>1. /\ Tail(s) \in Seq(S) /\ Len(Tail(s)) = Len(s) - 1 /\ Head(s) = s[1]
      /\ Len(s) \in Nat \ {0}
      /\ \A i \in 1..Len(s) - 1 : Tail(s)[i] = s[i + 1]
  OBVIOUS
<1>2. DOMAIN Tail(s) = 1..Len(s) - 1
  BY <1>1
<1>3. \A i \in 1..Len(s) - 1 : i + 1 \in 1..Len(s) /\ i + 1 # 1
  BY <1>1
<1>4. 1 \in 1..Len(s)
  BY <1>1
<1>5. Distinct(Tail(s))
  BY <1>1, <1>3 DEF Distinct
<1>6. ASSUME Head(s) \in ToSet(Tail(s)) PROVE FALSE
  <2>1. PICK i \in 1..Len(s) - 1 : Head(s) = Tail(s)[i]
    BY <1>2, <1>6 DEF ToSet
  <2>2. s[1] = s[i + 1]
    BY <1>1, <2>1
  <2> QED BY <1>3, <1>4, <2>2 DEF Distinct
<1> QED BY <1>5, <1>6

(* A value that a queue does not hold leaves it without repetitions.       *)
LEMMA DistinctAppend ==
  ASSUME NEW S, NEW s \in Seq(S), NEW x \in S, Distinct(s), x \notin ToSet(s)
  PROVE  Distinct(Append(s, x))
<1>1. /\ Len(Append(s, x)) = Len(s) + 1 /\ Len(s) \in Nat
      /\ \A i \in 1..Len(s) : Append(s, x)[i] = s[i]
      /\ Append(s, x)[Len(s) + 1] = x
  OBVIOUS
<1>2. \A i \in 1..Len(s) + 1 : i \in 1..Len(s) \/ i = Len(s) + 1
  BY <1>1
<1>3. \A i \in 1..Len(s) : s[i] # x
  BY DEF ToSet
<1> QED BY <1>1, <1>2, <1>3 DEF Distinct

-----------------------------------------------------------------------------
(* The kinds of tasks: who owns them, or nobody does any more.             *)
Kinds == {"listening", "scq", "queue", "worker", "series", "finishing", "cq", "over"}
Handled(w, t) == at[w] = t /\ pc[w] # "answered"
Is(t, k) == \/ k = "listening" /\ t \in listening
            \/ k = "scq" /\ \E ok \in BOOLEAN : <<t, ok>> \in scq
            \/ k = "queue" /\ t \in ToSet(m_queue)
            \/ k = "worker" /\ \E w \in Workers : Handled(w, t)
            \/ k = "series" /\ t \in series
            \/ k = "finishing" /\ t \in finishing
            \/ k = "cq" /\ \E ok \in BOOLEAN : <<t, ok>> \in cq
            \/ k = "over" /\ (status_[t] = "gone" \/ t \in abandoned)

(* A task that was created is of one kind, one that was not is of none.    *)
OneKind == \A t \in Tasks :
  IF t <= created THEN \E k \in Kinds : \A l \in Kinds : Is(t, l) <=> l = k
                  ELSE \A l \in Kinds : ~Is(t, l)

(* Of its kind it is there once.                                           *)
Once == /\ Distinct(m_queue) /\ NoTask \notin ToSet(m_queue)
        /\ \A v, w \in Workers, t \in Tasks : Handled(v, t) /\ Handled(w, t) => v = w
        /\ \A t \in Tasks, a, b \in BOOLEAN : <<t, a>> \in cq /\ <<t, b>> \in cq => a = b

(* The last task created listens, or its call has arrived; when the server *)
(* is down it listens in vain.                                             *)
LastListens ==
  IF main = "down" THEN listening = {} /\ scq \subseteq {<<created, FALSE>>}
  ELSE \/ listening = {created} /\ scq = {}
       \/ listening = {} /\ scq = {<<created, TRUE>>} /\ created <= MaxCalls

(* A worker has a task from the queue until it is through with it; the     *)
(* task it has answered itself may be gone before.                         *)
WorkersRight ==
  /\ \A w \in Workers : at[w] # NoTask <=> pc[w] \in {"proceed", "dispatch", "answered"}
  /\ \A w \in Workers : pc[w] = "answered" => at[w] \in inline
  /\ main \in {"joined", "down"} => \A w \in Workers : pc[w] = "returned"
  /\ dangling \subseteq inline \cup Unparsable

ServiceInv == /\ TypeOK /\ LastListens /\ WorkersRight
              /\ main # "down" => OneKind /\ Once

-----------------------------------------------------------------------------
(* One task is created at first, and it listens.                           *)
LEMMA InitServes == Init => ServiceInv
<1> SUFFICES ASSUME Init PROVE ServiceInv
  OBVIOUS
<1> USE DEF Init
<1>1. 1 \in Tasks /\ \A t \in Tasks : t \in Nat /\ t >= 1
  BY MaxCallsNatural DEF Tasks
<1>2. ToSet(m_queue) = {} /\ Distinct(m_queue)
  BY DEF ToSet, Distinct
<1>3. TypeOK
  <2>1. created \in Tasks /\ listening \subseteq 1..created
    BY <1>1
  <2>2. pc \in [Workers -> Places] /\ at \in [Workers -> Tasks \cup {NoTask}]
    BY DEF Places
  <2>3. m_queue \in Seq(Tasks \cup {NoTask})
    OBVIOUS
  <2>4. last \in (Tasks \cup {NoTask}) \X BOOLEAN
    BY DEF Unset
  <2> QED BY <2>1, <2>2, <2>3, <2>4 DEF TypeOK
<1>4. LastListens /\ WorkersRight
  BY DEF LastListens, WorkersRight
<1>5. OneKind
  <2>1. ASSUME NEW t \in Tasks, NEW l \in Kinds PROVE Is(t, l) <=> t = 1 /\ l = "listening"
    BY <1>1, <1>2, <2>1 DEF Is, Handled, Kinds, NoTask
  <2> QED BY <1>1, <2>1 DEF OneKind, Kinds
<1>6. Once
  BY <1>1, <1>2 DEF Once, Handled, NoTask
<1> QED BY <1>3, <1>4, <1>5, <1>6 DEF ServiceInv

(* A task that changes its kind, and no other does.                        *)
LEMMA KindMoves ==
  ASSUME OneKind, created' = created, created \in Tasks,
         NEW t \in Tasks, NEW k \in Kinds, NEW m \in Kinds \ {k},
         Is(t, k), Is(t, m)', ~Is(t, k)',
         \A u \in Tasks, l \in Kinds : u # t \/ l \notin {k, m} => (Is(u, l)' <=> Is(u, l))
  PROVE  OneKind'
<1> SUFFICES ASSUME NEW u \in Tasks
             PROVE  IF u <= created THEN \E i \in Kinds : \A l \in Kinds : Is(u, l)' <=> l = i
                                    ELSE \A l \in Kinds : ~Is(u, l)'
  BY DEF OneKind
<1>1. CASE u # t
  BY <1>1 DEF OneKind
<1>2. CASE u = t
  <2>1. t <= created /\ \A l \in Kinds : Is(t, l) <=> l = k
    BY DEF OneKind
  <2>2. \A l \in Kinds : Is(t, l)' <=> l = m
    BY <2>1
  <2> QED BY <1>2, <2>1, <2>2
<1> QED BY <1>1, <1>2

(* A task of one kind is of no other.                                      *)
LEMMA KindIs ==
  ASSUME OneKind, NEW t \in Tasks, NEW k \in Kinds, Is(t, k)
  PROVE  t <= created /\ \A l \in Kinds : Is(t, l) => l = k
BY DEF OneKind

(* submit appends a task and wakes up one worker at most.                  *)
LEMMA SubmitIs ==
  ASSUME TypeOK, NEW t \in Tasks \cup {NoTask}, Submit(t)
  PROVE  /\ m_queue' \in Seq(Tasks \cup {NoTask}) /\ ToSet(m_queue') = ToSet(m_queue) \cup {t}
         /\ Distinct(m_queue) /\ t \notin ToSet(m_queue) => Distinct(m_queue')
         /\ pc' \in [Workers -> Places]
         /\ \A w \in Workers : pc'[w] = pc[w] \/ (pc[w] = "waiting" /\ pc'[w] = "woken")
<1>1. m_queue \in Seq(Tasks \cup {NoTask}) /\ pc \in [Workers -> Places]
  BY DEF TypeOK
<1>2. m_queue' = Append(m_queue, t)
  BY DEF Submit
<1>3. /\ pc' \in [Workers -> Places]
      /\ \A w \in Workers : pc'[w] = pc[w] \/ (pc[w] = "waiting" /\ pc'[w] = "woken")
  BY <1>1 DEF Submit, Waiting, Places
<1>4. m_queue' \in Seq(Tasks \cup {NoTask}) /\ ToSet(m_queue') = ToSet(m_queue) \cup {t}
  BY <1>1, <1>2, AppendSet
<1>5. Distinct(m_queue) /\ t \notin ToSet(m_queue) => Distinct(m_queue')
  BY <1>1, <1>2, DistinctAppend
<1> QED BY <1>3, <1>4, <1>5

(* Workers that sleep or wake up keep their tasks.                         *)
LEMMA HandledStays ==
  ASSUME UNCHANGED at, NEW w \in Workers, NEW t,
         pc'[w] = pc[w] \/ (pc[w] # "answered" /\ pc'[w] # "answered")
  PROVE  Handled(w, t)' <=> Handled(w, t)
BY DEF Handled

(* Steps that leave every task where it is: threads that test, sleep, wake *)
(* up, stop or start a series, and terminate up to the shutdown.           *)
LEMMA ThreadsKeep ==
  ASSUME ServiceInv,
         UNCHANGED <<listening, created, status_, scq, cq, m_queue, at, series, finishing, inline,
                     dangling, abandoned, last>>,
         t1' \in {"test", "next", "exited"}, t2' \in {"test", "next", "exited"},
         pc' \in [Workers -> Places], m_finish' \in BOOLEAN, missed' \subseteq Workers,
         aborted' \in BOOLEAN,
         \A w \in Workers : \/ pc'[w] = pc[w]
                            \/ pc[w] = "proceed" /\ pc'[w] = "dispatch"
                            \/ /\ pc[w] \in {"loop", "tested", "waiting", "woken"}
                               /\ pc'[w] \in {"tested", "waiting", "woken", "returned"},
         main' = main \/ main' \in {"stopping", "notified", "joined"},
         main # "down" \/ main' = "down",
         main' \in {"joined", "down"} => \A w \in Workers : pc'[w] = "returned"
  PROVE  ServiceInv'
<1>1. TypeOK'
  BY DEF ServiceInv, TypeOK
<1>2. (main' = "down") = (main = "down")
  OBVIOUS
<1>3. LastListens'
  BY <1>2 DEF ServiceInv, LastListens
<1>4. WorkersRight'
  BY DEF ServiceInv, WorkersRight
<1>5. \A w \in Workers, t \in Tasks : Handled(w, t)' <=> Handled(w, t)
  BY HandledStays
<1>6. ASSUME main # "down" PROVE OneKind' /\ Once'
  <2>1. OneKind /\ Once
    BY <1>6 DEF ServiceInv
  <2>2. ASSUME NEW t \in Tasks, NEW l \in Kinds PROVE Is(t, l)' <=> Is(t, l)
    <3>1. (\E w \in Workers : Handled(w, t)') <=> \E w \in Workers : Handled(w, t)
      BY <1>5
    <3> HIDE DEF Handled
    <3> QED BY <3>1 DEF Is
  <2>3. OneKind'
    BY <2>1, <2>2 DEF OneKind
  <2>4. Once'
    BY <1>5, <2>1 DEF Once
  <2> QED BY <2>3, <2>4
<1> QED BY <1>1, <1>2, <1>3, <1>4, <1>6 DEF ServiceInv

-----------------------------------------------------------------------------
(* A call makes of the task that listens one that is in scq_.              *)
LEMMA ArriveKeeps ==
  ASSUME ServiceInv, NEW t \in Tasks, Arrive(t)
  PROVE  ServiceInv'
<1>1. /\ t \in listening /\ t <= MaxCalls /\ main # "down"
      /\ listening' = listening \ {t} /\ scq' = scq \cup {<<t, TRUE>>}
      /\ UNCHANGED <<created, cq, t1, t2, last, m_queue, pc, at, series, finishing, status_,
                     m_finish, main, inline, dangling, abandoned, missed>>
      /\ aborted' \in BOOLEAN
  BY DEF Arrive, work, history, Lives
<1>2. TypeOK'
  <2>1. <<t, TRUE>> \in Tasks \X BOOLEAN
    OBVIOUS
  <2>2. listening' \subseteq 1..created /\ scq' \subseteq Tasks \X BOOLEAN
    BY <1>1, <2>1 DEF ServiceInv, TypeOK
  <2> QED BY <1>1, <2>2 DEF ServiceInv, TypeOK
<1>3. t = created /\ LastListens'
  BY <1>1 DEF ServiceInv, LastListens
<1>4. WorkersRight'
  BY <1>1 DEF ServiceInv, WorkersRight
<1>5. OneKind /\ Once /\ created \in Tasks
  BY <1>1 DEF ServiceInv, TypeOK
<1>6. \A w \in Workers, u \in Tasks : Handled(w, u)' <=> Handled(w, u)
  BY <1>1 DEF Handled
<1>7. OneKind'
  <2>1. Is(t, "listening") /\ Is(t, "scq")' /\ ~Is(t, "listening")'
    BY <1>1 DEF Is
  <2>2. ASSUME NEW u \in Tasks, NEW l \in Kinds, u # t \/ l \notin {"listening", "scq"}
        PROVE  Is(u, l)' <=> Is(u, l)
    <3>1. (\E w \in Workers : Handled(w, u)') <=> \E w \in Workers : Handled(w, u)
      BY <1>6
    <3>2. u # t => (u \in listening' <=> u \in listening)
                   /\ \A ok \in BOOLEAN : <<u, ok>> \in scq' <=> <<u, ok>> \in scq
      BY <1>1
    <3> HIDE DEF Handled
    <3> QED BY <1>1, <2>2, <3>1, <3>2 DEF Is
  <2> HIDE DEF Is
  <2> QED BY <1>1, <1>5, <2>1, <2>2, KindMoves DEF Kinds
<1>8. Once'
  BY <1>1, <1>5, <1>6 DEF Once
<1> QED BY <1>2, <1>3, <1>4, <1>7, <1>8 DEF ServiceInv

(* t2 takes the call from scq_ to the queue, and the next task listens.    *)
LEMMA CallArrivedKeeps ==
  ASSUME ServiceInv, CallArrived
  PROVE  ServiceInv'
<1>1. PICK e \in scq :
        /\ scq' = scq \ {e}
        /\ IF e[2] THEN Register /\ Submit(e[1])
                   ELSE UNCHANGED <<listening, created, m_queue, pc>>
        /\ t2' = "test"
        /\ UNCHANGED <<cq, t1, last, at, series, finishing, status_, m_finish, main, inline,
                       dangling, abandoned, missed>>
        /\ aborted' \in BOOLEAN
  BY DEF CallArrived, history, Lives
<1>2. TypeOK /\ created \in Tasks /\ created \in Nat /\ created >= 1
  BY MaxCallsNatural DEF ServiceInv, TypeOK, Tasks
<1>3. CASE main = "down"
  <2>1. e = <<created, FALSE>>
    BY <1>1, <1>3 DEF ServiceInv, LastListens
  <2>2. UNCHANGED <<listening, created, m_queue, pc>>
    BY <1>1, <2>1
  <2>3. TypeOK'
    BY <1>1, <1>2, <2>2 DEF TypeOK
  <2>4. LastListens' /\ WorkersRight'
    BY <1>1, <1>3, <2>2 DEF ServiceInv, LastListens, WorkersRight
  <2> QED BY <1>1, <1>3, <2>3, <2>4 DEF ServiceInv
<1>4. CASE main # "down"
  <2> DEFINE n == created + 1
  <2>1. e = <<created, TRUE>> /\ listening = {} /\ scq' = {} /\ created <= MaxCalls
    BY <1>1, <1>4 DEF ServiceInv, LastListens
  <2>2. listening' = {n} /\ created' = n /\ Submit(created)
    BY <1>1, <2>1 DEF Register
  <2>3. n \in Tasks /\ n \in 1..n /\ n # created
    BY <1>2, <2>1, MaxCallsNatural DEF Tasks
  <2>4. OneKind /\ Once
    BY <1>4 DEF ServiceInv
  <2>5. Is(created, "scq")
    BY <1>1, <2>1 DEF Is
  <2>6. created \notin ToSet(m_queue)
    <3>1. ~Is(created, "queue")
      BY <1>2, <2>4, <2>5, KindIs DEF Kinds
    <3> QED BY <3>1 DEF Is
  <2>7. /\ m_queue' \in Seq(Tasks \cup {NoTask}) /\ ToSet(m_queue') = ToSet(m_queue) \cup {created}
        /\ Distinct(m_queue') /\ pc' \in [Workers -> Places]
        /\ \A w \in Workers : pc'[w] = pc[w] \/ (pc[w] = "waiting" /\ pc'[w] = "woken")
    BY <1>2, <2>2, <2>4, <2>6, SubmitIs DEF Once
  <2>8. TypeOK'
    BY <1>1, <1>2, <2>1, <2>2, <2>3, <2>7 DEF TypeOK
  <2>9. LastListens'
    BY <1>1, <1>4, <2>1, <2>2 DEF LastListens
  <2>10. WorkersRight'
    BY <1>1, <2>7 DEF ServiceInv, WorkersRight
  <2>11. \A w \in Workers, t \in Tasks : Handled(w, t)' <=> Handled(w, t)
    BY <1>1, <2>7, HandledStays
  <2>12. OneKind'
    <3>1. ASSUME NEW t \in Tasks, NEW l \in Kinds
          PROVE  Is(t, l)' <=> IF t = created THEN l = "queue"
                          ELSE IF t = n THEN l = "listening" ELSE Is(t, l)
      <4>1. (\E w \in Workers : Handled(w, t)') <=> \E w \in Workers : Handled(w, t)
        BY <2>11
      <4>2. \A k \in Kinds : Is(created, k) <=> k = "scq"
        BY <1>2, <2>4, <2>5, KindIs DEF Kinds
      <4>3. \A k \in Kinds : ~Is(n, k)
        BY <1>2, <2>3, <2>4 DEF OneKind
      <4>4. scq = {<<created, TRUE>>}
        BY <1>1, <1>4 DEF ServiceInv, LastListens
      <4> HIDE DEF Handled, n
      <4>5. CASE t # created /\ t # n
        <5>1. \A ok \in BOOLEAN : <<t, ok>> \notin scq' /\ <<t, ok>> \notin scq
          BY <2>1, <4>4, <4>5
        <5> QED BY <1>1, <2>1, <2>2, <2>7, <4>1, <4>5, <5>1 DEF Is
      <4>6. CASE t = created
        <5>1. Is(t, l)' <=> l = "queue" \/ (l # "scq" /\ Is(t, l))
          BY <1>1, <2>1, <2>2, <2>3, <2>7, <4>1, <4>6 DEF Is
        <5> HIDE DEF Is
        <5> QED BY <4>2, <4>6, <5>1
      <4>7. CASE t = n
        <5>1. Is(t, l)' <=> l = "listening" \/ Is(t, l)
          BY <1>1, <2>1, <2>2, <2>3, <2>7, <4>1, <4>4, <4>7 DEF Is
        <5> HIDE DEF Is
        <5> QED BY <2>3, <4>3, <4>7, <5>1
      <4> QED BY <4>5, <4>6, <4>7
    <3>2. \A t \in Tasks : t \in Nat /\ (t <= n <=> t <= created \/ t = n)
      BY <1>2, MaxCallsNatural DEF Tasks
    <3> HIDE DEF Is, n
    <3> SUFFICES ASSUME NEW t \in Tasks
                 PROVE  IF t <= n THEN \E i \in Kinds : \A l \in Kinds : Is(t, l)' <=> l = i
                                  ELSE \A l \in Kinds : ~Is(t, l)'
      BY <2>2 DEF OneKind
    <3>3. CASE t = created \/ t = n
      <4>1. \E i \in Kinds : \A l \in Kinds : Is(t, l)' <=> l = i
        BY <2>3, <3>1, <3>3 DEF Kinds
      <4>2. t <= n
        BY <1>2, <3>2, <3>3
      <4> QED BY <4>1, <4>2
    <3>4. CASE t # created /\ t # n
      <4>1. \A l \in Kinds : Is(t, l)' <=> Is(t, l)
        BY <3>1, <3>4
      <4> QED BY <2>4, <3>2, <3>4, <4>1 DEF OneKind
    <3> QED BY <3>3, <3>4
  <2>13. Once'
    <3>1. NoTask \notin ToSet(m_queue')
      BY <1>2, <2>4, <2>7 DEF Once, NoTask
    <3>2. \A v, w \in Workers, t \in Tasks : Handled(v, t)' /\ Handled(w, t)' => v = w
      BY <2>4, <2>11 DEF Once
    <3> QED BY <1>1, <2>4, <2>7, <3>1, <3>2 DEF Once
  <2> QED BY <2>8, <2>9, <2>10, <2>12, <2>13 DEF ServiceInv
<1> QED BY <1>3, <1>4

(* t1 takes the task of a reply that was sent to the queue, and forgets    *)
(* the other.                                                              *)
LEMMA ReplySentKeeps ==
  ASSUME ServiceInv, ReplySent
  PROVE  ServiceInv'
<1>1. PICK e \in cq :
        /\ cq' = cq \ {e} /\ last' = e
        /\ IF e[2] THEN Submit(e[1]) /\ UNCHANGED abandoned
                   ELSE abandoned' = abandoned \cup {e[1]} /\ UNCHANGED <<m_queue, pc>>
        /\ t1' = "test"
        /\ UNCHANGED <<listening, created, scq, t2, at, series, finishing, status_, m_finish,
                       main, inline, dangling, missed>>
        /\ aborted' \in BOOLEAN
  BY DEF ReplySent, Lives
<1>2. TypeOK /\ created \in Tasks /\ m_queue \in Seq(Tasks \cup {NoTask})
  BY DEF ServiceInv, TypeOK
<1>3. PICK t \in Tasks, ok \in BOOLEAN : e = <<t, ok>>
  BY <1>1, <1>2 DEF TypeOK
<1>4. ok => Submit(t) /\ UNCHANGED abandoned
  BY <1>1, <1>3
<1>5. ~ok => abandoned' = abandoned \cup {t} /\ UNCHANGED <<m_queue, pc>>
  BY <1>1, <1>3
<1>6. /\ m_queue' \in Seq(Tasks \cup {NoTask}) /\ pc' \in [Workers -> Places]
      /\ \A w \in Workers : pc'[w] = pc[w] \/ (pc[w] = "waiting" /\ pc'[w] = "woken")
      /\ ToSet(m_queue') = IF ok THEN ToSet(m_queue) \cup {t} ELSE ToSet(m_queue)
      /\ Distinct(m_queue) /\ t \notin ToSet(m_queue) => Distinct(m_queue')
  <2>1. CASE ok
    BY <1>2, <1>4, <2>1, SubmitIs
  <2>2. CASE ~ok
    BY <1>2, <1>5, <2>2 DEF TypeOK
  <2> QED BY <2>1, <2>2
<1>7. TypeOK'
  <2>1. last' \in (Tasks \cup {NoTask}) \X BOOLEAN /\ cq' \subseteq Tasks \X BOOLEAN
    BY <1>1, <1>2, <1>3 DEF TypeOK
  <2>2. abandoned' \subseteq Tasks
    BY <1>2, <1>4, <1>5 DEF TypeOK
  <2> QED BY <1>1, <1>2, <1>6, <2>1, <2>2 DEF TypeOK
<1>8. LastListens' /\ WorkersRight'
  BY <1>1, <1>6 DEF ServiceInv, LastListens, WorkersRight
<1>9. \A w \in Workers, u \in Tasks : Handled(w, u)' <=> Handled(w, u)
  BY <1>1, <1>6, HandledStays
<1>10. ASSUME main # "down" PROVE OneKind' /\ Once'
  <2>1. OneKind /\ Once
    BY <1>10 DEF ServiceInv
  <2>2. Is(t, "cq")
    BY <1>1, <1>3 DEF Is
  <2>3. t \notin ToSet(m_queue)
    <3>1. ~Is(t, "queue")
      BY <2>1, <2>2, KindIs DEF Kinds
    <3> QED BY <3>1 DEF Is
  <2> DEFINE m == IF ok THEN "queue" ELSE "over"
  <2>4. /\ \A b \in BOOLEAN : <<t, b>> \notin cq'
        /\ \A u \in Tasks, b \in BOOLEAN : u # t => (<<u, b>> \in cq' <=> <<u, b>> \in cq)
    BY <1>1, <1>3, <2>1 DEF Once
  <2>5. Is(t, m)' /\ ~Is(t, "cq")'
    <3>1. ~Is(t, "cq")'
      BY <2>4 DEF Is
    <3>2. ASSUME ok PROVE Is(t, "queue")'
      BY <1>6, <3>2 DEF Is
    <3>3. ASSUME ~ok PROVE Is(t, "over")'
      BY <1>5, <3>3 DEF Is
    <3> HIDE DEF Is
    <3> QED BY <3>1, <3>2, <3>3
  <2>6. ASSUME NEW u \in Tasks, NEW l \in Kinds, u # t \/ l \notin {"cq", m}
        PROVE  Is(u, l)' <=> Is(u, l)
    <3>1. (\E w \in Workers : Handled(w, u)') <=> \E w \in Workers : Handled(w, u)
      BY <1>9
    <3>2. (u \in ToSet(m_queue') <=> u \in ToSet(m_queue)) \/ (u = t /\ ok)
      BY <1>6
    <3>3. (u \in abandoned' <=> u \in abandoned) \/ (u = t /\ ~ok)
      BY <1>4, <1>5
    <3> HIDE DEF Handled
    <3> QED BY <1>1, <2>4, <2>6, <3>1, <3>2, <3>3 DEF Is
  <2>7. OneKind'
    <3> HIDE DEF Is
    <3> QED BY <1>1, <1>2, <2>1, <2>2, <2>5, <2>6, KindMoves DEF Kinds
  <2>8. Once'
    <3>1. NoTask \notin ToSet(m_queue')
      BY <1>6, <2>1, MaxCallsNatural DEF Once, NoTask, Tasks
    <3>2. \A v, w \in Workers, u \in Tasks : Handled(v, u)' /\ Handled(w, u)' => v = w
      BY <1>9, <2>1 DEF Once
    <3>3. \A u \in Tasks : \A a, b \in BOOLEAN : <<u, a>> \in cq' /\ <<u, b>> \in cq' => a = b
      BY <1>1, <2>1 DEF Once
    <3> QED BY <1>6, <2>1, <2>3, <3>1, <3>2, <3>3 DEF Once
  <2> QED BY <2>7, <2>8
<1> QED BY <1>1, <1>7, <1>8, <1>10 DEF ServiceInv

(* With its queue shut down t1 takes its last event again and again; there *)
(* is no worker that takes what it submits.                                *)
LEMMA DrainedKeeps ==
  ASSUME ServiceInv, Drained1
  PROVE  ServiceInv'
<1>1. /\ main = "down" /\ t1' = "test"
      /\ Submit(last[1]) \/ UNCHANGED <<m_queue, pc>>
      /\ UNCHANGED <<listening, created, scq, cq, t2, last, at, series, finishing, status_,
                     m_finish, main, inline, dangling, abandoned, missed>>
      /\ aborted' \in BOOLEAN
  BY DEF Drained1, Again, history, Lives
<1>2. TypeOK
  BY DEF ServiceInv
<1>3. last[1] \in Tasks \cup {NoTask}
  BY <1>2 DEF TypeOK
<1>4. /\ m_queue' \in Seq(Tasks \cup {NoTask}) /\ pc' \in [Workers -> Places]
      /\ \A w \in Workers : pc'[w] = pc[w] \/ (pc[w] = "waiting" /\ pc'[w] = "woken")
  <2>1. CASE Submit(last[1])
    BY <1>2, <1>3, <2>1, SubmitIs
  <2>2. CASE UNCHANGED <<m_queue, pc>>
    BY <1>2, <2>2 DEF TypeOK
  <2> QED BY <1>1, <2>1, <2>2
<1>5. TypeOK'
  BY <1>1, <1>2, <1>4 DEF TypeOK
<1>6. LastListens' /\ WorkersRight'
  BY <1>1, <1>4 DEF ServiceInv, LastListens, WorkersRight
<1> QED BY <1>1, <1>5, <1>6 DEF ServiceInv

(* The library takes a finished task to cq_.                               *)
LEMMA FinishDoneKeeps ==
  ASSUME ServiceInv, NEW t \in Tasks, NEW ok \in BOOLEAN, FinishDone(t, ok)
  PROVE  ServiceInv'
<1>1. /\ t \in finishing /\ finishing' = finishing \ {t} /\ cq' = cq \cup {<<t, ok>>}
      /\ UNCHANGED <<listening, created, scq, t1, t2, last, m_queue, pc, at, series, status_,
                     m_finish, main, inline, dangling, abandoned, missed>>
      /\ aborted' \in BOOLEAN
  BY DEF FinishDone, history, Lives
<1>2. TypeOK'
  <2>1. <<t, ok>> \in Tasks \X BOOLEAN
    OBVIOUS
  <2>2. finishing' \subseteq Tasks /\ cq' \subseteq Tasks \X BOOLEAN
    BY <1>1, <2>1 DEF ServiceInv, TypeOK
  <2> QED BY <1>1, <2>2 DEF ServiceInv, TypeOK
<1>3. LastListens' /\ WorkersRight'
  BY <1>1 DEF ServiceInv, LastListens, WorkersRight
<1>4. \A w \in Workers, u \in Tasks : Handled(w, u)' <=> Handled(w, u)
  BY <1>1 DEF Handled
<1>5. ASSUME main # "down" PROVE OneKind' /\ Once'
  <2>1. OneKind /\ Once /\ created \in Tasks
    BY <1>5 DEF ServiceInv, TypeOK
  <2>2. Is(t, "finishing") /\ Is(t, "cq")' /\ ~Is(t, "finishing")'
    BY <1>1 DEF Is
  <2>3. ~Is(t, "cq")
    BY <2>1, <2>2, KindIs DEF Kinds
  <2>4. \A b \in BOOLEAN : <<t, b>> \notin cq
    BY <2>3 DEF Is
  <2>5. ASSUME NEW u \in Tasks, NEW l \in Kinds, u # t \/ l \notin {"finishing", "cq"}
        PROVE  Is(u, l)' <=> Is(u, l)
    <3>1. (\E w \in Workers : Handled(w, u)') <=> \E w \in Workers : Handled(w, u)
      BY <1>4
    <3>2. u # t => (u \in finishing' <=> u \in finishing)
                   /\ \A b \in BOOLEAN : <<u, b>> \in cq' <=> <<u, b>> \in cq
      BY <1>1
    <3> HIDE DEF Handled
    <3> QED BY <1>1, <2>5, <3>1, <3>2 DEF Is
  <2>6. OneKind'
    <3> HIDE DEF Is
    <3> QED BY <1>1, <2>1, <2>2, <2>5, KindMoves DEF Kinds
  <2>7. Once'
    <3>1. \A u \in Tasks : \A a, b \in BOOLEAN : <<u, a>> \in cq' /\ <<u, b>> \in cq' => a = b
      BY <1>1, <2>1, <2>4 DEF Once
    <3>2. \A v, w \in Workers, u \in Tasks : Handled(v, u)' /\ Handled(w, u)' => v = w
      BY <1>4, <2>1 DEF Once
    <3> QED BY <1>1, <2>1, <3>1, <3>2 DEF Once
  <2> QED BY <2>6, <2>7
<1> QED BY <1>1, <1>2, <1>3, <1>5 DEF ServiceInv

-----------------------------------------------------------------------------
(* A worker takes the first task of the queue.                             *)
LEMMA TakeKeeps ==
  ASSUME ServiceInv, NEW w \in Workers, Take(w)
  PROVE  ServiceInv'
<1>0. PICK t : t = Head(m_queue)
  OBVIOUS
<1>1. /\ pc[w] \in {"loop", "woken"} /\ m_queue # <<>>
      /\ at' = [at EXCEPT ![w] = t] /\ m_queue' = Tail(m_queue)
      /\ pc' = [pc EXCEPT ![w] = "proceed"]
      /\ UNCHANGED <<listening, created, scq, cq, t1, t2, last, series, finishing, status_,
                     m_finish, main, inline, dangling, abandoned, missed>>
      /\ aborted' \in BOOLEAN
  BY <1>0 DEF Take, Competes, server, history, Lives
<1>2. /\ TypeOK /\ created \in Tasks /\ m_queue \in Seq(Tasks \cup {NoTask})
      /\ at \in [Workers -> Tasks \cup {NoTask}] /\ pc \in [Workers -> Places]
  BY DEF ServiceInv, TypeOK
<1>3. /\ t \in Tasks \cup {NoTask} /\ m_queue' \in Seq(Tasks \cup {NoTask})
      /\ ToSet(m_queue) = {t} \cup ToSet(m_queue')
  BY <1>0, <1>1, <1>2, TailSet
<1>4. main \notin {"joined", "down"}
  BY <1>1 DEF ServiceInv, WorkersRight
<1>5. OneKind /\ Once
  BY <1>4 DEF ServiceInv
<1>6. Distinct(m_queue') /\ t \notin ToSet(m_queue') /\ t \in Tasks
  <2>1. Distinct(m_queue') /\ t \notin ToSet(m_queue')
    BY <1>0, <1>1, <1>2, <1>5, DistinctTail DEF Once
  <2>2. t # NoTask
    BY <1>3, <1>5 DEF Once
  <2> QED BY <1>3, <2>1, <2>2
<1>7. at[w] = NoTask /\ t # NoTask
  <2>1. at[w] = NoTask
    BY <1>1 DEF ServiceInv, WorkersRight
  <2> QED BY <1>6, <2>1, MaxCallsNatural DEF Tasks, NoTask
<1>8. /\ at' \in [Workers -> Tasks \cup {NoTask}] /\ at'[w] = t
      /\ pc' \in [Workers -> Places] /\ pc'[w] = "proceed"
      /\ \A v \in Workers : v # w => at'[v] = at[v] /\ pc'[v] = pc[v]
  BY <1>1, <1>2, <1>3 DEF Places
<1>9. TypeOK'
  BY <1>1, <1>2, <1>3, <1>8 DEF TypeOK
<1>10. LastListens'
  BY <1>1 DEF ServiceInv, LastListens
<1>11. WorkersRight'
  BY <1>1, <1>4, <1>7, <1>8 DEF ServiceInv, WorkersRight
<1>12. Handled(w, t)'
  BY <1>8 DEF Handled
<1>13. ASSUME NEW v \in Workers, NEW u \in Tasks, v # w \/ u # t
       PROVE  Handled(v, u)' <=> Handled(v, u)
  <2>1. CASE v # w
    BY <1>8, <2>1 DEF Handled
  <2>2. CASE v = w
    <3>1. at[v] # u
      BY <1>7, <2>2, MaxCallsNatural DEF Tasks, NoTask
    <3> QED BY <1>8, <1>13, <2>2, <3>1 DEF Handled
  <2> QED BY <2>1, <2>2
<1>14. Is(t, "queue") /\ Is(t, "worker")' /\ ~Is(t, "queue")'
  BY <1>3, <1>6, <1>12 DEF Is
<1>15. OneKind'
  <2>1. ASSUME NEW u \in Tasks, NEW l \in Kinds, u # t \/ l \notin {"queue", "worker"}
        PROVE  Is(u, l)' <=> Is(u, l)
    <3>1. u # t => ((\E v \in Workers : Handled(v, u)') <=> \E v \in Workers : Handled(v, u))
      BY <1>13
    <3>2. u # t => (u \in ToSet(m_queue') <=> u \in ToSet(m_queue))
      BY <1>3
    <3> HIDE DEF Handled
    <3> QED BY <1>1, <2>1, <3>1, <3>2 DEF Is
  <2> HIDE DEF Is
  <2> QED BY <1>1, <1>2, <1>5, <1>6, <1>14, <2>1, KindMoves DEF Kinds
<1>16. Once'
  <2>1. \A v \in Workers : ~Handled(v, t)
    <3>1. ~Is(t, "worker")
      BY <1>5, <1>6, <1>14, KindIs DEF Kinds
    <3> HIDE DEF Handled
    <3> QED BY <3>1 DEF Is
  <2>2. ASSUME NEW v \in Workers, NEW x \in Workers, NEW u \in Tasks, Handled(v, u)', Handled(x, u)'
        PROVE  v = x
    <3>1. CASE u = t
      BY <1>13, <2>1, <2>2, <3>1
    <3>2. CASE u # t
      BY <1>5, <1>13, <2>2, <3>2 DEF Once
    <3> QED BY <3>1, <3>2
  <2>3. NoTask \notin ToSet(m_queue')
    BY <1>3, <1>5 DEF Once
  <2> QED BY <1>1, <1>5, <1>6, <2>2, <2>3 DEF Once
<1> QED BY <1>9, <1>10, <1>11, <1>15, <1>16 DEF ServiceInv

(* A worker gives the task it handles away: it deletes it, or dispatches   *)
(* its search; its place is then "answered" if it has answered itself.     *)
LEMMA WorkerGives ==
  ASSUME ServiceInv, NEW w \in Workers, pc[w] \in {"proceed", "dispatch"},
         NEW x \in {"loop", "answered"}, pc' = [pc EXCEPT ![w] = x],
         at' = [at EXCEPT ![w] = IF x = "loop" THEN NoTask ELSE at[w]],
         UNCHANGED <<server, m_queue, m_finish, main, abandoned, missed>>,
         series' \subseteq Tasks, finishing' \subseteq Tasks, inline' \subseteq Tasks,
         dangling' \subseteq Tasks, dangling' \subseteq inline' \cup Unparsable,
         inline \subseteq inline', aborted' \in BOOLEAN,
         x = "answered" => at[w] \in inline',
         status_' \in [Tasks -> {"PROCESS", "FINISH", "gone"}],
         NEW m \in {"series", "finishing", "over"},
         \A u \in Tasks : /\ u \in series' <=> u \in series \/ (u = at[w] /\ m = "series")
                          /\ u \in finishing' <=> u \in finishing \/ (u = at[w] /\ m = "finishing")
                          /\ (status_'[u] = "gone") = IF u = at[w] THEN m = "over"
                                                                   ELSE status_[u] = "gone"
  PROVE  ServiceInv'
<1>0. PICK t : t = at[w]
  OBVIOUS
<1>1. UNCHANGED <<listening, created, scq, cq, t1, t2, last>>
  BY DEF server
<1>2. /\ TypeOK /\ created \in Tasks /\ at \in [Workers -> Tasks \cup {NoTask}]
      /\ pc \in [Workers -> Places]
  BY DEF ServiceInv, TypeOK
<1>3. t \in Tasks /\ main \notin {"joined", "down"} /\ OneKind /\ Once
  BY <1>0, <1>2 DEF ServiceInv, WorkersRight
<1>4. /\ at' \in [Workers -> Tasks \cup {NoTask}] /\ at'[w] = IF x = "loop" THEN NoTask ELSE t
      /\ pc' \in [Workers -> Places] /\ pc'[w] = x
      /\ \A v \in Workers : v # w => at'[v] = at[v] /\ pc'[v] = pc[v]
  BY <1>0, <1>2 DEF Places
<1>5. t # NoTask
  BY <1>3, MaxCallsNatural DEF Tasks, NoTask
<1>6. TypeOK'
  BY <1>1, <1>2, <1>4 DEF TypeOK
<1>7. LastListens'
  BY <1>1 DEF ServiceInv, LastListens
<1>8. WorkersRight'
  <2>1. \A v \in Workers : at'[v] # NoTask <=> pc'[v] \in {"proceed", "dispatch", "answered"}
    BY <1>4, <1>5 DEF ServiceInv, WorkersRight
  <2>2. \A v \in Workers : pc'[v] = "answered" => at'[v] \in inline'
    BY <1>0, <1>4 DEF ServiceInv, WorkersRight
  <2> QED BY <1>3, <2>1, <2>2 DEF WorkersRight
<1>9. Handled(w, t)
  BY <1>0 DEF Handled
<1>10. \A u \in Tasks : ~Handled(w, u)'
  BY <1>4, MaxCallsNatural DEF Handled, Tasks, NoTask
<1>11. ASSUME NEW v \in Workers, NEW u \in Tasks, v # w \/ u # t
       PROVE  Handled(v, u)' <=> Handled(v, u)
  <2>1. CASE v # w
    BY <1>4, <2>1 DEF Handled
  <2>2. CASE v = w
    BY <1>10, <1>0, <1>11, <2>2 DEF Handled
  <2> QED BY <2>1, <2>2
<1>12. \A v \in Workers : ~Handled(v, t)'
  BY <1>3, <1>9, <1>10, <1>11 DEF Once
<1>13. Is(t, "worker") /\ ~Is(t, "worker")' /\ Is(t, m)'
  <2> HIDE DEF Handled
  <2>1. Is(t, "worker") /\ ~Is(t, "worker")'
    BY <1>9, <1>12 DEF Is
  <2>2. Is(t, m)'
    BY <1>0, <1>3 DEF Is
  <2> QED BY <2>1, <2>2
<1>14. OneKind'
  <2>1. \A l \in Kinds : Is(t, l) => l = "worker"
    BY <1>3, <1>13, KindIs DEF Kinds
  <2>2. ASSUME NEW u \in Tasks, NEW l \in Kinds, u # t \/ l \notin {"worker", m}
        PROVE  Is(u, l)' <=> Is(u, l)
    <3>1. u # t => ((\E v \in Workers : Handled(v, u)') <=> \E v \in Workers : Handled(v, u))
      BY <1>11
    <3>2. /\ u \in series' <=> u \in series \/ (u = t /\ m = "series")
          /\ u \in finishing' <=> u \in finishing \/ (u = t /\ m = "finishing")
          /\ status_'[u] = "gone" <=> IF u = t THEN m = "over" ELSE status_[u] = "gone"
      BY <1>0
    <3>3. CASE l = "over" /\ u = t
      <4>1. ~Is(t, "over")
        BY <2>1 DEF Kinds
      <4>2. t \notin abandoned
        BY <4>1 DEF Is
      <4> QED BY <2>2, <3>2, <3>3, <4>1, <4>2 DEF Is
    <3>4. CASE ~(l = "over" /\ u = t)
      <4> HIDE DEF Handled
      <4> QED BY <1>1, <2>2, <3>1, <3>2, <3>4 DEF Is
    <3> QED BY <3>3, <3>4
  <2> HIDE DEF Is
  <2> QED BY <1>1, <1>2, <1>3, <1>13, <2>2, KindMoves DEF Kinds
<1>15. Once'
  <2>1. \A v, y \in Workers, u \in Tasks : Handled(v, u)' /\ Handled(y, u)' => v = y
    BY <1>3, <1>10, <1>11 DEF Once
  <2> QED BY <1>1, <1>3, <2>1 DEF Once
<1> QED BY <1>6, <1>7, <1>8, <1>14, <1>15 DEF ServiceInv

(* proceed and dispatch.                                                   *)
LEMMA HandleKeeps ==
  ASSUME ServiceInv, NEW w \in Workers, Delete(w) \/ SearchLater(w) \/ SearchCached(w)
  PROVE  ServiceInv'
<1>1. /\ TypeOK /\ status_ \in [Tasks -> {"PROCESS", "FINISH", "gone"}]
      /\ at \in [Workers -> Tasks \cup {NoTask}]
  BY DEF ServiceInv, TypeOK
<1>2. /\ pc[w] \in {"proceed", "dispatch"} /\ at[w] \in Tasks
      /\ dangling \subseteq inline \cup Unparsable /\ OneKind
  <2>1. pc[w] \in {"proceed", "dispatch"}
    BY DEF Delete, SearchLater, SearchCached
  <2> QED BY <1>1, <2>1 DEF ServiceInv, WorkersRight
<1>3. status_[at[w]] # "gone" /\ at[w] \notin abandoned
  <2>1. Is(at[w], "worker")
    BY <1>2 DEF Is, Handled
  <2>2. ~Is(at[w], "over")
    BY <1>2, <2>1, KindIs DEF Kinds
  <2> QED BY <2>2 DEF Is
<1>4. CASE Delete(w)
  <2>1. /\ status_' = [status_ EXCEPT ![at[w]] = "gone"] /\ dangling' = dangling
        /\ pc' = [pc EXCEPT ![w] = "loop"] /\ at' = [at EXCEPT ![w] = NoTask]
        /\ UNCHANGED <<server, m_queue, series, finishing, m_finish, main, inline, abandoned,
                       missed>>
        /\ aborted' \in BOOLEAN
    BY <1>3, <1>4 DEF Delete, Lives
  <2>2. /\ status_' \in [Tasks -> {"PROCESS", "FINISH", "gone"}]
        /\ \A u \in Tasks : status_'[u] = IF u = at[w] THEN "gone" ELSE status_[u]
    BY <1>1, <1>2, <2>1
  <2>3. at' = [at EXCEPT ![w] = IF "loop" = "loop" THEN NoTask ELSE at[w]]
    BY <1>1, <2>1
  <2>4. /\ series' \subseteq Tasks /\ finishing' \subseteq Tasks /\ inline' \subseteq Tasks
        /\ dangling' \subseteq Tasks /\ dangling' \subseteq inline' \cup Unparsable
        /\ inline \subseteq inline'
    BY <1>1, <1>2, <2>1 DEF TypeOK
  <2>5. \A u \in Tasks :
          /\ u \in series' <=> u \in series \/ (u = at[w] /\ "over" = "series")
          /\ u \in finishing' <=> u \in finishing \/ (u = at[w] /\ "over" = "finishing")
          /\ (status_'[u] = "gone") = IF u = at[w] THEN "over" = "over" ELSE status_[u] = "gone"
    BY <2>1, <2>2
  <2> QED BY <1>2, <2>1, <2>2, <2>3, <2>4, <2>5, WorkerGives
<1>5. CASE SearchLater(w)
  <2>1. /\ series' = series \cup {at[w]}
        /\ pc' = [pc EXCEPT ![w] = "loop"] /\ at' = [at EXCEPT ![w] = NoTask]
        /\ UNCHANGED <<server, m_queue, finishing, status_, m_finish, main, inline, dangling,
                       abandoned, missed>>
        /\ aborted' \in BOOLEAN
    BY <1>5 DEF SearchLater, history, Lives
  <2>2. status_' \in [Tasks -> {"PROCESS", "FINISH", "gone"}]
    BY <1>1, <2>1
  <2>3. at' = [at EXCEPT ![w] = IF "loop" = "loop" THEN NoTask ELSE at[w]]
    BY <1>1, <2>1
  <2>4. /\ series' \subseteq Tasks /\ finishing' \subseteq Tasks /\ inline' \subseteq Tasks
        /\ dangling' \subseteq Tasks /\ dangling' \subseteq inline' \cup Unparsable
        /\ inline \subseteq inline'
    BY <1>1, <1>2, <2>1 DEF TypeOK
  <2>5. \A u \in Tasks :
          /\ u \in series' <=> u \in series \/ (u = at[w] /\ "series" = "series")
          /\ u \in finishing' <=> u \in finishing \/ (u = at[w] /\ "series" = "finishing")
          /\ (status_'[u] = "gone") = IF u = at[w] THEN "series" = "over" ELSE status_[u] = "gone"
    BY <1>3, <2>1
  <2> QED BY <1>2, <2>1, <2>2, <2>3, <2>4, <2>5, WorkerGives
<1>6. CASE SearchCached(w)
  <2>1. /\ status_' = [status_ EXCEPT ![at[w]] = "FINISH"]
        /\ finishing' = finishing \cup {at[w]} /\ inline' = inline \cup {at[w]}
        /\ pc' = [pc EXCEPT ![w] = "answered"] /\ at' = at
        /\ UNCHANGED <<server, m_queue, series, m_finish, main, dangling, abandoned, missed>>
        /\ aborted' \in BOOLEAN
    BY <1>6 DEF SearchCached, Callback, Lives
  <2>2. /\ status_' \in [Tasks -> {"PROCESS", "FINISH", "gone"}]
        /\ \A u \in Tasks : status_'[u] = IF u = at[w] THEN "FINISH" ELSE status_[u]
    BY <1>1, <1>2, <2>1
  <2>3. at' = [at EXCEPT ![w] = IF "answered" = "loop" THEN NoTask ELSE at[w]]
    BY <1>1, <2>1
  <2>4. /\ series' \subseteq Tasks /\ finishing' \subseteq Tasks /\ inline' \subseteq Tasks
        /\ dangling' \subseteq Tasks /\ dangling' \subseteq inline' \cup Unparsable
        /\ inline \subseteq inline'
        /\ at[w] \in inline'
    BY <1>1, <1>2, <2>1 DEF TypeOK
  <2>5. \A u \in Tasks :
          /\ u \in series' <=> u \in series \/ (u = at[w] /\ "finishing" = "series")
          /\ u \in finishing' <=> u \in finishing \/ (u = at[w] /\ "finishing" = "finishing")
          /\ (status_'[u] = "gone") = IF u = at[w] THEN "finishing" = "over"
                                                   ELSE status_[u] = "gone"
    BY <2>1, <2>2
  <2> QED BY <1>2, <2>1, <2>2, <2>3, <2>4, <2>5, WorkerGives
<1> QED BY <1>4, <1>5, <1>6

(* The use of a task behind its answer is the one that may come too late.  *)
LEMMA SubtaskDoneKeeps ==
  ASSUME ServiceInv, NEW w \in Workers, SubtaskDone(w)
  PROVE  ServiceInv'
<1>1. /\ pc[w] = "answered"
      /\ dangling' \in {dangling, dangling \cup {at[w]}}
      /\ pc' = [pc EXCEPT ![w] = "loop"] /\ at' = [at EXCEPT ![w] = NoTask]
      /\ UNCHANGED <<listening, created, scq, cq, t1, t2, last, m_queue, series, finishing,
                     status_, m_finish, main, inline, abandoned, missed>>
      /\ aborted' \in BOOLEAN
  BY DEF SubtaskDone, server, Lives
<1>2. TypeOK /\ at \in [Workers -> Tasks \cup {NoTask}] /\ pc \in [Workers -> Places]
  BY DEF ServiceInv, TypeOK
<1>3. at[w] \in inline /\ main \notin {"joined", "down"} /\ OneKind /\ Once
  BY <1>1 DEF ServiceInv, WorkersRight
<1>4. /\ at' \in [Workers -> Tasks \cup {NoTask}] /\ at'[w] = NoTask
      /\ pc' \in [Workers -> Places] /\ pc'[w] = "loop"
      /\ \A v \in Workers : v # w => at'[v] = at[v] /\ pc'[v] = pc[v]
  BY <1>1, <1>2 DEF Places
<1>5. TypeOK'
  BY <1>1, <1>2, <1>3, <1>4 DEF TypeOK
<1>6. LastListens'
  BY <1>1 DEF ServiceInv, LastListens
<1>7. WorkersRight'
  BY <1>1, <1>3, <1>4 DEF ServiceInv, WorkersRight
<1>8. ASSUME NEW v \in Workers, NEW u \in Tasks PROVE Handled(v, u)' <=> Handled(v, u)
  <2>1. u # NoTask
    BY MaxCallsNatural DEF Tasks, NoTask
  <2> QED BY <1>1, <1>4, <2>1 DEF Handled
<1>9. \A t \in Tasks, l \in Kinds : Is(t, l)' <=> Is(t, l)
  <2> SUFFICES ASSUME NEW t \in Tasks, NEW l \in Kinds PROVE Is(t, l)' <=> Is(t, l)
    OBVIOUS
  <2>1. (\E v \in Workers : Handled(v, t)') <=> \E v \in Workers : Handled(v, t)
    BY <1>8
  <2> HIDE DEF Handled
  <2> QED BY <1>1, <2>1 DEF Is
<1>10. OneKind'
  BY <1>1, <1>3, <1>9 DEF OneKind
<1>11. Once'
  BY <1>1, <1>3, <1>8 DEF Once
<1> QED BY <1>5, <1>6, <1>7, <1>10, <1>11 DEF ServiceInv

(* The series answers, or forgets the request.                             *)
LEMMA SeriesKeeps ==
  ASSUME ServiceInv, NEW t \in Tasks, SeriesAnswers(t) \/ SeriesForgets(t)
  PROVE  ServiceInv'
<1>1. PICK m \in {"finishing", "over"} :
        /\ t \in series /\ series' = series \ {t}
        /\ finishing' = IF m = "finishing" THEN finishing \cup {t} ELSE finishing
        /\ status_' = IF m = "finishing" THEN [status_ EXCEPT ![t] = "FINISH"] ELSE status_
        /\ abandoned' = IF m = "over" THEN abandoned \cup {t} ELSE abandoned
        /\ UNCHANGED <<listening, created, scq, cq, t1, t2, last, m_queue, pc, at, m_finish,
                       main, inline, dangling, missed>>
        /\ aborted' \in BOOLEAN
  <2>1. CASE SeriesAnswers(t)
    <3>1. /\ t \in series /\ series' = series \ {t}
          /\ finishing' = finishing \cup {t} /\ status_' = [status_ EXCEPT ![t] = "FINISH"]
          /\ UNCHANGED <<listening, created, scq, cq, t1, t2, last, m_queue, pc, at, m_finish,
                         main, inline, dangling, missed, abandoned>>
          /\ aborted' \in BOOLEAN
      BY <2>1 DEF SeriesAnswers, Callback, server, history, Lives
    <3> WITNESS "finishing" \in {"finishing", "over"}
    <3> QED BY <3>1
  <2>2. CASE SeriesForgets(t)
    <3>1. /\ t \in series /\ series' = series \ {t} /\ abandoned' = abandoned \cup {t}
          /\ UNCHANGED <<listening, created, scq, cq, t1, t2, last, m_queue, pc, at, m_finish,
                         main, inline, dangling, missed, finishing, status_>>
          /\ aborted' \in BOOLEAN
      BY <2>2 DEF SeriesForgets, server, Lives
    <3> WITNESS "over" \in {"finishing", "over"}
    <3> QED BY <3>1
  <2> QED BY <2>1, <2>2
<1>2. TypeOK /\ created \in Tasks /\ status_ \in [Tasks -> {"PROCESS", "FINISH", "gone"}]
  BY DEF ServiceInv, TypeOK
<1>3. /\ status_' \in [Tasks -> {"PROCESS", "FINISH", "gone"}]
      /\ \A u \in Tasks : u # t => status_'[u] = status_[u]
      /\ m = "finishing" => status_'[t] = "FINISH"
  BY <1>1, <1>2
<1>4. TypeOK'
  BY <1>1, <1>2, <1>3 DEF TypeOK
<1>5. LastListens' /\ WorkersRight'
  BY <1>1 DEF ServiceInv, LastListens, WorkersRight
<1>6. \A w \in Workers, u \in Tasks : Handled(w, u)' <=> Handled(w, u)
  BY <1>1 DEF Handled
<1>7. ASSUME main # "down" PROVE OneKind' /\ Once'
  <2>1. OneKind /\ Once
    BY <1>7 DEF ServiceInv
  <2>2. Is(t, "series") /\ ~Is(t, "series")'
    BY <1>1 DEF Is
  <2>3. Is(t, m)'
    BY <1>1 DEF Is
  <2>4. t \notin abandoned
    <3>1. ~Is(t, "over")
      BY <2>1, <2>2, KindIs DEF Kinds
    <3> QED BY <3>1 DEF Is
  <2>5. ASSUME NEW u \in Tasks, NEW l \in Kinds, u # t \/ l \notin {"series", m}
        PROVE  Is(u, l)' <=> Is(u, l)
    <3>1. (\E w \in Workers : Handled(w, u)') <=> \E w \in Workers : Handled(w, u)
      BY <1>6
    <3>2. CASE l = "over" /\ u = t
      <4>1. ~Is(t, "over")
        BY <2>1, <2>2, KindIs DEF Kinds
      <4> QED BY <1>1, <1>3, <2>4, <2>5, <3>2, <4>1 DEF Is
    <3>3. CASE ~(l = "over" /\ u = t)
      <4> HIDE DEF Handled
      <4> QED BY <1>1, <1>3, <2>5, <3>1, <3>3 DEF Is
    <3> QED BY <3>2, <3>3
  <2>6. OneKind'
    <3> HIDE DEF Is
    <3> QED BY <1>1, <1>2, <2>1, <2>2, <2>3, <2>5, KindMoves DEF Kinds
  <2>7. Once'
    BY <1>1, <1>6, <2>1 DEF Once
  <2> QED BY <2>6, <2>7
<1> QED BY <1>1, <1>4, <1>5, <1>7 DEF ServiceInv

(* A second callback moves no task: it comes too late, or the process ends.*)
LEMMA CallbackAgainKeeps ==
  ASSUME ServiceInv, NEW t \in Tasks, CallbackAgain(t)
  PROVE  ServiceInv'
<1>1. /\ t \in Unparsable /\ dangling' \in {dangling, dangling \cup {t}}
      /\ aborted' = aborted \/ aborted' = TRUE
      /\ UNCHANGED <<listening, created, scq, cq, t1, t2, last, m_queue, pc, at, series,
                     finishing, status_, m_finish, main, inline, abandoned, missed>>
  BY DEF CallbackAgain, server, work
<1>2. TypeOK'
  BY <1>1 DEF ServiceInv, TypeOK
<1>3. LastListens' /\ WorkersRight'
  BY <1>1 DEF ServiceInv, LastListens, WorkersRight
<1>4. ASSUME main # "down" PROVE OneKind' /\ Once'
  <2>1. \A u \in Tasks, l \in Kinds : Is(u, l)' <=> Is(u, l)
    BY <1>1 DEF Is, Handled
  <2>2. OneKind'
    BY <1>1, <1>4, <2>1 DEF ServiceInv, OneKind
  <2>3. Once'
    BY <1>1, <1>4 DEF ServiceInv, Once, Handled
  <2> QED BY <2>2, <2>3
<1> QED BY <1>1, <1>2, <1>3, <1>4 DEF ServiceInv

(* The server shuts down when no call is open.                             *)
LEMMA ShutdownKeeps ==
  ASSUME ServiceInv, ShutdownAll
  PROVE  ServiceInv'
<1>1. /\ main = "joined" /\ Open = {} /\ listening' = {} /\ main' = "down"
      /\ scq' = scq \cup {<<t, FALSE>> : t \in listening}
      /\ UNCHANGED <<created, cq, t1, t2, last, m_queue, pc, at, series, finishing, status_,
                     m_finish, inline, dangling, abandoned, missed>>
      /\ aborted' \in BOOLEAN
  BY DEF ShutdownAll, work, history, Lives
<1>2. TypeOK /\ created \in Tasks /\ created \in 1..created
  BY MaxCallsNatural DEF ServiceInv, TypeOK, Tasks
<1>3. listening = {created} /\ scq = {}
  <2>1. \/ listening = {created} /\ scq = {}
        \/ listening = {} /\ scq = {<<created, TRUE>>}
    BY <1>1 DEF ServiceInv, LastListens
  <2>2. OneKind
    BY <1>1 DEF ServiceInv
  <2>3. ASSUME listening = {}, scq = {<<created, TRUE>>} PROVE FALSE
    <3>1. status_[created] = "gone"
      BY <1>1, <1>2, <2>3 DEF Open
    <3>2. Is(created, "scq")
      BY <2>3 DEF Is
    <3>3. Is(created, "over")
      BY <3>1 DEF Is
    <3> QED BY <1>2, <2>2, <3>2, <3>3, KindIs DEF Kinds
  <2> QED BY <2>1, <2>3
<1>4. scq' = {<<created, FALSE>>}
  BY <1>1, <1>3
<1>5. TypeOK'
  <2>1. <<created, FALSE>> \in Tasks \X BOOLEAN
    BY <1>2
  <2>2. scq' \subseteq Tasks \X BOOLEAN
    BY <1>4, <2>1
  <2> QED BY <1>1, <1>2, <2>2 DEF TypeOK
<1>6. LastListens' /\ WorkersRight'
  BY <1>1, <1>4 DEF ServiceInv, LastListens, WorkersRight
<1> QED BY <1>1, <1>5, <1>6 DEF ServiceInv

-----------------------------------------------------------------------------
(* An owner of a task is what its kind says.                               *)
LEMMA OwnerIs ==
  ASSUME NEW t, NEW o
  PROVE  o \in Owners(t) <=>
           \/ \E ok \in BOOLEAN : o = <<"scq", ok>> /\ <<t, ok>> \in scq
           \/ \E ok \in BOOLEAN : o = <<"cq", ok>> /\ <<t, ok>> \in cq
           \/ \E i \in DOMAIN m_queue : o = <<"m_queue", i>> /\ m_queue[i] = t
           \/ \E w \in Workers : o = <<"worker", w>> /\ Handled(w, t)
           \/ o = <<"listening", t>> /\ t \in listening
           \/ o = <<"series", t>> /\ t \in series
           \/ o = <<"finishing", t>> /\ t \in finishing
BY DEF Owners, Handled

(* One kind, once: one owner.                                              *)
LEMMA OwnedOnce ==
  ASSUME ServiceInv, main # "down", NEW t \in 1..created
  PROVE  IF status_[t] = "gone" \/ t \in abandoned THEN Owners(t) = {}
                                                   ELSE \E o : Owners(t) = {o}
<1>1. t \in Tasks /\ t <= created /\ m_queue \in Seq(Tasks \cup {NoTask})
  BY MaxCallsNatural DEF ServiceInv, TypeOK, Tasks
<1>2. OneKind /\ Once
  BY DEF ServiceInv
<1>3. PICK k \in Kinds : \A l \in Kinds : Is(t, l) <=> l = k
  BY <1>1, <1>2 DEF OneKind
<1>4. \A l \in Kinds \ {k} : ~Is(t, l)
  BY <1>3
<1>5. /\ k # "listening" => t \notin listening
      /\ k # "scq" => \A ok \in BOOLEAN : <<t, ok>> \notin scq
      /\ k # "queue" => t \notin ToSet(m_queue)
      /\ k # "worker" => \A w \in Workers : ~Handled(w, t)
      /\ k # "series" => t \notin series
      /\ k # "finishing" => t \notin finishing
      /\ k # "cq" => \A ok \in BOOLEAN : <<t, ok>> \notin cq
      /\ k # "over" => ~(status_[t] = "gone" \/ t \in abandoned)
  <2> HIDE DEF Handled
  <2> QED BY <1>4 DEF Is, Kinds
<1>6. k # "queue" => \A i \in DOMAIN m_queue : m_queue[i] # t
  BY <1>5 DEF ToSet
<1>7. Is(t, k)
  BY <1>3
<1> HIDE DEF Handled
<1>8. CASE k = "over"
  <2>1. status_[t] = "gone" \/ t \in abandoned
    BY <1>7, <1>8 DEF Is
  <2>2. \A o : o \notin Owners(t)
    BY <1>5, <1>6, <1>8, OwnerIs
  <2> QED BY <2>1, <2>2
<1>9. ASSUME k # "over", NEW x \in Owners(t), \A o \in Owners(t) : o = x
      PROVE  IF status_[t] = "gone" \/ t \in abandoned THEN Owners(t) = {}
                                                       ELSE \E o : Owners(t) = {o}
  <2>1. Owners(t) = {x}
    BY <1>9
  <2> HIDE DEF Owners
  <2> QED BY <1>5, <1>9, <2>1
<1> HIDE DEF Owners
<1>10. CASE k \in {"listening", "series", "finishing"}
  <2>1. <<k, t>> \in Owners(t) /\ \A o \in Owners(t) : o = <<k, t>>
    BY <1>5, <1>6, <1>7, <1>10, OwnerIs DEF Is
  <2>2. k # "over"
    BY <1>10
  <2> QED BY <1>9, <2>1, <2>2
<1>11. CASE k = "scq"
  <2>1. scq = {<<t, TRUE>>}
    <3>1. PICK ok \in BOOLEAN : <<t, ok>> \in scq
      BY <1>7, <1>11 DEF Is
    <3>2. scq = {<<created, TRUE>>}
      BY <3>1 DEF ServiceInv, LastListens
    <3> QED BY <3>1, <3>2
  <2>2. <<"scq", TRUE>> \in Owners(t)
    BY <2>1, OwnerIs
  <2>3. ASSUME NEW o \in Owners(t) PROVE o = <<"scq", TRUE>>
    <3>1. PICK ok \in BOOLEAN : o = <<"scq", ok>> /\ <<t, ok>> \in scq
      BY <1>5, <1>6, <1>11, OwnerIs
    <3>2. ok = TRUE
      BY <2>1, <3>1
    <3> QED BY <3>1, <3>2
  <2> QED BY <1>9, <1>11, <2>2, <2>3
<1>12. CASE k = "cq"
  <2>1. PICK ok \in BOOLEAN : <<t, ok>> \in cq
    BY <1>7, <1>12 DEF Is
  <2>2. \A b \in BOOLEAN : <<t, b>> \in cq => b = ok
    BY <1>1, <1>2, <2>1 DEF Once
  <2>3. <<"cq", ok>> \in Owners(t)
    BY <2>1, OwnerIs
  <2>4. ASSUME NEW o \in Owners(t) PROVE o = <<"cq", ok>>
    <3>1. PICK b \in BOOLEAN : o = <<"cq", b>> /\ <<t, b>> \in cq
      BY <1>5, <1>6, <1>12, OwnerIs
    <3> QED BY <2>2, <3>1
  <2> QED BY <1>9, <1>12, <2>3, <2>4
<1>13. CASE k = "queue"
  <2>1. PICK i \in DOMAIN m_queue : m_queue[i] = t
    BY <1>7, <1>13 DEF Is, ToSet
  <2>2. \A j \in DOMAIN m_queue : m_queue[j] = t => j = i
    BY <1>1, <1>2, <2>1 DEF Once, Distinct
  <2>3. <<"m_queue", i>> \in Owners(t) /\ \A o \in Owners(t) : o = <<"m_queue", i>>
    <3>1. <<"m_queue", i>> \in Owners(t)
      BY <2>1, OwnerIs
    <3>2. ASSUME NEW o \in Owners(t) PROVE o = <<"m_queue", i>>
      <4>1. PICK j \in DOMAIN m_queue : o = <<"m_queue", j>> /\ m_queue[j] = t
        BY <1>5, <1>13, OwnerIs
      <4> QED BY <2>2, <4>1
    <3> QED BY <3>1, <3>2
  <2>4. k # "over"
    BY <1>13
  <2> QED BY <1>9, <2>3, <2>4
<1>14. CASE k = "worker"
  <2>1. PICK w \in Workers : Handled(w, t)
    BY <1>7, <1>14 DEF Is
  <2>2. \A v \in Workers : Handled(v, t) => v = w
    BY <1>1, <1>2, <2>1 DEF Once
  <2>3. <<"worker", w>> \in Owners(t) /\ \A o \in Owners(t) : o = <<"worker", w>>
    BY <1>5, <1>6, <1>14, <2>1, <2>2, OwnerIs
  <2>4. k # "over"
    BY <1>14
  <2> QED BY <1>9, <2>3, <2>4
<1> QED BY <1>8, <1>10, <1>11, <1>12, <1>13, <1>14 DEF Kinds

(* Every task is of one kind and there once as long as the server is up,   *)
(* and a deleted task is used only by the worker that answered it itself   *)
(* or by a second callback of its search.                                  *)
THEOREM ServiceInvariant == Spec => []ServiceInv
<1>1. ServiceInv /\ [Next]_vars => ServiceInv'
  <2> SUFFICES ASSUME ServiceInv, [Next]_vars PROVE ServiceInv'
    OBVIOUS
  <2> DEFINE Unmoved == UNCHANGED <<listening, created, status_, scq, cq, m_queue, at, series,
                                    finishing, inline, dangling, abandoned, last>>
  <2>1. /\ t1 \in {"test", "next", "exited"} /\ t2 \in {"test", "next", "exited"}
        /\ pc \in [Workers -> Places] /\ m_finish \in BOOLEAN /\ missed \subseteq Workers
        /\ aborted \in BOOLEAN
        /\ main \in {"joined", "down"} => \A w \in Workers : pc[w] = "returned"
    BY DEF ServiceInv, TypeOK, WorkersRight
  <2>2. CASE TestT1
    <3>1. /\ Unmoved /\ t1' \in {"next", "exited"} /\ aborted' \in BOOLEAN
          /\ UNCHANGED <<t2, pc, m_finish, main, missed>>
      BY <2>2 DEF TestT1, work, history, Lives
    <3> QED BY <2>1, <3>1, ThreadsKeep
  <2>3. CASE TestT2
    <3>1. /\ Unmoved /\ t2' \in {"next", "exited"} /\ aborted' \in BOOLEAN
          /\ UNCHANGED <<t1, pc, m_finish, main, missed>>
      BY <2>3 DEF TestT2, work, history, Lives
    <3> QED BY <2>1, <3>1, ThreadsKeep
  <2>4. ASSUME NEW w \in Workers,
               Stop(w) \/ TestPredicate(w) \/ Sleep(w) \/ Spurious(w) \/ StartSeries(w)
        PROVE  ServiceInv'
    <3>1. PICK x \in Places :
            /\ pc' = [pc EXCEPT ![w] = x]
            /\ \/ pc[w] = "proceed" /\ x = "dispatch"
               \/ /\ pc[w] \in {"loop", "tested", "waiting", "woken"}
                  /\ x \in {"tested", "waiting", "woken", "returned"}
      BY <2>4 DEF Stop, TestPredicate, Sleep, Spurious, StartSeries, Competes, Places
    <3>2. /\ Unmoved /\ aborted' \in BOOLEAN
          /\ UNCHANGED <<t1, t2, m_finish, main, missed>>
      BY <2>4 DEF Stop, TestPredicate, Sleep, Spurious, StartSeries, server, history, Lives
    <3>3. pc' \in [Workers -> Places] /\ pc'[w] = x /\ \A v \in Workers : v # w => pc'[v] = pc[v]
      BY <2>1, <3>1
    <3>4. main \notin {"joined", "down"}
      BY <2>1, <3>1
    <3> QED BY <2>1, <3>1, <3>2, <3>3, <3>4, ThreadsKeep
  <2>5. CASE SetFinish \/ JoinWorkers \/ UNCHANGED vars
    <3>1. Unmoved /\ UNCHANGED <<t1, t2, pc, missed>>
      BY <2>5 DEF SetFinish, JoinWorkers, vars, server, work, history
    <3>2. /\ m_finish' \in BOOLEAN /\ aborted' \in BOOLEAN
          /\ main' = main \/ (main' \in {"stopping", "joined"} /\ main # "down")
          /\ main' \in {"joined", "down"} => \A w \in Workers : pc[w] = "returned"
      BY <2>1, <2>5 DEF SetFinish, JoinWorkers, vars, Lives
    <3> QED BY <2>1, <3>1, <3>2, ThreadsKeep
  <2>6. CASE NotifyAll
    <3>1. /\ Unmoved /\ UNCHANGED <<t1, t2, m_finish>> /\ missed' \subseteq Workers
          /\ aborted' \in BOOLEAN
          /\ main = "stopping" /\ main' = "notified"
          /\ pc' = [w \in Workers |-> IF w \in Waiting THEN "woken" ELSE pc[w]]
      BY <2>6 DEF NotifyAll, server, Lives
    <3>2. /\ pc' \in [Workers -> Places]
          /\ \A w \in Workers : pc'[w] = pc[w] \/ (pc[w] = "waiting" /\ pc'[w] = "woken")
      BY <2>1, <3>1 DEF Waiting, Places
    <3> QED BY <2>1, <3>1, <3>2, ThreadsKeep
  <2>7. CASE ShutdownAll
    BY <2>7, ShutdownKeeps
  <2>8. ASSUME NEW t \in Tasks, Arrive(t) \/ Answer(t) PROVE ServiceInv'
    BY <2>8, ArriveKeeps, SeriesKeeps DEF Answer
  <2>9. ASSUME NEW t \in Tasks, NEW ok \in BOOLEAN, FinishDone(t, ok) PROVE ServiceInv'
    BY <2>9, FinishDoneKeeps
  <2>10. CASE CallArrived \/ ReplySent \/ Drained1
    BY <2>10, CallArrivedKeeps, ReplySentKeeps, DrainedKeeps
  <2>11. ASSUME NEW w \in Workers,
                Take(w) \/ Delete(w) \/ SearchLater(w) \/ SearchCached(w) \/ SubtaskDone(w)
         PROVE  ServiceInv'
    BY <2>11, TakeKeeps, HandleKeeps, SubtaskDoneKeeps
  <2>12. ASSUME NEW t \in Tasks, CallbackAgain(t) PROVE ServiceInv'
    BY <2>12, CallbackAgainKeeps
  <2> QED BY <2>2, <2>3, <2>4, <2>5, <2>6, <2>7, <2>8, <2>9, <2>10, <2>11, <2>12
          DEF Next, HandleRequests1, HandleRequests2, HandleTask, Terminate
<1> QED BY InitServes, <1>1, PTL DEF Spec

(* The service keeps its types, for any number of calls and workers; once  *)
(* the queues are shut down m_queue may hold a tag that was never set.     *)
THEOREM ServiceTyped == Spec => []TypeOK
<1>1. ServiceInv => TypeOK
  BY DEF ServiceInv
<1> QED BY ServiceInvariant, <1>1, PTL

(* A task has one owner until it is deleted or forgotten; a deleted one is *)
(* used only by the worker that answered it within dispatch, or when its   *)
(* search, whose reply did not parse, calls back again.                    *)
THEOREM ServiceOwns == Spec => []OneOwner
<1>1. ServiceInv => OneOwner
  <2> SUFFICES ASSUME ServiceInv, main # "down"
               PROVE  /\ \A t \in 1..created :
                           Cardinality(Owners(t)) =
                             IF status_[t] = "gone" \/ t \in abandoned THEN 0 ELSE 1
                      /\ dangling \subseteq inline \cup Unparsable
    BY DEF OneOwner
  <2>1. ASSUME NEW t \in 1..created
        PROVE  Cardinality(Owners(t)) = IF status_[t] = "gone" \/ t \in abandoned THEN 0 ELSE 1
    <3>1. CASE status_[t] = "gone" \/ t \in abandoned
      BY <3>1, OwnedOnce, FS_EmptySet
    <3>2. CASE ~(status_[t] = "gone" \/ t \in abandoned)
      <4>1. PICK o : Owners(t) = {o}
        BY <3>2, OwnedOnce
      <4> QED BY <3>2, <4>1, FS_Singleton
    <3> QED BY <3>1, <3>2
  <2> QED BY <2>1 DEF ServiceInv, WorkersRight
<1> QED BY ServiceInvariant, <1>1, PTL
=============================================================================
