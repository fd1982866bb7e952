------------------------- MODULE FullIndexerProofs -------------------------
(***************************************************************************)
(* Proofs about FullIndexer for any triads, entities, producers, workers   *)
(* and stores, and whatever the counters of the workers hold at first.     *)
(* The load is complete because the triads that an entity's cursor has     *)
(* returned are in exactly one place: in the job that its producer         *)
(* collects, in the queue, at a worker that has not written it to every    *)
(* store, or in the stores.                                                *)
(***************************************************************************)
EXTENDS FullIndexer, FiniteSetTheorems, SequenceTheorems, TLAPS

-----------------------------------------------------------------------------
(* A value put behind a queue.                                             *)
LEMMA AppendSet ==
  ASSUME NEW S, NEW s \in Seq(S), NEW x \in S
  PROVE  /\ Append(s, x) \in Seq(S) /\ Len(Append(s, x)) = Len(s) + 1
         /\ ToSet(Append(s, x)) = ToSet(s) \cup {x}
<1>1. /\ Append(s, x) \in Seq(S) /\ Len(Append(s, x)) = Len(s) + 1
      /\ \A i \in 1..Len(s) : Append(s, x)[i] = s[i]
      /\ Append(s, x)[Len(s) + 1] = x
  OBVIOUS
<1>2. /\ DOMAIN s = 1..Len(s) /\ DOMAIN Append(s, x) = 1..Len(s) + 1 /\ Len(s) \in Nat
  BY <1>1
<1>3. \A i \in 1..Len(s) + 1 : i \in 1..Len(s) \/ i = Len(s) + 1
  BY <1>2
<1>4. 1..Len(s) \subseteq 1..Len(s) + 1 /\ Len(s) + 1 \in 1..Len(s) + 1
  BY <1>2
<1> QED BY <1>1, <1>2, <1>3, <1>4 DEF ToSet

(* A queue is its first element and the rest.                              *)
LEMMA TailSet ==
  ASSUME NEW S, NEW s \in Seq(S), s # <<>>
  PROVE  /\ Tail(s) \in Seq(S) /\ Len(Tail(s)) = Len(s) - 1 /\ Head(s) \in S
         /\ ToSet(s) = {Head(s)} \cup ToSet(Tail(s))
<1>1. /\ Tail(s) \in Seq(S) /\ Len(Tail(s)) = Len(s) - 1 /\ Head(s) \in S
      /\ Len(s) \in Nat \ {0} /\ Head(s) = s[1]
      /\ \A i \in 1..Len(s) - 1 : Tail(s)[i] = s[i + 1]
  OBVIOUS
<1>2. DOMAIN s = 1..Len(s) /\ DOMAIN Tail(s) = 1..Len(s) - 1
  BY <1>1
<1>3. \A i \in 1..Len(s) : i = 1 \/ (i - 1 \in 1..Len(s) - 1 /\ s[i] = Tail(s)[i - 1])
  BY <1>1
<1>4. \A i \in 1..Len(s) - 1 : i + 1 \in 1..Len(s)
  BY <1>1
<1> DEFINE t == Tail(s)
<1> HIDE DEF t
<1>5. ASSUME NEW x \in ToSet(s) PROVE x \in {Head(s)} \cup ToSet(t)
  <2>1. PICK i \in 1..Len(s) : x = s[i]
    BY <1>2 DEF ToSet
  <2> QED BY <2>1, <1>1, <1>2, <1>3 DEF ToSet, t
<1>6. ASSUME NEW x \in ToSet(t) PROVE x \in ToSet(s)
  BY <1>1, <1>2, <1>4 DEF ToSet, t
<1>7. Head(s) \in ToSet(s)
  BY <1>1, <1>2 DEF ToSet
<1> QED BY <1>1, <1>5, <1>6, <1>7 DEF t

(* In a queue without repetitions the first element does not come again.   *)
Distinct(s) == \A i, j \in 1..Len(s) : i # j => s[i] # s[j]
LEMMA DistinctTail ==
  ASSUME NEW S, NEW s \in Seq(S), s # <<>>, Distinct(s)
  PROVE  Distinct(Tail(s)) /\ Head(s) \notin ToSet(Tail(s))
<1>1. /\ Tail(s) \in Seq(S) /\ Len(Tail(s)) = Len(s) - 1 /\ Head(s) = s[1]
      /\ Len(s) \in Nat \ {0}
      /\ \A i \in 1..Len(s) - 1 : Tail(s)[i] = s[i + 1]
  OBVIOUS
<1>2. DOMAIN Tail(s) = 1..Len(s) - 1
  BY <1>1
<1>3. \A i \in 1..Len(s) - 1 : i + 1 \in 1..Len(s) /\ i + 1 # 1
  BY <1>1
<1>4. 1 \in 1..Len(s)
  BY <1>1
<1>5. Distinct(Tail(s))
  BY <1>1, <1>3 DEF Distinct
<1>6. ASSUME Head(s) \in ToSet(Tail(s)) PROVE FALSE
  <2>1. PICK i \in 1..Len(s) - 1 : Head(s) = Tail(s)[i]
    BY <1>2, <1>6 DEF ToSet
  <2>2. s[1] = s[i + 1]
    BY <1>1, <2>1
  <2> QED BY <1>3, <1>4, <2>2 DEF Distinct
<1> QED BY <1>5, <1>6

-----------------------------------------------------------------------------
(* The triads of e that its cursor has returned, and those that parsed.    *)
Seen(e) == TriadsOf(e) \ ToSet(rest[ProducerOf[e]])
Parsed(e) == Seen(e) \ unparsed

(* Jobs about e that are queued, or being written.                         *)
About(j, e) == j # {} /\ j \subseteq TriadsOf(e)
Queued(e) == {j \in ToSet(m_queue) : About(j, e)}
Writing(e) == {w \in Workers : pending[w] # {} /\ About(job[w], e)}
Collecting(e) == currentEntityId[ProducerOf[e]] = e /\ ProducerOf[e] \notin submitted

(* A cursor returns each triad once, and one that did not parse is gone.   *)
CursorsRight == \A p \in Producers :
  /\ Distinct(rest[p])
  /\ ToSet(rest[p]) \subseteq Matched(p) \ unparsed
  /\ p \in submitted => rest[p] = <<>>

(* A job has the triads of one entity.                                     *)
JobsRight ==
  /\ \A p \in Producers : LET c == currentEntityId[p] IN
       /\ c # NoEntity => c \in started /\ ProducerOf[c] = p
       /\ indexJob[p] # {} => c # NoEntity /\ indexJob[p] \subseteq TriadsOf(c)
       /\ p \in submitted => indexJob[p] = {}
  /\ \A j \in ToSet(m_queue) : j # {} => \E e \in Entities : About(j, e)
  /\ \A w \in Workers : pending[w] # {} => \E e \in Entities : About(job[w], e)

(* A worker with puts under way waits for them; one that has returned has  *)
(* seen the shutdown and an empty queue, and so did main when it is done.  *)
WorkersRight ==
  /\ \A w \in Workers : pending[w] # {} => pc[w] = "running" /\ subtasks[w] = Cardinality(pending[w])
  /\ \A w \in Workers : pc[w] = "returned" => m_shutdown /\ m_queue = <<>>
  /\ m_shutdown => submitted = Producers
  /\ main = "done" => AllReturned

(* What an entity's producer has collected is in one place.                *)
Untouched(e) == /\ Parsed(e) = {} /\ Queued(e) = {} /\ Writing(e) = {}
                /\ \A s \in Stores : store[s][e] = {}
Collected(e) == /\ Parsed(e) # {} /\ indexJob[ProducerOf[e]] = Parsed(e)
                /\ Queued(e) = {} /\ Writing(e) = {}
Submitted(e) ==
  /\ Parsed(e) # {}
  /\ Queued(e) \subseteq {Parsed(e)}
  /\ \A w \in Writing(e) : job[w] = Parsed(e)
  /\ \A s \in Stores : \/ store[s][e] = Parsed(e)
                       \/ <<s, e>> \in failed
                       \/ Parsed(e) \in Queued(e)
                       \/ \E w \in Writing(e) : s \in pending[w]
InOnePlace(e) == /\ e \notin started => Untouched(e)
                 /\ e \in started \ scattered /\ Collecting(e) => Collected(e)
                 /\ e \in started \ scattered /\ ~Collecting(e) => Submitted(e)
EntitiesRight == \A e \in Entities :
  /\ \A s \in Stores : store[s][e] \subseteq TriadsOf(e)
  /\ InOnePlace(e)

LoadInv == TypeOK /\ CursorsRight /\ JobsRight /\ WorkersRight /\ EntitiesRight

-----------------------------------------------------------------------------
(* What TypeOK says of the constants and of single producers and workers.  *)
LEMMA EntityTyped ==
  /\ \A t \in Triads : EntityOf[t] \in Entities
  /\ \A e \in Entities : ProducerOf[e] \in Producers /\ TriadsOf(e) \subseteq Matched(ProducerOf[e])
  /\ \A e \in Entities : TriadsOf(e) \subseteq Triads
  /\ \A d, e \in Entities : d # e => TriadsOf(d) \cap TriadsOf(e) = {}
BY TriadsTyped, ProducersTyped DEF TriadsOf, Matched

(* A job is about one entity only, which EntityIn finds.                   *)
LEMMA AboutOne ==
  ASSUME NEW j, NEW e \in Entities, About(j, e)
  PROVE  EntityIn(j) = e /\ \A d \in Entities : About(j, d) => d = e
<1>1. (CHOOSE t \in j : TRUE) \in j
  BY DEF About
<1>2. EntityIn(j) = e
  BY <1>1 DEF EntityIn, About, TriadsOf
<1> QED BY <1>2, EntityTyped DEF About

(* A cursor in any order: every triad of its producer, once.               *)
LEMMA CursorIs ==
  ASSUME NEW S, IsFiniteSet(S), NEW s \in SetToSeqs(S)
  PROVE  s \in Seq(S) /\ Distinct(s) /\ ToSet(s) = S
<1> DEFINE n == Cardinality(S)
<1>1. n \in Nat
  BY FS_CardinalityType
<1>2. s \in [1..n -> S] /\ \A i, j \in 1..n : i # j => s[i] # s[j]
  BY DEF SetToSeqs
<1>3. IsFiniteSet(1..n) /\ Cardinality(1..n) = n
  <2>1. /\ IsFiniteSet(1..n)
        /\ Cardinality(1..n) = IF 1 > n THEN 0 ELSE n - 1 + 1
    BY <1>1, FS_Interval
  <2> QED BY <1>1, <2>1
<1>4. s \in Injection(1..n, S)
  BY <1>2 DEF Injection, IsInjective
<1>5. s \in Surjection(1..n, S)
  BY <1>3, <1>4, FS_Injection
<1>6. s \in Seq(S) /\ Len(s) = n /\ DOMAIN s = 1..n
  BY <1>1, <1>2
<1>7. ToSet(s) = S
  BY <1>5, <1>6 DEF Surjection, ToSet
<1> QED BY <1>2, <1>6, <1>7 DEF Distinct

(* At first nothing is collected, queued or written.                       *)
LEMMA InitLoads == Init => LoadInv
<1> SUFFICES ASSUME Init PROVE LoadInv
  OBVIOUS
<1> USE DEF Init, InitPool
<1>1. \A p \in Producers : rest[p] \in Seq(Matched(p)) /\ Distinct(rest[p]) /\ ToSet(rest[p]) = Matched(p)
  <2>1. ASSUME NEW p \in Producers PROVE IsFiniteSet(Matched(p)) /\ rest[p] \in SetToSeqs(Matched(p))
    <3>1. Matched(p) \subseteq Triads
      BY DEF Matched
    <3> QED BY <3>1, TriadsFinite, FS_Subset
  <2> QED BY <2>1, CursorIs
<1>2. TypeOK
  <2>1. rest \in [Producers -> Seq(Triads)]
    <3>1. \A p \in Producers : Seq(Matched(p)) \subseteq Seq(Triads)
      BY DEF Matched
    <3>2. DOMAIN rest = Producers /\ rest = [p \in DOMAIN rest |-> rest[p]]
      OBVIOUS
    <3> QED BY <1>1, <3>1, <3>2
  <2>2. m_queue \in Seq(SUBSET Triads) /\ m_shutdown \in BOOLEAN
    <3>1. m_queue = <<>> /\ m_shutdown = FALSE
      OBVIOUS
    <3>2. <<>> \in Seq(SUBSET Triads) /\ FALSE \in BOOLEAN
      OBVIOUS
    <3> QED BY <3>1, <3>2
  <2>3. pc \in [Workers -> Places]
    BY DEF Places
  <2>4. subtasks \in [Workers -> Nat]
    BY GarbageNatural
  <2>5. store \in [Stores -> [Entities -> SUBSET Triads]]
    OBVIOUS
  <2>6. /\ job \in [Workers -> SUBSET Triads] /\ pending \in [Workers -> SUBSET Stores]
        /\ failed \subseteq Stores \X Entities
    OBVIOUS
  <2>7. /\ currentEntityId \in [Producers -> Entities \cup {NoEntity}]
        /\ indexJob \in [Producers -> SUBSET Triads]
    OBVIOUS
  <2> QED BY <2>1, <2>2, <2>3, <2>4, <2>5, <2>6, <2>7 DEF TypeOK, PoolTypeOK
<1>3. CursorsRight
  BY <1>1 DEF CursorsRight
<1>4. ToSet(m_queue) = {}
  BY DEF ToSet
<1>5. JobsRight
  BY <1>4 DEF JobsRight
<1>6. WorkersRight
  BY DEF WorkersRight
<1>7. EntitiesRight
  <2> SUFFICES ASSUME NEW e \in Entities
               PROVE  /\ \A s \in Stores : store[s][e] \subseteq TriadsOf(e)
                      /\ InOnePlace(e)
    BY DEF EntitiesRight
  <2>1. Parsed(e) = {}
    BY <1>1, EntityTyped DEF Parsed, Seen
  <2>2. Queued(e) = {} /\ Writing(e) = {}
    BY <1>4 DEF Queued, Writing
  <2> QED BY <2>1, <2>2 DEF InOnePlace, Untouched
<1> QED BY <1>2, <1>3, <1>5, <1>6, <1>7 DEF LoadInv

-----------------------------------------------------------------------------
(* One triad that the cursor of p returns is seen, and no other.           *)
LEMMA CursorMoves ==
  ASSUME LoadInv, NEW p \in Producers, rest[p] # <<>>,
         rest' = [rest EXCEPT ![p] = Tail(@)],
         UNCHANGED submitted
  PROVE  LET t == Head(rest[p]) IN
         /\ t \in Triads /\ EntityOf[t] \in Entities /\ ProducerOf[EntityOf[t]] = p
         /\ t \notin unparsed /\ p \notin submitted
         /\ rest' \in [Producers -> Seq(Triads)]
         /\ unparsed' \in {unparsed, unparsed \cup {t}} => CursorsRight'
         /\ \A e \in Entities : Seen(e)' = IF e = EntityOf[t] THEN Seen(e) \cup {t} ELSE Seen(e)
         /\ \A e \in Entities : t \notin Seen(e)
<1> DEFINE t == Head(rest[p])
<1>1. rest \in [Producers -> Seq(Triads)] /\ rest[p] \in Seq(Triads)
  BY DEF LoadInv, TypeOK
<1>2. /\ Distinct(rest[p]) /\ ToSet(rest[p]) \subseteq Matched(p) \ unparsed
      /\ p \notin submitted
  BY DEF LoadInv, CursorsRight
<1>3. /\ Tail(rest[p]) \in Seq(Triads) /\ t \in Triads
      /\ ToSet(rest[p]) = {t} \cup ToSet(Tail(rest[p]))
  BY <1>1, TailSet
<1>4. Distinct(Tail(rest[p])) /\ t \notin ToSet(Tail(rest[p]))
  BY <1>1, <1>2, DistinctTail
<1>5. rest'[p] = Tail(rest[p]) /\ \A q \in Producers : q # p => rest'[q] = rest[q]
  BY <1>1
<1>6. ProducerOf[EntityOf[t]] = p /\ t \notin unparsed /\ EntityOf[t] \in Entities
  BY <1>2, <1>3, EntityTyped DEF Matched
<1>7. rest' \in [Producers -> Seq(Triads)]
  BY <1>1, <1>3
<1> HIDE DEF t
<1>8. ASSUME unparsed' \in {unparsed, unparsed \cup {t}} PROVE CursorsRight'
  <2> SUFFICES ASSUME NEW q \in Producers
               PROVE  /\ Distinct(rest'[q])
                      /\ ToSet(rest'[q]) \subseteq Matched(q) \ unparsed'
                      /\ q \in submitted => rest'[q] = <<>>
    BY DEF CursorsRight
  <2>1. CASE q = p
    BY <1>2, <1>3, <1>4, <1>5, <1>8, <2>1
  <2>2. CASE q # p
    <3>1. /\ Distinct(rest[q]) /\ ToSet(rest[q]) \subseteq Matched(q) \ unparsed
          /\ q \in submitted => rest[q] = <<>>
      BY DEF LoadInv, CursorsRight
    <3>2. t \notin Matched(q)
      BY <1>6, <2>2 DEF Matched
    <3> QED BY <1>5, <1>8, <2>2, <3>1, <3>2
  <2> QED BY <2>1, <2>2
<1>9. ASSUME NEW e \in Entities
      PROVE  Seen(e)' = IF e = EntityOf[t] THEN Seen(e) \cup {t} ELSE Seen(e)
  <2>1. Seen(e)' = TriadsOf(e) \ ToSet(rest'[ProducerOf[e]])
    BY DEF Seen
  <2>2. t \in TriadsOf(e) <=> e = EntityOf[t]
    BY <1>3 DEF TriadsOf
  <2>3. CASE ProducerOf[e] = p
    BY <1>3, <1>4, <1>5, <2>1, <2>2, <2>3 DEF Seen
  <2>4. CASE ProducerOf[e] # p
    BY <1>5, <1>6, <2>1, <2>4, EntityTyped DEF Seen
  <2> QED BY <2>3, <2>4
<1>10. \A e \in Entities : t \notin Seen(e)
  BY <1>3, <1>6 DEF Seen, TriadsOf
<1> QED BY <1>2, <1>3, <1>6, <1>7, <1>8, <1>9, <1>10 DEF t

(* A producer submits while the pool is not shut down, and no worker has   *)
(* returned.                                                               *)
LEMMA PoolRuns ==
  ASSUME LoadInv, NEW p \in Producers, p \notin submitted
  PROVE  ~m_shutdown /\ main # "done" /\ \A w \in Workers : pc[w] # "returned"
<1>1. ~m_shutdown
  BY DEF LoadInv, WorkersRight
<1>2. \A w \in Workers : pc[w] # "returned"
  BY <1>1 DEF LoadInv, WorkersRight
<1>3. main # "done"
  BY <1>2, PoolExists DEF LoadInv, WorkersRight, AllReturned
<1> QED BY <1>1, <1>2, <1>3

(* A job goes behind the queue, and at most one worker wakes up.           *)
LEMMA SubmitIs ==
  ASSUME LoadInv, NEW p \in Producers, p \notin submitted,
         NEW j \in SUBSET Triads, Submit(j), UNCHANGED main
  PROVE  /\ PoolTypeOK' /\ WorkersRight'
         /\ ToSet(m_queue') = ToSet(m_queue) \cup {j}
         /\ UNCHANGED <<job, pending, store, failed>>
<1>1. /\ m_queue \in Seq(SUBSET Triads) /\ pc \in [Workers -> Places] /\ PoolTypeOK
  BY DEF LoadInv, TypeOK, PoolTypeOK
<1>2. /\ m_queue' = Append(m_queue, j)
      /\ UNCHANGED <<m_shutdown, subtasks, job, pending, store, failed>>
  BY DEF Submit, stores
<1>3. m_queue' \in Seq(SUBSET Triads) /\ ToSet(m_queue') = ToSet(m_queue) \cup {j}
  BY <1>1, <1>2, AppendSet
<1>4. /\ pc' \in [Workers -> Places]
      /\ \A w \in Workers : pc'[w] = pc[w] \/ (pc[w] = "waiting" /\ pc'[w] = "woken")
  BY <1>1 DEF Submit, Waiting, Places
<1>5. PoolTypeOK'
  BY <1>1, <1>2, <1>3, <1>4 DEF PoolTypeOK
<1>6. WorkersRight'
  <2>1. ~m_shutdown' /\ main' # "done" /\ \A w \in Workers : pc'[w] # "returned"
    BY <1>2, <1>4, PoolRuns
  <2>2. \A w \in Workers : pending'[w] # {} =>
          pc'[w] = "running" /\ subtasks'[w] = Cardinality(pending'[w])
    BY <1>2, <1>4 DEF LoadInv, WorkersRight
  <2> QED BY <2>1, <2>2 DEF WorkersRight
<1> QED BY <1>2, <1>3, <1>5, <1>6

(* Of an entity that a step neither reads, submits nor writes nothing      *)
(* changes place.                                                          *)
LEMMA PlaceKept ==
  ASSUME LoadInv, NEW e \in Entities,
         Parsed(e)' = Parsed(e), Queued(e)' = Queued(e),
         UNCHANGED <<job, pending, store, failed>>,
         e \in started' <=> e \in started, e \in scattered => e \in scattered',
         Collecting(e)' <=> Collecting(e),
         Collecting(e) => indexJob'[ProducerOf[e]] = indexJob[ProducerOf[e]]
  PROVE  InOnePlace(e)'
<1>1. Writing(e)' = Writing(e)
  BY DEF Writing, About
<1>2. InOnePlace(e)
  BY DEF LoadInv, EntitiesRight
<1>3. e \notin started => Untouched(e)'
  BY <1>1, <1>2 DEF InOnePlace, Untouched
<1>4. e \in started \ scattered /\ Collecting(e) => Collected(e)'
  BY <1>1, <1>2 DEF InOnePlace, Collected
<1>5. e \in started \ scattered /\ ~Collecting(e) => Submitted(e)'
  BY <1>1, <1>2 DEF InOnePlace, Submitted
<1> QED BY <1>3, <1>4, <1>5 DEF InOnePlace

(* A triad that does not parse changes no job.                             *)
LEMMA ParseErrorKeeps ==
  ASSUME LoadInv, NEW p \in Producers, ParseError(p)
  PROVE  LoadInv'
<1> DEFINE t == Head(rest[p])
<1>1. /\ rest[p] # <<>> /\ rest' = [rest EXCEPT ![p] = Tail(@)]
      /\ unparsed' = unparsed \cup {t}
      /\ UNCHANGED <<poolVars, currentEntityId, indexJob, submitted, started, scattered, main,
                     missed>>
  BY DEF ParseError
<1>2. UNCHANGED <<m_shutdown, m_queue, pc, subtasks, job, pending, store, failed>>
  BY <1>1 DEF poolVars, stores
<1>3. /\ t \in Triads /\ rest' \in [Producers -> Seq(Triads)] /\ CursorsRight'
      /\ \A e \in Entities : Seen(e)' = IF e = EntityOf[t] THEN Seen(e) \cup {t} ELSE Seen(e)
      /\ \A e \in Entities : t \notin Seen(e)
  BY <1>1, CursorMoves
<1> HIDE DEF t
<1>4. TypeOK'
  BY <1>1, <1>2, <1>3 DEF LoadInv, TypeOK, PoolTypeOK
<1>5. JobsRight' /\ WorkersRight'
  BY <1>1, <1>2 DEF LoadInv, JobsRight, WorkersRight, About, AllReturned
<1>6. ASSUME NEW e \in Entities PROVE InOnePlace(e)'
  <2>1. Parsed(e)' = Parsed(e)
    BY <1>1, <1>3 DEF Parsed
  <2>2. Queued(e)' = Queued(e) /\ (Collecting(e)' <=> Collecting(e))
    BY <1>1, <1>2 DEF Queued, Collecting
  <2> QED BY <1>1, <1>2, <2>1, <2>2, PlaceKept
<1>7. EntitiesRight'
  BY <1>2, <1>6 DEF LoadInv, EntitiesRight
<1> QED BY <1>3, <1>4, <1>5, <1>7 DEF LoadInv

(* A triad of the current entity goes into its job.                        *)
LEMMA NextTriadKeeps ==
  ASSUME LoadInv, NEW p \in Producers, NextTriad(p)
  PROVE  LoadInv'
<1> DEFINE t == Head(rest[p])
           c == currentEntityId[p]
<1>1. /\ rest[p] # <<>> /\ rest' = [rest EXCEPT ![p] = Tail(@)]
      /\ EntityOf[t] = c
      /\ indexJob' = [indexJob EXCEPT ![p] = @ \cup {t}]
      /\ UNCHANGED <<poolVars, currentEntityId, submitted, unparsed, started, scattered, main,
                     missed>>
  BY DEF NextTriad
<1>2. UNCHANGED <<m_shutdown, m_queue, pc, subtasks, job, pending, store, failed>>
  BY <1>1 DEF poolVars, stores
<1>3. /\ t \in Triads /\ t \notin unparsed /\ p \notin submitted
      /\ c \in Entities /\ ProducerOf[c] = p
      /\ rest' \in [Producers -> Seq(Triads)] /\ CursorsRight'
      /\ \A e \in Entities : Seen(e)' = IF e = c THEN Seen(e) \cup {t} ELSE Seen(e)
  BY <1>1, CursorMoves
<1> HIDE DEF t, c
<1>4. /\ indexJob' \in [Producers -> SUBSET Triads] /\ indexJob'[p] = indexJob[p] \cup {t}
      /\ \A q \in Producers : q # p => indexJob'[q] = indexJob[q]
  BY <1>1, <1>3 DEF LoadInv, TypeOK
<1>5. TypeOK'
  BY <1>1, <1>2, <1>3, <1>4 DEF LoadInv, TypeOK, PoolTypeOK
<1>6. t \in TriadsOf(c) /\ c # NoEntity /\ currentEntityId[p] = c
  BY <1>1, <1>3, NoEntityIsNone DEF TriadsOf, c
<1>7. JobsRight' /\ WorkersRight'
  <2>1. WorkersRight'
    BY <1>1, <1>2 DEF LoadInv, WorkersRight, AllReturned
  <2>2. JobsRight'
    BY <1>1, <1>2, <1>3, <1>4, <1>6 DEF LoadInv, JobsRight, About
  <2> QED BY <2>1, <2>2
<1>8. ASSUME NEW e \in Entities PROVE InOnePlace(e)'
  <2>1. Queued(e)' = Queued(e) /\ (Collecting(e)' <=> Collecting(e)) /\ Writing(e)' = Writing(e)
    BY <1>1, <1>2 DEF Queued, Collecting, Writing, About
  <2>2. CASE e = c
    <3>1. Collecting(e) /\ e \in started /\ Parsed(e)' = Parsed(e) \cup {t}
      BY <1>1, <1>3, <1>6, <2>2 DEF Collecting, Parsed, LoadInv, JobsRight
    <3>2. e \notin scattered => Collected(e)
      BY <3>1 DEF LoadInv, EntitiesRight, InOnePlace
    <3>3. e \notin scattered => Collected(e)'
      BY <1>3, <1>4, <2>1, <2>2, <3>1, <3>2 DEF Collected
    <3> QED BY <1>1, <2>1, <3>1, <3>3 DEF InOnePlace
  <2>3. CASE e # c
    <3>1. Parsed(e)' = Parsed(e)
      BY <1>1, <1>3, <2>3 DEF Parsed
    <3>2. Collecting(e) => ProducerOf[e] \in Producers /\ ProducerOf[e] # p
      BY <1>6, <2>3, EntityTyped DEF Collecting
    <3> QED BY <1>1, <1>2, <1>4, <2>1, <3>1, <3>2, PlaceKept
  <2> QED BY <2>2, <2>3
<1>9. EntitiesRight'
  BY <1>2, <1>8 DEF LoadInv, EntitiesRight
<1> QED BY <1>3, <1>5, <1>7, <1>9 DEF LoadInv

(* A producer submits what it has collected, if anything.                  *)
LEMMA JobSubmitted ==
  ASSUME LoadInv, NEW p \in Producers, p \notin submitted, UNCHANGED main,
         Submit(indexJob[p]) \/ (indexJob[p] = {} /\ UNCHANGED poolVars /\ submitted' = submitted)
  PROVE  /\ PoolTypeOK' /\ WorkersRight'
         /\ UNCHANGED <<job, pending, store, failed>>
         /\ \A x \in ToSet(m_queue') : x # {} => \E e \in Entities : About(x, e)
         /\ \A e \in Entities :
              Queued(e)' = IF About(indexJob[p], e) THEN Queued(e) \cup {indexJob[p]} ELSE Queued(e)
<1> DEFINE j == indexJob[p]
<1>1. j \in SUBSET Triads
  BY DEF LoadInv, TypeOK
<1>2. j # {} => \E e \in Entities : About(j, e)
  BY DEF LoadInv, JobsRight, About, TypeOK
<1>3. \A x \in ToSet(m_queue) : x # {} => \E e \in Entities : About(x, e)
  BY DEF LoadInv, JobsRight
<1>4. CASE Submit(j)
  <2>1. /\ PoolTypeOK' /\ WorkersRight'
        /\ ToSet(m_queue') = ToSet(m_queue) \cup {j}
        /\ UNCHANGED <<job, pending, store, failed>>
    BY <1>1, <1>4, SubmitIs
  <2> HIDE DEF j
  <2>2. \A e \in Entities : Queued(e)' = IF About(j, e) THEN Queued(e) \cup {j} ELSE Queued(e)
    BY <2>1 DEF Queued
  <2> QED BY <1>2, <1>3, <2>1, <2>2 DEF j
<1>5. CASE j = {} /\ UNCHANGED poolVars /\ submitted' = submitted
  <2>1. UNCHANGED <<m_shutdown, m_queue, pc, subtasks, job, pending, store, failed>>
    BY <1>5 DEF poolVars, stores
  <2>2. PoolTypeOK' /\ WorkersRight'
    BY <1>5, <2>1 DEF LoadInv, TypeOK, PoolTypeOK, WorkersRight, AllReturned
  <2>3. \A e \in Entities : Queued(e)' = Queued(e) /\ ~About(j, e)
    BY <1>5, <2>1 DEF Queued, About
  <2> QED BY <1>3, <2>1, <2>2, <2>3
<1> QED BY <1>4, <1>5

(* Submitted, what was collected of an entity is in the queue.             *)
LEMMA CollectedSubmitted ==
  ASSUME LoadInv, NEW e \in Entities, e \in started \ scattered, Collecting(e),
         Parsed(e)' = Parsed(e), UNCHANGED <<job, pending, store, failed>>,
         Queued(e)' = IF About(indexJob[ProducerOf[e]], e)
                      THEN Queued(e) \cup {indexJob[ProducerOf[e]]} ELSE Queued(e)
  PROVE  Submitted(e)'
<1>1. Collected(e)
  BY DEF LoadInv, EntitiesRight, InOnePlace
<1>2. About(Parsed(e), e)
  BY <1>1 DEF Collected, About, Parsed, Seen
<1>3. Queued(e)' = {Parsed(e)}
  BY <1>1, <1>2 DEF Collected
<1>4. Writing(e)' = {}
  BY <1>1 DEF Collected, Writing, About
<1> QED BY <1>1, <1>3, <1>4 DEF Collected, Submitted

(* The first triad of another entity submits the job of the current one.   *)
LEMMA NextEntityKeeps ==
  ASSUME LoadInv, NEW p \in Producers, NextEntity(p)
  PROVE  LoadInv'
<1> DEFINE t == Head(rest[p])
           n == EntityOf[t]
           c == currentEntityId[p]
           j == indexJob[p]
<1>1. /\ rest[p] # <<>> /\ rest' = [rest EXCEPT ![p] = Tail(@)]
      /\ n # c
      /\ Submit(j) \/ (j = {} /\ UNCHANGED poolVars)
      /\ indexJob' = [indexJob EXCEPT ![p] = {t}]
      /\ currentEntityId' = [currentEntityId EXCEPT ![p] = n]
      /\ started' = started \cup {n} /\ scattered' = scattered \cup ({n} \cap started)
      /\ UNCHANGED <<submitted, unparsed, main, missed>>
  BY DEF NextEntity
<1>2. /\ t \in Triads /\ t \notin unparsed /\ p \notin submitted
      /\ n \in Entities /\ ProducerOf[n] = p
      /\ rest' \in [Producers -> Seq(Triads)] /\ CursorsRight'
      /\ \A e \in Entities : Seen(e)' = IF e = n THEN Seen(e) \cup {t} ELSE Seen(e)
  BY <1>1, CursorMoves
<1>3. /\ PoolTypeOK' /\ WorkersRight'
      /\ UNCHANGED <<job, pending, store, failed>>
      /\ \A x \in ToSet(m_queue') : x # {} => \E e \in Entities : About(x, e)
      /\ \A e \in Entities : Queued(e)' = IF About(j, e) THEN Queued(e) \cup {j} ELSE Queued(e)
  BY <1>1, <1>2, JobSubmitted
<1>4. j # {} => c # NoEntity /\ About(j, c)
  BY DEF LoadInv, JobsRight, About
<1>5. n # NoEntity /\ t \in TriadsOf(n)
  BY <1>2, NoEntityIsNone DEF TriadsOf
<1> HIDE DEF t, n
<1>6. /\ indexJob \in [Producers -> SUBSET Triads]
      /\ currentEntityId \in [Producers -> Entities \cup {NoEntity}]
      /\ started \subseteq Entities /\ scattered \subseteq started
  BY DEF LoadInv, TypeOK
<1>7. /\ indexJob' \in [Producers -> SUBSET Triads] /\ indexJob'[p] = {t}
      /\ currentEntityId' \in [Producers -> Entities \cup {NoEntity}] /\ currentEntityId'[p] = n
      /\ \A q \in Producers : q # p => indexJob'[q] = indexJob[q]
                                       /\ currentEntityId'[q] = currentEntityId[q]
  BY <1>1, <1>2, <1>6
<1>8. TypeOK'
  <2>1. started' \subseteq Entities /\ scattered' \subseteq started'
    BY <1>1, <1>2, <1>6
  <2> QED BY <1>1, <1>2, <1>3, <1>7, <2>1 DEF LoadInv, TypeOK
<1>9. JobsRight'
  <2>1. ASSUME NEW q \in Producers
        PROVE  LET d == currentEntityId'[q] IN
               /\ d # NoEntity => d \in started' /\ ProducerOf[d] = q
               /\ indexJob'[q] # {} => d # NoEntity /\ indexJob'[q] \subseteq TriadsOf(d)
               /\ q \in submitted' => indexJob'[q] = {}
    <3>1. CASE q = p
      BY <1>1, <1>2, <1>5, <1>7, <3>1
    <3>2. CASE q # p
      BY <1>1, <1>7, <3>2 DEF LoadInv, JobsRight
    <3> QED BY <3>1, <3>2
  <2>2. \A w \in Workers : pending'[w] # {} => \E e \in Entities : About(job'[w], e)
    BY <1>3 DEF LoadInv, JobsRight
  <2> QED BY <1>3, <2>1, <2>2 DEF JobsRight, About, TriadsOf
<1>10. ASSUME NEW e \in Entities PROVE InOnePlace(e)'
  <2>1. Writing(e)' = Writing(e)
    BY <1>3 DEF Writing, About
  <2>2. CASE e = n
    <3>1. CASE e \in started
      BY <1>1, <2>2, <3>1 DEF InOnePlace
    <3>2. CASE e \notin started
      <4>1. Untouched(e)
        BY <3>2 DEF LoadInv, EntitiesRight, InOnePlace
      <4>2. ~About(j, e)
        <5>1. c # NoEntity => c \in Entities
          BY <1>6
        <5> QED BY <1>1, <1>2, <1>4, <2>2, <5>1, EntityTyped DEF About
      <4>3. Parsed(e)' = {t}
        BY <1>1, <1>2, <2>2, <4>1 DEF Parsed, Untouched
      <4>4. Collected(e)'
        BY <1>2, <1>3, <1>7, <2>1, <2>2, <4>1, <4>2, <4>3 DEF Collected, Untouched
      <4>5. Collecting(e)' /\ e \in started'
        BY <1>1, <1>2, <1>7, <2>2 DEF Collecting
      <4> QED BY <4>4, <4>5 DEF InOnePlace
    <3> QED BY <3>1, <3>2
  <2>3. CASE e # n /\ e = c
    <3>1. Parsed(e)' = Parsed(e)
      BY <1>1, <1>2, <2>3 DEF Parsed
    <3>2. e \in started /\ ProducerOf[e] = p /\ Collecting(e)
      <4>1. e # NoEntity
        BY NoEntityIsNone
      <4> QED BY <1>2, <2>3, <4>1 DEF LoadInv, JobsRight, Collecting
    <3>3. e \notin scattered => Submitted(e)'
      BY <1>3, <3>1, <3>2, CollectedSubmitted
    <3>4. ~Collecting(e)' /\ e \in started'
      BY <1>1, <1>7, <2>3, <3>2 DEF Collecting
    <3> QED BY <1>1, <3>3, <3>4 DEF InOnePlace
  <2>4. CASE e # n /\ e # c
    <3>1. Parsed(e)' = Parsed(e)
      BY <1>1, <1>2, <2>4 DEF Parsed
    <3>2. ~About(j, e)
      <4>1. c # NoEntity => c \in Entities
        BY <1>6
      <4> QED BY <1>4, <2>4, <4>1, EntityTyped DEF About
    <3>3. Queued(e)' = Queued(e)
      BY <1>3, <3>2
    <3>4. (Collecting(e)' <=> Collecting(e)) /\ (Collecting(e) => ProducerOf[e] # p)
      BY <1>1, <1>7, <2>4, EntityTyped DEF Collecting
    <3>5. (e \in started' <=> e \in started) /\ (e \in scattered => e \in scattered')
      BY <1>1, <2>4
    <3>6. Collecting(e) => indexJob'[ProducerOf[e]] = indexJob[ProducerOf[e]]
      BY <1>7, <3>4, EntityTyped
    <3> QED BY <1>3, <3>1, <3>3, <3>4, <3>5, <3>6, PlaceKept
  <2> QED BY <2>2, <2>3, <2>4
<1>11. EntitiesRight'
  BY <1>3, <1>10 DEF LoadInv, EntitiesRight
<1> QED BY <1>2, <1>3, <1>8, <1>9, <1>11 DEF LoadInv

(* Behind its last triad a producer submits the last job, or an empty one. *)
LEMMA LastJobKeeps ==
  ASSUME LoadInv, NEW p \in Producers, LastJob(p)
  PROVE  LoadInv'
<1> DEFINE c == currentEntityId[p]
           j == indexJob[p]
<1>1. /\ rest[p] = <<>> /\ p \notin submitted /\ Submit(j)
      /\ submitted' = submitted \cup {p}
      /\ indexJob' = [indexJob EXCEPT ![p] = {}]
      /\ UNCHANGED <<rest, currentEntityId, unparsed, started, scattered, main, missed>>
  BY DEF LastJob
<1>2. /\ PoolTypeOK' /\ WorkersRight'
      /\ UNCHANGED <<job, pending, store, failed>>
      /\ \A x \in ToSet(m_queue') : x # {} => \E e \in Entities : About(x, e)
      /\ \A e \in Entities : Queued(e)' = IF About(j, e) THEN Queued(e) \cup {j} ELSE Queued(e)
  BY <1>1, JobSubmitted
<1>3. /\ indexJob' \in [Producers -> SUBSET Triads] /\ indexJob'[p] = {}
      /\ \A q \in Producers : q # p => indexJob'[q] = indexJob[q]
  BY <1>1 DEF LoadInv, TypeOK
<1>4. TypeOK'
  BY <1>1, <1>2, <1>3 DEF LoadInv, TypeOK
<1>5. CursorsRight'
  BY <1>1 DEF LoadInv, CursorsRight
<1>6. JobsRight'
  <2>1. ASSUME NEW q \in Producers
        PROVE  LET d == currentEntityId[q] IN
               /\ d # NoEntity => d \in started /\ ProducerOf[d] = q
               /\ indexJob'[q] # {} => d # NoEntity /\ indexJob'[q] \subseteq TriadsOf(d)
               /\ q \in submitted' => indexJob'[q] = {}
    BY <1>1, <1>3 DEF LoadInv, JobsRight
  <2>2. \A w \in Workers : pending'[w] # {} => \E e \in Entities : About(job'[w], e)
    BY <1>2 DEF LoadInv, JobsRight
  <2> QED BY <1>1, <1>2, <2>1, <2>2 DEF JobsRight, About, TriadsOf
<1>7. ASSUME NEW e \in Entities PROVE InOnePlace(e)'
  <2>1. Parsed(e)' = Parsed(e)
    BY <1>1 DEF Parsed, Seen
  <2>2. CASE e = c
    <3>1. e \in started /\ ProducerOf[e] = p /\ Collecting(e)
      <4>1. e # NoEntity
        BY NoEntityIsNone
      <4> QED BY <1>1, <2>2, <4>1 DEF LoadInv, JobsRight, Collecting
    <3>2. e \notin scattered => Submitted(e)'
      BY <1>2, <2>1, <3>1, CollectedSubmitted
    <3>3. ~Collecting(e)'
      BY <1>1, <3>1 DEF Collecting
    <3> QED BY <1>1, <3>1, <3>2, <3>3 DEF InOnePlace
  <2>3. CASE e # c
    <3>1. ~About(j, e)
      <4>1. j # {} => c # NoEntity /\ About(j, c)
        BY DEF LoadInv, JobsRight, About
      <4>2. c # NoEntity => c \in Entities
        BY DEF LoadInv, TypeOK
      <4> QED BY <2>3, <4>1, <4>2, EntityTyped DEF About
    <3>2. (Collecting(e)' <=> Collecting(e)) /\ (Collecting(e) => ProducerOf[e] # p)
      BY <1>1, <2>3, EntityTyped DEF Collecting
    <3>3. Collecting(e) => indexJob'[ProducerOf[e]] = indexJob[ProducerOf[e]]
      BY <1>3, <3>2, EntityTyped
    <3>4. Queued(e)' = Queued(e)
      BY <1>2, <3>1
    <3> QED BY <1>1, <1>2, <2>1, <3>2, <3>3, <3>4, PlaceKept
  <2> QED BY <2>2, <2>3
<1>8. EntitiesRight'
  BY <1>2, <1>7 DEF LoadInv, EntitiesRight
<1> QED BY <1>2, <1>4, <1>5, <1>6, <1>8 DEF LoadInv

-----------------------------------------------------------------------------
(* Steps that put, take and write no job: threads that go to sleep, wake   *)
(* up or return, and main.                                                 *)
LEMMA ThreadsKeep ==
  ASSUME LoadInv, UNCHANGED <<producerVars, m_queue, subtasks, job, pending, stores>>,
         pc' \in [Workers -> Places], m_shutdown' \in BOOLEAN, missed' \subseteq Workers,
         main' \in {"producers", "shutdown", "workers", "done", "dead"},
         \A w \in Workers : pending[w] # {} => pc'[w] = "running",
         \A w \in Workers : pc'[w] = "returned" => m_shutdown' /\ m_queue = <<>>,
         m_shutdown' => submitted = Producers,
         main' = "done" => AllReturned'
  PROVE  LoadInv'
<1>1. UNCHANGED <<rest, currentEntityId, indexJob, submitted, unparsed, started, scattered,
                  m_queue, subtasks, job, pending, store, failed>>
  BY DEF producerVars, stores
<1>2. TypeOK'
  BY <1>1 DEF LoadInv, TypeOK, PoolTypeOK
<1>3. CursorsRight' /\ JobsRight'
  BY <1>1 DEF LoadInv, CursorsRight, JobsRight, About
<1>4. WorkersRight'
  BY <1>1 DEF LoadInv, WorkersRight
<1>5. ASSUME NEW e \in Entities PROVE InOnePlace(e)'
  <2>1. Parsed(e)' = Parsed(e) /\ Queued(e)' = Queued(e) /\ (Collecting(e)' <=> Collecting(e))
    BY <1>1 DEF Parsed, Seen, Queued, Collecting
  <2> QED BY <1>1, <2>1, PlaceKept
<1>6. EntitiesRight'
  BY <1>1, <1>5 DEF LoadInv, EntitiesRight
<1> QED BY <1>2, <1>3, <1>4, <1>6 DEF LoadInv

(* A worker that competes for the mutex has no put under way, whatever its *)
(* counter held before its first job.                                      *)
LEMMA NothingPending ==
  ASSUME LoadInv, NEW w \in Workers, Competes(w)
  PROVE  pending[w] = {}
<1> SUFFICES ASSUME pending[w] # {} PROVE FALSE
  OBVIOUS
<1>1. pc[w] = "running" /\ subtasks[w] = Cardinality(pending[w])
  BY DEF LoadInv, WorkersRight
<1>2. IsFiniteSet(pending[w])
  BY PoolFinite, FS_Subset DEF LoadInv, TypeOK, PoolTypeOK
<1>3. Cardinality(pending[w]) \in Nat /\ Cardinality(pending[w]) # 0
  BY <1>2, FS_CardinalityType, FS_EmptySet
<1> QED BY <1>1, <1>3 DEF Competes

(* The steps of a worker that has found no job.                            *)
LEMMA IdleWorkerKeeps ==
  ASSUME LoadInv, NEW w \in Workers, UNCHANGED <<producerVars, main, missed>>,
         Quit(w) \/ TestPredicate(w) \/ Sleep(w) \/ Spurious(w)
  PROVE  LoadInv'
<1>1. UNCHANGED <<m_shutdown, m_queue, subtasks, job, pending, stores>>
  BY DEF Quit, TestPredicate, Sleep, Spurious
<1>2. pc \in [Workers -> Places]
  BY DEF LoadInv, TypeOK, PoolTypeOK
<1>3. PICK x \in Places \ {"running"} : /\ pc' = [pc EXCEPT ![w] = x]
                                        /\ x = "returned" => m_shutdown /\ m_queue = <<>>
  BY DEF Quit, TestPredicate, Sleep, Spurious, Places
<1>4. pending[w] = {} /\ pc[w] # "returned"
  <2>1. CASE Quit(w) \/ TestPredicate(w)
    BY <2>1, NothingPending DEF Quit, TestPredicate, Competes
  <2>2. CASE Sleep(w) \/ Spurious(w)
    BY <2>2 DEF Sleep, Spurious, LoadInv, WorkersRight
  <2> QED BY <2>1, <2>2
<1>5. pc' \in [Workers -> Places] /\ \A v \in Workers : v # w => pc'[v] = pc[v]
  BY <1>2, <1>3
<1>6. \A v \in Workers : pending[v] # {} => pc'[v] = "running"
  BY <1>4, <1>5 DEF LoadInv, WorkersRight
<1>7. \A v \in Workers : pc'[v] = "returned" => m_shutdown' /\ m_queue = <<>>
  BY <1>1, <1>2, <1>3, <1>5 DEF LoadInv, WorkersRight
<1>8. main' # "done"
  BY <1>4 DEF LoadInv, WorkersRight, AllReturned
<1>9. /\ main' \in {"producers", "shutdown", "workers", "done", "dead"}
      /\ missed' \subseteq Workers /\ m_shutdown' \in BOOLEAN
      /\ m_shutdown' => submitted = Producers
  BY <1>1 DEF LoadInv, TypeOK, PoolTypeOK, WorkersRight
<1> QED BY <1>1, <1>5, <1>6, <1>7, <1>8, <1>9, ThreadsKeep

(* startFullIndexer, and a cursor that throws.                             *)
LEMMA MainKeeps ==
  ASSUME LoadInv, Main \/ \E p \in Producers : CursorThrows(p)
  PROVE  LoadInv'
<1>1. /\ pc \in [Workers -> Places] /\ m_shutdown \in BOOLEAN /\ missed \subseteq Workers
      /\ \A w \in Workers : pending[w] # {} => pc[w] = "running"
      /\ \A w \in Workers : pc[w] = "returned" => m_shutdown /\ m_queue = <<>>
      /\ m_shutdown => submitted = Producers
  BY DEF LoadInv, TypeOK, PoolTypeOK, WorkersRight
<1>2. CASE JoinProducers
  BY <1>1, <1>2, ThreadsKeep DEF JoinProducers, Shutdown
<1>3. CASE DestroyPool
  <2>1. pc' = [w \in Workers |-> IF w \in Waiting THEN "woken" ELSE pc[w]]
    BY <1>3 DEF DestroyPool, NotifyAll
  <2>2. /\ pc' \in [Workers -> Places]
        /\ \A w \in Workers : pc'[w] = pc[w] \/ (pc[w] = "waiting" /\ pc'[w] = "woken")
    BY <1>1, <2>1 DEF Waiting, Places
  <2>3. missed' \subseteq Workers /\ main' = "workers" /\ UNCHANGED producerVars
    BY <1>3 DEF DestroyPool
  <2>4. UNCHANGED <<m_shutdown, m_queue, subtasks, job, pending, stores>>
    BY <1>3 DEF DestroyPool, NotifyAll
  <2>5. \A w \in Workers : pending[w] # {} => pc'[w] = "running"
    BY <1>1, <2>2
  <2>6. \A w \in Workers : pc'[w] = "returned" => m_shutdown' /\ m_queue = <<>>
    BY <1>1, <2>2, <2>4
  <2> QED BY <1>1, <2>2, <2>3, <2>4, <2>5, <2>6, ThreadsKeep
<1>4. CASE JoinWorkers
  BY <1>1, <1>4, ThreadsKeep DEF JoinWorkers, poolVars, AllReturned
<1>5. CASE \E p \in Producers : CursorThrows(p)
  BY <1>1, <1>5, ThreadsKeep DEF CursorThrows, poolVars
<1> QED BY <1>2, <1>3, <1>4, <1>5 DEF Main

-----------------------------------------------------------------------------
(* A job goes from the head of the queue to a worker; an empty one goes.   *)
LEMMA TakeJobKeeps ==
  ASSUME LoadInv, NEW w \in Workers, TakeJob(w), UNCHANGED <<producerVars, main, missed>>
  PROVE  LoadInv'
<1> DEFINE j == Head(m_queue)
<1>1. /\ m_queue # <<>> /\ m_queue' = Tail(m_queue)
      /\ pc' = [pc EXCEPT ![w] = "running"]
      /\ IF j = {} THEN UNCHANGED <<job, subtasks, pending>>
         ELSE /\ job' = [job EXCEPT ![w] = j]
              /\ subtasks' = [subtasks EXCEPT ![w] = Cardinality(Stores)]
              /\ pending' = [pending EXCEPT ![w] = Stores]
      /\ UNCHANGED <<m_shutdown, store, failed>>
      /\ UNCHANGED <<rest, currentEntityId, indexJob, submitted, unparsed, started, scattered>>
  BY DEF TakeJob, stores, producerVars
<1>2. pending[w] = {}
  BY NothingPending DEF TakeJob
<1>3. /\ m_queue \in Seq(SUBSET Triads) /\ pc \in [Workers -> Places]
      /\ subtasks \in [Workers -> Nat] /\ job \in [Workers -> SUBSET Triads]
      /\ pending \in [Workers -> SUBSET Stores]
  BY DEF LoadInv, TypeOK, PoolTypeOK
<1>4. /\ m_queue' \in Seq(SUBSET Triads) /\ j \in SUBSET Triads
      /\ ToSet(m_queue) = {j} \cup ToSet(m_queue')
  BY <1>1, <1>3, TailSet
<1> HIDE DEF j
<1>5. Cardinality(Stores) \in Nat
  BY PoolFinite, FS_CardinalityType
<1>6. /\ pc' \in [Workers -> Places] /\ pc'[w] = "running"
      /\ subtasks' \in [Workers -> Nat] /\ job' \in [Workers -> SUBSET Triads]
      /\ pending' \in [Workers -> SUBSET Stores]
      /\ \A v \in Workers : v # w =>
           pc'[v] = pc[v] /\ subtasks'[v] = subtasks[v] /\ job'[v] = job[v] /\ pending'[v] = pending[v]
      /\ j = {} => pending'[w] = {}
      /\ j # {} => job'[w] = j /\ pending'[w] = Stores /\ subtasks'[w] = Cardinality(Stores)
  <2>1. pc' \in [Workers -> Places] /\ pc'[w] = "running" /\ \A v \in Workers : v # w => pc'[v] = pc[v]
    BY <1>1, <1>3 DEF Places
  <2>2. CASE j = {}
    BY <1>1, <1>2, <1>3, <2>1, <2>2
  <2>3. CASE j # {}
    <3>1. subtasks' \in [Workers -> Nat] /\ subtasks'[w] = Cardinality(Stores)
          /\ \A v \in Workers : v # w => subtasks'[v] = subtasks[v]
      BY <1>1, <1>3, <1>5, <2>3
    <3>2. /\ job' \in [Workers -> SUBSET Triads] /\ job'[w] = j
          /\ \A v \in Workers : v # w => job'[v] = job[v]
      BY <1>1, <1>3, <1>4, <2>3
    <3>3. /\ pending' \in [Workers -> SUBSET Stores] /\ pending'[w] = Stores
          /\ \A v \in Workers : v # w => pending'[v] = pending[v]
      BY <1>1, <1>3, <2>3
    <3> QED BY <2>1, <2>3, <3>1, <3>2, <3>3
  <2> QED BY <2>2, <2>3
<1>7. TypeOK'
  BY <1>1, <1>4, <1>6 DEF LoadInv, TypeOK, PoolTypeOK
<1>8. CursorsRight'
  BY <1>1 DEF LoadInv, CursorsRight
<1>9. j # {} => \E e \in Entities : About(j, e)
  BY <1>4 DEF LoadInv, JobsRight
<1>10. JobsRight'
  <2>1. \A x \in ToSet(m_queue') : x # {} => \E e \in Entities : About(x, e)
    BY <1>4 DEF LoadInv, JobsRight
  <2>2. \A v \in Workers : pending'[v] # {} => \E e \in Entities : About(job'[v], e)
    BY <1>6, <1>9 DEF LoadInv, JobsRight
  <2> QED BY <1>1, <2>1, <2>2 DEF LoadInv, JobsRight, About, TriadsOf
<1>11. WorkersRight'
  <2>1. \A v \in Workers : pending'[v] # {} =>
          pc'[v] = "running" /\ subtasks'[v] = Cardinality(pending'[v])
    BY <1>6 DEF LoadInv, WorkersRight
  <2>2. \A v \in Workers : pc'[v] # "returned"
    BY <1>1, <1>6 DEF LoadInv, WorkersRight
  <2>3. main # "done"
    <3>1. ~AllReturned
      BY <1>1, PoolExists DEF LoadInv, WorkersRight, AllReturned
    <3> QED BY <3>1 DEF LoadInv, WorkersRight
  <2> QED BY <1>1, <2>1, <2>2, <2>3 DEF LoadInv, WorkersRight
<1>12. ASSUME NEW e \in Entities PROVE InOnePlace(e)'
  <2>1. /\ Parsed(e)' = Parsed(e) /\ (Collecting(e)' <=> Collecting(e))
        /\ InOnePlace(e)
    BY <1>1 DEF Parsed, Seen, Collecting, LoadInv, EntitiesRight
  <2>2. CASE ~About(j, e)
    <3>1. Queued(e)' = Queued(e)
      BY <1>4, <2>2 DEF Queued
    <3>2. Writing(e)' = Writing(e) /\ w \notin Writing(e)
      BY <1>2, <1>6, <2>2 DEF Writing, About
    <3>3. \A v \in Writing(e) : v \in Workers /\ job'[v] = job[v] /\ pending'[v] = pending[v]
      BY <1>6, <3>2 DEF Writing
    <3>4. Untouched(e) => Untouched(e)'
      BY <1>1, <2>1, <3>1, <3>2 DEF Untouched
    <3>5. Collected(e) => Collected(e)'
      BY <1>1, <2>1, <3>1, <3>2 DEF Collected
    <3>6. Submitted(e) => Submitted(e)'
      BY <1>1, <2>1, <3>1, <3>2, <3>3 DEF Submitted
    <3> QED BY <1>1, <2>1, <3>4, <3>5, <3>6 DEF InOnePlace
  <2>3. CASE About(j, e)
    <3>1. j # {} /\ j \in Queued(e) /\ Queued(e)' \subseteq Queued(e)
      BY <1>4, <2>3 DEF About, Queued
    <3>2. \A x \in Queued(e) : x = j \/ x \in Queued(e)'
      BY <1>4 DEF Queued
    <3>3. Writing(e)' = Writing(e) \cup {w} /\ w \notin Writing(e)
      BY <1>2, <1>6, <2>3, <3>1, PoolExists DEF Writing, About
    <3>4. \A v \in Writing(e) : v \in Workers /\ job'[v] = job[v] /\ pending'[v] = pending[v]
      BY <1>6, <3>3 DEF Writing
    <3>5. Submitted(e) => Submitted(e)'
      BY <1>1, <1>6, <2>1, <3>1, <3>2, <3>3, <3>4 DEF Submitted
    <3> QED BY <1>1, <2>1, <3>1, <3>5 DEF InOnePlace, Untouched, Collected
  <2> QED BY <2>2, <2>3
<1>13. EntitiesRight'
  BY <1>1, <1>12 DEF LoadInv, EntitiesRight
<1> QED BY <1>7, <1>8, <1>10, <1>11, <1>13 DEF LoadInv

(* A put replaces the document of the job's entity by the job, or fails.   *)
LEMMA PutKeeps ==
  ASSUME LoadInv, NEW w \in Workers, NEW s \in Stores,
         PutDone(w, s) \/ PutFailed(w, s), UNCHANGED <<producerVars, missed>>,
         main' \in {main, "dead"}
  PROVE  LoadInv'
<1>1. /\ s \in pending[w]
      /\ pending' = [pending EXCEPT ![w] = @ \ {s}]
      /\ subtasks' = [subtasks EXCEPT ![w] = @ - 1]
      /\ UNCHANGED <<m_shutdown, m_queue, pc, job>>
      /\ UNCHANGED <<rest, currentEntityId, indexJob, submitted, unparsed, started, scattered>>
  BY DEF PutDone, PutFailed, CallBack, producerVars
<1>2. PICK d \in Entities : About(job[w], d)
  BY <1>1 DEF LoadInv, JobsRight
<1>3. EntityIn(job[w]) = d /\ \A e \in Entities : About(job[w], e) => e = d
  BY <1>2, AboutOne
<1>4. \/ store' = [store EXCEPT ![s][d] = job[w]] /\ failed' = failed
      \/ store' = store /\ failed' = failed \cup {<<s, d>>}
  BY <1>3 DEF PutDone, PutFailed
<1>5. /\ pending \in [Workers -> SUBSET Stores] /\ subtasks \in [Workers -> Nat]
      /\ store \in [Stores -> [Entities -> SUBSET Triads]] /\ failed \subseteq Stores \X Entities
      /\ job[w] \in SUBSET Triads
  BY DEF LoadInv, TypeOK, PoolTypeOK
<1>6. pc[w] = "running" /\ subtasks[w] = Cardinality(pending[w])
  BY <1>1 DEF LoadInv, WorkersRight
<1>7. /\ pending'[w] = pending[w] \ {s} /\ subtasks'[w] = subtasks[w] - 1
      /\ pending' \in [Workers -> SUBSET Stores]
      /\ \A v \in Workers : v # w => pending'[v] = pending[v] /\ subtasks'[v] = subtasks[v]
  BY <1>1, <1>5
<1>8. subtasks'[w] = Cardinality(pending'[w]) /\ subtasks'[w] \in Nat
  <2>1. IsFiniteSet(pending[w])
    BY <1>5, PoolFinite, FS_Subset
  <2>2. /\ IsFiniteSet(pending[w] \ {s})
        /\ Cardinality(pending[w] \ {s}) = Cardinality(pending[w]) - 1
    BY <1>1, <2>1, FS_RemoveElement
  <2>3. Cardinality(pending[w] \ {s}) \in Nat
    BY <2>2, FS_CardinalityType
  <2> QED BY <1>6, <1>7, <2>2, <2>3
<1>9. subtasks' \in [Workers -> Nat]
  <2>1. DOMAIN subtasks' = Workers /\ subtasks' = [v \in Workers |-> subtasks'[v]]
    BY <1>1, <1>5
  <2> QED BY <1>5, <1>7, <1>8, <2>1
<1>10. /\ store' \in [Stores -> [Entities -> SUBSET Triads]] /\ failed' \subseteq Stores \X Entities
       /\ \A r \in Stores, e \in Entities : store'[r][e] = store[r][e] \/ (r = s /\ e = d)
       /\ store'[s][d] = job[w] \/ (store'[s][d] = store[s][d] /\ <<s, d>> \in failed')
       /\ failed \subseteq failed'
  <2>1. CASE store' = [store EXCEPT ![s][d] = job[w]] /\ failed' = failed
    <3>1. /\ store' \in [Stores -> [Entities -> SUBSET Triads]] /\ store'[s][d] = job[w]
          /\ \A e \in Entities : e # d => store'[s][e] = store[s][e]
          /\ \A r \in Stores : r # s => store'[r] = store[r]
      BY <1>5, <2>1
    <3> QED BY <1>5, <2>1, <3>1
  <2>2. CASE store' = store /\ failed' = failed \cup {<<s, d>>}
    BY <1>5, <2>2
  <2> QED BY <1>4, <2>1, <2>2
<1>11. TypeOK'
  BY <1>1, <1>7, <1>9, <1>10 DEF LoadInv, TypeOK, PoolTypeOK
<1>12. CursorsRight'
  BY <1>1 DEF LoadInv, CursorsRight
<1>13. JobsRight'
  <2>1. \A v \in Workers : pending'[v] # {} => \E e \in Entities : About(job'[v], e)
    BY <1>1, <1>7 DEF LoadInv, JobsRight
  <2> QED BY <1>1, <2>1 DEF LoadInv, JobsRight, About, TriadsOf
<1>14. WorkersRight'
  <2>1. \A v \in Workers : pending'[v] # {} =>
          pc'[v] = "running" /\ subtasks'[v] = Cardinality(pending'[v])
    BY <1>1, <1>6, <1>7, <1>8 DEF LoadInv, WorkersRight
  <2>2. main' # "done"
    BY <1>6 DEF LoadInv, WorkersRight, AllReturned
  <2> QED BY <1>1, <2>1, <2>2 DEF LoadInv, WorkersRight
<1>15. ASSUME NEW e \in Entities PROVE InOnePlace(e)'
  <2>1. /\ Parsed(e)' = Parsed(e) /\ Queued(e)' = Queued(e) /\ (Collecting(e)' <=> Collecting(e))
        /\ InOnePlace(e)
    BY <1>1 DEF Parsed, Seen, Queued, Collecting, LoadInv, EntitiesRight
  <2>2. CASE e # d
    <3>1. w \notin Writing(e)
      BY <1>3, <2>2 DEF Writing
    <3>2. Writing(e)' = Writing(e)
      BY <1>1, <1>3, <1>7, <2>2 DEF Writing, About
    <3>3. \A v \in Writing(e) : v \in Workers /\ job'[v] = job[v] /\ pending'[v] = pending[v]
      BY <1>1, <1>7, <3>1 DEF Writing
    <3>4. \A r \in Stores : store'[r][e] = store[r][e]
      BY <1>10, <2>2
    <3>5. Untouched(e) => Untouched(e)'
      BY <2>1, <3>2, <3>4 DEF Untouched
    <3>6. Collected(e) => Collected(e)'
      BY <1>1, <2>1, <3>2 DEF Collected
    <3>7. Submitted(e) => Submitted(e)'
      BY <1>10, <2>1, <3>2, <3>3, <3>4 DEF Submitted
    <3> QED BY <1>1, <2>1, <3>5, <3>6, <3>7 DEF InOnePlace
  <2>3. CASE e = d
    <3>1. w \in Writing(e)
      BY <1>1, <1>2, <2>3 DEF Writing
    <3>2. ~Untouched(e) /\ ~Collected(e)
      BY <3>1 DEF Untouched, Collected
    <3>3. Writing(e)' \subseteq Writing(e)
      BY <1>1, <1>7, <3>1 DEF Writing, About
    <3>4. \A v \in Writing(e) : \A r \in pending[v] : r # s \/ v # w => v \in Writing(e)' /\ r \in pending'[v]
      BY <1>1, <1>7 DEF Writing, About
    <3>5. ASSUME Submitted(e) PROVE Submitted(e)'
      <4>1. job[w] = Parsed(e)
        BY <3>1, <3>5 DEF Submitted
      <4>2. store'[s][e] = Parsed(e) \/ <<s, e>> \in failed'
        BY <1>10, <2>3, <4>1
      <4>3. ASSUME NEW r \in Stores, r # s
            PROVE  \/ store'[r][e] = Parsed(e)
                   \/ <<r, e>> \in failed'
                   \/ Parsed(e) \in Queued(e)
                   \/ \E v \in Writing(e)' : r \in pending'[v]
        <5>1. store'[r][e] = store[r][e]
          BY <1>10, <4>3
        <5> QED BY <1>10, <3>4, <3>5, <4>3, <5>1 DEF Submitted
      <4>4. Queued(e)' \subseteq {Parsed(e)'} /\ \A v \in Writing(e)' : job'[v] = Parsed(e)
        BY <1>1, <2>1, <3>3, <3>5 DEF Submitted
      <4>5. Parsed(e)' # {}
        BY <2>1, <3>5 DEF Submitted
      <4>6. \A r \in Stores : \/ store'[r][e] = Parsed(e)
                              \/ <<r, e>> \in failed'
                              \/ Parsed(e) \in Queued(e)
                              \/ \E v \in Writing(e)' : r \in pending'[v]
        BY <4>2, <4>3
      <4> HIDE DEF Parsed, Queued, Writing
      <4> QED BY <2>1, <4>4, <4>5, <4>6 DEF Submitted
    <3> QED BY <1>1, <2>1, <3>2, <3>5 DEF InOnePlace
  <2> QED BY <2>2, <2>3
<1>16. EntitiesRight'
  <2>1. job[w] \subseteq TriadsOf(d)
    BY <1>2 DEF About
  <2>2. ASSUME NEW e \in Entities, NEW r \in Stores PROVE store'[r][e] \subseteq TriadsOf(e)
    BY <1>10, <2>1 DEF LoadInv, EntitiesRight
  <2> QED BY <1>15, <2>2 DEF EntitiesRight, TriadsOf
<1> QED BY <1>11, <1>12, <1>13, <1>14, <1>16 DEF LoadInv

-----------------------------------------------------------------------------
(* Every triad the cursors returned is in one place as long as the load    *)
(* runs, and no worker returns before all of them are at the workers.      *)
THEOREM LoadInvariant == Spec => []LoadInv
<1>1. LoadInv /\ [Next]_vars => LoadInv'
  <2> SUFFICES ASSUME LoadInv, [Next]_vars PROVE LoadInv'
    OBVIOUS
  <2>1. ASSUME NEW p \in Producers, Produce(p) PROVE LoadInv'
    BY <2>1, ParseErrorKeeps, NextTriadKeeps, NextEntityKeeps, LastJobKeeps DEF Produce
  <2>2. ASSUME NEW w \in Workers, RunWorker(w) \/ WakeUp(w) PROVE LoadInv'
    BY <2>2, TakeJobKeeps, IdleWorkerKeeps DEF RunWorker, WakeUp
  <2>3. ASSUME NEW w \in Workers, NEW s \in Stores, Put(w, s) \/ LogFailure(w, s) PROVE LoadInv'
    BY <2>3, PutKeeps DEF Put, LogFailure
  <2>4. ASSUME Main \/ \E p \in Producers : CursorThrows(p) PROVE LoadInv'
    BY <2>4, MainKeeps
  <2>5. CASE UNCHANGED vars
    <3>1. UNCHANGED <<poolVars, producerVars, main, missed>>
      BY <2>5 DEF vars
    <3>2. UNCHANGED <<m_shutdown, m_queue, pc, subtasks, job, pending, stores>>
      BY <3>1 DEF poolVars
    <3> QED BY <3>1, <3>2, ThreadsKeep DEF LoadInv, TypeOK, PoolTypeOK, WorkersRight, AllReturned
  <2> QED BY <2>1, <2>2, <2>3, <2>4, <2>5 DEF Next
<1> QED BY InitLoads, <1>1, PTL DEF Spec

(* FullIndexer's state is of its type, also the counters that nobody       *)
(* initialises: once a worker has a job its counter is that of its puts.   *)
THEOREM LoadTyped == Spec => []TypeOK
<1>1. LoadInv => TypeOK
  BY DEF LoadInv
<1> QED BY LoadInvariant, <1>1, PTL

(* When startFullIndexer returns nothing is left in a cursor, in the       *)
(* queue or at a worker, so that what was collected of an entity is in     *)
(* every store whose put did not fail.                                     *)
THEOREM LoadIsComplete == Spec => []LoadComplete
<1>1. LoadInv => LoadComplete
  <2> SUFFICES ASSUME LoadInv, main = "done", NEW e \in Entities, NEW s \in Stores
               PROVE  \/ store[s][e] = TriadsOf(e) \ unparsed
                      \/ <<s, e>> \in failed
                      \/ e \in scattered /\ store[s][e] \subseteq TriadsOf(e)
    BY DEF LoadComplete
  <2>1. \A w \in Workers : pc[w] = "returned"
    BY DEF LoadInv, WorkersRight, AllReturned
  <2>2. m_queue = <<>> /\ submitted = Producers
    BY <2>1, PoolExists DEF LoadInv, WorkersRight
  <2>3. \A w \in Workers : pending[w] = {}
    BY <2>1 DEF LoadInv, WorkersRight
  <2>4. Queued(e) = {} /\ Writing(e) = {} /\ ~Collecting(e)
    BY <2>2, <2>3, EntityTyped DEF Queued, Writing, Collecting, ToSet
  <2>5. Parsed(e) = TriadsOf(e) \ unparsed
    <3>1. rest[ProducerOf[e]] = <<>>
      BY <2>2, EntityTyped DEF LoadInv, CursorsRight
    <3> QED BY <3>1 DEF Parsed, Seen, ToSet
  <2>6. InOnePlace(e) /\ store[s][e] \subseteq TriadsOf(e)
    BY DEF LoadInv, EntitiesRight
  <2>7. CASE e \notin started
    <3>1. Untouched(e)
      BY <2>6, <2>7 DEF InOnePlace
    <3> QED BY <2>5, <3>1 DEF Untouched
  <2>8. CASE e \in started \ scattered
    <3>1. Submitted(e)
      BY <2>4, <2>6, <2>8 DEF InOnePlace
    <3> QED BY <2>4, <2>5, <3>1 DEF Submitted
  <2> QED BY <2>6, <2>7, <2>8
<1> QED BY LoadInvariant, <1>1, PTL
-----------------------------------------------------------------------------
(* What the pool is to its users depends on its queue and on who waits for *)
(* which stores about what.                                                *)
LEMMA PoolStays ==
  ASSUME UNCHANGED <<m_queue, job, pending>>
  PROVE  UNCHANGED Pool!jobVars
BY DEF Pool!jobVars, AtWork

(* A worker that may look at the queue waits for nothing: its counter is   *)
(* that of its puts, or it was asleep and had none.                        *)
LEMMA PoolTakes ==
  ASSUME LoadInv, NEW w \in Workers, TakeJob(w)
  PROVE  Pool!Take(w)
<1> DEFINE j == Head(m_queue)
<1>1. /\ m_queue # <<>> /\ m_queue' = Tail(m_queue)
      /\ IF j = {} THEN UNCHANGED <<job, subtasks, pending>>
         ELSE /\ job' = [job EXCEPT ![w] = j]
              /\ pending' = [pending EXCEPT ![w] = Stores]
  BY DEF TakeJob
<1>2. pending[w] = {}
  BY NothingPending DEF TakeJob
<1>3. job \in [Workers -> SUBSET Triads] /\ pending \in [Workers -> SUBSET Stores]
  BY DEF LoadInv, TypeOK, PoolTypeOK
<1>4. Pool!Free = [waits |-> {}] /\ AtWork[w] = [waits |-> {}]
  BY <1>2 DEF Pool!Free, AtWork
<1> HIDE DEF j
<1>5. AtWork' = [AtWork EXCEPT ![w] = Pool!With(j)]
  <2>1. CASE j = {}
    <3>1. AtWork' = AtWork
      BY <1>1, <2>1 DEF AtWork
    <3>2. Pool!With(j) = AtWork[w]
      BY <1>4, <2>1 DEF Pool!With
    <3> QED BY <3>1, <3>2 DEF AtWork
  <2>2. CASE j # {}
    <3>1. Pool!With(j) = [job |-> j, waits |-> Stores]
      BY <2>2 DEF Pool!With
    <3>2. /\ job'[w] = j /\ pending'[w] = Stores
          /\ \A v \in Workers : v # w => job'[v] = job[v] /\ pending'[v] = pending[v]
      BY <1>1, <1>3, <2>2
    <3> QED BY <3>1, <3>2, PoolExists DEF AtWork
  <2> QED BY <2>1, <2>2
<1> QED BY <1>1, <1>4, <1>5 DEF Pool!Take, j

(* Each callback is about one put, whether it was done or failed.          *)
LEMMA PoolAnswers ==
  ASSUME LoadInv, NEW w \in Workers, NEW s \in Stores, PutDone(w, s) \/ PutFailed(w, s)
  PROVE  Pool!Answer(w, s)
<1>1. /\ s \in pending[w] /\ pending' = [pending EXCEPT ![w] = @ \ {s}]
      /\ UNCHANGED <<m_queue, job>>
  BY DEF PutDone, PutFailed, CallBack
<1>2. job \in [Workers -> SUBSET Triads] /\ pending \in [Workers -> SUBSET Stores]
  BY DEF LoadInv, TypeOK, PoolTypeOK
<1>3. AtWork[w] = [job |-> job[w], waits |-> pending[w]]
  BY <1>1 DEF AtWork
<1>4. /\ pending'[w] = pending[w] \ {s}
      /\ \A v \in Workers : v # w => pending'[v] = pending[v]
  BY <1>1, <1>2
<1>5. Pool!Without(AtWork[w], s) =
        IF pending'[w] = {} THEN [waits |-> {}] ELSE [job |-> job[w], waits |-> pending'[w]]
  <2>1. pending[w] = {s} <=> pending'[w] = {}
    BY <1>1, <1>4
  <2>2. Pool!Without(AtWork[w], s) =
          IF pending[w] = {s} THEN [waits |-> {}] ELSE [job |-> job[w], waits |-> pending[w] \ {s}]
    BY <1>3 DEF Pool!Without, Pool!Free
  <2> QED BY <1>4, <2>1, <2>2
<1>6. AtWork' = [AtWork EXCEPT ![w] = Pool!Without(AtWork[w], s)]
  BY <1>1, <1>4, <1>5 DEF AtWork
<1> QED BY <1>1, <1>3, <1>6 DEF Pool!Answer

(* Every step of the threads is a step of the pool that the indexers rely  *)
(* on, or leaves it as it was, whatever the counters held at first.        *)
THEOREM PoolRefines == Spec => PoolImplemented
<1>1. Init => Pool!JobInit
  BY DEF Init, InitPool, Pool!JobInit, Pool!Free, AtWork
<1>2. LoadInv /\ [Next]_vars => [Pool!JobNext]_(Pool!jobVars)
  <2> SUFFICES ASSUME LoadInv, [Next]_vars PROVE [Pool!JobNext]_(Pool!jobVars)
    OBVIOUS
  <2>1. ASSUME NEW j \in SUBSET Triads, Submit(j) PROVE Pool!JobNext
    <3>1. m_queue' = Append(m_queue, j) /\ AtWork' = AtWork
      BY <2>1 DEF Submit, AtWork
    <3> QED BY <3>1 DEF Pool!Submit, Pool!JobNext
  <2>2. ASSUME NEW p \in Producers, Produce(p) \/ CursorThrows(p)
        PROVE  [Pool!JobNext]_(Pool!jobVars)
    <3>1. \/ UNCHANGED poolVars
          \/ Submit(indexJob[p])
      BY <2>2 DEF Produce, ParseError, NextTriad, NextEntity, LastJob, CursorThrows
    <3>2. indexJob[p] \in SUBSET Triads
      BY DEF LoadInv, TypeOK
    <3> QED BY <2>1, <3>1, <3>2, PoolStays DEF poolVars
  <2>3. ASSUME NEW w \in Workers, RunWorker(w) \/ WakeUp(w)
        PROVE  [Pool!JobNext]_(Pool!jobVars)
    <3>1. CASE TakeJob(w)
      BY <3>1, PoolTakes DEF Pool!JobNext
    <3>2. CASE Quit(w) \/ TestPredicate(w) \/ Sleep(w) \/ Spurious(w)
      BY <3>2, PoolStays DEF Quit, TestPredicate, Sleep, Spurious
    <3> QED BY <2>3, <3>1, <3>2 DEF RunWorker, WakeUp
  <2>4. ASSUME NEW w \in Workers, NEW s \in Stores, Put(w, s) \/ LogFailure(w, s)
        PROVE  Pool!JobNext
    BY <2>4, PoolAnswers DEF Put, LogFailure, Pool!JobNext
  <2>5. CASE Main
    <3>1. UNCHANGED <<m_queue, job, pending>>
      BY <2>5 DEF Main, JoinProducers, DestroyPool, JoinWorkers, Shutdown, NotifyAll, poolVars
    <3> QED BY <3>1, PoolStays
  <2>6. CASE UNCHANGED vars
    BY <2>6, PoolStays DEF vars, poolVars
  <2> QED BY <2>2, <2>3, <2>4, <2>5, <2>6 DEF Next
<1> QED BY <1>1, <1>2, LoadInvariant, PTL DEF Spec, PoolImplemented, Pool!JobSpec
=============================================================================
