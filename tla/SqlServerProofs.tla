---------------------------- MODULE SqlServerProofs ----------------------------
(***************************************************************************)
(* That requests are answered once, rightly, and fresh where forced, for   *)
(* any queries, entities, requests and numbers of failures.  The prover    *)
(* has no induction scheme; where one is needed (along a vector, into      *)
(* nested queries) a least counterexample is refuted instead.              *)
(***************************************************************************)
EXTENDS SqlServer, FiniteSetTheorems, SequenceTheorems, WellFoundedInduction, TLAPS

-----------------------------------------------------------------------------
(* A set of natural numbers that is not empty has a least one.             *)
LEMMA Least ==
  ASSUME NEW T, T \subseteq Nat, T # {}
  PROVE  \E n \in T : \A m \in T : n <= m
<1>1. PICK n \in T : \A m \in T : ~ (<<m, n>> \in OpToRel(<, Nat))
  BY NatLessThanWellFounded, WFMin
<1>2. \A m \in T : ~(m < n)
  BY <1>1, Zenon DEF OpToRel
<1> QED BY <1>2

(* What is in a vector, and of its first element and the rest.             *)
LEMMA ElementOf ==
  ASSUME NEW S, NEW s \in Seq(S), NEW i \in DOMAIN s
  PROVE  s[i] \in S
OBVIOUS

(* A value put behind a vector.                                            *)
LEMMA AppendSet ==
  ASSUME NEW S, NEW s \in Seq(S), NEW x \in S
  PROVE  /\ Append(s, x) \in Seq(S) /\ Len(Append(s, x)) = Len(s) + 1
         /\ ToSet(Append(s, x)) = ToSet(s) \cup {x}
<1>1. /\ Append(s, x) \in Seq(S) /\ Len(Append(s, x)) = Len(s) + 1
      /\ \A i \in 1..Len(s) : Append(s, x)[i] = s[i]
      /\ Append(s, x)[Len(s) + 1] = x
  OBVIOUS
<1>2. /\ DOMAIN s = 1..Len(s) /\ DOMAIN Append(s, x) = 1..Len(s) + 1 /\ Len(s) \in Nat
  BY <1>1
<1>3. \A i \in 1..Len(s) + 1 : i \in 1..Len(s) \/ i = Len(s) + 1
  BY <1>2
<1>4. 1..Len(s) \subseteq 1..Len(s) + 1 /\ Len(s) + 1 \in 1..Len(s) + 1
  BY <1>2
<1> QED BY <1>1, <1>2, <1>3, <1>4 DEF ToSet

(* The walk of InOrder over the first n ids: k[i] is what is kept of i.    *)
Step(k, i, ids, S) == IF ids[i] \in S THEN Append(k[i - 1], ids[i]) ELSE k[i - 1]
Walk(k, n, ids, S) == k = [i \in 0..n |-> IF i = 0 THEN <<>> ELSE Step(k, i, ids, S)]

LEMMA WalkSteps ==
  ASSUME NEW ids, NEW S, NEW n \in Nat, NEW k, Walk(k, n, ids, S)
  PROVE  k[0] = <<>> /\ \A i \in 1..n : k[i] = Step(k, i, ids, S)
<1>1. \A i \in 0..n : k[i] = IF i = 0 THEN <<>> ELSE Step(k, i, ids, S)
  BY Zenon DEF Walk
<1> QED BY <1>1

LEMMA WalkExists ==
  ASSUME NEW ids, NEW S, NEW n \in Nat
  PROVE  \E k : Walk(k, n, ids, S)
<1> DEFINE T == {m \in Nat : ~ \E k : Walk(k, m, ids, S)}
<1>1. SUFFICES ASSUME T # {} PROVE FALSE
  BY Zenon
<1>2. PICK m \in T : \A l \in T : m <= l
  <2> HIDE DEF T
  <2>1. T \subseteq Nat
    BY DEF T
  <2> QED BY <1>1, <2>1, Least
<1>3. m # 0
  <2>1. Walk([i \in 0..0 |-> <<>>], 0, ids, S)
    BY DEF Walk
  <2> QED BY <2>1
<1>4. m - 1 \in Nat /\ m - 1 \notin T /\ m \in Nat
  BY <1>2, <1>3
<1>5. PICK k : Walk(k, m - 1, ids, S)
  BY <1>4
<1> DEFINE h == [i \in 0..m |-> IF i = m THEN Step(k, m, ids, S) ELSE k[i]]
<1>6. ASSUME NEW i \in 0..m
      PROVE  h[i] = IF i = 0 THEN <<>> ELSE Step(h, i, ids, S)
  <2>1. k[0] = <<>> /\ \A j \in 1..m - 1 : k[j] = Step(k, j, ids, S)
    BY <1>4, <1>5, WalkSteps
  <2>2. h[i] = IF i = m THEN Step(k, m, ids, S) ELSE k[i]
    OBVIOUS
  <2>3. i # 0 => h[i - 1] = k[i - 1]
    BY <1>4
  <2>4. i # 0 => Step(h, i, ids, S) = Step(k, i, ids, S)
    BY <2>3 DEF Step
  <2> HIDE DEF h
  <2> QED BY <1>3, <1>4, <2>1, <2>2, <2>4
<1>7. Walk(h, m, ids, S)
  <2>1. h = [i \in 0..m |-> h[i]]
    OBVIOUS
  <2> HIDE DEF h
  <2> QED BY <1>6, <2>1, Zenon DEF Walk
<1> QED BY <1>2, <1>7

LEMMA InOrderWalks ==
  ASSUME NEW ids, NEW S, Len(ids) \in Nat
  PROVE  \E k : /\ k[0] = <<>> /\ \A i \in 1..Len(ids) : k[i] = Step(k, i, ids, S)
               /\ InOrder(ids, S) = k[Len(ids)]
<1> DEFINE k == CHOOSE h : Walk(h, Len(ids), ids, S)
<1>1. Walk(k, Len(ids), ids, S)
  BY WalkExists, Zenon
<1>2. InOrder(ids, S) = k[Len(ids)]
  BY DEF InOrder, Walk, Step
<1> HIDE DEF k
<1>3. k[0] = <<>> /\ \A i \in 1..Len(ids) : k[i] = Step(k, i, ids, S)
  BY <1>1, WalkSteps
<1> QED BY <1>2, <1>3, Zenon

(* InOrder keeps exactly the elements of ids that are in S.                *)
LEMMA InOrderKeeps ==
  ASSUME NEW V, NEW ids \in Seq(V), NEW S
  PROVE  /\ InOrder(ids, S) \in Seq(V \cap S)
         /\ ToSet(InOrder(ids, S)) = ToSet(ids) \cap S
<1> DEFINE n == Len(ids)
<1>1. n \in Nat /\ DOMAIN ids = 1..n /\ \A i \in 1..n : ids[i] \in V
  OBVIOUS
<1>2. PICK k : /\ k[0] = <<>> /\ \A i \in 1..n : k[i] = Step(k, i, ids, S)
               /\ InOrder(ids, S) = k[n]
  BY <1>1, InOrderWalks
<1>3. k[0] = <<>> /\ \A i \in 1..n : k[i] = Step(k, i, ids, S)
  BY <1>2
<1> HIDE DEF n
<1> DEFINE Good(i) == /\ k[i] \in Seq(V \cap S)
                      /\ ToSet(k[i]) = {ids[j] : j \in 1..i} \cap S
           T == {i \in 0..n : ~Good(i)}
<1>4. Good(0)
  <2>1. <<>> \in Seq(V \cap S) /\ ToSet(<<>>) = {}
    BY DEF ToSet
  <2> QED BY <1>3, <2>1
<1>5. ASSUME NEW i \in 1..n, Good(i - 1) PROVE Good(i)
  <2>1. {ids[j] : j \in 1..i} = {ids[j] : j \in 1..i - 1} \cup {ids[i]}
    <3>1. \A j \in 1..i : j \in 1..i - 1 \/ j = i
      OBVIOUS
    <3>2. \A j \in 1..i - 1 : j \in 1..i
      OBVIOUS
    <3>3. i \in 1..i
      OBVIOUS
    <3> QED BY <3>1, <3>2, <3>3
  <2>2. k[i] = Step(k, i, ids, S)
    BY <1>3
  <2>3. CASE ids[i] \in S
    <3>1. k[i] = Append(k[i - 1], ids[i]) /\ ids[i] \in V \cap S
      BY <1>1, <2>2, <2>3 DEF Step
    <3> DEFINE t == k[i - 1]
    <3>2. t \in Seq(V \cap S)
      BY <1>5
    <3> HIDE DEF t
    <3>3. /\ Append(t, ids[i]) \in Seq(V \cap S)
          /\ ToSet(Append(t, ids[i])) = ToSet(t) \cup {ids[i]}
      BY <3>1, <3>2, AppendSet
    <3> QED BY <1>5, <2>1, <2>3, <3>1, <3>3 DEF t
  <2>4. CASE ids[i] \notin S
    BY <1>5, <2>1, <2>2, <2>4 DEF Step
  <2> QED BY <2>3, <2>4
<1> HIDE DEF Good
<1>6. ASSUME T # {} PROVE FALSE
  <2>1. T \subseteq Nat
    OBVIOUS
  <2>2. PICK i \in T : \A j \in T : i <= j
    <3> HIDE DEF T
    <3> QED BY <1>6, <2>1, Least
  <2>3. i \in 1..n /\ i - 1 \in 0..n /\ ~Good(i)
    BY <1>1, <1>4, <2>2
  <2>4. Good(i - 1)
    BY <2>2, <2>3
  <2> QED BY <1>5, <2>3, <2>4
<1>7. Good(n)
  BY <1>1, <1>6
<1>8. ToSet(ids) = {ids[j] : j \in 1..n}
  BY <1>1 DEF ToSet
<1> QED BY <1>2, <1>7, <1>8 DEF Good

(* What is kept depends on the elements of ids alone.                      *)
LEMMA InOrderSame ==
  ASSUME NEW V, NEW ids \in Seq(V), NEW S, NEW T, ToSet(ids) \cap S = ToSet(ids) \cap T
  PROVE  InOrder(ids, S) = InOrder(ids, T)
<1> DEFINE n == Len(ids)
<1>1. n \in Nat /\ DOMAIN ids = 1..n
  OBVIOUS
<1>2. PICK k : /\ k[0] = <<>> /\ \A i \in 1..n : k[i] = Step(k, i, ids, S)
               /\ InOrder(ids, S) = k[n]
  BY <1>1, InOrderWalks
<1>3. PICK h : /\ h[0] = <<>> /\ \A i \in 1..n : h[i] = Step(h, i, ids, T)
               /\ InOrder(ids, T) = h[n]
  BY <1>1, InOrderWalks
<1>4. k[0] = <<>> /\ \A i \in 1..n : k[i] = Step(k, i, ids, S)
  BY <1>2
<1>5. h[0] = <<>> /\ \A i \in 1..n : h[i] = Step(h, i, ids, T)
  BY <1>3
<1>6. \A i \in 1..n : ids[i] \in S <=> ids[i] \in T
  BY <1>1 DEF ToSet
<1> DEFINE D == {i \in 0..n : k[i] # h[i]}
<1>7. ASSUME D # {} PROVE FALSE
  <2>1. D \subseteq Nat
    OBVIOUS
  <2>2. PICK i \in D : \A j \in D : i <= j
    <3> HIDE DEF D
    <3> QED BY <1>7, <2>1, Least
  <2>3. i \in 1..n /\ i - 1 \in 0..n /\ k[i] # h[i]
    BY <1>1, <1>4, <1>5, <2>2
  <2>4. k[i - 1] = h[i - 1]
    BY <2>2, <2>3
  <2>5. Step(k, i, ids, S) = Step(h, i, ids, T)
    BY <1>6, <2>3, <2>4 DEF Step
  <2> QED BY <1>4, <1>5, <2>3, <2>5
<1> QED BY <1>1, <1>2, <1>3, <1>7

(* A finite set is made a vector of its elements.                          *)
LEMMA SetToSeqKeeps ==
  ASSUME NEW V, NEW S, IsFiniteSet(S), S \subseteq V
  PROVE  SetToSeq(S) \in Seq(V)
<1>1. Cardinality(S) \in Nat /\ ExistsBijection(1..Cardinality(S), S)
  BY FS_CardinalityType
<1>2. PICK f \in [1..Cardinality(S) -> S] : IsInjective(f)
  BY <1>1, Zenon DEF ExistsBijection, Bijection, Injection, IsInjective
<1>3. SetToSeq(S) \in [1..Cardinality(S) -> S]
  BY <1>2, Zenon DEF SetToSeq
<1> QED BY <1>1, <1>3

-----------------------------------------------------------------------------
(* What a query means: MeaningOf asks for the meanings of the queries      *)
(* nested in it, and no others.                                            *)
Subs(q) == {Query[q].subs[i].q : i \in DOMAIN Query[q].subs}
LEMMA SubsTyped ==
  ASSUME NEW q \in DOMAIN Query, NEW i \in DOMAIN Query[q].subs
  PROVE  /\ Query[q].subs[i].q \in DOMAIN Query /\ Query[q].subs[i].behindID \in BOOLEAN
         /\ Query[q].subs[i].q \in Subs(q)
<1>1. Query[q].subs \in Seq([q : DOMAIN Query, behindID : BOOLEAN])
  BY QueriesTyped
<1>2. Query[q].subs[i] \in [q : DOMAIN Query, behindID : BOOLEAN]
  BY <1>1, ElementOf
<1> QED BY <1>2 DEF Subs

LEMMA MeaningOfSubs ==
  ASSUME NEW q, NEW f, NEW g, \A p \in Subs(q) : f[p] = g[p]
  PROVE  MeaningOf(q, f) = MeaningOf(q, g)
<1> DEFINE results(m) == [i \in DOMAIN Query[q].subs |-> SubResult(q, i, m)]
<1>1. \A i \in DOMAIN Query[q].subs : SubResult(q, i, f) = SubResult(q, i, g)
  BY DEF SubResult, Subs
<1>2. results(f) = results(g)
  BY <1>1
<1> HIDE DEF results
<1>3. \A m : MeaningOf(q, m) =
         LET ids == IF Query[q].idSearch THEN IDs([q |-> q, results |-> results(m)])
                                         ELSE Hits(q, results(m))
         IN [ids |-> ids, found |-> Limited(ids, Having(Query[q].select, ToSet(ids) \cap Documents),
                                            Query[q].limit)]
  BY DEF MeaningOf, results
<1> QED BY <1>2, <1>3

(* A part of the meaning: a function on queries that holds the nested ones *)
(* too and satisfies the equation.                                         *)
Partial(f) ==
  /\ DOMAIN f \subseteq DOMAIN Query
  /\ \A q \in DOMAIN f : Subs(q) \subseteq DOMAIN f /\ f[q] = MeaningOf(q, f)

LEMMA PartialsAgree ==
  ASSUME NEW f, NEW g, Partial(f), Partial(g)
  PROVE  \A q \in DOMAIN f \cap DOMAIN g : f[q] = g[q]
<1> DEFINE D == {q \in DOMAIN f \cap DOMAIN g : f[q] # g[q]}
<1>1. SUFFICES ASSUME D # {} PROVE FALSE
  OBVIOUS
<1>2. PICK q \in D : \A i \in DOMAIN Query[q].subs : Query[q].subs[i].q \notin D
  BY <1>1, QueriesNest DEF Partial
<1>3. \A p \in Subs(q) : p \notin D
  BY <1>2 DEF Subs
<1>4. \A p \in Subs(q) : f[p] = g[p]
  BY <1>2, <1>3 DEF Partial
<1>5. f[q] = g[q]
  BY <1>2, <1>4, MeaningOfSubs DEF Partial
<1> QED BY <1>2, <1>5

(* All parts together are the whole.                                       *)
LEMMA MeaningExists == \E f : f = [q \in DOMAIN Query |-> MeaningOf(q, f)]
<1> DEFINE A == {q \in DOMAIN Query : \E f : Partial(f) /\ q \in DOMAIN f}
           part(q) == CHOOSE f : Partial(f) /\ q \in DOMAIN f
           F == [q \in A |-> part(q)[q]]
<1>1. \A q \in A : Partial(part(q)) /\ q \in DOMAIN part(q)
  BY Zenon
<1> HIDE DEF part
<1>2. ASSUME NEW q \in A
      PROVE  Subs(q) \subseteq A /\ F[q] = MeaningOf(q, F)
  <2>1. Subs(q) \subseteq DOMAIN part(q) /\ part(q)[q] = MeaningOf(q, part(q))
    BY <1>1 DEF Partial
  <2>2. DOMAIN part(q) \subseteq A
    BY <1>1 DEF Partial
  <2>3. ASSUME NEW p \in Subs(q) PROVE F[p] = part(q)[p]
    <3>1. p \in A /\ p \in DOMAIN part(q)
      BY <2>1, <2>2
    <3>2. Partial(part(p)) /\ p \in DOMAIN part(p) /\ Partial(part(q))
      BY <1>1, <3>1
    <3>3. part(p)[p] = part(q)[p]
      BY <3>1, <3>2, PartialsAgree
    <3> QED BY <3>1, <3>3
  <2>4. MeaningOf(q, F) = MeaningOf(q, part(q))
    <3> HIDE DEF F
    <3> QED BY <2>3, MeaningOfSubs
  <2> QED BY <2>1, <2>2, <2>4
<1>3. A = DOMAIN Query
  <2>1. SUFFICES ASSUME DOMAIN Query \ A # {} PROVE FALSE
    OBVIOUS
  <2>2. PICK q \in DOMAIN Query \ A :
          \A i \in DOMAIN Query[q].subs : Query[q].subs[i].q \notin DOMAIN Query \ A
    <3> HIDE DEF A
    <3> QED BY <2>1, QueriesNest
  <2>3. Subs(q) \subseteq A
    <3>1. \A i \in DOMAIN Query[q].subs : Query[q].subs[i].q \in DOMAIN Query
      BY SubsTyped
    <3> HIDE DEF A
    <3> QED BY <2>2, <3>1 DEF Subs
  <2> DEFINE G == [p \in A \cup {q} |-> IF p = q THEN MeaningOf(q, F) ELSE F[p]]
  <2>4. DOMAIN F = A /\ DOMAIN G = A \cup {q} /\ q \notin A /\ A \subseteq DOMAIN Query
    BY <2>2
  <2>5. \A p \in A : G[p] = F[p]
    BY <2>4
  <2>6. G[q] = MeaningOf(q, F)
    OBVIOUS
  <2>7. Partial(G)
    <3> HIDE DEF A, F, G
    <3>1. MeaningOf(q, G) = MeaningOf(q, F)
      BY <2>3, <2>5, MeaningOfSubs
    <3>2. \A p \in A : MeaningOf(p, G) = MeaningOf(p, F)
      BY <1>2, <2>5, MeaningOfSubs
    <3> QED BY <1>2, <2>2, <2>3, <2>4, <2>5, <2>6, <3>1, <3>2 DEF Partial
  <2>8. q \in DOMAIN G
    OBVIOUS
  <2> HIDE DEF G
  <2> QED BY <2>2, <2>7, <2>8
<1>4. F = [q \in DOMAIN Query |-> F[q]]
  BY <1>3
<1> HIDE DEF A, F
<1>5. F = [q \in DOMAIN Query |-> MeaningOf(q, F)]
  BY <1>2, <1>3, <1>4, Zenon
<1> QED BY <1>5

(* The recursive definition of Meaning has a solution, so that it holds:   *)
(* what a query means is made of what the queries in its text mean, as     *)
(* dispatch runs them first.                                               *)
THEOREM MeaningUnfolds ==
  ASSUME NEW q \in DOMAIN Query
  PROVE  Meaning[q] = MeaningOf(q, Meaning)
<1>1. Meaning = [p \in DOMAIN Query |-> MeaningOf(p, Meaning)]
  <2> DEFINE M == CHOOSE f : f = [p \in DOMAIN Query |-> MeaningOf(p, f)]
  <2>1. M = [p \in DOMAIN Query |-> MeaningOf(p, M)]
    BY MeaningExists, Zenon
  <2>2. Meaning = M
    BY DEF Meaning
  <2> QED BY <2>1, <2>2
<1> QED BY <1>1, Zenon

(***************************************************************************)
(* What may belong to a request req: documents not older than the request  *)
(* if it is forced, calls that run queries only if it has one, and         *)
(* searches for texts that are cached where a later request looks.         *)
(***************************************************************************)
MapsFor(req) == {m \in Maps : req.forceQuery => \A e \in DOMAIN m : m[e] >= req.docs[e]}
Underway(task) == task.q \in DOMAIN Query => Len(task.results) <= Len(Query[task.q].subs)
TasksFor(req) == {t \in Tasks : t.entity_map \in MapsFor(req) /\ Underway(t)}
CallsFor(req) ==
  {c \in Calls : \/ req.q \in DOMAIN Query \/ c.fn = "respond"
                 \/ c.fn = "getDocs" /\ c.callback = "respond"}
Root(q) == [q |-> q, results |-> <<>>]
SearchFor(req, s) == /\ req.q \in DOMAIN Query
                     /\ Resolved(s.text) /\ ~Query[s.text.q].idSearch
                     /\ Query[req.q].subs = <<>> => s.text = Root(req.q)
ReadFor(req, s) == /\ s.callback = "respond" \/ req.q \in DOMAIN Query
                   /\ s.kind = "mgetRead" => s.read \in MapsFor(req)
SeriesFor(req) ==
  {s \in SeriesTasks : IF s.kind = "search" THEN SearchFor(req, s) ELSE ReadFor(req, s)}
Answers == Seq([id : Documents, version : Versions])
AnswersFor(req) ==
  {a \in Answers : req.forceQuery => \A j \in DOMAIN a : a[j].version >= req.docs[a[j].id]}

Own(r) ==
  /\ request[r] \in Served \cup {Free} /\ faults[r] \subseteq FaultKinds
  /\ taskStack[r] \in Seq(TasksFor(request[r]))
  /\ calls[r] \in Seq(CallsFor(request[r]))
  /\ series[r] \in Seq(SeriesFor(request[r]))
  /\ answers[r] \in Seq(AnswersFor(request[r]))
  /\ request[r] = Free => /\ taskStack[r] = <<>> /\ calls[r] = <<>>
                          /\ series[r] = <<>> /\ answers[r] = <<>>
  /\ calls[r] # <<>> \/ series[r] # <<>> => taskStack[r] # <<>>
DocsGrow(r) ==
  request[r] # Free /\ request[r].forceQuery =>
    \A e \in Documents : docs[e] >= request[r].docs[e]

(* Each task but the first runs the next open query of the one below it.   *)
NestedIn(below, task) ==
  /\ below.q \in DOMAIN Query
  /\ Len(below.results) < Len(Query[below.q].subs)
  /\ task.q = Query[below.q].subs[Len(below.results) + 1].q
StackNested(r) ==
  taskStack[r] # <<>> =>
    /\ taskStack[r][1].q = request[r].q
    /\ \A i \in 1..Len(taskStack[r]) - 1 : NestedIn(taskStack[r][i], taskStack[r][i + 1])

(* A request runs on in one place only, until a reply does not parse.      *)
OneThread(r) ==
  "unparsed" \notin faults[r] => Len(calls[r]) + Len(series[r]) + Len(answers[r]) <= 1

CacheRight ==
  \A t \in DOMAIN esCache :
    Resolved(t) /\ esCache[t].kind = "hits" => esCache[t].ids = Hits(t.q, t.results)

(* What a request that met no failure has done so far.                     *)
ResultsRight(task) ==
  task.q \in DOMAIN Query =>
    \A i \in DOMAIN task.results : task.results[i] = SubResult(task.q, i, Meaning)
Below(r) == 1..Len(taskStack[r]) - 1
TasksRight(r) ==
  /\ \A i \in DOMAIN taskStack[r] : ResultsRight(taskStack[r][i])
  /\ \A i \in Below(r) : taskStack[r][i].entity_map = Empty
Wanted(r, callback, ids) ==
  IF callback = "postProcess" THEN ids = Meaning[Top(r).q].ids
                              ELSE InOrder(ids, Documents) = Expected(r)
Present(ids) == ToSet(ids) \cap Documents
CallRight(r, c) ==
  LET task == Top(r) IN
    /\ c.fn \in {"dispatch", "getDocs"} => task.entity_map = Empty
    /\ c.fn = "getDocs" => Wanted(r, c.callback, c.ids)
    /\ c.fn = "postProcess" => /\ Wanted(r, "postProcess", task.entity_ids)
                               /\ DOMAIN task.entity_map = Present(task.entity_ids)
    /\ c.fn = "respond" => InOrder(task.entity_ids, DOMAIN task.entity_map) = Expected(r)
    /\ c.fn # "dispatchCallback"
TaskRight(r, s) ==
  LET task == Top(r) IN
    /\ s.kind = "search" => s.text = TextOf(task) /\ task.entity_map = Empty
    /\ s.kind = "mget" =>
         /\ Wanted(r, s.callback, task.entity_ids)
         /\ DOMAIN task.entity_map \cup Present(s.ids) = Present(task.entity_ids)
    /\ s.kind = "mgetRead" =>
         /\ Wanted(r, s.callback, task.entity_ids)
         /\ DOMAIN task.entity_map \cup DOMAIN s.read = Present(task.entity_ids)
RunsRight(r) ==
  faults[r] = {} =>
    /\ calls[r] # <<>> => TasksRight(r) /\ CallRight(r, Head(calls[r]))
    /\ calls[r] = <<>> /\ series[r] # <<>> => TasksRight(r) /\ TaskRight(r, Head(series[r]))

AnswersOf(r) ==
  faults[r] = {} => \A i \in DOMAIN answers[r] :
    [j \in DOMAIN answers[r][i] |-> answers[r][i][j].id] = Expected(r)

OnRequests(f) == f = [r \in Requests |-> f[r]]
Shape == /\ OnRequests(request) /\ OnRequests(taskStack) /\ OnRequests(calls)
         /\ OnRequests(series) /\ OnRequests(answers) /\ OnRequests(faults)
Stores == /\ docs \in [Documents -> Versions] /\ docCache \in Maps
          /\ DOMAIN esCache \subseteq Texts
          /\ \A t \in DOMAIN esCache : esCache[t] \in ESReplies
Local(r) == /\ Own(r) /\ DocsGrow(r) /\ StackNested(r) /\ OneThread(r)
            /\ RunsRight(r) /\ AnswersOf(r)
IInv == Shape /\ Stores /\ CacheRight /\ \A r \in Requests : Local(r)

-----------------------------------------------------------------------------
(* Sequences as the steps change them: a task replaced or taken off at the *)
(* top of the stack, calls put in the place of the first.                  *)
LEMMA FrontOf ==
  ASSUME NEW S, NEW s \in Seq(S), s # <<>>
  PROVE  /\ Len(s) \in Nat \ {0} /\ Front(s) \in Seq(S) /\ Len(Front(s)) = Len(s) - 1
         /\ \A i \in 1..Len(s) - 1 : Front(s)[i] = s[i]
<1>1. Len(s) \in Nat \ {0} /\ \A i \in 1..Len(s) - 1 : s[i] \in S
  BY EmptySeq, ElementOfSeq
<1> DEFINE n == Len(s) - 1
<1>2. n \in Nat /\ \A i \in 1..n : s[i] \in S
  BY <1>1
<1> HIDE DEF n
<1>3. /\ SubSeq(s, 1, n) \in Seq(S) /\ Len(SubSeq(s, 1, n)) = n
      /\ \A i \in 1..n : SubSeq(s, 1, n)[i] = s[i]
  <2>1. /\ SubSeq(s, 1, n) \in Seq(S)
        /\ Len(SubSeq(s, 1, n)) = IF 1 <= n THEN n - 1 + 1 ELSE 0
        /\ \A i \in 1..n - 1 + 1 : SubSeq(s, 1, n)[i] = s[1 + i - 1]
    BY <1>2, SubSeqProperties
  <2> QED BY <1>2, <2>1
<1> QED BY <1>1, <1>3 DEF Front, n

LEMMA Replaced ==
  ASSUME NEW S, NEW s \in Seq(S), s # <<>>, NEW x \in S
  PROVE  LET t == Append(Front(s), x)
         IN /\ t \in Seq(S) /\ t # <<>> /\ Len(t) = Len(s) /\ Last(t) = x
            /\ \A i \in 1..Len(s) - 1 : t[i] = s[i]
            /\ t[Len(s)] = x
<1> DEFINE f == Front(s)
<1>1. /\ Len(s) \in Nat \ {0} /\ f \in Seq(S) /\ Len(f) = Len(s) - 1
      /\ \A i \in 1..Len(s) - 1 : f[i] = s[i]
  BY FrontOf
<1> HIDE DEF f
<1>2. /\ Append(f, x) \in Seq(S) /\ Append(f, x) # <<>>
      /\ Len(Append(f, x)) = Len(f) + 1
      /\ \A i \in 1..Len(f) : Append(f, x)[i] = f[i]
      /\ Append(f, x)[Len(f) + 1] = x
  BY <1>1, AppendProperties
<1> QED BY <1>1, <1>2 DEF Last, f

LEMMA Popped ==
  ASSUME NEW S, NEW s \in Seq(S), Len(s) > 1
  PROVE  /\ Front(s) \in Seq(S) /\ Front(s) # <<>> /\ Len(Front(s)) = Len(s) - 1
         /\ Last(Front(s)) = s[Len(s) - 1]
         /\ \A i \in 1..Len(s) - 1 : Front(s)[i] = s[i]
<1> DEFINE f == Front(s)
<1>1. /\ Len(s) \in Nat \ {0} /\ f \in Seq(S) /\ Len(f) = Len(s) - 1
      /\ \A i \in 1..Len(s) - 1 : f[i] = s[i]
  BY FrontOf, EmptySeq
<1> HIDE DEF f
<1> QED BY <1>1, EmptySeq DEF Last, f

LEMMA Pushed ==
  ASSUME NEW S, NEW s \in Seq(S), NEW x \in S
  PROVE  LET t == Append(s, x)
         IN /\ t \in Seq(S) /\ t # <<>> /\ Len(t) = Len(s) + 1 /\ Last(t) = x
            /\ \A i \in 1..Len(s) : t[i] = s[i]
            /\ t[Len(s) + 1] = x
BY AppendProperties, LenProperties DEF Last

LEMMA Called ==
  ASSUME NEW S, NEW s \in Seq(S), s # <<>>, NEW todo \in Seq(S)
  PROVE  LET t == todo \o Tail(s)
         IN /\ t \in Seq(S) /\ Len(t) = Len(todo) + Len(s) - 1
            /\ Len(s) = 1 => t = todo
<1> DEFINE u == Tail(s)
<1>1. u \in Seq(S) /\ Len(u) = Len(s) - 1 /\ Len(s) \in Nat \ {0}
  BY HeadTailProperties, EmptySeq
<1> HIDE DEF u
<1>2. Len(s) = 1 => u = <<>>
  BY <1>1, EmptySeq
<1>3. todo \o u \in Seq(S) /\ Len(todo \o u) = Len(todo) + Len(u)
  BY <1>1, ConcatProperties
<1>4. todo \o <<>> = todo
  BY ConcatEmptySeq
<1> QED BY <1>1, <1>2, <1>3, <1>4 DEF u

LEMMA TopOf ==
  ASSUME NEW S, NEW s \in Seq(S), s # <<>>
  PROVE  /\ Last(s) \in S /\ Last(s) = s[Len(s)] /\ Len(s) \in Nat \ {0}
         /\ Head(s) \in S /\ Head(s) = s[1] /\ DOMAIN s = 1..Len(s)
         /\ Tail(s) \in Seq(S) /\ Len(Tail(s)) = Len(s) - 1
BY DEF Last

(* Maps from ids to versions.                                              *)
LEMMA MapsAre ==
  ASSUME NEW m
  PROVE  m \in Maps <=> DOMAIN m \subseteq Documents /\ m \in [DOMAIN m -> Versions]
BY DEF Maps

LEMMA EmptyMap == Empty \in Maps /\ DOMAIN Empty = {} /\ \A req : Empty \in MapsFor(req)
<1>1. DOMAIN Empty = {} /\ Empty \in [{} -> Versions]
  BY DEF Empty
<1>2. Empty \in Maps
  BY <1>1, MapsAre
<1> QED BY <1>1, <1>2 DEF MapsFor

LEMMA MergeMaps ==
  ASSUME NEW req, NEW m \in MapsFor(req), NEW n \in MapsFor(req)
  PROVE  Merge(m, n) \in MapsFor(req) /\ DOMAIN Merge(m, n) = DOMAIN m \cup DOMAIN n
<1>1. /\ DOMAIN Merge(m, n) = DOMAIN m \cup DOMAIN n
      /\ Merge(m, n) = [x \in DOMAIN m \cup DOMAIN n |-> Merge(m, n)[x]]
      /\ \A x \in DOMAIN n : Merge(m, n)[x] = n[x]
      /\ \A x \in DOMAIN m : x \notin DOMAIN n => Merge(m, n)[x] = m[x]
  BY DEF Merge
<1>2. m \in Maps /\ n \in Maps
  BY DEF MapsFor
<1>3. /\ DOMAIN m \cup DOMAIN n \subseteq Documents
      /\ \A x \in DOMAIN m : m[x] \in Versions
      /\ \A x \in DOMAIN n : n[x] \in Versions
  BY <1>2, MapsAre
<1>4. Merge(m, n) \in Maps
  BY <1>1, <1>3, MapsAre
<1> QED BY <1>1, <1>4 DEF MapsFor

LEMMA RestrictMaps ==
  ASSUME NEW req, NEW m \in MapsFor(req), NEW S, S \subseteq DOMAIN m
  PROVE  Restrict(m, S) \in MapsFor(req) /\ DOMAIN Restrict(m, S) = S
<1>1. /\ DOMAIN Restrict(m, S) = S
      /\ Restrict(m, S) = [x \in S |-> m[x]]
  BY DEF Restrict
<1>2. m \in Maps
  BY DEF MapsFor
<1>3. Restrict(m, S) \in Maps
  BY <1>1, <1>2, MapsAre
<1> QED BY <1>1, <1>3 DEF MapsFor

LEMMA MapsUnforced ==
  ASSUME NEW req, ~req.forceQuery
  PROVE  MapsFor(req) = Maps
BY DEF MapsFor

(* Whatever is merged into a map, it stays one.                            *)
NoForce == [forceQuery |-> FALSE]
LEMMA PlainMaps == \A m, n \in Maps : Merge(m, n) \in Maps
<1>1. MapsFor(NoForce) = Maps
  BY MapsUnforced DEF NoForce
<1> QED BY <1>1, MergeMaps

(* Values the operators return.                                            *)
LEMMA ClosedIds == Entities \subseteq Strings /\ Documents \subseteq Strings
BY DocumentsAreEntities DEF Strings

LEMMA LinksTyped ==
  ASSUME NEW select, NEW ids
  PROVE  /\ Links(Selected(select, ids)) \subseteq Strings
         /\ IsFiniteSet(Links(Selected(select, ids)))
<1>1. Links(Selected(select, ids)) \subseteq Strings
  BY FactsLink, ClosedIds DEF Links, Selected
<1> QED BY <1>1, StringsFinite, FS_Subset

LEMMA FoundTyped ==
  ASSUME NEW select, NEW ids \in Seq(Strings), NEW found, NEW b
  PROVE  Found(select, ids, found, b) \subseteq Strings
<1>1. ToSet(ids) \subseteq Strings
  BY ElementOf DEF ToSet
<1>2. {f.value : f \in Selected(select, found)} \subseteq Strings
  BY DEF Selected, Strings
<1> QED BY <1>1, <1>2, LinksTyped DEF Found

LEMMA IDsTyped ==
  ASSUME NEW task, task.q \in DOMAIN Query, task.results \in Seq(SUBSET Strings)
  PROVE  IDs(task) \in Seq(Strings)
<1>1. UNION Range(task.results) \subseteq Strings
  BY ElementOf DEF Range
<1>2. IsFiniteSet(UNION Range(task.results))
  BY <1>1, StringsFinite, FS_Subset
<1>3. SetToSeq(UNION Range(task.results)) \in Seq(Strings)
  BY <1>1, <1>2, SetToSeqKeeps
<1> QED BY <1>3, QueriesTyped DEF IDs

LEMMA HitsSeq ==
  ASSUME NEW task, task.q \in DOMAIN Query, task.results \in Seq(SUBSET Strings),
         Resolved(task), ~Query[task.q].idSearch
  PROVE  Hits(task.q, task.results) \in Seq(Strings)
<1>1. Query[task.q].subs \in Seq([q : DOMAIN Query, behindID : BOOLEAN])
  BY QueriesTyped
<1>2. DOMAIN Query[task.q].subs = 1..Len(Query[task.q].subs)
  BY <1>1
<1>3. task.results \in [1..Len(task.results) -> SUBSET Strings]
  OBVIOUS
<1>4. task.results \in [DOMAIN Query[task.q].subs -> SUBSET Strings]
  BY <1>2, <1>3 DEF Resolved
<1> QED BY <1>4, HitsTyped

LEMMA LimitedTyped ==
  ASSUME NEW ids \in Seq(Strings), NEW found, NEW limit \in Nat
  PROVE  Limited(ids, found, limit) \subseteq found
<1> DEFINE s == InOrder(ids, found)
           n == IF limit = 0 THEN 1 ELSE limit
           k == IF n < Len(s) THEN n ELSE Len(s)
<1>1. s \in Seq(found)
  <2>1. s \in Seq(Strings \cap found)
    BY InOrderKeeps
  <2> HIDE DEF s
  <2> QED BY <2>1
<1> HIDE DEF s
<1>2. k \in Nat /\ k <= Len(s)
  BY <1>1
<1> HIDE DEF k
<1>3. \A i \in 1..k : s[i] \in found
  BY <1>1, <1>2
<1>4. SubSeq(s, 1, k) \in Seq(found)
  BY <1>2, <1>3, SubSeqProperties
<1>5. ToSet(SubSeq(s, 1, k)) \subseteq found
  BY <1>4, ElementOf DEF ToSet
<1>6. Limited(ids, found, limit) = IF Cardinality(found) <= limit THEN found
                                   ELSE ToSet(SubSeq(s, 1, k))
  BY DEF Limited, s, k
<1> QED BY <1>5, <1>6

LEMMA TaskFields ==
  ASSUME NEW req, NEW task \in TasksFor(req)
  PROVE  /\ task.q \in DOMAIN Query \cup Entities /\ task.results \in Seq(SUBSET Strings)
         /\ task.entity_ids \in Seq(Strings) /\ task.entity_map \in MapsFor(req)
         /\ task.entity_map \in Maps /\ task \in Tasks /\ Underway(task)
BY DEF TasksFor, Tasks, MapsFor

LEMMA NewTaskTyped ==
  ASSUME NEW req, NEW q \in DOMAIN Query \cup Entities
  PROVE  NewTask(q) \in TasksFor(req)
<1>1. NewTask(q) \in Tasks /\ NewTask(q).entity_map \in MapsFor(req)
  BY EmptyMap DEF NewTask, Tasks
<1>2. Len(NewTask(q).results) = 0 /\ NewTask(q).q = q
  BY DEF NewTask
<1>3. q \in DOMAIN Query => Len(Query[q].subs) \in Nat
  BY QueriesTyped
<1> QED BY <1>1, <1>2, <1>3 DEF TasksFor, Underway

LEMMA ProcessedTyped ==
  ASSUME NEW req, NEW task \in TasksFor(req), task.q \in DOMAIN Query
  PROVE  /\ Processed(task) \in TasksFor(req)
         /\ Processed(task).q = task.q /\ Processed(task).results = task.results
         /\ Processed(task).entity_ids = task.entity_ids
         /\ DOMAIN Processed(task).entity_map =
              Limited(task.entity_ids, Having(Query[task.q].select, DOMAIN task.entity_map),
                      Query[task.q].limit)
<1> DEFINE kept == Limited(task.entity_ids, Having(Query[task.q].select, DOMAIN task.entity_map),
                           Query[task.q].limit)
<1>1. kept \subseteq DOMAIN task.entity_map
  <2>1. kept \subseteq Having(Query[task.q].select, DOMAIN task.entity_map)
    BY TaskFields, QueriesTyped, LimitedTyped
  <2> QED BY <2>1 DEF Having
<1>2. /\ Restrict(task.entity_map, kept) \in MapsFor(req)
      /\ DOMAIN Restrict(task.entity_map, kept) = kept
  BY <1>1, TaskFields, RestrictMaps
<1>3. Processed(task) = [task EXCEPT !.entity_map = Restrict(task.entity_map, kept)]
  BY DEF Processed
<1> HIDE DEF kept
<1>4. /\ Restrict(task.entity_map, kept) \in Maps /\ task \in Tasks
  BY <1>2 DEF MapsFor, TasksFor
<1> QED BY <1>2, <1>3, <1>4 DEF kept, TasksFor, Tasks, Underway

LEMMA ReplyTyped ==
  ASSUME NEW req, NEW task \in TasksFor(req)
  PROVE  /\ Reply(task) \in AnswersFor(req)
         /\ [j \in DOMAIN Reply(task) |-> Reply(task)[j].id] =
              InOrder(task.entity_ids, DOMAIN task.entity_map)
<1> DEFINE ids == InOrder(task.entity_ids, DOMAIN task.entity_map)
           m == task.entity_map
<1>1. ids \in Seq(DOMAIN m)
  <2>1. ids \in Seq(Strings \cap DOMAIN m)
    BY TaskFields, InOrderKeeps
  <2> HIDE DEF ids
  <2> QED BY <2>1
<1>2. m \in MapsFor(req) /\ m \in Maps
  BY TaskFields
<1>3. /\ DOMAIN m \subseteq Documents /\ \A e \in DOMAIN m : m[e] \in Versions
      /\ req.forceQuery => \A e \in DOMAIN m : m[e] >= req.docs[e]
  BY <1>2, MapsAre DEF MapsFor
<1>4. Reply(task) = [i \in DOMAIN ids |-> [id |-> ids[i], version |-> m[ids[i]]]]
  BY DEF Reply
<1> HIDE DEF ids, m
<1>5. DOMAIN ids = 1..Len(ids) /\ Len(ids) \in Nat /\ \A i \in DOMAIN ids : ids[i] \in DOMAIN m
  BY <1>1
<1>6. \A i \in DOMAIN ids : [id |-> ids[i], version |-> m[ids[i]]]
                              \in [id : Documents, version : Versions]
  BY <1>3, <1>5
<1>7. Reply(task) \in Answers
  BY <1>4, <1>5, <1>6 DEF Answers
<1>8. req.forceQuery =>
        \A j \in DOMAIN Reply(task) : Reply(task)[j].version >= req.docs[Reply(task)[j].id]
  BY <1>3, <1>4, <1>5
<1>9. ids = [j \in DOMAIN ids |-> ids[j]]
  BY <1>1
<1>10. [j \in DOMAIN Reply(task) |-> Reply(task)[j].id] = ids
  BY <1>4, <1>9
<1> QED BY <1>7, <1>8, <1>10 DEF AnswersFor, ids, m

-----------------------------------------------------------------------------
(* A step of one request leaves the others alone.                          *)
LEMMA Put ==
  ASSUME NEW f, OnRequests(f), NEW r \in Requests, NEW x, NEW g, g = [f EXCEPT ![r] = x]
  PROVE  OnRequests(g) /\ g[r] = x /\ \A s \in Requests \ {r} : g[s] = f[s]
<1>1. r \in DOMAIN f /\ DOMAIN f = Requests
  BY DEF OnRequests
<1>2. /\ DOMAIN g = Requests /\ g = [s \in Requests |-> g[s]]
      /\ g[r] = x /\ \A s \in Requests \ {r} : g[s] = f[s]
  BY <1>1
<1> QED BY <1>2 DEF OnRequests

Kept(s) == /\ request'[s] = request[s] /\ taskStack'[s] = taskStack[s]
           /\ calls'[s] = calls[s] /\ series'[s] = series[s]
           /\ answers'[s] = answers[s] /\ faults'[s] = faults[s]
Apart(r) == Shape' /\ \A s \in Requests \ {r} : Kept(s)
DocsKept == \A e \in Documents : docs'[e] >= docs[e]

LEMMA KeptLocal ==
  ASSUME NEW s \in Requests, Local(s), Kept(s), Stores, Stores', DocsKept
  PROVE  Local(s)'
<1> USE DEF Kept
<1>1. Own(s)'
  BY DEF Local, Own
<1>2. DocsGrow(s)'
  <2>1. ASSUME request[s] # Free, request[s].forceQuery
        PROVE  \A e \in Documents : docs'[e] >= request[s].docs[e]
    <3>1. request[s] \in Served
      BY <2>1 DEF Local, Own
    <3>2. \A e \in Documents : /\ request[s].docs[e] \in Int /\ docs[e] \in Int
                               /\ docs'[e] \in Int
      BY <3>1, MaxVersionPositive DEF Served, Stores, Versions
    <3>3. \A e \in Documents : docs[e] >= request[s].docs[e]
      BY <2>1 DEF Local, DocsGrow
    <3> QED BY <3>2, <3>3 DEF DocsKept
  <2> QED BY <2>1 DEF DocsGrow
<1>3. StackNested(s)'
  BY DEF Local, StackNested
<1>4. OneThread(s)'
  BY DEF Local, OneThread
<1>5. Expected(s)' = Expected(s) /\ Top(s)' = Top(s)
  BY DEF Expected, Top
<1>6. TasksRight(s) => TasksRight(s)'
  BY DEF TasksRight, Below
<1>7. \A callback, ids : Wanted(s, callback, ids)' = Wanted(s, callback, ids)
  BY <1>5 DEF Wanted
<1>8. \A c : CallRight(s, c) => CallRight(s, c)'
  BY <1>5, <1>7 DEF CallRight
<1>9. \A t : TaskRight(s, t) => TaskRight(s, t)'
  BY <1>5, <1>7 DEF TaskRight
<1>10. RunsRight(s)'
  BY <1>6, <1>8, <1>9 DEF Local, RunsRight
<1>11. AnswersOf(s)'
  BY <1>5 DEF Local, AnswersOf
<1> QED BY <1>1, <1>2, <1>3, <1>4, <1>10, <1>11 DEF Local

(* A request that has something to do has its context.                     *)
LEMMA Alive ==
  ASSUME NEW r \in Requests, Own(r), calls[r] # <<>> \/ series[r] # <<>>
  PROVE  /\ request[r] # Free /\ request[r] \in Served
         /\ taskStack[r] \in Seq(TasksFor(request[r])) /\ taskStack[r] # <<>>
         /\ Top(r) \in TasksFor(request[r]) /\ Top(r) = taskStack[r][Len(taskStack[r])]
         /\ Len(taskStack[r]) \in Nat \ {0}
BY TopOf DEF Own, Top

LEMMA TopIsQuery ==
  ASSUME NEW r \in Requests, Own(r), StackNested(r), taskStack[r] # <<>>,
         request[r].q \in DOMAIN Query
  PROVE  Top(r).q \in DOMAIN Query
<1> DEFINE s == taskStack[r]
           n == Len(s)
<1>1. /\ s \in Seq(TasksFor(request[r])) /\ n \in Nat \ {0} /\ Top(r) = s[n]
  BY TopOf DEF Own, Top
<1>2. CASE n = 1
  BY <1>1, <1>2 DEF StackNested
<1>3. CASE n > 1
  <2>1. n - 1 \in 1..n - 1 /\ n - 1 + 1 = n
    BY <1>1, <1>3
  <2>2. NestedIn(s[n - 1], s[n])
    <3>1. \A i \in 1..n - 1 : NestedIn(s[i], s[i + 1])
      BY DEF StackNested
    <3> HIDE DEF n, s
    <3>2. NestedIn(s[n - 1], s[n - 1 + 1])
      BY <2>1, <3>1
    <3> QED BY <2>1, <3>2
  <2>3. s[n - 1].q \in DOMAIN Query /\ s[n].q = Query[s[n - 1].q].subs[Len(s[n - 1].results) + 1].q
        /\ Len(s[n - 1].results) < Len(Query[s[n - 1].q].subs)
    BY <2>2 DEF NestedIn
  <2>4. s[n - 1] \in TasksFor(request[r])
    BY <1>1, <2>1, ElementOfSeq
  <2>5. Len(s[n - 1].results) \in Nat
    BY <2>4, TaskFields, LenProperties
  <2>6. Len(s[n - 1].results) + 1 \in DOMAIN Query[s[n - 1].q].subs
    <3>1. Query[s[n - 1].q].subs \in Seq([q : DOMAIN Query, behindID : BOOLEAN])
      BY <2>3, QueriesTyped
    <3> HIDE DEF s, n
    <3>2. /\ Len(Query[s[n - 1].q].subs) \in Nat
          /\ DOMAIN Query[s[n - 1].q].subs = 1..Len(Query[s[n - 1].q].subs)
      BY <3>1, LenProperties
    <3> QED BY <2>3, <2>5, <3>2
  <2>7. \A q \in DOMAIN Query : \A i \in DOMAIN Query[q].subs : Query[q].subs[i].q \in DOMAIN Query
    BY SubsTyped
  <2>8. Query[s[n - 1].q].subs[Len(s[n - 1].results) + 1].q \in DOMAIN Query
    <3> HIDE DEF s, n
    <3> QED BY <2>3, <2>6, <2>7
  <2>9. s[n].q \in DOMAIN Query
    <3> HIDE DEF s, n
    <3> QED BY <2>3, <2>8
  <2> QED BY <1>1, <2>9
<1> HIDE DEF s, n
<1> QED BY <1>1, <1>2, <1>3

(* While no reply failed to parse, there is one call or one task.          *)
LEMMA Sole ==
  ASSUME NEW r \in Requests, Own(r), OneThread(r), "unparsed" \notin faults[r]
  PROVE  /\ Len(calls[r]) \in Nat /\ Len(series[r]) \in Nat /\ Len(answers[r]) \in Nat
         /\ calls[r] # <<>> => Len(calls[r]) = 1 /\ series[r] = <<>> /\ answers[r] = <<>>
         /\ series[r] # <<>> => Len(series[r]) = 1 /\ calls[r] = <<>> /\ answers[r] = <<>>
<1> DEFINE c == Len(calls[r])
           s == Len(series[r])
           a == Len(answers[r])
<1>1. c \in Nat /\ s \in Nat /\ a \in Nat
  BY LenProperties DEF Own
<1>2. calls[r] # <<>> => c # 0
  BY EmptySeq DEF Own
<1>3. series[r] # <<>> => s # 0
  BY EmptySeq DEF Own
<1>4. answers[r] # <<>> => a # 0
  BY EmptySeq DEF Own
<1>5. c + s + a <= 1
  BY DEF OneThread
<1> HIDE DEF c, s, a
<1>6. /\ c # 0 => c = 1 /\ s = 0 /\ a = 0
      /\ s # 0 => s = 1 /\ c = 0 /\ a = 0
  BY <1>1, <1>5
<1> QED BY <1>1, <1>2, <1>3, <1>4, <1>6 DEF c, s, a

(* What a resolved task finds is what its query means.                     *)
LEMMA ResolvedMeaning ==
  ASSUME NEW task, task.q \in DOMAIN Query, task.results \in Seq(SUBSET Strings),
         Resolved(task), ResultsRight(task)
  PROVE  /\ Meaning[task.q].ids = IF Query[task.q].idSearch THEN IDs(task)
                                  ELSE Hits(task.q, task.results)
         /\ Meaning[task.q].found =
              Limited(Meaning[task.q].ids,
                      Having(Query[task.q].select, Present(Meaning[task.q].ids)),
                      Query[task.q].limit)
<1> DEFINE results == [i \in DOMAIN Query[task.q].subs |-> SubResult(task.q, i, Meaning)]
<1>1. Query[task.q].subs \in Seq([q : DOMAIN Query, behindID : BOOLEAN])
  BY QueriesTyped
<1>2. /\ DOMAIN Query[task.q].subs = 1..Len(Query[task.q].subs)
      /\ task.results = [i \in 1..Len(task.results) |-> task.results[i]]
      /\ DOMAIN task.results = 1..Len(task.results)
  BY <1>1, LenProperties
<1>3. DOMAIN Query[task.q].subs = DOMAIN task.results
  BY <1>2 DEF Resolved
<1>4. results = task.results
  BY <1>2, <1>3 DEF ResultsRight
<1> HIDE DEF results
<1>5. MeaningOf(task.q, Meaning) =
        LET ids == IF Query[task.q].idSearch THEN IDs([q |-> task.q, results |-> results])
                                             ELSE Hits(task.q, results)
        IN [ids |-> ids, found |-> Limited(ids, Having(Query[task.q].select, Present(ids)),
                                           Query[task.q].limit)]
  BY DEF MeaningOf, results, Present
<1>6. IDs([q |-> task.q, results |-> results]) = IDs(task)
  BY <1>4 DEF IDs
<1> QED BY <1>4, <1>5, <1>6, MeaningUnfolds

-----------------------------------------------------------------------------
(* Control: the calls a step puts in the place of the first.               *)
LEMMA FnTyped ==
  ASSUME NEW req, NEW fn \in {"dispatch", "postProcess", "dispatchCallback", "respond"},
         req.q \in DOMAIN Query \/ fn = "respond"
  PROVE  /\ Fn(fn) \in Seq(CallsFor(req)) /\ Len(Fn(fn)) = 1 /\ Fn(fn) # <<>>
         /\ Head(Fn(fn)) = [fn |-> fn]
<1>1. [fn |-> fn] \in CallsFor(req)
  BY DEF CallsFor, Calls
<1> QED BY <1>1 DEF Fn

LEMMA FnGetDocsTyped ==
  ASSUME NEW req, NEW ids \in Seq(Strings), NEW callback \in Callbacks,
         req.q \in DOMAIN Query \/ callback = "respond"
  PROVE  /\ FnGetDocs(ids, callback) \in Seq(CallsFor(req))
         /\ Len(FnGetDocs(ids, callback)) = 1 /\ FnGetDocs(ids, callback) # <<>>
         /\ Head(FnGetDocs(ids, callback)) = [fn |-> "getDocs", ids |-> ids, callback |-> callback]
<1>1. [fn |-> "getDocs", ids |-> ids, callback |-> callback] \in CallsFor(req)
  BY DEF CallsFor, Calls
<1> QED BY <1>1 DEF FnGetDocs

LEMMA Dealt ==
  ASSUME NEW req, req.q \in DOMAIN Query, NEW reply \in ESReplies
  PROVE  /\ DealWithESResponse(reply) \in Seq(CallsFor(req))
         /\ Len(DealWithESResponse(reply)) = IF reply.kind = "unparsed" THEN 2 ELSE 1
         /\ FaultOf(reply) \subseteq FaultKinds
         /\ "unparsed" \notin FaultOf(reply) => reply.kind # "unparsed"
         /\ FaultOf(reply) = {} =>
              /\ reply.kind = "hits"
              /\ DealWithESResponse(reply) = FnGetDocs(reply.ids, "postProcess")
<1>1. /\ reply.kind \in {"hits", "error", "unparsed"}
      /\ reply.kind = "hits" => reply.ids \in Seq(Strings)
  BY DEF ESReplies
<1>2. FaultOf(reply) = IF reply.kind = "hits" THEN {} ELSE {reply.kind}
  BY DEF FaultOf
<1> DEFINE none == FnGetDocs(<<>>, "postProcess")
           some == FnGetDocs(reply.ids, "postProcess")
<1>3. none \in Seq(CallsFor(req)) /\ Len(none) = 1
  <2>1. <<>> \in Seq(Strings) /\ "postProcess" \in Callbacks
    BY DEF Callbacks
  <2> QED BY <2>1, FnGetDocsTyped
<1>4. reply.kind = "hits" => some \in Seq(CallsFor(req)) /\ Len(some) = 1
  <2>1. "postProcess" \in Callbacks
    BY DEF Callbacks
  <2> QED BY <1>1, <2>1, FnGetDocsTyped
<1>5. none \o none \in Seq(CallsFor(req)) /\ Len(none \o none) = 2
  <2> HIDE DEF none
  <2> QED BY <1>3, ConcatProperties
<1>6. /\ reply.kind = "hits" => DealWithESResponse(reply) = some
      /\ reply.kind = "error" => DealWithESResponse(reply) = none
      /\ reply.kind = "unparsed" => DealWithESResponse(reply) = none \o none
  BY DEF DealWithESResponse
<1> HIDE DEF none
<1>7. /\ DealWithESResponse(reply) \in Seq(CallsFor(req))
      /\ Len(DealWithESResponse(reply)) = IF reply.kind = "unparsed" THEN 2 ELSE 1
  <2> HIDE DEF some
  <2> QED BY <1>1, <1>3, <1>4, <1>5, <1>6
<1>8. FaultOf(reply) \subseteq FaultKinds
  BY <1>1, <1>2 DEF FaultKinds
<1> QED BY <1>1, <1>2, <1>6, <1>7, <1>8

LEMMA CallMade ==
  ASSUME NEW r \in Requests, Shape, Own(r), calls[r] # <<>>,
         NEW todo \in Seq(CallsFor(request[r])), Call(r, todo)
  PROVE  /\ OnRequests(calls') /\ \A s \in Requests \ {r} : calls'[s] = calls[s]
         /\ calls'[r] \in Seq(CallsFor(request[r]))
         /\ Len(calls[r]) \in Nat /\ Len(calls'[r]) = Len(todo) + Len(calls[r]) - 1
         /\ Len(calls[r]) = 1 => calls'[r] = todo
<1>1. calls' = [calls EXCEPT ![r] = todo \o Tail(calls[r])] /\ OnRequests(calls)
  BY DEF Call, Shape
<1>2. /\ OnRequests(calls') /\ calls'[r] = todo \o Tail(calls[r])
      /\ \A s \in Requests \ {r} : calls'[s] = calls[s]
  BY <1>1 DEF OnRequests
<1>3. calls[r] \in Seq(CallsFor(request[r]))
  BY DEF Own
<1>4. /\ calls'[r] \in Seq(CallsFor(request[r]))
      /\ Len(calls'[r]) = Len(todo) + Len(calls[r]) - 1
      /\ Len(calls[r]) = 1 => calls'[r] = todo
  <2> DEFINE c == calls[r]
             t == todo \o Tail(c)
  <2>1. t \in Seq(CallsFor(request[r])) /\ Len(t) = Len(todo) + Len(c) - 1
        /\ (Len(c) = 1 => t = todo)
    <3> HIDE DEF c
    <3> QED BY <1>3, Called DEF c
  <2> HIDE DEF t
  <2> QED BY <1>2, <2>1 DEF t
<1> QED BY <1>2, <1>3, <1>4, LenProperties

LEMMA Resumed ==
  ASSUME NEW r \in Requests, Shape, NEW todo, Resume(r, todo)
  PROVE  OnRequests(calls') /\ calls'[r] = todo /\ \A s \in Requests \ {r} : calls'[s] = calls[s]
BY DEF Resume, Shape, OnRequests

LEMMA TopSet ==
  ASSUME NEW r \in Requests, Shape, Own(r), StackNested(r), taskStack[r] # <<>>,
         NEW task \in TasksFor(request[r]), task.q = Top(r).q, SetTop(r, task),
         request'[r] = request[r]
  PROVE  /\ OnRequests(taskStack') /\ \A s \in Requests \ {r} : taskStack'[s] = taskStack[s]
         /\ taskStack'[r] \in Seq(TasksFor(request[r])) /\ taskStack'[r] # <<>>
         /\ Len(taskStack'[r]) = Len(taskStack[r])
         /\ Top(r)' = task /\ StackNested(r)'
         /\ TasksRight(r) /\ ResultsRight(task) => TasksRight(r)'
<1> DEFINE s == taskStack[r]
           t == taskStack'[r]
           n == Len(s)
<1>1. OnRequests(taskStack) /\ taskStack' = [taskStack EXCEPT ![r] = Append(Front(s), task)]
  BY DEF SetTop, Shape
<1>2. /\ OnRequests(taskStack') /\ t = Append(Front(s), task)
      /\ \A q \in Requests \ {r} : taskStack'[q] = taskStack[q]
  BY <1>1 DEF OnRequests
<1>3. s \in Seq(TasksFor(request[r])) /\ s # <<>>
  BY DEF Own
<1>4. n \in Nat \ {0} /\ Top(r) = s[n] /\ DOMAIN s = 1..n
  BY <1>3, TopOf DEF Top
<1> HIDE DEF s, t, n
<1>5. /\ t \in Seq(TasksFor(request[r])) /\ t # <<>> /\ Len(t) = n /\ Last(t) = task
      /\ \A i \in 1..n - 1 : t[i] = s[i]
      /\ t[n] = task /\ DOMAIN t = 1..n
  <2>1. /\ t \in Seq(TasksFor(request[r])) /\ t # <<>> /\ Len(t) = Len(s) /\ Last(t) = task
        /\ \A i \in 1..Len(s) - 1 : t[i] = s[i]
        /\ t[Len(s)] = task
    <3> DEFINE u == Append(Front(s), task)
    <3>1. /\ u \in Seq(TasksFor(request[r])) /\ u # <<>> /\ Len(u) = Len(s) /\ Last(u) = task
          /\ \A i \in 1..Len(s) - 1 : u[i] = s[i]
          /\ u[Len(s)] = task
      BY <1>3, Replaced
    <3>2. t = u
      BY <1>2
    <3> HIDE DEF u
    <3> QED BY <3>1, <3>2
  <2> QED BY <2>1, LenProperties DEF n
<1>6. /\ s[1].q = request[r].q
      /\ \A i \in 1..n - 1 : NestedIn(s[i], s[i + 1])
  BY <1>3 DEF StackNested, s, n
<1>7. t[1].q = request[r].q
  BY <1>4, <1>5, <1>6
<1>8. \A i \in 1..n - 1 : NestedIn(t[i], t[i + 1])
  <2> SUFFICES ASSUME NEW i \in 1..n - 1 PROVE NestedIn(t[i], t[i + 1])
    OBVIOUS
  <2>1. t[i] = s[i] /\ NestedIn(s[i], s[i + 1])
    BY <1>5, <1>6
  <2>2. t[i + 1].q = s[i + 1].q
    <3>1. CASE i + 1 = n
      BY <1>4, <1>5, <3>1
    <3>2. CASE i + 1 \in 1..n - 1
      BY <1>5, <3>2
    <3> QED BY <1>4, <3>1, <3>2
  <2> QED BY <2>1, <2>2 DEF NestedIn
<1>9. StackNested(r)'
  BY <1>5, <1>7, <1>8 DEF StackNested, t
<1>10. ASSUME TasksRight(r), ResultsRight(task) PROVE TasksRight(r)'
  <2>1. /\ \A i \in 1..n : ResultsRight(s[i])
        /\ \A i \in 1..n - 1 : s[i].entity_map = Empty
    BY <1>4, <1>10 DEF TasksRight, Below, s, n
  <2>2. \A i \in 1..n : ResultsRight(t[i])
    <3> SUFFICES ASSUME NEW i \in 1..n PROVE ResultsRight(t[i])
      OBVIOUS
    <3>1. i = n \/ i \in 1..n - 1
      BY <1>4
    <3> QED BY <1>5, <1>10, <2>1, <3>1
  <2>3. \A i \in 1..n - 1 : t[i].entity_map = Empty
    BY <1>5, <2>1
  <2> QED BY <1>5, <2>2, <2>3 DEF TasksRight, Below, t
<1> QED BY <1>2, <1>5, <1>9, <1>10 DEF s, t, n, Top

LEMMA CalledQuery ==
  ASSUME NEW r \in Requests, Own(r), StackNested(r),
         NEW fn \in {"dispatch", "postProcess", "dispatchCallback"}, Calling(r, fn)
  PROVE  request[r].q \in DOMAIN Query /\ Top(r).q \in DOMAIN Query
<1>1. calls[r] # <<>> /\ calls[r] \in Seq(CallsFor(request[r])) /\ Head(calls[r]).fn = fn
  BY DEF Calling, Own
<1>2. Head(calls[r]) \in CallsFor(request[r])
  BY <1>1, TopOf
<1>3. request[r].q \in DOMAIN Query
  BY <1>1, <1>2 DEF CallsFor
<1> QED BY <1>1, <1>3, TopIsQuery DEF Own

(* What is to be shown of a step of r that gives no answer.                *)
LEMMA LocalNext ==
  ASSUME NEW r \in Requests, Local(r), request[r] # Free,
         request'[r] = request[r], docs' = docs, answers'[r] = answers[r],
         taskStack'[r] \in Seq(TasksFor(request[r])), taskStack'[r] # <<>>,
         calls'[r] \in Seq(CallsFor(request[r])), series'[r] \in Seq(SeriesFor(request[r])),
         faults[r] \subseteq faults'[r], faults'[r] \subseteq FaultKinds,
         "unparsed" \notin faults'[r] =>
           Len(calls'[r]) + Len(series'[r]) <= Len(calls[r]) + Len(series[r]),
         StackNested(r)', RunsRight(r)'
  PROVE  Local(r)'
<1>1. Own(r)'
  BY DEF Local, Own
<1>2. DocsGrow(r)'
  BY DEF Local, DocsGrow
<1>3. OneThread(r)'
  <2>1. /\ Len(calls[r]) \in Nat /\ Len(series[r]) \in Nat /\ Len(answers[r]) \in Nat
        /\ Len(calls'[r]) \in Nat /\ Len(series'[r]) \in Nat
    BY LenProperties DEF Local, Own
  <2>2. "unparsed" \notin faults'[r] => Len(calls[r]) + Len(series[r]) + Len(answers[r]) <= 1
    BY DEF Local, OneThread
  <2>3. "unparsed" \notin faults'[r] =>
          Len(calls'[r]) + Len(series'[r]) + Len(answers'[r]) <= 1
    <3> DEFINE c == Len(calls[r])
               d == Len(calls'[r])
               s == Len(series[r])
               u == Len(series'[r])
               a == Len(answers[r])
    <3>1. /\ c \in Nat /\ s \in Nat /\ a \in Nat /\ d \in Nat /\ u \in Nat
          /\ Len(answers'[r]) = a
      BY <2>1
    <3>2. "unparsed" \notin faults'[r] => d + u <= c + s /\ c + s + a <= 1
      BY <2>2
    <3> HIDE DEF c, d, s, u, a
    <3>3. "unparsed" \notin faults'[r] => d + u + a <= 1
      BY <3>1, <3>2
    <3> QED BY <3>1, <3>3 DEF d, u
  <2> QED BY <2>3 DEF OneThread
<1>4. AnswersOf(r)'
  <2>1. Expected(r)' = Expected(r)
    BY DEF Expected
  <2>2. faults'[r] = {} => faults[r] = {}
    OBVIOUS
  <2> QED BY <2>1, <2>2 DEF Local, AnswersOf
<1> QED BY <1>1, <1>2, <1>3, <1>4 DEF Local

-----------------------------------------------------------------------------
(* What a step of r has to keep, and what it may rest on.                  *)
Ready(r) == Shape /\ Stores /\ CacheRight /\ Local(r)
Stepped(r) == Apart(r) /\ Local(r)' /\ Stores' /\ CacheRight' /\ DocsKept

LEMMA Unstored ==
  ASSUME Stores, CacheRight, UNCHANGED <<docs, caches>>
  PROVE  Stores' /\ CacheRight' /\ DocsKept
<1>1. Stores'
  BY DEF Stores, caches
<1>2. CacheRight'
  BY DEF CacheRight, caches
<1>3. DocsKept
  BY MaxVersionPositive DEF DocsKept, Stores, Versions
<1> QED BY <1>1, <1>2, <1>3

LEMMA Foretold ==
  ASSUME NEW r, request'[r] = request[r]
  PROVE  Expected(r)' = Expected(r)
BY DEF Expected

LEMMA StackKept ==
  ASSUME NEW r, request'[r] = request[r], taskStack'[r] = taskStack[r]
  PROVE  /\ Top(r)' = Top(r)
         /\ StackNested(r) => StackNested(r)'
         /\ TasksRight(r) => TasksRight(r)'
         /\ \A c : CallRight(r, c)' <=> CallRight(r, c)
         /\ \A t : TaskRight(r, t)' <=> TaskRight(r, t)
<1>1. Top(r)' = Top(r) /\ Expected(r)' = Expected(r)
  BY Foretold DEF Top
<1>2. \A callback, ids : Wanted(r, callback, ids)' <=> Wanted(r, callback, ids)
  BY <1>1 DEF Wanted
<1>3. \A c : CallRight(r, c)' <=> CallRight(r, c)
  BY <1>1, <1>2 DEF CallRight
<1>4. \A t : TaskRight(r, t)' <=> TaskRight(r, t)
  BY <1>1, <1>2 DEF TaskRight
<1>5. TasksRight(r) => TasksRight(r)'
  BY DEF TasksRight, Below
<1>6. StackNested(r) => StackNested(r)'
  BY DEF StackNested
<1> QED BY <1>1, <1>3, <1>4, <1>5, <1>6

(* The context of a request whose next call is fn.                         *)
LEMMA CalledOn ==
  ASSUME NEW r \in Requests, Ready(r), NEW fn, Calling(r, fn)
  PROVE  /\ calls[r] # <<>> /\ calls[r] \in Seq(CallsFor(request[r]))
         /\ Head(calls[r]).fn = fn /\ Head(calls[r]) \in CallsFor(request[r])
         /\ request[r] # Free /\ request[r] \in Served
         /\ taskStack[r] \in Seq(TasksFor(request[r])) /\ taskStack[r] # <<>>
         /\ Top(r) \in TasksFor(request[r])
         /\ fn \in {"dispatch", "postProcess", "dispatchCallback"} =>
              request[r].q \in DOMAIN Query /\ Top(r).q \in DOMAIN Query
         /\ "unparsed" \notin faults[r] =>
              Len(calls[r]) = 1 /\ series[r] = <<>> /\ answers[r] = <<>>
         /\ faults[r] = {} => TasksRight(r) /\ CallRight(r, Head(calls[r]))
<1>1. /\ Own(r) /\ StackNested(r) /\ OneThread(r) /\ RunsRight(r)
      /\ calls[r] # <<>> /\ Head(calls[r]).fn = fn
  BY DEF Ready, Local, Calling
<1>2. calls[r] \in Seq(CallsFor(request[r]))
  BY <1>1 DEF Own
<1>3. Head(calls[r]) \in CallsFor(request[r])
  BY <1>1, <1>2, TopOf
<1>4. /\ request[r] # Free /\ request[r] \in Served
      /\ taskStack[r] \in Seq(TasksFor(request[r])) /\ taskStack[r] # <<>>
      /\ Top(r) \in TasksFor(request[r])
  BY <1>1, Alive
<1>5. fn \in {"dispatch", "postProcess", "dispatchCallback"} =>
        request[r].q \in DOMAIN Query /\ Top(r).q \in DOMAIN Query
  BY <1>1, CalledQuery
<1>6. "unparsed" \notin faults[r] =>
        Len(calls[r]) = 1 /\ series[r] = <<>> /\ answers[r] = <<>>
  BY <1>1, Sole
<1>7. faults[r] = {} => TasksRight(r) /\ CallRight(r, Head(calls[r]))
  BY <1>1 DEF RunsRight
<1> QED BY <1>1, <1>2, <1>3, <1>4, <1>5, <1>6, <1>7

(* A step that changes only the calls of r, and no document or cache.      *)
LEMMA OnlyCalls ==
  ASSUME NEW r \in Requests, Ready(r), NEW fn, Calling(r, fn),
         NEW todo \in Seq(CallsFor(request[r])), Call(r, todo), Len(todo) \in Nat,
         "unparsed" \notin faults'[r] => Len(todo) <= 1,
         OnRequests(faults'), \A s \in Requests \ {r} : faults'[s] = faults[s],
         faults[r] \subseteq faults'[r], faults'[r] \subseteq FaultKinds,
         UNCHANGED <<docs, caches, request, taskStack, series, answers>>,
         faults'[r] = {} => Len(todo) = 1 /\ CallRight(r, Head(todo))
  PROVE  Stepped(r)
<1>1. /\ calls[r] # <<>> /\ request[r] # Free
      /\ taskStack[r] \in Seq(TasksFor(request[r])) /\ taskStack[r] # <<>>
      /\ "unparsed" \notin faults[r] => Len(calls[r]) = 1 /\ series[r] = <<>>
      /\ faults[r] = {} => TasksRight(r)
  BY CalledOn
<1>2. Shape /\ Stores /\ CacheRight /\ Local(r) /\ Own(r)
  BY DEF Ready, Local
<1>3. /\ OnRequests(calls') /\ \A s \in Requests \ {r} : calls'[s] = calls[s]
      /\ calls'[r] \in Seq(CallsFor(request[r]))
      /\ Len(calls[r]) \in Nat /\ Len(calls'[r]) = Len(todo) + Len(calls[r]) - 1
      /\ Len(calls[r]) = 1 => calls'[r] = todo
  BY <1>1, <1>2, CallMade
<1>4. Apart(r)
  BY <1>2, <1>3 DEF Apart, Shape, Kept, OnRequests
<1>5. Stores' /\ CacheRight' /\ DocsKept
  BY <1>2, Unstored
<1>6. "unparsed" \notin faults'[r] => Len(calls'[r]) + Len(series'[r]) <= Len(calls[r]) + Len(series[r])
  <2> DEFINE c == Len(calls[r])
             d == Len(calls'[r])
             s == Len(series[r])
             n == Len(todo)
  <2>1. c \in Nat /\ n \in Nat /\ s \in Nat /\ d = n + c - 1 /\ Len(series'[r]) = s
    BY <1>2, <1>3, LenProperties DEF Own
  <2>2. "unparsed" \notin faults'[r] => n <= 1
    OBVIOUS
  <2> HIDE DEF c, d, s, n
  <2>3. "unparsed" \notin faults'[r] => d + s <= c + s
    BY <2>1, <2>2
  <2> QED BY <2>1, <2>3 DEF c, d, s
<1>7. StackNested(r)' /\ (TasksRight(r) => TasksRight(r)') /\ \A c : CallRight(r, c)' <=> CallRight(r, c)
  <2>1. StackNested(r) /\ request'[r] = request[r] /\ taskStack'[r] = taskStack[r]
    BY <1>2 DEF Local
  <2>2. /\ StackNested(r) => StackNested(r)'
        /\ TasksRight(r) => TasksRight(r)'
        /\ \A c : CallRight(r, c)' <=> CallRight(r, c)
    BY <2>1, StackKept
  <2> QED BY <2>1, <2>2, Zenon
<1>8. RunsRight(r)'
  <2> SUFFICES ASSUME faults'[r] = {}
               PROVE  calls'[r] # <<>> /\ TasksRight(r)' /\ CallRight(r, Head(calls[r]))'
    BY DEF RunsRight
  <2>1. faults[r] = {} /\ calls'[r] = todo /\ todo # <<>>
    BY <1>1, <1>3
  <2>2. CallRight(r, Head(todo))'
    BY <1>7
  <2>3. CallRight(r, Head(calls[r]))'
    BY <2>1, <2>2 DEF CallRight, Wanted
  <2>4. TasksRight(r)'
    BY <1>1, <1>7, <2>1
  <2> QED BY <2>1, <2>3, <2>4
<1>9. Local(r)'
  <2>1. /\ request'[r] = request[r] /\ docs' = docs /\ answers'[r] = answers[r]
        /\ taskStack'[r] = taskStack[r] /\ series'[r] \in Seq(SeriesFor(request[r]))
    BY <1>2 DEF Own
  <2> QED BY <1>1, <1>2, <1>3, <1>6, <1>7, <1>8, <2>1, LocalNext
<1> QED BY <1>4, <1>5, <1>9 DEF Stepped

LEMMA DescendKeeps ==
  ASSUME NEW r \in Requests, Ready(r), Descend(r)
  PROVE  Stepped(r)
<1> DEFINE s == taskStack[r]
           n == Len(s)
           sub == Query[Top(r).q].subs[Len(Top(r).results) + 1]
           t == Append(s, NewTask(sub.q))
<1>1. /\ calls[r] # <<>> /\ Head(calls[r]).fn = "dispatch" /\ request[r] # Free
      /\ s \in Seq(TasksFor(request[r])) /\ s # <<>>
      /\ Top(r) \in TasksFor(request[r]) /\ Top(r).q \in DOMAIN Query
      /\ faults[r] = {} => TasksRight(r) /\ CallRight(r, Head(calls[r]))
  BY CalledOn DEF Descend
<1>2. Shape /\ Stores /\ CacheRight /\ Local(r) /\ Own(r) /\ StackNested(r)
  BY DEF Ready, Local
<1>3. /\ ~Resolved(Top(r)) /\ taskStack' = [taskStack EXCEPT ![r] = t]
      /\ UNCHANGED <<docs, caches, request, calls, series, answers, faults>>
  BY DEF Descend
<1>4. n \in Nat \ {0} /\ Top(r) = s[n] /\ DOMAIN s = 1..n
  BY <1>1, TopOf DEF Top
<1>5. /\ Len(Top(r).results) \in Nat
      /\ Len(Top(r).results) < Len(Query[Top(r).q].subs)
      /\ Len(Top(r).results) + 1 \in DOMAIN Query[Top(r).q].subs
  <2>1. /\ Top(r).results \in Seq(SUBSET Strings) /\ Underway(Top(r))
        /\ Query[Top(r).q].subs \in Seq([q : DOMAIN Query, behindID : BOOLEAN])
    BY <1>1, TaskFields, QueriesTyped
  <2> DEFINE a == Len(Top(r).results)
             b == Len(Query[Top(r).q].subs)
  <2>2. a \in Nat /\ b \in Nat /\ DOMAIN Query[Top(r).q].subs = 1..b
    BY <2>1, LenProperties
  <2>3. a <= b /\ a # b
    BY <1>1, <1>3, <2>1 DEF Underway, Resolved
  <2> HIDE DEF a, b
  <2>4. a < b /\ a + 1 \in 1..b
    BY <2>2, <2>3
  <2> QED BY <2>2, <2>4 DEF a, b
<1>6. sub.q \in DOMAIN Query
  BY <1>1, <1>5, SubsTyped
<1>7. NewTask(sub.q) \in TasksFor(request[r])
  <2> HIDE DEF sub
  <2> QED BY <1>6, NewTaskTyped
<1>8. NestedIn(Top(r), NewTask(sub.q))
  BY <1>1, <1>5 DEF NestedIn, NewTask
<1>9. /\ ResultsRight(NewTask(sub.q)) /\ NewTask(sub.q).entity_map = Empty
  BY DEF ResultsRight, NewTask
<1>10. /\ OnRequests(taskStack') /\ taskStack'[r] = t
       /\ \A p \in Requests \ {r} : taskStack'[p] = taskStack[p]
  BY <1>2, <1>3 DEF Shape, OnRequests
<1> DEFINE task == NewTask(sub.q)
<1> HIDE DEF task
<1>11. /\ t \in Seq(TasksFor(request[r])) /\ t # <<>> /\ Len(t) = n + 1 /\ Last(t) = task
       /\ \A i \in 1..n : t[i] = s[i]
       /\ t[n + 1] = task /\ DOMAIN t = 1..n + 1
  <2> DEFINE u == Append(s, task)
  <2>1. /\ u \in Seq(TasksFor(request[r])) /\ u # <<>> /\ Len(u) = n + 1 /\ Last(u) = task
        /\ \A i \in 1..n : u[i] = s[i]
        /\ u[n + 1] = task
    <3> HIDE DEF s
    <3> QED BY <1>1, <1>7, Pushed DEF task
  <2>2. t = u
    BY DEF task
  <2>3. DOMAIN u = 1..Len(u)
    BY <2>1
  <2> HIDE DEF u, t, n
  <2> QED BY <2>1, <2>2, <2>3
<1> HIDE DEF s, t, n, sub
<1>12. /\ s[1].q = request[r].q
       /\ \A i \in 1..n - 1 : NestedIn(s[i], s[i + 1])
  BY <1>1, <1>2 DEF StackNested, s, n
<1>13. StackNested(r)'
  <2>1. t[1].q = request[r].q
    BY <1>4, <1>11, <1>12
  <2>2. \A i \in 1..n : NestedIn(t[i], t[i + 1])
    <3> SUFFICES ASSUME NEW i \in 1..n PROVE NestedIn(t[i], t[i + 1])
      OBVIOUS
    <3>1. CASE i = n
      BY <1>4, <1>8, <1>11, <3>1 DEF task
    <3>2. CASE i \in 1..n - 1
      <4>1. i + 1 \in 1..n /\ i \in 1..n
        BY <1>4, <3>2
      <4> QED BY <1>11, <1>12, <3>2, <4>1
    <3> QED BY <1>4, <3>1, <3>2
  <2>3. Len(t) - 1 = n /\ request'[r] = request[r]
    BY <1>3, <1>4, <1>11
  <2> QED BY <1>10, <2>1, <2>2, <2>3 DEF StackNested
<1>14. RunsRight(r)'
  <2> SUFFICES ASSUME faults[r] = {}
               PROVE  TasksRight(r)' /\ CallRight(r, Head(calls[r]))'
    BY <1>1, <1>3 DEF RunsRight
  <2>1. /\ \A i \in 1..n : ResultsRight(s[i])
        /\ \A i \in 1..n - 1 : s[i].entity_map = Empty
        /\ s[n].entity_map = Empty
    BY <1>1, <1>4 DEF TasksRight, Below, CallRight, s, n
  <2>2. \A i \in 1..n + 1 : ResultsRight(t[i])
    <3> SUFFICES ASSUME NEW i \in 1..n + 1 PROVE ResultsRight(t[i])
      OBVIOUS
    <3>1. i = n + 1 \/ i \in 1..n
      BY <1>4
    <3> QED BY <1>9, <1>11, <2>1, <3>1 DEF task
  <2>3. \A i \in 1..n : t[i].entity_map = Empty
    <3> SUFFICES ASSUME NEW i \in 1..n PROVE t[i].entity_map = Empty
      OBVIOUS
    <3>1. i = n \/ i \in 1..n - 1
      BY <1>4
    <3> QED BY <1>11, <2>1, <3>1
  <2>4. Len(t) - 1 = n
    BY <1>4, <1>11
  <2>5. TasksRight(r)'
    BY <1>10, <1>11, <2>2, <2>3, <2>4 DEF TasksRight, Below
  <2>6. Top(r)' = task
    BY <1>10, <1>11 DEF Top
  <2>7. CallRight(r, Head(calls[r]))'
    <3>1. Top(r)'.entity_map = Empty
      BY <1>9, <2>6 DEF task
    <3> QED BY <1>1, <1>3, <3>1 DEF CallRight
  <2> QED BY <2>5, <2>7
<1>15. Local(r)'
  <2>1. /\ request'[r] = request[r] /\ docs' = docs /\ answers'[r] = answers[r]
        /\ calls'[r] = calls[r] /\ series'[r] = series[r] /\ faults'[r] = faults[r]
        /\ calls[r] \in Seq(CallsFor(request[r])) /\ series[r] \in Seq(SeriesFor(request[r]))
        /\ faults[r] \subseteq FaultKinds
    BY <1>2, <1>3 DEF Own
  <2>2. Len(calls'[r]) + Len(series'[r]) <= Len(calls[r]) + Len(series[r])
    <3>1. Len(calls[r]) \in Nat /\ Len(series[r]) \in Nat
      BY <2>1, LenProperties
    <3> QED BY <2>1, <3>1
  <2> QED BY <1>1, <1>2, <1>10, <1>11, <1>13, <1>14, <2>1, <2>2, LocalNext
<1>16. Apart(r)
  BY <1>2, <1>3, <1>10 DEF Apart, Shape, Kept
<1>17. Stores' /\ CacheRight' /\ DocsKept
  BY <1>2, <1>3, Unstored
<1> QED BY <1>15, <1>16, <1>17 DEF Stepped

(* The query at the top, when those inside it have run.                    *)
LEMMA RunningOn ==
  ASSUME NEW r \in Requests, Ready(r), Running(r)
  PROVE  /\ calls[r] # <<>> /\ request[r].q \in DOMAIN Query /\ Top(r).q \in DOMAIN Query
         /\ Top(r) \in TasksFor(request[r]) /\ Resolved(Top(r))
         /\ Top(r).results \in Seq(SUBSET Strings)
         /\ TextOf(Top(r)) \in Texts /\ Resolved(TextOf(Top(r)))
         /\ faults[r] = {} =>
              /\ TasksRight(r) /\ ResultsRight(Top(r)) /\ Top(r).entity_map = Empty
              /\ Meaning[Top(r).q].ids = IF Query[Top(r).q].idSearch THEN IDs(Top(r))
                                         ELSE Hits(Top(r).q, Top(r).results)
<1>1. /\ calls[r] # <<>> /\ request[r].q \in DOMAIN Query /\ Top(r).q \in DOMAIN Query
      /\ Top(r) \in TasksFor(request[r]) /\ Head(calls[r]).fn = "dispatch"
      /\ taskStack[r] \in Seq(TasksFor(request[r])) /\ taskStack[r] # <<>>
      /\ faults[r] = {} => TasksRight(r) /\ CallRight(r, Head(calls[r]))
  BY CalledOn DEF Running
<1>2. Top(r).results \in Seq(SUBSET Strings)
  BY <1>1, TaskFields
<1>3. Resolved(Top(r)) /\ TextOf(Top(r)) \in Texts /\ Resolved(TextOf(Top(r)))
  BY <1>1, <1>2 DEF Running, TextOf, Texts, Resolved
<1>4. Len(taskStack[r]) \in DOMAIN taskStack[r] /\ Top(r) = taskStack[r][Len(taskStack[r])]
  BY <1>1, TopOf DEF Top
<1>5. faults[r] = {} => TasksRight(r) /\ ResultsRight(Top(r)) /\ Top(r).entity_map = Empty
  BY <1>1, <1>4 DEF TasksRight, CallRight
<1>6. faults[r] = {} =>
        Meaning[Top(r).q].ids = IF Query[Top(r).q].idSearch THEN IDs(Top(r))
                                ELSE Hits(Top(r).q, Top(r).results)
  BY <1>1, <1>2, <1>3, <1>5, ResolvedMeaning
<1> QED BY <1>1, <1>2, <1>3, <1>5, <1>6

LEMMA SearchByIdsKeeps ==
  ASSUME NEW r \in Requests, Ready(r), SearchByIds(r)
  PROVE  Stepped(r)
<1> DEFINE ids == IDs(Top(r))
           todo == FnGetDocs(ids, "postProcess")
<1>1. /\ Running(r) /\ Query[Top(r).q].idSearch /\ Call(r, todo) /\ Calling(r, "dispatch")
      /\ UNCHANGED <<docs, caches, request, taskStack, series, answers, faults>>
  BY DEF SearchByIds, Running
<1>2. /\ request[r].q \in DOMAIN Query /\ Top(r).q \in DOMAIN Query
      /\ Top(r).results \in Seq(SUBSET Strings)
      /\ faults[r] = {} => Top(r).entity_map = Empty /\ Meaning[Top(r).q].ids = ids
  BY <1>1, RunningOn
<1>3. ids \in Seq(Strings) /\ "postProcess" \in Callbacks
  BY <1>2, IDsTyped DEF Callbacks
<1> HIDE DEF ids
<1>4. /\ todo \in Seq(CallsFor(request[r])) /\ Len(todo) = 1
      /\ Head(todo) = [fn |-> "getDocs", ids |-> ids, callback |-> "postProcess"]
  BY <1>2, <1>3, FnGetDocsTyped
<1> HIDE DEF todo
<1>5. faults'[r] = {} => CallRight(r, Head(todo))
  BY <1>1, <1>2, <1>4 DEF CallRight, Wanted
<1>6. OnRequests(faults) /\ faults[r] \subseteq FaultKinds
  BY DEF Ready, Shape, Local, Own
<1>7. /\ OnRequests(faults') /\ \A s \in Requests \ {r} : faults'[s] = faults[s]
      /\ faults[r] \subseteq faults'[r] /\ faults'[r] \subseteq FaultKinds
  BY <1>1, <1>6
<1>8. Len(todo) \in Nat /\ Len(todo) <= 1
  BY <1>4
<1> QED BY <1>1, <1>4, <1>5, <1>7, <1>8, OnlyCalls

LEMMA SearchCachedKeeps ==
  ASSUME NEW r \in Requests, Ready(r), SearchCached(r)
  PROVE  Stepped(r)
<1> DEFINE text == TextOf(Top(r))
           reply == esCache[text]
           todo == DealWithESResponse(reply)
<1>1. /\ Running(r) /\ ~Query[Top(r).q].idSearch /\ Calling(r, "dispatch")
      /\ text \in DOMAIN esCache /\ Call(r, todo) /\ Fault(r, FaultOf(reply))
      /\ UNCHANGED <<docs, caches, request, taskStack, series, answers>>
  BY DEF SearchCached, Running, MayHit, LookupKey
<1>2. /\ request[r].q \in DOMAIN Query /\ Top(r).q \in DOMAIN Query /\ Resolved(text)
      /\ faults[r] = {} => /\ Top(r).entity_map = Empty
                           /\ Meaning[Top(r).q].ids = Hits(Top(r).q, Top(r).results)
  BY <1>1, RunningOn
<1>3. /\ reply \in ESReplies
      /\ reply.kind = "hits" => reply.ids = Hits(Top(r).q, Top(r).results)
  <2>1. text.q = Top(r).q /\ text.results = Top(r).results
    BY DEF TextOf
  <2>2. reply \in ESReplies
    BY <1>1 DEF Ready, Stores
  <2>3. reply.kind = "hits" => reply.ids = Hits(text.q, text.results)
    BY <1>1, <1>2 DEF Ready, CacheRight
  <2> QED BY <2>1, <2>2, <2>3
<1> HIDE DEF text, reply
<1>4. /\ todo \in Seq(CallsFor(request[r]))
      /\ Len(todo) = IF reply.kind = "unparsed" THEN 2 ELSE 1
      /\ FaultOf(reply) \subseteq FaultKinds
      /\ "unparsed" \notin FaultOf(reply) => reply.kind # "unparsed"
      /\ FaultOf(reply) = {} =>
           reply.kind = "hits" /\ todo = FnGetDocs(reply.ids, "postProcess")
  BY <1>2, <1>3, Dealt
<1> HIDE DEF todo
<1>5. OnRequests(faults) /\ faults[r] \subseteq FaultKinds
  BY DEF Ready, Shape, Local, Own
<1>6. /\ OnRequests(faults') /\ faults'[r] = faults[r] \cup FaultOf(reply)
      /\ \A s \in Requests \ {r} : faults'[s] = faults[s]
  BY <1>1, <1>5 DEF Fault, OnRequests
<1>7. faults'[r] = {} => Len(todo) = 1 /\ CallRight(r, Head(todo))
  <2>1. Head(FnGetDocs(reply.ids, "postProcess")) =
          [fn |-> "getDocs", ids |-> reply.ids, callback |-> "postProcess"]
    BY DEF FnGetDocs
  <2> QED BY <1>2, <1>3, <1>4, <1>6, <2>1 DEF CallRight, Wanted
<1>8. Len(todo) \in Nat /\ ("unparsed" \notin faults'[r] => Len(todo) <= 1)
  BY <1>4, <1>6
<1> QED BY <1>1, <1>4, <1>5, <1>6, <1>7, <1>8, OnlyCalls

(* A query without others inside it runs under its own text.               *)
LEMMA RootText ==
  ASSUME NEW r \in Requests, Ready(r), Running(r), Query[request[r].q].subs = <<>>
  PROVE  TextOf(Top(r)) = Root(request[r].q)
<1> DEFINE s == taskStack[r]
           n == Len(s)
<1>1. /\ s \in Seq(TasksFor(request[r])) /\ s # <<>> /\ Resolved(Top(r))
      /\ StackNested(r) /\ Top(r).results \in Seq(SUBSET Strings)
  <2>1. Calling(r, "dispatch")
    BY DEF Running
  <2> QED BY <2>1, CalledOn, RunningOn DEF Ready, Local
<1>2. n \in Nat \ {0} /\ Top(r) = s[n]
  BY <1>1, TopOf DEF Top
<1>3. n = 1
  <2>1. s[1].q = request[r].q /\ s[1] \in TasksFor(request[r])
    BY <1>1, <1>2, ElementOfSeq DEF StackNested
  <2>2. Len(s[1].results) \in Nat
    BY <2>1, TaskFields, LenProperties
  <2>3. ~NestedIn(s[1], s[2])
    BY <2>1, <2>2 DEF NestedIn
  <2>4. \A i \in 1..n - 1 : NestedIn(s[i], s[i + 1])
    BY <1>1 DEF StackNested
  <2> HIDE DEF s, n
  <2>5. 1 \notin 1..n - 1
    <3>1. 1 + 1 = 2
      OBVIOUS
    <3> QED BY <2>3, <2>4, <3>1
  <2> QED BY <1>2, <2>5
<1>4. Top(r).q = request[r].q
  BY <1>1, <1>2, <1>3 DEF StackNested
<1>5. Top(r).results = <<>>
  <2>1. Len(Top(r).results) = 0
    BY <1>1, <1>4 DEF Resolved
  <2> QED BY <1>1, <2>1, EmptySeq
<1> QED BY <1>4, <1>5 DEF TextOf, Root

-----------------------------------------------------------------------------
(* Steps that change the series of r.                                      *)
Only(r, f, g) == OnRequests(g) /\ \A s \in Requests \ {r} : g[s] = f[s]

LEMMA PushedBack ==
  ASSUME NEW r \in Requests, Shape, Own(r), NEW task \in SeriesFor(request[r]),
         PushBack(r, task)
  PROVE  /\ Only(r, series, series') /\ series'[r] \in Seq(SeriesFor(request[r]))
         /\ series'[r] # <<>> /\ Len(series[r]) \in Nat /\ Len(series'[r]) = Len(series[r]) + 1
         /\ series[r] = <<>> => Head(series'[r]) = task
<1> DEFINE s == series[r]
           t == Append(s, task)
<1>1. series' = [series EXCEPT ![r] = t] /\ OnRequests(series)
  BY DEF PushBack, Shape
<1>2. Only(r, series, series') /\ series'[r] = t
  BY <1>1 DEF OnRequests, Only
<1>3. s \in Seq(SeriesFor(request[r])) /\ Len(s) \in Nat
  BY LenProperties DEF Own
<1>4. s = <<>> => Head(t) = task
  OBVIOUS
<1> HIDE DEF s
<1>5. t \in Seq(SeriesFor(request[r])) /\ t # <<>> /\ Len(t) = Len(s) + 1
  BY <1>3, AppendProperties
<1> HIDE DEF t
<1> QED BY <1>2, <1>3, <1>4, <1>5 DEF s

LEMMA CallOver ==
  ASSUME NEW r \in Requests, Shape, Own(r), calls[r] # <<>>, Call(r, <<>>)
  PROVE  /\ Only(r, calls, calls') /\ calls'[r] \in Seq(CallsFor(request[r]))
         /\ Len(calls[r]) \in Nat /\ Len(calls'[r]) = Len(calls[r]) - 1
         /\ Len(calls[r]) = 1 => calls'[r] = <<>>
<1> DEFINE todo == <<>>
<1>1. todo \in Seq(CallsFor(request[r])) /\ Len(todo) = 0 /\ Call(r, todo)
  OBVIOUS
<1> HIDE DEF todo
<1>2. /\ OnRequests(calls') /\ \A s \in Requests \ {r} : calls'[s] = calls[s]
      /\ calls'[r] \in Seq(CallsFor(request[r]))
      /\ Len(calls[r]) \in Nat /\ Len(calls'[r]) = Len(todo) + Len(calls[r]) - 1
      /\ Len(calls[r]) = 1 => calls'[r] = todo
  BY <1>1, CallMade
<1> QED BY <1>1, <1>2 DEF todo, Only

LEMMA DoneWith ==
  ASSUME NEW r \in Requests, Shape, Own(r), series[r] # <<>>, Done(r)
  PROVE  /\ Only(r, series, series') /\ series'[r] \in Seq(SeriesFor(request[r]))
         /\ Len(series[r]) \in Nat /\ Len(series'[r]) = Len(series[r]) - 1
         /\ Len(series[r]) = 1 => series'[r] = <<>>
<1> DEFINE s == series[r]
           t == Tail(s)
<1>1. series' = [series EXCEPT ![r] = t] /\ OnRequests(series)
  BY DEF Done, Shape
<1>2. Only(r, series, series') /\ series'[r] = t
  BY <1>1 DEF OnRequests, Only
<1>3. s \in Seq(SeriesFor(request[r])) /\ s # <<>>
  BY DEF Own
<1> HIDE DEF s
<1>4. t \in Seq(SeriesFor(request[r])) /\ Len(s) \in Nat /\ Len(t) = Len(s) - 1
  BY <1>3, TopOf
<1>5. ASSUME Len(s) = 1 PROVE t = <<>>
  <2>1. Len(t) = 0
    BY <1>4, <1>5
  <2> HIDE DEF t
  <2> QED BY <1>4, <2>1, EmptySeq
<1> HIDE DEF t
<1> QED BY <1>2, <1>4, <1>5 DEF s

LEMMA Pended ==
  ASSUME NEW r \in Requests, Ready(r), NEW kind, Pending(r, kind)
  PROVE  /\ calls[r] = <<>> /\ series[r] # <<>> /\ series[r] \in Seq(SeriesFor(request[r]))
         /\ Head(series[r]) \in SeriesFor(request[r]) /\ Head(series[r]).kind = kind
         /\ request[r] # Free /\ request[r] \in Served
         /\ taskStack[r] \in Seq(TasksFor(request[r])) /\ taskStack[r] # <<>>
         /\ Top(r) \in TasksFor(request[r])
         /\ "unparsed" \notin faults[r] => Len(series[r]) = 1 /\ answers[r] = <<>>
         /\ faults[r] = {} => TasksRight(r) /\ TaskRight(r, Head(series[r]))
<1>1. /\ Own(r) /\ OneThread(r) /\ RunsRight(r)
      /\ calls[r] = <<>> /\ series[r] # <<>> /\ Head(series[r]).kind = kind
  BY DEF Ready, Local, Pending
<1>2. series[r] \in Seq(SeriesFor(request[r]))
  BY <1>1 DEF Own
<1>3. Head(series[r]) \in SeriesFor(request[r])
  BY <1>1, <1>2, TopOf
<1>4. /\ request[r] # Free /\ request[r] \in Served
      /\ taskStack[r] \in Seq(TasksFor(request[r])) /\ taskStack[r] # <<>>
      /\ Top(r) \in TasksFor(request[r])
  BY <1>1, Alive
<1>5. "unparsed" \notin faults[r] => Len(series[r]) = 1 /\ answers[r] = <<>>
  BY <1>1, Sole
<1>6. faults[r] = {} => TasksRight(r) /\ TaskRight(r, Head(series[r]))
  BY <1>1 DEF RunsRight
<1> QED BY <1>1, <1>2, <1>3, <1>4, <1>5, <1>6

LEMMA SameFaults ==
  ASSUME NEW r \in Requests, Ready(r), faults' = faults
  PROVE  /\ Only(r, faults, faults') /\ faults'[r] = faults[r]
         /\ faults'[r] \subseteq FaultKinds
BY DEF Ready, Shape, Local, Own, Only

LEMMA Faulted ==
  ASSUME NEW r \in Requests, Ready(r), NEW what \in SUBSET FaultKinds, Fault(r, what)
  PROVE  /\ Only(r, faults, faults') /\ faults'[r] = faults[r] \cup what
         /\ faults'[r] \subseteq FaultKinds
<1>1. OnRequests(faults) /\ faults[r] \subseteq FaultKinds
  BY DEF Ready, Shape, Local, Own
<1>2. Only(r, faults, faults') /\ faults'[r] = faults[r] \cup what
  BY <1>1 DEF Fault, OnRequests, Only
<1> QED BY <1>1, <1>2

(* A step of r that gives no answer, put together.                         *)
LEMMA Steps ==
  ASSUME NEW r \in Requests, Ready(r), request[r] # Free,
         UNCHANGED <<docs, request, answers>>, Stores', CacheRight',
         Only(r, taskStack, taskStack'), Only(r, calls, calls'),
         Only(r, series, series'), Only(r, faults, faults'),
         taskStack'[r] \in Seq(TasksFor(request[r])), taskStack'[r] # <<>>,
         calls'[r] \in Seq(CallsFor(request[r])), series'[r] \in Seq(SeriesFor(request[r])),
         faults[r] \subseteq faults'[r], faults'[r] \subseteq FaultKinds,
         "unparsed" \notin faults'[r] =>
           Len(calls'[r]) + Len(series'[r]) <= Len(calls[r]) + Len(series[r]),
         StackNested(r)', RunsRight(r)'
  PROVE  Stepped(r)
<1>1. Local(r)'
  BY LocalNext DEF Ready
<1>2. Apart(r)
  BY DEF Ready, Apart, Shape, Kept, Only
<1>3. DocsKept
  BY MaxVersionPositive DEF Ready, DocsKept, Stores, Versions
<1> QED BY <1>1, <1>2, <1>3 DEF Stepped

LEMMA Cached ==
  ASSUME Stores, docs' = docs, docCache' \in Maps,
         \A t \in DOMAIN esCache' :
           /\ t \in Texts /\ esCache'[t] \in ESReplies
           /\ Resolved(t) /\ esCache'[t].kind = "hits" => esCache'[t].ids = Hits(t.q, t.results)
  PROVE  Stores' /\ CacheRight'
BY DEF Stores, CacheRight, Resolved

LEMMA SearchESKeeps ==
  ASSUME NEW r \in Requests, Ready(r), SearchES(r)
  PROVE  Stepped(r)
<1> DEFINE text == TextOf(Top(r))
           task == [kind |-> "search", text |-> text]
<1>1. /\ Running(r) /\ ~Query[Top(r).q].idSearch /\ Calling(r, "dispatch")
      /\ PushBack(r, task) /\ Call(r, <<>>)
      /\ UNCHANGED <<docs, esCache, docCache, request, taskStack, answers, faults>>
  BY DEF SearchES, Running, caches
<1>2. /\ Shape /\ Stores /\ CacheRight /\ Own(r) /\ StackNested(r)
  BY DEF Ready, Local
<1>3. /\ calls[r] # <<>> /\ request[r] # Free
      /\ taskStack[r] \in Seq(TasksFor(request[r])) /\ taskStack[r] # <<>>
      /\ "unparsed" \notin faults[r] => Len(calls[r]) = 1 /\ series[r] = <<>>
  BY <1>1, CalledOn
<1>4. /\ request[r].q \in DOMAIN Query /\ text \in Texts /\ Resolved(text)
      /\ faults[r] = {} => TasksRight(r) /\ Top(r).entity_map = Empty
  BY <1>1, RunningOn
<1>5. Query[request[r].q].subs = <<>> => text = Root(request[r].q)
  BY <1>1, RootText
<1>6. text.q = Top(r).q
  BY DEF TextOf
<1> HIDE DEF text
<1>7. task \in SeriesFor(request[r])
  BY <1>1, <1>4, <1>5, <1>6 DEF SeriesFor, SearchFor, SeriesTasks
<1>8. task.kind = "search" /\ task.text = text
  OBVIOUS
<1> HIDE DEF task
<1>9. /\ Only(r, series, series') /\ series'[r] \in Seq(SeriesFor(request[r]))
      /\ series'[r] # <<>> /\ Len(series[r]) \in Nat /\ Len(series'[r]) = Len(series[r]) + 1
      /\ series[r] = <<>> => Head(series'[r]) = task
  BY <1>1, <1>2, <1>7, PushedBack
<1>10. /\ Only(r, calls, calls') /\ calls'[r] \in Seq(CallsFor(request[r]))
       /\ Len(calls[r]) \in Nat /\ Len(calls'[r]) = Len(calls[r]) - 1
       /\ Len(calls[r]) = 1 => calls'[r] = <<>>
  BY <1>1, <1>2, <1>3, CallOver
<1>11. Stores' /\ CacheRight'
  BY <1>1, <1>2 DEF Stores, CacheRight, Resolved
<1>12. Only(r, faults, faults') /\ faults'[r] = faults[r] /\ faults'[r] \subseteq FaultKinds
  BY <1>1, SameFaults
<1>13. Len(calls'[r]) + Len(series'[r]) <= Len(calls[r]) + Len(series[r])
  <2> DEFINE c == Len(calls[r])
             d == Len(calls'[r])
             s == Len(series[r])
             u == Len(series'[r])
  <2>1. c \in Nat /\ s \in Nat /\ d = c - 1 /\ u = s + 1
    BY <1>9, <1>10
  <2> HIDE DEF c, d, s, u
  <2>2. d + u <= c + s
    BY <2>1
  <2> QED BY <2>2 DEF c, d, s, u
<1>14. request'[r] = request[r] /\ taskStack'[r] = taskStack[r]
  BY <1>1
<1>15. Only(r, taskStack, taskStack')
  BY <1>1, <1>2 DEF Shape, Only
<1>16. /\ StackNested(r)' /\ (TasksRight(r) => TasksRight(r)')
       /\ \A t : TaskRight(r, t)' <=> TaskRight(r, t)
  BY <1>2, <1>14, StackKept
<1>17. RunsRight(r)'
  <2> SUFFICES ASSUME faults'[r] = {}
               PROVE  calls'[r] = <<>> /\ TasksRight(r)' /\ TaskRight(r, Head(series[r]))'
    BY DEF RunsRight
  <2>1. /\ calls'[r] = <<>> /\ TasksRight(r) /\ Top(r).entity_map = Empty
        /\ Head(series'[r]) = task
    BY <1>3, <1>4, <1>9, <1>10, <1>12
  <2>2. \A t : t = task => TaskRight(r, t)'
    <3>1. TaskRight(r, task)
      BY <1>8, <2>1 DEF TaskRight, text
    <3> QED BY <1>16, <3>1
  <2>3. TaskRight(r, Head(series[r]))'
    BY <2>1, <2>2 DEF TaskRight, Wanted
  <2> QED BY <1>16, <2>1, <2>3
<1> QED BY <1>1, <1>3, <1>9, <1>10, <1>11, <1>12, <1>13, <1>14, <1>15, <1>16, <1>17, Steps

-----------------------------------------------------------------------------
(* Callbacks of the series.                                                *)
LEMMA Halts ==
  ASSUME NEW r, faults'[r] # {}
  PROVE  RunsRight(r)'
BY DEF RunsRight

(* The first task is done, and its callback has the calls of todo to make. *)
LEMMA TaskDone ==
  ASSUME NEW r \in Requests, Ready(r), NEW kind, Pending(r, kind),
         NEW todo \in Seq(CallsFor(request[r])), Resume(r, todo), Done(r),
         "unparsed" \notin faults'[r] => Len(todo) <= 1
  PROVE  /\ Only(r, calls, calls') /\ calls'[r] = todo
         /\ Only(r, series, series') /\ series'[r] \in Seq(SeriesFor(request[r]))
         /\ "unparsed" \notin faults[r] => series'[r] = <<>>
         /\ "unparsed" \notin faults'[r] =>
              Len(calls'[r]) + Len(series'[r]) <= Len(calls[r]) + Len(series[r])
<1>1. /\ calls[r] = <<>> /\ series[r] # <<>>
      /\ "unparsed" \notin faults[r] => Len(series[r]) = 1
  BY Pended
<1>2. Shape /\ Own(r)
  BY DEF Ready, Local
<1>3. Only(r, calls, calls') /\ calls'[r] = todo
  BY <1>2, Resumed DEF Only
<1>4. /\ Only(r, series, series') /\ series'[r] \in Seq(SeriesFor(request[r]))
      /\ Len(series[r]) \in Nat /\ Len(series'[r]) = Len(series[r]) - 1
      /\ Len(series[r]) = 1 => series'[r] = <<>>
  BY <1>1, <1>2, DoneWith
<1>5. "unparsed" \notin faults'[r] =>
        Len(calls'[r]) + Len(series'[r]) <= Len(calls[r]) + Len(series[r])
  <2> DEFINE c == Len(calls[r])
             d == Len(calls'[r])
             s == Len(series[r])
             u == Len(series'[r])
  <2>1. c = 0 /\ s \in Nat /\ u = s - 1 /\ d \in Nat
    BY <1>1, <1>3, <1>4, LenProperties
  <2>2. "unparsed" \notin faults'[r] => d <= 1
    BY <1>3
  <2> HIDE DEF c, d, s, u
  <2>3. "unparsed" \notin faults'[r] => d + u <= c + s
    BY <2>1, <2>2
  <2> QED BY <2>3 DEF c, d, s, u
<1> QED BY <1>1, <1>3, <1>4, <1>5

(* What holds of the stack when a callback leaves it alone.                *)
LEMMA StackAside ==
  ASSUME NEW r \in Requests, Ready(r), request'[r] = request[r], taskStack' = taskStack
  PROVE  /\ Only(r, taskStack, taskStack') /\ StackNested(r)'
         /\ taskStack'[r] = taskStack[r] /\ Top(r)' = Top(r)
         /\ TasksRight(r) => TasksRight(r)'
         /\ \A c : CallRight(r, c)' <=> CallRight(r, c)
         /\ \A t : TaskRight(r, t)' <=> TaskRight(r, t)
<1>1. taskStack'[r] = taskStack[r] /\ StackNested(r) /\ OnRequests(taskStack)
  BY DEF Ready, Local, Shape
<1>2. Only(r, taskStack, taskStack')
  BY <1>1 DEF Only
<1> QED BY <1>1, <1>2, StackKept

LEMMA SearchAnsweredKeeps ==
  ASSUME NEW r \in Requests, Ready(r), SearchAnswered(r)
  PROVE  Stepped(r)
<1> DEFINE text == Head(series[r]).text
           key == RequestText(r)
<1>1. PICK reply \in Replies(text) :
        /\ esCache' = Merge(esCache, [t \in {key} |-> reply])
        /\ Resume(r, DealWithESResponse(reply)) /\ Fault(r, FaultOf(reply))
  BY DEF SearchAnswered
<1>2. /\ Pending(r, "search") /\ Done(r)
      /\ UNCHANGED <<docs, docCache, request, taskStack, answers>>
  BY DEF SearchAnswered
<1>3. /\ Head(series[r]) \in SeriesFor(request[r]) /\ Head(series[r]).kind = "search"
      /\ request[r] # Free
      /\ taskStack[r] \in Seq(TasksFor(request[r])) /\ taskStack[r] # <<>>
      /\ faults[r] = {} => TasksRight(r) /\ TaskRight(r, Head(series[r]))
  BY <1>2, Pended
<1>4. /\ request[r].q \in DOMAIN Query /\ text \in Texts /\ Resolved(text)
      /\ ~Query[text.q].idSearch
      /\ Query[request[r].q].subs = <<>> => text = Root(request[r].q)
  BY <1>3 DEF SeriesFor, SearchFor, SeriesTasks
<1>5. Shape /\ Stores /\ CacheRight /\ Own(r)
  BY DEF Ready, Local
<1> HIDE DEF text
<1>6. /\ reply \in ESReplies
      /\ reply.kind = "hits" => reply.ids = Hits(text.q, text.results)
  <2>1. Hits(text.q, text.results) \in Seq(Strings)
    BY <1>4, HitsSeq DEF Texts
  <2>2. \/ reply = [kind |-> "hits", ids |-> Hits(text.q, text.results)]
        \/ reply = [kind |-> "error"] \/ reply = [kind |-> "unparsed"]
    BY <1>1 DEF Replies
  <2> QED BY <2>1, <2>2 DEF ESReplies
<1> DEFINE todo == DealWithESResponse(reply)
<1>7. /\ todo \in Seq(CallsFor(request[r]))
      /\ Len(todo) = IF reply.kind = "unparsed" THEN 2 ELSE 1
      /\ FaultOf(reply) \subseteq FaultKinds
      /\ "unparsed" \notin FaultOf(reply) => reply.kind # "unparsed"
      /\ FaultOf(reply) = {} =>
           reply.kind = "hits" /\ todo = FnGetDocs(reply.ids, "postProcess")
  BY <1>4, <1>6, Dealt
<1> HIDE DEF todo
<1>8. /\ Only(r, faults, faults') /\ faults'[r] = faults[r] \cup FaultOf(reply)
      /\ faults'[r] \subseteq FaultKinds
  BY <1>1, <1>7, Faulted
<1>9. /\ Only(r, calls, calls') /\ calls'[r] = todo
      /\ Only(r, series, series') /\ series'[r] \in Seq(SeriesFor(request[r]))
      /\ "unparsed" \notin faults'[r] =>
           Len(calls'[r]) + Len(series'[r]) <= Len(calls[r]) + Len(series[r])
  <2>1. "unparsed" \notin faults'[r] => Len(todo) <= 1
    BY <1>7, <1>8
  <2>2. Resume(r, todo)
    BY <1>1 DEF todo
  <2> QED BY <1>2, <1>7, <2>1, <2>2, TaskDone
<1>10. Stores' /\ CacheRight'
  <2>1. key.q = request[r].q /\ key.results = <<>>
    BY DEF RequestText
  <2>2. key \in Texts
    BY <1>4 DEF RequestText, Texts
  <2>3. ASSUME Resolved(key), reply.kind = "hits" PROVE reply.ids = Hits(key.q, key.results)
    <3>1. Query[key.q].subs \in Seq([q : DOMAIN Query, behindID : BOOLEAN])
      BY <1>4, <2>1, QueriesTyped
    <3>2. Len(Query[key.q].subs) = 0
      BY <2>1, <2>3 DEF Resolved
    <3>3. Query[key.q].subs = <<>>
      <4> DEFINE subs == Query[key.q].subs
      <4> HIDE DEF subs
      <4>1. subs = <<>>
        BY <3>1, <3>2, EmptySeq DEF subs
      <4> QED BY <4>1 DEF subs
    <3>4. text.q = key.q /\ text.results = key.results
      BY <1>4, <2>1, <3>3 DEF Root
    <3> QED BY <1>6, <2>3, <3>4
  <2> HIDE DEF key
  <2>4. /\ DOMAIN esCache' = DOMAIN esCache \cup {key}
        /\ \A t \in DOMAIN esCache' : esCache'[t] = IF t = key THEN reply ELSE esCache[t]
    BY <1>1 DEF Merge
  <2>5. \A t \in DOMAIN esCache' :
           /\ t \in Texts /\ esCache'[t] \in ESReplies
           /\ Resolved(t) /\ esCache'[t].kind = "hits" => esCache'[t].ids = Hits(t.q, t.results)
    <3> SUFFICES ASSUME NEW t \in DOMAIN esCache'
                 PROVE  /\ t \in Texts /\ esCache'[t] \in ESReplies
                        /\ Resolved(t) /\ esCache'[t].kind = "hits" =>
                             esCache'[t].ids = Hits(t.q, t.results)
      OBVIOUS
    <3>1. CASE t = key
      BY <1>6, <2>2, <2>3, <2>4, <3>1
    <3>2. CASE t # key
      BY <1>5, <2>4, <3>2 DEF Stores, CacheRight
    <3> QED BY <3>1, <3>2
  <2>6. docCache' \in Maps /\ docs' = docs
    BY <1>2, <1>5 DEF Stores
  <2> QED BY <1>5, <2>5, <2>6, Cached
<1>11. request'[r] = request[r] /\ taskStack' = taskStack
  BY <1>2
<1>12. /\ Only(r, taskStack, taskStack') /\ StackNested(r)' /\ taskStack'[r] = taskStack[r]
       /\ (TasksRight(r) => TasksRight(r)')
       /\ \A c : CallRight(r, c)' <=> CallRight(r, c)
  BY <1>11, StackAside
<1>13. RunsRight(r)'
  <2> SUFFICES ASSUME faults'[r] = {}
               PROVE  calls'[r] # <<>> /\ TasksRight(r)' /\ CallRight(r, Head(calls[r]))'
    BY DEF RunsRight
  <2>1. /\ faults[r] = {} /\ reply.kind = "hits" /\ TasksRight(r)
        /\ todo = FnGetDocs(reply.ids, "postProcess") /\ TaskRight(r, Head(series[r]))
    BY <1>3, <1>7, <1>8
  <2>2. text = TextOf(Top(r)) /\ Top(r).entity_map = Empty
    BY <1>3, <2>1 DEF TaskRight, text
  <2>3. Meaning[Top(r).q].ids = reply.ids
    <3>1. /\ Top(r).q = text.q /\ Top(r).results = text.results
          /\ text.results \in Seq(SUBSET Strings) /\ text.q \in DOMAIN Query
      BY <1>4, <2>2 DEF TextOf, Texts
    <3>2. ResultsRight(Top(r))
      <4>1. Len(taskStack[r]) \in DOMAIN taskStack[r] /\ Top(r) = taskStack[r][Len(taskStack[r])]
        BY <1>3, TopOf DEF Top
      <4> QED BY <2>1, <4>1 DEF TasksRight
    <3>3. Resolved(Top(r))
      BY <1>4, <3>1 DEF Resolved
    <3>4. Meaning[Top(r).q].ids = Hits(Top(r).q, Top(r).results)
      BY <1>4, <3>1, <3>2, <3>3, ResolvedMeaning
    <3> QED BY <1>6, <2>1, <3>1, <3>4
  <2>4. /\ todo # <<>>
        /\ Head(todo) = [fn |-> "getDocs", ids |-> reply.ids, callback |-> "postProcess"]
    BY <2>1 DEF FnGetDocs
  <2>5. \A c : c = Head(todo) => CallRight(r, c)'
    <3>1. CallRight(r, Head(todo))
      BY <2>2, <2>3, <2>4 DEF CallRight, Wanted
    <3> QED BY <1>12, <3>1
  <2>6. CallRight(r, Head(calls[r]))'
    BY <1>9, <2>5 DEF CallRight, Wanted
  <2> QED BY <1>9, <1>12, <2>1, <2>4, <2>6
<1> QED BY <1>2, <1>3, <1>7, <1>8, <1>9, <1>10, <1>12, <1>13, Steps

LEMMA SearchFailedKeeps ==
  ASSUME NEW r \in Requests, Ready(r), SearchFailed(r)
  PROVE  Stepped(r)
<1> DEFINE todo == Fn("dispatchCallback")
<1>1. /\ Pending(r, "search") /\ Resume(r, todo) /\ Done(r)
      /\ Fault(r, {"failed"}) /\ UNCHANGED <<docs, caches, request, taskStack, answers>>
  BY DEF SearchFailed
<1>2. /\ Head(series[r]) \in SeriesFor(request[r]) /\ Head(series[r]).kind = "search"
      /\ request[r] # Free
      /\ taskStack[r] \in Seq(TasksFor(request[r])) /\ taskStack[r] # <<>>
  BY <1>1, Pended
<1>3. request[r].q \in DOMAIN Query
  BY <1>2 DEF SeriesFor, SearchFor
<1>4. todo \in Seq(CallsFor(request[r])) /\ Len(todo) = 1
  BY <1>3, FnTyped
<1> HIDE DEF todo
<1>5. /\ Only(r, faults, faults') /\ faults'[r] = faults[r] \cup {"failed"}
      /\ faults'[r] \subseteq FaultKinds
  <2>1. {"failed"} \in SUBSET FaultKinds
    BY DEF FaultKinds
  <2> QED BY <1>1, <2>1, Faulted
<1>6. /\ Only(r, calls, calls') /\ calls'[r] = todo
      /\ Only(r, series, series') /\ series'[r] \in Seq(SeriesFor(request[r]))
      /\ "unparsed" \notin faults'[r] =>
           Len(calls'[r]) + Len(series'[r]) <= Len(calls[r]) + Len(series[r])
  <2>1. Len(todo) <= 1
    BY <1>4
  <2> QED BY <1>1, <1>4, <2>1, TaskDone
<1>7. Stores' /\ CacheRight'
  BY <1>1, Unstored DEF Ready
<1>8. request'[r] = request[r] /\ taskStack' = taskStack
  BY <1>1
<1>9. /\ Only(r, taskStack, taskStack') /\ StackNested(r)' /\ taskStack'[r] = taskStack[r]
  BY <1>8, StackAside
<1>10. RunsRight(r)'
  BY <1>5, Halts
<1> QED BY <1>1, <1>2, <1>4, <1>5, <1>6, <1>7, <1>9, <1>10, Steps

(* The ids that are to be read from Redis, and where they go then.         *)
LEMMA Reading ==
  ASSUME NEW req, NEW s \in SeriesFor(req), s.kind \in {"mget", "mgetRead"}
  PROVE  /\ s.callback \in Callbacks /\ (s.callback = "respond" \/ req.q \in DOMAIN Query)
         /\ s.kind = "mget" =>
              s = [kind |-> "mget", ids |-> s.ids, callback |-> s.callback] /\ s.ids \in Seq(Strings)
         /\ s.kind = "mgetRead" => s.read \in MapsFor(req)
BY DEF SeriesFor, ReadFor, SeriesTasks

LEMMA BackFn ==
  ASSUME NEW req, NEW callback \in Callbacks, callback = "respond" \/ req.q \in DOMAIN Query
  PROVE  /\ Fn(callback) \in Seq(CallsFor(req)) /\ Len(Fn(callback)) = 1 /\ Fn(callback) # <<>>
         /\ Head(Fn(callback)) = [fn |-> callback]
<1>1. callback \in {"dispatch", "postProcess", "dispatchCallback", "respond"}
  BY DEF Callbacks
<1> QED BY <1>1, FnTyped

LEMMA MgetFailedKeeps ==
  ASSUME NEW r \in Requests, Ready(r), MgetFailed(r)
  PROVE  Stepped(r)
<1> DEFINE todo == Fn(Head(series[r]).callback)
<1>1. /\ Pending(r, "mget") /\ Resume(r, todo) /\ Done(r)
      /\ Fault(r, {"failed"}) /\ UNCHANGED <<docs, caches, request, taskStack, answers>>
  BY DEF MgetFailed
<1>2. /\ Head(series[r]) \in SeriesFor(request[r]) /\ Head(series[r]).kind = "mget"
      /\ request[r] # Free
      /\ taskStack[r] \in Seq(TasksFor(request[r])) /\ taskStack[r] # <<>>
  BY <1>1, Pended
<1>3. todo \in Seq(CallsFor(request[r])) /\ Len(todo) = 1
  BY <1>2, Reading, BackFn
<1> HIDE DEF todo
<1>4. /\ Only(r, faults, faults') /\ faults'[r] = faults[r] \cup {"failed"}
      /\ faults'[r] \subseteq FaultKinds
  <2>1. {"failed"} \in SUBSET FaultKinds
    BY DEF FaultKinds
  <2> QED BY <1>1, <2>1, Faulted
<1>5. /\ Only(r, calls, calls') /\ calls'[r] = todo
      /\ Only(r, series, series') /\ series'[r] \in Seq(SeriesFor(request[r]))
      /\ "unparsed" \notin faults'[r] =>
           Len(calls'[r]) + Len(series'[r]) <= Len(calls[r]) + Len(series[r])
  <2>1. Len(todo) <= 1
    BY <1>3
  <2> QED BY <1>1, <1>3, <2>1, TaskDone
<1>6. Stores' /\ CacheRight'
  BY <1>1, Unstored DEF Ready
<1>7. request'[r] = request[r] /\ taskStack' = taskStack
  BY <1>1
<1>8. /\ Only(r, taskStack, taskStack') /\ StackNested(r)' /\ taskStack'[r] = taskStack[r]
  BY <1>7, StackAside
<1>9. RunsRight(r)'
  BY <1>4, Halts
<1> QED BY <1>1, <1>2, <1>3, <1>4, <1>5, <1>6, <1>8, <1>9, Steps

LEMMA MgetErrorKeeps ==
  ASSUME NEW r \in Requests, Ready(r), MgetError(r)
  PROVE  Stepped(r)
<1>1. /\ Pending(r, "mget") /\ Done(r) /\ Fault(r, {"dropped"})
      /\ UNCHANGED <<docs, caches, request, taskStack, calls, answers>>
  BY DEF MgetError
<1>2. /\ series[r] # <<>> /\ request[r] # Free /\ calls[r] = <<>>
      /\ taskStack[r] \in Seq(TasksFor(request[r])) /\ taskStack[r] # <<>>
  BY <1>1, Pended
<1>3. Shape /\ Own(r)
  BY DEF Ready, Local
<1>4. /\ Only(r, faults, faults') /\ faults'[r] = faults[r] \cup {"dropped"}
      /\ faults'[r] \subseteq FaultKinds
  <2>1. {"dropped"} \in SUBSET FaultKinds
    BY DEF FaultKinds
  <2> QED BY <1>1, <2>1, Faulted
<1>5. /\ Only(r, series, series') /\ series'[r] \in Seq(SeriesFor(request[r]))
      /\ Len(series[r]) \in Nat /\ Len(series'[r]) = Len(series[r]) - 1
  BY <1>1, <1>2, <1>3, DoneWith
<1>6. Only(r, calls, calls') /\ calls'[r] = <<>> /\ calls'[r] \in Seq(CallsFor(request[r]))
  BY <1>1, <1>2, <1>3 DEF Shape, Only
<1>7. Len(calls'[r]) + Len(series'[r]) <= Len(calls[r]) + Len(series[r])
  <2> DEFINE s == Len(series[r])
             u == Len(series'[r])
  <2>1. s \in Nat /\ u = s - 1 /\ Len(calls'[r]) = 0 /\ Len(calls[r]) = 0
    BY <1>2, <1>5, <1>6
  <2> HIDE DEF s, u
  <2>2. 0 + u <= 0 + s
    BY <2>1
  <2> QED BY <2>1, <2>2 DEF s, u
<1>8. Stores' /\ CacheRight'
  BY <1>1, Unstored DEF Ready
<1>9. request'[r] = request[r] /\ taskStack' = taskStack
  BY <1>1
<1>10. /\ Only(r, taskStack, taskStack') /\ StackNested(r)' /\ taskStack'[r] = taskStack[r]
  BY <1>9, StackAside
<1>11. RunsRight(r)'
  BY <1>4, Halts
<1> QED BY <1>1, <1>2, <1>4, <1>5, <1>6, <1>7, <1>8, <1>10, <1>11, Steps

LEMMA MgetReadKeeps ==
  ASSUME NEW r \in Requests, Ready(r), MgetRead(r)
  PROVE  Stepped(r)
<1> DEFINE s == series[r]
           old == Head(s)
           present == ToSet(old.ids) \cap Documents
           new == [kind |-> "mgetRead", callback |-> old.callback,
                   read |-> Restrict(docs, present)]
           t == [s EXCEPT ![1] = new]
<1>1. /\ s # <<>> /\ s \in Seq(SeriesFor(request[r])) /\ calls[r] = <<>>
      /\ old \in SeriesFor(request[r]) /\ old.kind = "mget"
      /\ request[r] # Free /\ request[r] \in Served
      /\ taskStack[r] \in Seq(TasksFor(request[r])) /\ taskStack[r] # <<>>
      /\ faults[r] = {} => TasksRight(r) /\ TaskRight(r, old)
  <2>1. Pending(r, "mget")
    BY DEF MgetRead
  <2> QED BY <2>1, Pended
<1>2. UNCHANGED <<docs, caches, request, taskStack, calls, answers, faults>>
  BY DEF MgetRead
<1>3. Shape /\ Stores /\ Own(r) /\ DocsGrow(r)
  BY DEF Ready, Local
<1>4. s[1] = old /\ Len(s) \in Nat \ {0} /\ DOMAIN s = 1..Len(s)
  BY <1>1, TopOf
<1>5. series' = [series EXCEPT ![r] = t]
  <2>1. series' = [series EXCEPT ![r][1] = [kind |-> "mgetRead", callback |-> s[1].callback,
                       read |-> Restrict(docs, ToSet(s[1].ids) \cap Documents)]]
    BY DEF MgetRead
  <2> QED BY <1>4, <2>1
<1>6. /\ Restrict(docs, present) \in MapsFor(request[r])
      /\ DOMAIN Restrict(docs, present) = present
  <2>1. docs \in MapsFor(request[r]) /\ DOMAIN docs = Documents
    <3>1. docs \in Maps /\ DOMAIN docs = Documents
      BY <1>3, MapsAre DEF Stores
    <3> QED BY <1>1, <1>3, <3>1 DEF DocsGrow, MapsFor
  <2> QED BY <2>1, RestrictMaps
<1>7. new \in SeriesFor(request[r])
  <2>1. old.callback \in Callbacks /\ (old.callback = "respond" \/ request[r].q \in DOMAIN Query)
    BY <1>1, Reading
  <2>2. Restrict(docs, present) \in Maps
    BY <1>6 DEF MapsFor
  <2> QED BY <1>6, <2>1, <2>2 DEF SeriesFor, ReadFor, SeriesTasks
<1>8. /\ new.kind = "mgetRead" /\ new.callback = old.callback
      /\ DOMAIN new.read = Present(old.ids)
  BY <1>6 DEF Present
<1> HIDE DEF new
<1>9. /\ Only(r, series, series') /\ series'[r] = t
  BY <1>3, <1>5 DEF Shape, OnRequests, Only
<1>10. /\ t \in Seq(SeriesFor(request[r])) /\ Len(t) = Len(s) /\ Head(t) = new /\ t # <<>>
  <2> HIDE DEF s
  <2>1. t \in Seq(SeriesFor(request[r])) /\ Len(t) = Len(s) /\ t[1] = new
    BY <1>1, <1>4, <1>7
  <2> HIDE DEF t
  <2> QED BY <1>4, <2>1, EmptySeq
<1>11. Stores' /\ CacheRight'
  BY <1>2, Unstored DEF Ready
<1>12. Only(r, faults, faults') /\ faults'[r] = faults[r] /\ faults'[r] \subseteq FaultKinds
  BY <1>2, SameFaults
<1>13. Only(r, calls, calls') /\ calls'[r] = calls[r] /\ calls'[r] \in Seq(CallsFor(request[r]))
  BY <1>2, <1>3 DEF Shape, Only, Own
<1>14. request'[r] = request[r] /\ taskStack' = taskStack
  BY <1>2
<1>15. /\ Only(r, taskStack, taskStack') /\ StackNested(r)' /\ taskStack'[r] = taskStack[r]
       /\ (TasksRight(r) => TasksRight(r)')
       /\ \A x : TaskRight(r, x)' <=> TaskRight(r, x)
  BY <1>14, StackAside
<1> HIDE DEF t
<1>16. Len(calls'[r]) + Len(series'[r]) <= Len(calls[r]) + Len(series[r])
  <2>1. Len(series'[r]) = Len(series[r]) /\ Len(series[r]) \in Nat /\ Len(calls[r]) \in Nat
    BY <1>4, <1>9, <1>10, <1>13, LenProperties
  <2> QED BY <1>13, <2>1
<1>17. RunsRight(r)'
  <2> SUFFICES ASSUME faults'[r] = {}
               PROVE  calls'[r] = <<>> /\ TasksRight(r)' /\ TaskRight(r, Head(series[r]))'
    BY DEF RunsRight
  <2>1. TasksRight(r) /\ TaskRight(r, old)
    BY <1>1, <1>12
  <2>2. \A x : x = new => TaskRight(r, x)'
    <3>1. TaskRight(r, new)
      BY <1>1, <1>8, <2>1 DEF TaskRight
    <3> QED BY <1>15, <3>1
  <2>3. TaskRight(r, Head(series[r]))'
    BY <1>9, <1>10, <2>2 DEF TaskRight, Wanted
  <2> QED BY <1>1, <1>13, <1>15, <2>1, <2>3
<1> QED BY <1>1, <1>2, <1>9, <1>10, <1>11, <1>12, <1>13, <1>15, <1>16, <1>17, Steps

-----------------------------------------------------------------------------
(* Steps that write documents into the task at the top.                    *)
LEMMA MapSet ==
  ASSUME NEW req, NEW task \in TasksFor(req), NEW m \in MapsFor(req),
         NEW new, new = [task EXCEPT !.entity_map = m]
  PROVE  /\ new \in TasksFor(req) /\ new.q = task.q /\ new.results = task.results
         /\ new.entity_ids = task.entity_ids /\ new.entity_map = m
<1>1. m \in Maps /\ task \in Tasks /\ Underway(task)
  BY TaskFields DEF MapsFor
<1> QED BY <1>1 DEF TasksFor, Tasks, Underway

(* The documents of all ids are in the map: the callback may run.          *)
LEMMA CallbackRight ==
  ASSUME NEW r, request'[r] = request[r], NEW callback \in Callbacks,
         calls'[r] = Fn(callback), NEW task, Top(r)' = task, task.q = Top(r).q,
         task.entity_ids \in Seq(Strings), Wanted(r, callback, task.entity_ids),
         DOMAIN task.entity_map = Present(task.entity_ids)
  PROVE  CallRight(r, Head(calls[r]))'
<1> DEFINE ids == task.entity_ids
           found == DOMAIN task.entity_map
<1>1. ToSet(ids) \cap found = ToSet(ids) \cap Documents
  BY DEF Present
<1>2. InOrder(ids, found) = InOrder(ids, Documents)
  <2> HIDE DEF ids, found
  <2>1. ids \in Seq(Strings)
    BY DEF ids
  <2> QED BY <1>1, <2>1, InOrderSame
<1>3. Head(calls'[r]) = [fn |-> callback]
  BY DEF Fn
<1>4. Expected(r)' = Expected(r)
  BY Foretold
<1>5. CASE callback = "postProcess"
  <2>1. ids = Meaning[task.q].ids
    BY <1>5 DEF Wanted
  <2> QED BY <1>3, <1>5, <2>1 DEF CallRight, Wanted
<1>6. CASE callback = "respond"
  <2>1. InOrder(ids, found) = Expected(r)
    BY <1>2, <1>6 DEF Wanted
  <2> QED BY <1>3, <1>4, <1>6, <2>1 DEF CallRight
<1> QED BY <1>5, <1>6 DEF Callbacks

LEMMA MgetAnsweredKeeps ==
  ASSUME NEW r \in Requests, Ready(r), MgetAnswered(r)
  PROVE  Stepped(r)
<1> DEFINE read == Head(series[r]).read
           map == Merge(Top(r).entity_map, read)
           task == [Top(r) EXCEPT !.entity_map = map]
           callback == Head(series[r]).callback
           todo == Fn(callback)
<1>1. /\ Pending(r, "mgetRead") /\ SetTop(r, task) /\ docCache' = Merge(docCache, read)
      /\ Resume(r, todo) /\ Done(r) /\ UNCHANGED <<docs, esCache, request, answers, faults>>
  BY DEF MgetAnswered
<1>2. /\ Head(series[r]) \in SeriesFor(request[r]) /\ Head(series[r]).kind = "mgetRead"
      /\ request[r] # Free
      /\ taskStack[r] \in Seq(TasksFor(request[r])) /\ taskStack[r] # <<>>
      /\ Top(r) \in TasksFor(request[r])
      /\ "unparsed" \notin faults[r] => Len(series[r]) = 1
      /\ faults[r] = {} => TasksRight(r) /\ TaskRight(r, Head(series[r]))
  BY <1>1, Pended
<1>3. /\ callback \in Callbacks /\ (callback = "respond" \/ request[r].q \in DOMAIN Query)
      /\ read \in MapsFor(request[r])
  BY <1>2, Reading
<1>4. /\ todo \in Seq(CallsFor(request[r])) /\ Len(todo) = 1 /\ todo # <<>>
      /\ Head(todo) = [fn |-> callback]
  BY <1>3, BackFn
<1>5. Shape /\ Stores /\ CacheRight /\ Own(r) /\ StackNested(r)
  BY DEF Ready, Local
<1>6. map \in MapsFor(request[r]) /\ DOMAIN map = DOMAIN Top(r).entity_map \cup DOMAIN read
  <2>1. Top(r).entity_map \in MapsFor(request[r])
    BY <1>2, TaskFields
  <2>2. \A m, n \in MapsFor(request[r]) :
          Merge(m, n) \in MapsFor(request[r]) /\ DOMAIN Merge(m, n) = DOMAIN m \cup DOMAIN n
    BY MergeMaps
  <2> HIDE DEF read
  <2> QED BY <1>3, <2>1, <2>2
<1>7. /\ task \in TasksFor(request[r]) /\ task.q = Top(r).q /\ task.results = Top(r).results
      /\ task.entity_ids = Top(r).entity_ids /\ task.entity_map = map
      /\ task.entity_ids \in Seq(Strings)
  <2> HIDE DEF map
  <2>1. Top(r).entity_ids \in Seq(Strings)
    BY <1>2, TaskFields
  <2>2. task = [Top(r) EXCEPT !.entity_map = map]
    OBVIOUS
  <2> HIDE DEF task
  <2> QED BY <1>2, <1>6, <2>1, <2>2, MapSet
<1> HIDE DEF task, todo, map
<1>8. /\ OnRequests(taskStack') /\ \A s \in Requests \ {r} : taskStack'[s] = taskStack[s]
      /\ taskStack'[r] \in Seq(TasksFor(request[r])) /\ taskStack'[r] # <<>>
      /\ Top(r)' = task /\ StackNested(r)'
      /\ TasksRight(r) /\ ResultsRight(task) => TasksRight(r)'
  <2>1. request'[r] = request[r]
    BY <1>1
  <2> QED BY <1>1, <1>2, <1>5, <1>7, <2>1, TopSet
<1>9. Only(r, taskStack, taskStack')
  BY <1>8 DEF Only
<1>10. /\ Only(r, calls, calls') /\ calls'[r] = todo
       /\ Only(r, series, series') /\ series'[r] \in Seq(SeriesFor(request[r]))
       /\ "unparsed" \notin faults'[r] =>
            Len(calls'[r]) + Len(series'[r]) <= Len(calls[r]) + Len(series[r])
  <2>1. Len(todo) <= 1
    BY <1>4
  <2> QED BY <1>1, <1>4, <2>1, TaskDone
<1>11. Stores' /\ CacheRight'
  <2>1. docCache' \in Maps
    <3>1. docCache \in Maps /\ read \in Maps
      BY <1>3, <1>5 DEF Stores, MapsFor
    <3> QED BY <1>1, <3>1, PlainMaps
  <2> QED BY <1>1, <1>5, <2>1 DEF Stores, CacheRight
<1>12. Only(r, faults, faults') /\ faults'[r] = faults[r] /\ faults'[r] \subseteq FaultKinds
  BY <1>1, SameFaults
<1>13. RunsRight(r)'
  <2> SUFFICES ASSUME faults'[r] = {}
               PROVE  calls'[r] # <<>> /\ TasksRight(r)' /\ CallRight(r, Head(calls[r]))'
    BY DEF RunsRight
  <2>1. faults[r] = {} /\ TasksRight(r) /\ TaskRight(r, Head(series[r]))
    BY <1>2, <1>12
  <2>2. /\ Wanted(r, callback, Top(r).entity_ids)
        /\ DOMAIN Top(r).entity_map \cup DOMAIN read = Present(Top(r).entity_ids)
    BY <1>2, <2>1 DEF TaskRight
  <2>3. DOMAIN task.entity_map = Present(task.entity_ids)
    BY <1>6, <1>7, <2>2
  <2>4. Wanted(r, callback, task.entity_ids)
    BY <1>7, <2>2
  <2>7. CallRight(r, Head(calls[r]))'
    <3>1. request'[r] = request[r] /\ calls'[r] = Fn(callback)
      BY <1>1, <1>10 DEF todo
    <3> HIDE DEF callback
    <3> QED BY <1>3, <1>7, <1>8, <2>3, <2>4, <3>1, CallbackRight
  <2>8. ResultsRight(task)
    <3>1. Len(taskStack[r]) \in DOMAIN taskStack[r] /\ Top(r) = taskStack[r][Len(taskStack[r])]
      BY <1>2, TopOf DEF Top
    <3>2. ResultsRight(Top(r))
      BY <2>1, <3>1 DEF TasksRight
    <3> QED BY <1>7, <3>2 DEF ResultsRight
  <2> QED BY <1>4, <1>8, <1>10, <2>1, <2>7, <2>8
<1> QED BY <1>1, <1>2, <1>4, <1>8, <1>9, <1>10, <1>11, <1>12, <1>13, Steps

LEMMA GetDocsKeeps ==
  ASSUME NEW r \in Requests, Ready(r), GetDocs(r)
  PROVE  Stepped(r)
<1> DEFINE call == Head(calls[r])
           ids == call.ids
           callback == call.callback
<1>1. PICK cached \in SUBSET MayBeCached(r, ids) :
        LET missed == InOrder(ids, ToSet(ids) \ cached)
        IN /\ SetTop(r, [Top(r) EXCEPT !.entity_ids = ids,
                           !.entity_map = Merge(Top(r).entity_map, Restrict(docCache, cached))])
           /\ IF missed = <<>>
                THEN Call(r, Fn(callback)) /\ UNCHANGED series
                ELSE /\ PushBack(r, [kind |-> "mget", ids |-> missed, callback |-> callback])
                     /\ Call(r, <<>>)
  BY DEF GetDocs
<1> DEFINE missed == InOrder(ids, ToSet(ids) \ cached)
           part == Restrict(docCache, cached)
           map == Merge(Top(r).entity_map, part)
           task == [Top(r) EXCEPT !.entity_ids = ids, !.entity_map = map]
           mget == [kind |-> "mget", ids |-> missed, callback |-> callback]
<1>2. Calling(r, "getDocs")
      /\ UNCHANGED <<docs, esCache, docCache, request, answers, faults>>
  BY DEF GetDocs, caches
<1>3. /\ calls[r] # <<>> /\ call \in CallsFor(request[r]) /\ call.fn = "getDocs"
      /\ request[r] # Free /\ request[r] \in Served
      /\ taskStack[r] \in Seq(TasksFor(request[r])) /\ taskStack[r] # <<>>
      /\ Top(r) \in TasksFor(request[r])
      /\ "unparsed" \notin faults[r] => Len(calls[r]) = 1 /\ series[r] = <<>>
      /\ faults[r] = {} => TasksRight(r) /\ CallRight(r, call)
  BY <1>2, CalledOn
<1>4. Shape /\ Stores /\ CacheRight /\ Own(r) /\ StackNested(r)
  BY DEF Ready, Local
<1>5. /\ ids \in Seq(Strings) /\ callback \in Callbacks
      /\ callback = "respond" \/ request[r].q \in DOMAIN Query
  BY <1>3 DEF CallsFor, Calls
<1>6. /\ cached \subseteq ToSet(ids) \cap DOMAIN docCache
      /\ request[r].forceQuery => cached = {}
  BY DEF MayBeCached
<1>7. docCache \in Maps /\ DOMAIN docCache \subseteq Documents
  BY <1>4, MapsAre DEF Stores
<1>8. part \in MapsFor(request[r]) /\ DOMAIN part = cached
  <2>1. part = [x \in cached |-> docCache[x]]
    BY <1>6 DEF Restrict
  <2>2. part \in Maps
    BY <1>6, <1>7, <2>1, MapsAre
  <2> HIDE DEF part
  <2>3. request[r].forceQuery => \A e \in DOMAIN part : part[e] >= request[r].docs[e]
    BY <1>6, <2>1
  <2> QED BY <2>1, <2>2, <2>3 DEF MapsFor
<1> HIDE DEF part
<1>9. map \in MapsFor(request[r]) /\ DOMAIN map = DOMAIN Top(r).entity_map \cup cached
  <2>1. Top(r).entity_map \in MapsFor(request[r])
    BY <1>3, TaskFields
  <2>2. \A m, n \in MapsFor(request[r]) :
          Merge(m, n) \in MapsFor(request[r]) /\ DOMAIN Merge(m, n) = DOMAIN m \cup DOMAIN n
    BY MergeMaps
  <2> QED BY <1>8, <2>1, <2>2
<1> HIDE DEF map
<1>10. /\ task \in TasksFor(request[r]) /\ task.q = Top(r).q /\ task.results = Top(r).results
       /\ task.entity_ids = ids /\ task.entity_map = map
  <2>1. task = [Top(r) EXCEPT !.entity_ids = ids, !.entity_map = map]
    OBVIOUS
  <2>2. Top(r) \in Tasks /\ Underway(Top(r)) /\ map \in Maps
    BY <1>3, <1>9, TaskFields DEF MapsFor
  <2> HIDE DEF task, ids
  <2> DEFINE top == Top(r)
  <2> HIDE DEF top
  <2>3. /\ task \in Tasks /\ task.q = top.q /\ task.results = top.results
        /\ task.entity_ids = ids /\ task.entity_map = map
    BY <1>5, <2>1, <2>2 DEF Tasks, top
  <2> QED BY <1>9, <2>2, <2>3 DEF TasksFor, Underway, top
<1>11. /\ missed \in Seq(Strings) /\ ToSet(missed) = ToSet(ids) \ cached
  <2> HIDE DEF ids
  <2>1. missed \in Seq(Strings \cap (ToSet(ids) \ cached))
        /\ ToSet(missed) = ToSet(ids) \cap (ToSet(ids) \ cached)
    BY <1>5, InOrderKeeps
  <2> HIDE DEF missed
  <2> QED BY <2>1
<1>12. /\ SetTop(r, task)
       /\ \/ missed = <<>> /\ Call(r, Fn(callback)) /\ UNCHANGED series
          \/ missed # <<>> /\ PushBack(r, mget) /\ Call(r, <<>>)
  BY <1>1 DEF map, part
<1> HIDE DEF task, missed, ids, callback, call
<1>13. /\ OnRequests(taskStack') /\ \A s \in Requests \ {r} : taskStack'[s] = taskStack[s]
       /\ taskStack'[r] \in Seq(TasksFor(request[r])) /\ taskStack'[r] # <<>>
       /\ Top(r)' = task /\ StackNested(r)'
       /\ TasksRight(r) /\ ResultsRight(task) => TasksRight(r)'
  <2>1. request'[r] = request[r]
    BY <1>2
  <2> QED BY <1>3, <1>4, <1>10, <1>12, <2>1, TopSet
<1>14. Only(r, taskStack, taskStack')
  BY <1>13 DEF Only
<1>15. Stores' /\ CacheRight'
  BY <1>2, <1>4 DEF Stores, CacheRight
<1>16. Only(r, faults, faults') /\ faults'[r] = faults[r] /\ faults'[r] \subseteq FaultKinds
  BY <1>2, SameFaults
<1>17. request'[r] = request[r] /\ Expected(r)' = Expected(r)
  BY <1>2, Foretold
(* What is right before the call is right of the task it leaves behind.    *)
<1>18. ASSUME faults[r] = {}
       PROVE  /\ TasksRight(r)' /\ Wanted(r, callback, task.entity_ids)
              /\ DOMAIN task.entity_map = cached
              /\ Len(calls[r]) = 1 /\ series[r] = <<>>
  <2>1. /\ TasksRight(r) /\ CallRight(r, call)
        /\ Len(calls[r]) = 1 /\ series[r] = <<>>
    BY <1>3, <1>18
  <2>2. Wanted(r, callback, ids) /\ Top(r).entity_map = Empty
    BY <1>3, <2>1 DEF CallRight, ids, callback
  <2>3. ResultsRight(task)
    <3>1. Len(taskStack[r]) \in DOMAIN taskStack[r] /\ Top(r) = taskStack[r][Len(taskStack[r])]
      BY <1>3, TopOf DEF Top
    <3>2. ResultsRight(Top(r))
      BY <2>1, <3>1 DEF TasksRight
    <3> QED BY <1>10, <3>2 DEF ResultsRight
  <2>4. DOMAIN task.entity_map = cached
    BY <1>9, <1>10, <2>2, EmptyMap
  <2> QED BY <1>10, <1>13, <2>1, <2>2, <2>3, <2>4
<1>19. CASE missed = <<>>
  <2> DEFINE todo == Fn(callback)
  <2>1. todo \in Seq(CallsFor(request[r])) /\ Len(todo) = 1 /\ todo # <<>>
    BY <1>5, BackFn
  <2>2. Call(r, todo) /\ series' = series
    BY <1>12, <1>19
  <2> HIDE DEF todo
  <2>3. /\ OnRequests(calls') /\ \A s \in Requests \ {r} : calls'[s] = calls[s]
        /\ calls'[r] \in Seq(CallsFor(request[r]))
        /\ Len(calls[r]) \in Nat /\ Len(calls'[r]) = Len(todo) + Len(calls[r]) - 1
        /\ Len(calls[r]) = 1 => calls'[r] = todo
    BY <1>3, <1>4, <2>1, <2>2, CallMade
  <2>4. Only(r, calls, calls')
    BY <2>3 DEF Only
  <2>5. /\ Only(r, series, series') /\ series'[r] \in Seq(SeriesFor(request[r]))
        /\ Len(series'[r]) = Len(series[r]) /\ Len(series[r]) \in Nat
    BY <1>4, <2>2, LenProperties DEF Own, Shape, Only
  <2>6. Len(calls'[r]) + Len(series'[r]) <= Len(calls[r]) + Len(series[r])
    BY <2>1, <2>3, <2>5
  <2>7. RunsRight(r)'
    <3> SUFFICES ASSUME faults'[r] = {}
                 PROVE  calls'[r] # <<>> /\ TasksRight(r)' /\ CallRight(r, Head(calls[r]))'
      BY DEF RunsRight
    <3>1. /\ TasksRight(r)' /\ Wanted(r, callback, task.entity_ids)
          /\ DOMAIN task.entity_map = cached /\ calls'[r] = todo
      BY <1>16, <1>18, <2>3
    <3>2. ToSet(ids) \subseteq cached
      <4>1. ToSet(missed) = {}
        BY <1>19 DEF ToSet
      <4> QED BY <1>11, <4>1
    <3>3. cached = Present(task.entity_ids)
      BY <1>6, <1>7, <1>10, <3>2 DEF Present
    <3>4. CallRight(r, Head(calls[r]))'
      <4>1. calls'[r] = Fn(callback)
        BY <3>1 DEF todo
      <4> QED BY <1>5, <1>10, <1>13, <1>17, <3>1, <3>3, <4>1, CallbackRight
    <3> QED BY <2>1, <3>1, <3>4
  <2> QED BY <1>2, <1>3, <1>13, <1>14, <1>15, <1>16, <2>3, <2>4, <2>5, <2>6, <2>7, Steps
<1>20. CASE missed # <<>>
  <2>1. mget \in SeriesFor(request[r])
    BY <1>5, <1>11 DEF SeriesFor, ReadFor, SeriesTasks
  <2>2. mget.kind = "mget" /\ mget.ids = missed /\ mget.callback = callback
    OBVIOUS
  <2>3. PushBack(r, mget) /\ Call(r, <<>>)
    BY <1>12, <1>20
  <2> HIDE DEF mget
  <2>4. /\ Only(r, series, series') /\ series'[r] \in Seq(SeriesFor(request[r]))
        /\ series'[r] # <<>> /\ Len(series[r]) \in Nat /\ Len(series'[r]) = Len(series[r]) + 1
        /\ series[r] = <<>> => Head(series'[r]) = mget
    BY <1>4, <2>1, <2>3, PushedBack
  <2>5. /\ Only(r, calls, calls') /\ calls'[r] \in Seq(CallsFor(request[r]))
        /\ Len(calls[r]) \in Nat /\ Len(calls'[r]) = Len(calls[r]) - 1
        /\ Len(calls[r]) = 1 => calls'[r] = <<>>
    BY <1>3, <1>4, <2>3, CallOver
  <2>6. Len(calls'[r]) + Len(series'[r]) <= Len(calls[r]) + Len(series[r])
    <3> DEFINE c == Len(calls[r])
               d == Len(calls'[r])
               s == Len(series[r])
               u == Len(series'[r])
    <3>1. c \in Nat /\ s \in Nat /\ d = c - 1 /\ u = s + 1
      BY <2>4, <2>5
    <3> HIDE DEF c, d, s, u
    <3>2. d + u <= c + s
      BY <3>1
    <3> QED BY <3>2 DEF c, d, s, u
  <2>7. RunsRight(r)'
    <3> SUFFICES ASSUME faults'[r] = {}
                 PROVE  calls'[r] = <<>> /\ TasksRight(r)' /\ TaskRight(r, Head(series[r]))'
      BY DEF RunsRight
    <3>1. /\ TasksRight(r)' /\ Wanted(r, callback, task.entity_ids)
          /\ DOMAIN task.entity_map = cached
          /\ calls'[r] = <<>> /\ Head(series'[r]) = mget
      BY <1>16, <1>18, <2>4, <2>5
    <3>2. cached \cup Present(missed) = Present(task.entity_ids)
      BY <1>6, <1>7, <1>10, <1>11 DEF Present
    <3>3. IF callback = "postProcess" THEN task.entity_ids = Meaning[task.q].ids
          ELSE InOrder(task.entity_ids, Documents) = Expected(r)'
      BY <1>10, <1>17, <3>1 DEF Wanted
    <3>4. TaskRight(r, Head(series[r]))'
      <4>1. /\ Present(Head(series[r]).ids)' = Present(missed)
            /\ Present(Top(r).entity_ids)' = Present(task.entity_ids)
        BY <1>13, <2>2, <3>1 DEF Present
      <4>2. Head(series'[r]).kind = "mget" /\ Head(series'[r]).callback = callback
        BY <2>2, <3>1
      <4>3. Wanted(r, Head(series[r]).callback, Top(r).entity_ids)'
        BY <1>13, <3>3, <4>2 DEF Wanted
      <4>4. DOMAIN Top(r)'.entity_map = cached
        BY <1>13, <3>1
      <4> QED BY <3>2, <4>1, <4>2, <4>3, <4>4 DEF TaskRight
    <3> QED BY <3>1, <3>4
  <2> QED BY <1>2, <1>3, <1>13, <1>14, <1>15, <1>16, <2>4, <2>5, <2>6, <2>7, Steps
<1> QED BY <1>19, <1>20

-----------------------------------------------------------------------------
(* A query has run: what it found goes into the text below it, or is the   *)
(* reply.                                                                  *)
LEMMA CallTo ==
  ASSUME NEW r \in Requests, Ready(r), calls[r] # <<>>,
         NEW todo \in Seq(CallsFor(request[r])), Len(todo) = 1, Call(r, todo), series' = series
  PROVE  /\ Only(r, calls, calls') /\ calls'[r] \in Seq(CallsFor(request[r]))
         /\ Len(calls[r]) = 1 => calls'[r] = todo
         /\ Only(r, series, series') /\ series'[r] \in Seq(SeriesFor(request[r]))
         /\ Len(calls'[r]) + Len(series'[r]) <= Len(calls[r]) + Len(series[r])
<1>1. Shape /\ Own(r)
  BY DEF Ready, Local
<1>2. /\ OnRequests(calls') /\ \A s \in Requests \ {r} : calls'[s] = calls[s]
      /\ calls'[r] \in Seq(CallsFor(request[r]))
      /\ Len(calls[r]) \in Nat /\ Len(calls'[r]) = Len(todo) + Len(calls[r]) - 1
      /\ Len(calls[r]) = 1 => calls'[r] = todo
  BY <1>1, CallMade
<1>3. Only(r, calls, calls')
  BY <1>2 DEF Only
<1>4. /\ Only(r, series, series') /\ series'[r] \in Seq(SeriesFor(request[r]))
      /\ Len(series'[r]) = Len(series[r]) /\ Len(series[r]) \in Nat
  BY <1>1, LenProperties DEF Own, Shape, Only
<1>5. Len(calls'[r]) + Len(series'[r]) <= Len(calls[r]) + Len(series[r])
  BY <1>2, <1>4
<1> QED BY <1>2, <1>3, <1>4, <1>5

LEMMA MeaningFound ==
  ASSUME NEW q \in DOMAIN Query
  PROVE  Meaning[q].found = Limited(Meaning[q].ids,
                                    Having(Query[q].select, Present(Meaning[q].ids)),
                                    Query[q].limit)
<1>1. \A f : MeaningOf(q, f).found =
        Limited(MeaningOf(q, f).ids, Having(Query[q].select, Present(MeaningOf(q, f).ids)),
                Query[q].limit)
  BY DEF MeaningOf, Present
<1> QED BY <1>1, MeaningUnfolds

(* task is the one at the top, with what its query has found.              *)
RanAs(r, task) ==
  /\ task \in TasksFor(request[r]) /\ task.q = Top(r).q /\ task.results = Top(r).results
  /\ faults[r] = {} => /\ task.entity_ids = Meaning[task.q].ids
                       /\ DOMAIN task.entity_map = Meaning[task.q].found

LEMMA PostProcessed ==
  ASSUME NEW r \in Requests, Ready(r), Calling(r, "postProcess")
  PROVE  RanAs(r, Processed(Top(r)))
<1> DEFINE top == Top(r)
           q == top.q
<1>1. /\ top \in TasksFor(request[r]) /\ q \in DOMAIN Query /\ Head(calls[r]).fn = "postProcess"
      /\ faults[r] = {} => CallRight(r, Head(calls[r]))
  BY CalledOn
<1>2. /\ Processed(top) \in TasksFor(request[r])
      /\ Processed(top).q = q /\ Processed(top).results = top.results
      /\ Processed(top).entity_ids = top.entity_ids
      /\ DOMAIN Processed(top).entity_map =
           Limited(top.entity_ids, Having(Query[q].select, DOMAIN top.entity_map), Query[q].limit)
  BY <1>1, ProcessedTyped
<1>3. ASSUME faults[r] = {}
      PROVE  /\ top.entity_ids = Meaning[q].ids
             /\ DOMAIN top.entity_map = Present(Meaning[q].ids)
  BY <1>1, <1>3 DEF CallRight, Wanted
<1>4. ASSUME faults[r] = {} PROVE DOMAIN Processed(top).entity_map = Meaning[q].found
  <2>1. Meaning[q].found = Limited(Meaning[q].ids,
                             Having(Query[q].select, Present(Meaning[q].ids)), Query[q].limit)
    BY <1>1, MeaningFound
  <2> HIDE DEF top, q
  <2> QED BY <1>2, <1>3, <1>4, <2>1
<1> QED BY <1>2, <1>3, <1>4 DEF RanAs

LEMMA Unprocessed ==
  ASSUME NEW r \in Requests, Ready(r), Calling(r, "dispatchCallback")
  PROVE  RanAs(r, Top(r))
<1>1. /\ Top(r) \in TasksFor(request[r]) /\ Head(calls[r]).fn = "dispatchCallback"
      /\ faults[r] = {} => CallRight(r, Head(calls[r]))
  BY CalledOn
<1>2. faults[r] # {}
  BY <1>1 DEF CallRight
<1> QED BY <1>1, <1>2 DEF RanAs

LEMMA ReturnKeeps ==
  ASSUME NEW r \in Requests, Ready(r), NEW fn \in {"postProcess", "dispatchCallback"},
         Calling(r, fn), NEW task, RanAs(r, task), Return(r, task),
         UNCHANGED <<docs, caches, request, series, answers, faults>>
  PROVE  Stepped(r)
<1> DEFINE s == taskStack[r]
           n == Len(s)
           below == Front(s)
           parent == Last(below)
           sub == Query[parent.q].subs[Len(parent.results) + 1]
           found == Found(Query[task.q].select, task.entity_ids, DOMAIN task.entity_map,
                          sub.behindID)
           new == [parent EXCEPT !.results = Append(parent.results, found)]
           t == taskStack'[r]
           todo == Fn("dispatch")
<1>1. n > 1 /\ taskStack' = [taskStack EXCEPT ![r] = Append(Front(below), new)] /\ Call(r, todo)
  BY DEF Return
<1>2. /\ calls[r] # <<>> /\ request[r] # Free
      /\ s \in Seq(TasksFor(request[r])) /\ s # <<>>
      /\ Top(r) \in TasksFor(request[r]) /\ request[r].q \in DOMAIN Query
      /\ "unparsed" \notin faults[r] => Len(calls[r]) = 1 /\ series[r] = <<>>
      /\ faults[r] = {} => TasksRight(r)
  BY CalledOn
<1>3. Shape /\ Stores /\ CacheRight /\ Own(r) /\ StackNested(r)
  BY DEF Ready, Local
<1>4. n \in Nat \ {0} /\ Top(r) = s[n] /\ DOMAIN s = 1..n
  BY <1>2, TopOf DEF Top
<1>5. /\ OnRequests(taskStack') /\ t = Append(Front(below), new)
      /\ \A p \in Requests \ {r} : taskStack'[p] = taskStack[p]
  BY <1>1, <1>3 DEF Shape, OnRequests
<1>6. Only(r, taskStack, taskStack')
  BY <1>5 DEF Only
<1>7. /\ below \in Seq(TasksFor(request[r])) /\ below # <<>> /\ Len(below) = n - 1
      /\ parent = s[n - 1] /\ \A i \in 1..n - 1 : below[i] = s[i]
  <2> HIDE DEF s
  <2> QED BY <1>1, <1>2, Popped
<1>8. /\ s[1].q = request[r].q
      /\ \A i \in 1..n - 1 : NestedIn(s[i], s[i + 1])
  BY <1>2, <1>3 DEF StackNested
<1> HIDE DEF s, n, below
<1>9. parent \in TasksFor(request[r]) /\ NestedIn(parent, Top(r))
  <2>1. n - 1 \in 1..n - 1 /\ n - 1 + 1 = n
    BY <1>1, <1>4
  <2>2. NestedIn(s[n - 1], s[n - 1 + 1])
    BY <1>8, <2>1
  <2>3. Last(below) \in TasksFor(request[r])
    BY <1>7, TopOf
  <2> QED BY <1>4, <1>7, <2>1, <2>2, <2>3
<1> HIDE DEF parent
<1>10. /\ parent.q \in DOMAIN Query /\ parent.results \in Seq(SUBSET Strings)
       /\ Len(parent.results) \in Nat
       /\ Len(parent.results) < Len(Query[parent.q].subs) /\ Top(r).q = sub.q
  <2>1. parent.results \in Seq(SUBSET Strings)
    BY <1>9, TaskFields
  <2> QED BY <1>9, <2>1, LenProperties DEF NestedIn
<1>11. found \in SUBSET Strings
  <2>1. task.entity_ids \in Seq(Strings)
    BY TaskFields DEF RanAs
  <2> QED BY <2>1, FoundTyped
<1> DEFINE results == Append(parent.results, found)
<1>12. /\ results \in Seq(SUBSET Strings) /\ Len(results) = Len(parent.results) + 1
       /\ \A i \in 1..Len(parent.results) : results[i] = parent.results[i]
       /\ results[Len(parent.results) + 1] = found /\ DOMAIN results = 1..Len(results)
  <2> HIDE DEF found
  <2>1. /\ results \in Seq(SUBSET Strings) /\ Len(results) = Len(parent.results) + 1
        /\ \A i \in 1..Len(parent.results) : results[i] = parent.results[i]
        /\ results[Len(parent.results) + 1] = found
    BY <1>10, <1>11, AppendProperties
  <2> HIDE DEF results
  <2> QED BY <2>1, LenProperties
<1>13. /\ new \in TasksFor(request[r]) /\ new.q = parent.q /\ new.results = results
       /\ new.entity_map = parent.entity_map
  <2> HIDE DEF results
  <2>1. /\ parent \in Tasks /\ parent.entity_map \in MapsFor(request[r])
    BY <1>9, TaskFields
  <2>2. new = [parent EXCEPT !.results = results]
    BY DEF results
  <2> HIDE DEF new
  <2>3. /\ new \in Tasks /\ new.q = parent.q /\ new.results = results
        /\ new.entity_map = parent.entity_map
    BY <1>12, <2>1, <2>2 DEF Tasks
  <2>4. Len(results) <= Len(Query[parent.q].subs)
    <3>1. Query[parent.q].subs \in Seq([q : DOMAIN Query, behindID : BOOLEAN])
      BY <1>10, QueriesTyped
    <3>2. Len(Query[parent.q].subs) \in Nat
      BY <3>1, LenProperties
    <3> DEFINE a == Len(parent.results)
               b == Len(Query[parent.q].subs)
    <3>3. a \in Nat /\ b \in Nat /\ a < b /\ Len(results) = a + 1
      BY <1>10, <1>12, <3>2
    <3> HIDE DEF a, b
    <3>4. Len(results) <= b
      BY <3>3
    <3> QED BY <3>4 DEF b
  <2> QED BY <2>1, <2>3, <2>4 DEF TasksFor, Underway
<1> HIDE DEF new, results, found
<1>14. /\ t \in Seq(TasksFor(request[r])) /\ t # <<>> /\ Len(t) = n - 1 /\ Last(t) = new
       /\ \A i \in 1..n - 2 : t[i] = s[i]
       /\ t[n - 1] = new /\ DOMAIN t = 1..n - 1
  <2> DEFINE u == Append(Front(below), new)
  <2>1. /\ u \in Seq(TasksFor(request[r])) /\ u # <<>> /\ Len(u) = Len(below) /\ Last(u) = new
        /\ \A i \in 1..Len(below) - 1 : u[i] = below[i]
        /\ u[Len(below)] = new
    <3> DEFINE S == TasksFor(request[r])
    <3>1. below \in Seq(S) /\ below # <<>> /\ new \in S
      BY <1>7, <1>13
    <3> HIDE DEF S
    <3>2. /\ u \in Seq(S) /\ u # <<>> /\ Len(u) = Len(below) /\ Last(u) = new
          /\ \A i \in 1..Len(below) - 1 : u[i] = below[i]
          /\ u[Len(below)] = new
      BY <3>1, Replaced
    <3> QED BY <3>2 DEF S
  <2>2. t = u
    BY <1>5
  <2> HIDE DEF u, t
  <2>3. DOMAIN u = 1..Len(u)
    BY <2>1
  <2>4. Len(below) - 1 = n - 2 /\ \A i \in 1..n - 2 : i \in 1..n - 1
    BY <1>4, <1>7
  <2>5. \A i \in 1..n - 2 : u[i] = s[i]
    BY <1>7, <2>1, <2>4
  <2> QED BY <1>7, <2>1, <2>2, <2>3, <2>5
<1> HIDE DEF t
<1>15. StackNested(r)'
  <2>1. t[1].q = request[r].q
    <3>1. CASE n = 2
      BY <1>7, <1>8, <1>13, <1>14, <3>1
    <3>2. CASE n # 2
      <4>1. 1 \in 1..n - 2
        BY <1>1, <1>4, <3>2
      <4> QED BY <1>8, <1>14, <4>1
    <3> QED BY <3>1, <3>2
  <2>2. \A i \in 1..n - 2 : NestedIn(t[i], t[i + 1])
    <3> SUFFICES ASSUME NEW i \in 1..n - 2 PROVE NestedIn(t[i], t[i + 1])
      OBVIOUS
    <3>1. i \in 1..n - 1 /\ (i + 1 = n - 1 \/ i + 1 \in 1..n - 2)
      BY <1>4
    <3>2. t[i] = s[i] /\ NestedIn(s[i], s[i + 1])
      BY <1>8, <1>14, <3>1
    <3>3. t[i + 1].q = s[i + 1].q
      BY <1>7, <1>13, <1>14, <3>1
    <3> QED BY <3>2, <3>3 DEF NestedIn
  <2>3. Len(t) - 1 = n - 2 /\ request'[r] = request[r]
    BY <1>4, <1>14
  <2> QED BY <2>1, <2>2, <2>3 DEF StackNested, t
<1>16. /\ todo \in Seq(CallsFor(request[r])) /\ Len(todo) = 1 /\ todo # <<>>
       /\ Head(todo) = [fn |-> "dispatch"]
  BY <1>2, FnTyped
<1> HIDE DEF todo
<1>17. /\ Only(r, calls, calls') /\ calls'[r] \in Seq(CallsFor(request[r]))
       /\ Len(calls[r]) = 1 => calls'[r] = todo
       /\ Only(r, series, series') /\ series'[r] \in Seq(SeriesFor(request[r]))
       /\ Len(calls'[r]) + Len(series'[r]) <= Len(calls[r]) + Len(series[r])
  BY <1>1, <1>2, <1>16, CallTo
<1>18. Stores' /\ CacheRight'
  BY <1>3, Unstored
<1>19. Only(r, faults, faults') /\ faults'[r] = faults[r] /\ faults'[r] \subseteq FaultKinds
  BY SameFaults
<1>20. RunsRight(r)'
  <2> SUFFICES ASSUME faults'[r] = {}
               PROVE  calls'[r] # <<>> /\ TasksRight(r)' /\ CallRight(r, Head(calls[r]))'
    BY DEF RunsRight
  <2>1. faults[r] = {} /\ TasksRight(r) /\ calls'[r] = todo
    BY <1>2, <1>17, <1>19
  <2>2. /\ \A i \in 1..n : ResultsRight(s[i])
        /\ \A i \in 1..n - 1 : s[i].entity_map = Empty
    BY <1>4, <2>1 DEF TasksRight, Below, s, n
  <2>3. n - 1 \in 1..n - 1 /\ n - 1 \in 1..n
    BY <1>1, <1>4
  <2>4. ResultsRight(new) /\ new.entity_map = Empty
    <3>1. ResultsRight(parent) /\ parent.entity_map = Empty
      BY <1>7, <2>2, <2>3
    <3>2. \A i \in 1..Len(parent.results) : parent.results[i] = SubResult(parent.q, i, Meaning)
      BY <1>10, <3>1 DEF ResultsRight
    <3>3. found = SubResult(parent.q, Len(parent.results) + 1, Meaning)
      <4>1. /\ task.q = sub.q /\ task.entity_ids = Meaning[sub.q].ids
            /\ DOMAIN task.entity_map = Meaning[sub.q].found
        BY <1>10, <2>1 DEF RanAs
      <4> QED BY <4>1 DEF found, SubResult
    <3>4. \A i \in 1..Len(parent.results) + 1 : results[i] = SubResult(parent.q, i, Meaning)
      <4> SUFFICES ASSUME NEW i \in 1..Len(parent.results) + 1
                   PROVE  results[i] = SubResult(parent.q, i, Meaning)
        OBVIOUS
      <4>1. i = Len(parent.results) + 1 \/ i \in 1..Len(parent.results)
        BY <1>10
      <4> QED BY <1>12, <3>2, <3>3, <4>1
    <3> QED BY <1>12, <1>13, <3>1, <3>4 DEF ResultsRight
  <2>5. \A i \in 1..n - 1 : ResultsRight(t[i])
    <3> SUFFICES ASSUME NEW i \in 1..n - 1 PROVE ResultsRight(t[i])
      OBVIOUS
    <3>1. i \in 1..n /\ (i = n - 1 \/ i \in 1..n - 2)
      BY <1>4
    <3> QED BY <1>14, <2>2, <2>4, <3>1
  <2>6. \A i \in 1..n - 2 : t[i].entity_map = Empty
    <3> SUFFICES ASSUME NEW i \in 1..n - 2 PROVE t[i].entity_map = Empty
      OBVIOUS
    <3>1. i \in 1..n - 1
      BY <1>4
    <3> QED BY <1>14, <2>2, <3>1
  <2>7. Len(t) - 1 = n - 2
    BY <1>4, <1>14
  <2>8. TasksRight(r)'
    BY <1>14, <2>5, <2>6, <2>7 DEF TasksRight, Below, t
  <2>9. CallRight(r, Head(calls[r]))'
    <3>1. Top(r)' = new
      BY <1>14 DEF Top, t
    <3> QED BY <1>16, <2>1, <2>4, <3>1 DEF CallRight
  <2> QED BY <1>16, <2>1, <2>8, <2>9
<1>21. t = taskStack'[r]
  BY DEF t
<1> QED BY <1>2, <1>6, <1>14, <1>15, <1>17, <1>18, <1>19, <1>20, <1>21, Steps

(* The reply is to be the expected one.                                    *)
LEMMA FinishKeeps ==
  ASSUME NEW r \in Requests, Ready(r), NEW fn \in {"postProcess", "dispatchCallback"},
         Calling(r, fn), NEW task, RanAs(r, task), Finish(r, task),
         UNCHANGED <<docs, caches, request, series, answers, faults>>
  PROVE  Stepped(r)
<1> DEFINE next == Links(Selected(Query[task.q].select, DOMAIN task.entity_map))
           forward == request[r].forwardSearch /\ next # {}
           ids == SetToSeq(next)
           last == IF forward THEN [task EXCEPT !.entity_map = Empty] ELSE task
           todo == IF forward THEN FnGetDocs(ids, "respond") ELSE Fn("respond")
<1>1. Len(taskStack[r]) = 1 /\ SetTop(r, last) /\ Call(r, todo)
  BY DEF Finish
<1>2. /\ calls[r] # <<>> /\ request[r] # Free
      /\ taskStack[r] \in Seq(TasksFor(request[r])) /\ taskStack[r] # <<>>
      /\ Top(r) \in TasksFor(request[r]) /\ request[r].q \in DOMAIN Query
      /\ "unparsed" \notin faults[r] => Len(calls[r]) = 1 /\ series[r] = <<>>
      /\ faults[r] = {} => TasksRight(r)
  BY CalledOn
<1>3. Shape /\ Stores /\ CacheRight /\ Own(r) /\ StackNested(r)
  BY DEF Ready, Local
<1>4. /\ task \in TasksFor(request[r]) /\ task.q = Top(r).q /\ task.results = Top(r).results
      /\ faults[r] = {} => /\ task.entity_ids = Meaning[task.q].ids
                           /\ DOMAIN task.entity_map = Meaning[task.q].found
  BY DEF RanAs
<1>5. Top(r).q = request[r].q /\ Len(taskStack[r]) \in DOMAIN taskStack[r]
      /\ Top(r) = taskStack[r][Len(taskStack[r])]
  <2>1. Top(r) = taskStack[r][Len(taskStack[r])] /\ DOMAIN taskStack[r] = 1..Len(taskStack[r])
    BY <1>2, TopOf DEF Top
  <2> QED BY <1>1, <1>2, <1>3, <2>1 DEF StackNested
<1>6. ids \in Seq(Strings) /\ "respond" \in Callbacks
  <2>1. next \subseteq Strings /\ IsFiniteSet(next)
    BY LinksTyped
  <2> HIDE DEF next
  <2> QED BY <2>1, SetToSeqKeeps DEF Callbacks
<1>7. /\ todo \in Seq(CallsFor(request[r])) /\ Len(todo) = 1 /\ todo # <<>>
      /\ Head(todo) = IF forward
                        THEN [fn |-> "getDocs", ids |-> ids, callback |-> "respond"]
                        ELSE [fn |-> "respond"]
  <2> HIDE DEF ids, forward
  <2>1. CASE forward
    <3>1. todo = FnGetDocs(ids, "respond")
      BY <2>1
    <3> HIDE DEF todo
    <3> QED BY <1>6, <2>1, <3>1, FnGetDocsTyped
  <2>2. CASE ~forward
    <3>1. todo = Fn("respond")
      BY <2>2
    <3> HIDE DEF todo
    <3> QED BY <2>2, <3>1, FnTyped
  <2> QED BY <2>1, <2>2
<1> HIDE DEF todo
<1>8. /\ last \in TasksFor(request[r]) /\ last.q = task.q /\ last.results = task.results
      /\ last.entity_ids = task.entity_ids
      /\ last.entity_map = IF forward THEN Empty ELSE task.entity_map
  <2> HIDE DEF forward
  <2>1. CASE forward
    <3>1. Empty \in MapsFor(request[r])
      BY EmptyMap
    <3>2. last = [task EXCEPT !.entity_map = Empty]
      BY <2>1
    <3> HIDE DEF last
    <3> QED BY <1>4, <2>1, <3>1, <3>2, MapSet
  <2>2. CASE ~forward
    BY <1>4, <2>2
  <2> QED BY <2>1, <2>2
<1>9. last.q = Top(r).q /\ request'[r] = request[r]
  BY <1>4, <1>8
<1> HIDE DEF last
<1>10. /\ OnRequests(taskStack') /\ \A s \in Requests \ {r} : taskStack'[s] = taskStack[s]
       /\ taskStack'[r] \in Seq(TasksFor(request[r])) /\ taskStack'[r] # <<>>
       /\ Top(r)' = last /\ StackNested(r)'
       /\ TasksRight(r) /\ ResultsRight(last) => TasksRight(r)'
  BY <1>1, <1>2, <1>3, <1>8, <1>9, TopSet
<1>11. Only(r, taskStack, taskStack')
  BY <1>10 DEF Only
<1>12. /\ Only(r, calls, calls') /\ calls'[r] \in Seq(CallsFor(request[r]))
       /\ Len(calls[r]) = 1 => calls'[r] = todo
       /\ Only(r, series, series') /\ series'[r] \in Seq(SeriesFor(request[r]))
       /\ Len(calls'[r]) + Len(series'[r]) <= Len(calls[r]) + Len(series[r])
  BY <1>1, <1>2, <1>7, CallTo
<1>13. Stores' /\ CacheRight'
  BY <1>3, Unstored
<1>14. Only(r, faults, faults') /\ faults'[r] = faults[r] /\ faults'[r] \subseteq FaultKinds
  BY SameFaults
<1>15. RunsRight(r)'
  <2> SUFFICES ASSUME faults'[r] = {}
               PROVE  calls'[r] # <<>> /\ TasksRight(r)' /\ CallRight(r, Head(calls[r]))'
    BY DEF RunsRight
  <2>1. faults[r] = {} /\ TasksRight(r) /\ calls'[r] = todo
    BY <1>2, <1>12, <1>14
  <2>2. ResultsRight(last)
    <3>1. ResultsRight(Top(r))
      BY <1>5, <2>1 DEF TasksRight
    <3> QED BY <1>4, <1>8, <3>1 DEF ResultsRight
  <2> DEFINE meaning == Meaning[request[r].q]
             links == Links(Selected(Query[request[r].q].select, meaning.found))
  <2>3. next = links /\ task.entity_ids = meaning.ids /\ DOMAIN task.entity_map = meaning.found
    BY <1>4, <1>5, <2>1
  <2>4. Expected(r)' = IF request[r].forwardSearch /\ links # {}
                         THEN InOrder(SetToSeq(links), Documents)
                         ELSE InOrder(meaning.ids, meaning.found)
    <3>1. Expected(r)' = Expected(r)
      BY <1>9, Foretold
    <3> QED BY <1>2, <3>1 DEF Expected
  <2> HIDE DEF meaning, links, next
  <2>5. CallRight(r, Head(calls[r]))'
    <3>1. CASE forward
      <4>1. /\ Head(calls'[r]) = [fn |-> "getDocs", ids |-> ids, callback |-> "respond"]
            /\ Top(r)'.entity_map = Empty
        BY <1>7, <1>8, <1>10, <2>1, <3>1
      <4>2. InOrder(ids, Documents) = Expected(r)'
        BY <2>3, <2>4, <3>1
      <4> QED BY <4>1, <4>2 DEF CallRight, Wanted
    <3>2. CASE ~forward
      <4>1. /\ Head(calls'[r]) = [fn |-> "respond"]
            /\ Top(r)' = last
            /\ last.entity_ids = meaning.ids /\ DOMAIN last.entity_map = meaning.found
        BY <1>7, <1>8, <1>10, <2>1, <2>3, <3>2
      <4>2. InOrder(meaning.ids, meaning.found) = Expected(r)'
        BY <2>3, <2>4, <3>2
      <4> QED BY <4>1, <4>2 DEF CallRight
    <3> QED BY <3>1, <3>2
  <2> QED BY <1>7, <1>10, <2>1, <2>2, <2>5
<1> QED BY <1>2, <1>10, <1>11, <1>12, <1>13, <1>14, <1>15, Steps

LEMMA DispatchCallbackKeeps ==
  ASSUME NEW r \in Requests, Ready(r), DispatchCallback(r)
  PROVE  Stepped(r)
<1>1. UNCHANGED <<docs, caches, request, series, answers, faults>>
  BY DEF DispatchCallback
<1>2. CASE /\ Calling(r, "postProcess")
           /\ Return(r, Processed(Top(r))) \/ Finish(r, Processed(Top(r)))
  <2>1. RanAs(r, Processed(Top(r)))
    BY <1>2, PostProcessed
  <2> QED BY <1>1, <1>2, <2>1, ReturnKeeps, FinishKeeps
<1>3. CASE Calling(r, "dispatchCallback") /\ (Return(r, Top(r)) \/ Finish(r, Top(r)))
  <2>1. RanAs(r, Top(r))
    BY <1>3, Unprocessed
  <2> QED BY <1>1, <1>3, <2>1, ReturnKeeps, FinishKeeps
<1> QED BY <1>2, <1>3 DEF DispatchCallback

LEMMA RespondKeeps ==
  ASSUME NEW r \in Requests, Ready(r), Respond(r)
  PROVE  Stepped(r)
<1> DEFINE reply == Reply(Top(r))
           a == answers[r]
           b == Append(a, reply)
<1>1. /\ Calling(r, "respond") /\ answers' = [answers EXCEPT ![r] = b] /\ Call(r, <<>>)
      /\ UNCHANGED <<docs, caches, request, taskStack, series, faults>>
  BY DEF Respond
<1>2. /\ calls[r] # <<>> /\ Head(calls[r]).fn = "respond" /\ request[r] # Free
      /\ taskStack[r] # <<>> /\ Top(r) \in TasksFor(request[r])
      /\ "unparsed" \notin faults[r] => Len(calls[r]) = 1 /\ series[r] = <<>> /\ a = <<>>
      /\ faults[r] = {} => CallRight(r, Head(calls[r]))
  BY <1>1, CalledOn
<1>3. /\ Shape /\ Stores /\ CacheRight /\ Own(r) /\ DocsGrow(r) /\ StackNested(r) /\ OneThread(r)
  BY DEF Ready, Local
<1>4. /\ reply \in AnswersFor(request[r])
      /\ [j \in DOMAIN reply |-> reply[j].id] =
           InOrder(Top(r).entity_ids, DOMAIN Top(r).entity_map)
  BY <1>2, ReplyTyped
<1> HIDE DEF reply
<1>5. OnRequests(answers') /\ answers'[r] = b /\ \A s \in Requests \ {r} : answers'[s] = answers[s]
  BY <1>1, <1>3 DEF Shape, OnRequests
<1>6. a \in Seq(AnswersFor(request[r])) /\ Len(a) \in Nat
  BY <1>3, LenProperties DEF Own
<1>7. b \in Seq(AnswersFor(request[r])) /\ Len(b) = Len(a) + 1 /\ b[Len(a) + 1] = reply
  <2> HIDE DEF a
  <2> QED BY <1>4, <1>6, AppendProperties
<1>8. /\ Only(r, calls, calls') /\ calls'[r] \in Seq(CallsFor(request[r]))
      /\ Len(calls[r]) \in Nat /\ Len(calls'[r]) = Len(calls[r]) - 1
      /\ Len(calls[r]) = 1 => calls'[r] = <<>>
  BY <1>1, <1>2, <1>3, CallOver
<1>9. Own(r)'
  BY <1>1, <1>2, <1>3, <1>5, <1>7, <1>8 DEF Own
<1>10. DocsGrow(r)' /\ StackNested(r)'
  BY <1>1, <1>3 DEF DocsGrow, StackNested
<1>11. OneThread(r)'
  <2> SUFFICES ASSUME "unparsed" \notin faults[r]
               PROVE  Len(calls'[r]) + Len(series'[r]) + Len(answers'[r]) <= 1
    BY <1>1 DEF OneThread
  <2>1. calls'[r] = <<>> /\ series'[r] = <<>> /\ Len(answers'[r]) = 1
    <3> HIDE DEF b
    <3>1. Len(a) = 0
      BY <1>2
    <3> QED BY <1>1, <1>2, <1>5, <1>7, <1>8, <3>1
  <2>2. Len(calls'[r]) = 0 /\ Len(series'[r]) = 0
    BY <2>1
  <2> QED BY <2>1, <2>2
<1>12. RunsRight(r)'
  BY <1>1, <1>2, <1>8 DEF RunsRight
<1>13. AnswersOf(r)'
  <2> SUFFICES ASSUME faults[r] = {}
               PROVE  \A i \in DOMAIN b : [j \in DOMAIN b[i] |-> b[i][j].id] = Expected(r)
    <3>1. Expected(r)' = Expected(r)
      BY <1>1, Foretold
    <3> QED BY <1>1, <1>5, <3>1 DEF AnswersOf
  <2>1. Len(a) = 0
    BY <1>2
  <2>2. b[1] = reply /\ DOMAIN b = {1}
    <3> HIDE DEF b, a
    <3>1. Len(b) = 1 /\ b[1] = reply
      BY <1>7, <2>1
    <3>2. DOMAIN b = 1..Len(b)
      BY <1>7
    <3> QED BY <3>1, <3>2
  <2>3. [j \in DOMAIN reply |-> reply[j].id] = Expected(r)
    BY <1>2, <1>4 DEF CallRight
  <2> QED BY <2>2, <2>3
<1>14. Local(r)'
  BY <1>9, <1>10, <1>11, <1>12, <1>13 DEF Local
<1>15. Apart(r)
  BY <1>1, <1>3, <1>5, <1>8 DEF Apart, Shape, Kept, Only
<1>16. Stores' /\ CacheRight' /\ DocsKept
  BY <1>1, <1>3, Unstored
<1> QED BY <1>14, <1>15, <1>16 DEF Stepped

LEMMA SeriesOverKeeps ==
  ASSUME NEW r \in Requests, Ready(r), SeriesOver(r)
  PROVE  Stepped(r)
<1>1. /\ calls[r] = <<>> /\ series[r] = <<>> /\ taskStack' = [taskStack EXCEPT ![r] = <<>>]
      /\ UNCHANGED <<docs, caches, request, calls, series, answers, faults>>
  BY DEF SeriesOver
<1>2. /\ Shape /\ Stores /\ CacheRight /\ Own(r) /\ DocsGrow(r) /\ OneThread(r) /\ AnswersOf(r)
  BY DEF Ready, Local
<1>3. /\ OnRequests(taskStack') /\ taskStack'[r] = <<>>
      /\ \A s \in Requests \ {r} : taskStack'[s] = taskStack[s]
  BY <1>1, <1>2 DEF Shape, OnRequests
<1>4. Own(r)'
  <2>1. <<>> \in Seq(TasksFor(request[r]))
    OBVIOUS
  <2>2. /\ request'[r] = request[r] /\ calls'[r] = <<>> /\ series'[r] = <<>>
        /\ answers'[r] = answers[r] /\ faults'[r] = faults[r]
    BY <1>1
  <2> QED BY <1>1, <1>2, <1>3, <2>1, <2>2 DEF Own
<1>5. DocsGrow(r)' /\ OneThread(r)'
  BY <1>1, <1>2 DEF DocsGrow, OneThread
<1>6. StackNested(r)' /\ RunsRight(r)'
  BY <1>1, <1>3 DEF StackNested, RunsRight
<1>7. AnswersOf(r)'
  <2>1. Expected(r)' = Expected(r)
    BY <1>1, Foretold
  <2> QED BY <1>1, <1>2, <2>1 DEF AnswersOf
<1>8. Local(r)'
  BY <1>4, <1>5, <1>6, <1>7 DEF Local
<1>9. Apart(r)
  BY <1>1, <1>2, <1>3 DEF Apart, Shape, Kept
<1>10. Stores' /\ CacheRight' /\ DocsKept
  BY <1>1, <1>2, Unstored
<1> QED BY <1>8, <1>9, <1>10 DEF Stepped

LEMMA StartKeeps ==
  ASSUME NEW r \in Requests, Ready(r), NEW arrival \in Arrivals, Start(r, arrival)
  PROVE  Stepped(r)
<1> DEFINE q == arrival.q
           req == [q |-> q, forceQuery |-> arrival.forceQuery,
                   forwardSearch |-> arrival.forwardSearch, docs |-> docs]
           todo == IF q \in Entities THEN FnGetDocs(<<q>>, "respond") ELSE Fn("dispatch")
           task == NewTask(q)
<1>1. /\ request[r] = Free /\ request' = [request EXCEPT ![r] = req]
      /\ taskStack' = [taskStack EXCEPT ![r] = <<task>>] /\ Resume(r, todo)
      /\ UNCHANGED <<docs, caches, series, answers, faults>>
  BY DEF Start
<1>2. /\ Shape /\ Stores /\ CacheRight /\ Own(r)
  BY DEF Ready, Local
<1>3. series[r] = <<>> /\ answers[r] = <<>> /\ faults[r] \subseteq FaultKinds
  BY <1>1, <1>2 DEF Own
<1>4. /\ q \in DOMAIN Query \cup Entities /\ (q \in Entities => q \notin DOMAIN Query)
      /\ arrival.forceQuery \in BOOLEAN /\ arrival.forwardSearch \in BOOLEAN
  BY ArrivalsTyped
<1>5. /\ req \in Served /\ req.q = q /\ req.docs = docs /\ req.forceQuery = arrival.forceQuery
      /\ req # Free
  <2>1. docs \in [Documents -> Versions]
    BY <1>2 DEF Stores
  <2>2. req \in Served /\ req.q = q /\ req.docs = docs /\ req.forceQuery = arrival.forceQuery
    BY <1>4, <2>1 DEF Served
  <2>3. req # Free
    BY DEF Free
  <2> QED BY <2>2, <2>3
<1>6. /\ task \in TasksFor(req) /\ task.q = q /\ task.entity_map = Empty /\ task.results = <<>>
  BY <1>4, NewTaskTyped DEF NewTask
<1>7. /\ todo \in Seq(CallsFor(req)) /\ Len(todo) = 1 /\ todo # <<>>
      /\ Head(todo) = IF q \in Entities
                        THEN [fn |-> "getDocs", ids |-> <<q>>, callback |-> "respond"]
                        ELSE [fn |-> "dispatch"]
  <2> HIDE DEF q, req
  <2>1. CASE q \in Entities
    <3>1. <<q>> \in Seq(Strings) /\ "respond" \in Callbacks
      BY <2>1, ClosedIds DEF Callbacks
    <3>2. todo = FnGetDocs(<<q>>, "respond")
      BY <2>1
    <3> HIDE DEF todo
    <3> QED BY <2>1, <3>1, <3>2, FnGetDocsTyped
  <2>2. CASE q \notin Entities
    <3>1. req.q \in DOMAIN Query
      BY <1>4, <1>5, <2>2
    <3>2. todo = Fn("dispatch")
      BY <2>2
    <3> HIDE DEF todo
    <3> QED BY <2>2, <3>1, <3>2, FnTyped
  <2> QED BY <2>1, <2>2
<1> HIDE DEF q, req, todo, task
<1>8. /\ OnRequests(taskStack') /\ taskStack'[r] = <<task>>
      /\ \A s \in Requests \ {r} : taskStack'[s] = taskStack[s]
  BY <1>1, <1>2 DEF Shape, OnRequests
<1>9. /\ OnRequests(request') /\ request'[r] = req
      /\ \A s \in Requests \ {r} : request'[s] = request[s]
  BY <1>1, <1>2 DEF Shape, OnRequests
<1>10. OnRequests(calls') /\ calls'[r] = todo /\ \A s \in Requests \ {r} : calls'[s] = calls[s]
  BY <1>1, <1>2, Resumed
<1>11. /\ <<task>> \in Seq(TasksFor(req)) /\ <<task>> # <<>> /\ Len(<<task>>) = 1
       /\ <<task>>[1] = task /\ Last(<<task>>) = task /\ DOMAIN <<task>> = {1}
  BY <1>6 DEF Last
<1>12. Own(r)'
  <2>1. <<>> \in Seq(SeriesFor(req)) /\ <<>> \in Seq(AnswersFor(req))
    OBVIOUS
  <2>2. request'[r] \in Served \cup {Free} /\ faults'[r] \subseteq FaultKinds
    BY <1>1, <1>3, <1>5, <1>9
  <2>3. /\ taskStack'[r] \in Seq(TasksFor(request'[r])) /\ taskStack'[r] # <<>>
    BY <1>8, <1>9, <1>11
  <2>4. /\ calls'[r] \in Seq(CallsFor(request'[r])) /\ series'[r] \in Seq(SeriesFor(request'[r]))
        /\ answers'[r] \in Seq(AnswersFor(request'[r]))
    BY <1>1, <1>3, <1>7, <1>9, <1>10, <2>1
  <2>5. request'[r] # Free
    BY <1>5, <1>9
  <2> QED BY <2>2, <2>3, <2>4, <2>5 DEF Own
<1>13. DocsGrow(r)'
  <2>1. \A e \in Documents : docs[e] >= docs[e]
    BY <1>2, MaxVersionPositive DEF Stores, Versions
  <2> QED BY <1>1, <1>5, <1>9, <2>1 DEF DocsGrow
<1>14. StackNested(r)'
  <2>1. \A i \in 1..1 - 1 : FALSE
    OBVIOUS
  <2> QED BY <1>5, <1>6, <1>8, <1>9, <1>11, <2>1 DEF StackNested
<1>15. OneThread(r)'
  <2>1. Len(calls'[r]) = 1 /\ Len(series'[r]) = 0 /\ Len(answers'[r]) = 0
    BY <1>1, <1>3, <1>7, <1>10
  <2> QED BY <2>1 DEF OneThread
<1>16. RunsRight(r)'
  <2>1. calls'[r] # <<>>
    BY <1>7, <1>10
  <2>2. ResultsRight(task)
    BY <1>6 DEF ResultsRight
  <2>3. Top(r)' = task
    BY <1>8, <1>11 DEF Top
  <2>4. TasksRight(r)'
    <3>1. \A i \in 1..1 - 1 : FALSE
      OBVIOUS
    <3> QED BY <1>8, <1>11, <2>2, <3>1 DEF TasksRight, Below
  <2>5. CallRight(r, Head(calls[r]))'
    <3>1. CASE q \in Entities
      <4>1. Expected(r)' = InOrder(<<q>>, Documents)
        BY <1>4, <1>5, <1>9, <3>1 DEF Expected
      <4>2. Head(calls'[r]) = [fn |-> "getDocs", ids |-> <<q>>, callback |-> "respond"]
        BY <1>7, <1>10, <3>1
      <4> QED BY <1>6, <2>3, <4>1, <4>2 DEF CallRight, Wanted
    <3>2. CASE q \notin Entities
      <4>1. Head(calls'[r]) = [fn |-> "dispatch"]
        BY <1>7, <1>10, <3>2
      <4> QED BY <1>6, <2>3, <4>1 DEF CallRight
    <3> QED BY <3>1, <3>2
  <2> QED BY <2>1, <2>4, <2>5 DEF RunsRight
<1>17. AnswersOf(r)'
  BY <1>1, <1>3 DEF AnswersOf
<1>18. Local(r)'
  BY <1>12, <1>13, <1>14, <1>15, <1>16, <1>17 DEF Local
<1>19. Apart(r)
  BY <1>1, <1>2, <1>8, <1>9, <1>10 DEF Apart, Shape, Kept
<1>20. Stores' /\ CacheRight' /\ DocsKept
  BY <1>1, <1>2, Unstored
<1> QED BY <1>18, <1>19, <1>20 DEF Stepped

(* A rewritten document is newer, and no request is touched.               *)
LEMMA RewriteKeeps ==
  ASSUME IInv, NEW e \in Documents, Rewrite(e)
  PROVE  IInv'
<1>1. /\ docs[e] < MaxVersion /\ docs' = [docs EXCEPT ![e] = docs[e] + 1]
      /\ UNCHANGED <<caches, request, work, answers, faults>>
  BY DEF Rewrite
<1>2. Shape /\ Stores /\ CacheRight /\ \A r \in Requests : Local(r)
  BY DEF IInv
<1>3. docs \in [Documents -> Versions]
  BY <1>2 DEF Stores
<1>4. docs' \in [Documents -> Versions] /\ DocsKept
  <2>1. docs[e] \in Versions /\ docs[e] + 1 \in Versions
    BY <1>1, <1>3, MaxVersionPositive DEF Versions
  <2>2. \A d \in Documents : docs'[d] \in Versions /\ docs'[d] >= docs[d]
    BY <1>1, <1>3, <2>1, MaxVersionPositive DEF Versions
  <2> QED BY <1>1, <1>3, <2>1, <2>2 DEF DocsKept
<1>5. Stores' /\ CacheRight' /\ Shape'
  BY <1>1, <1>2, <1>4 DEF Stores, CacheRight, Shape, caches, work
<1>6. \A r \in Requests : Kept(r)
  BY <1>1 DEF Kept, work
<1>7. \A r \in Requests : Local(r)'
  BY <1>2, <1>4, <1>5, <1>6, KeptLocal
<1> QED BY <1>5, <1>7 DEF IInv

-----------------------------------------------------------------------------
(* What a step of one request keeps of the whole server.                   *)
LEMMA OthersKept ==
  ASSUME IInv, NEW r \in Requests, Stepped(r)
  PROVE  IInv'
<1>1. /\ Apart(r) /\ Local(r)' /\ Stores' /\ CacheRight' /\ DocsKept /\ Stores
      /\ \A s \in Requests : Local(s)
  BY DEF Stepped, IInv
<1>2. ASSUME NEW s \in Requests, s # r PROVE Local(s)'
  <2>1. Kept(s) /\ Local(s)
    BY <1>1, <1>2 DEF Apart
  <2> QED BY <1>1, <2>1, KeptLocal
<1>3. Shape'
  BY <1>1 DEF Apart
<1>4. \A s \in Requests : Local(s)'
  BY <1>1, <1>2
<1> QED BY <1>1, <1>3, <1>4 DEF IInv

LEMMA InitIInv == Init => IInv
<1> SUFFICES ASSUME Init PROVE IInv
  OBVIOUS
<1>1. Shape
  BY DEF Init, Shape, OnRequests
<1>2. Stores /\ CacheRight
  <2>1. docs \in [Documents -> Versions]
    BY MaxVersionPositive DEF Init, Versions
  <2>2. docCache \in Maps /\ DOMAIN esCache = {}
    BY EmptyMap DEF Init
  <2> QED BY <2>1, <2>2 DEF Stores, CacheRight
<1>3. ASSUME NEW r \in Requests PROVE Local(r)
  <2>1. /\ request[r] = Free /\ taskStack[r] = <<>> /\ calls[r] = <<>>
        /\ series[r] = <<>> /\ answers[r] = <<>> /\ faults[r] = {}
    BY DEF Init
  <2>2. Own(r)
    BY <2>1 DEF Own
  <2>3. DocsGrow(r) /\ StackNested(r) /\ OneThread(r) /\ RunsRight(r) /\ AnswersOf(r)
    BY <2>1 DEF DocsGrow, StackNested, OneThread, RunsRight, AnswersOf
  <2> QED BY <2>2, <2>3 DEF Local
<1> QED BY <1>1, <1>2, <1>3 DEF IInv

LEMMA NextIInv == IInv /\ [Next]_vars => IInv'
<1> SUFFICES ASSUME IInv, [Next]_vars PROVE IInv'
  OBVIOUS
<1>1. \A r \in Requests : Ready(r)
  BY DEF IInv, Ready
<1>2. ASSUME NEW r \in Requests, NEW arrival \in Arrivals, Start(r, arrival)
      PROVE  IInv'
  BY <1>1, <1>2, StartKeeps, OthersKept
<1>3. ASSUME NEW r \in Requests, Run(r)
      PROVE  IInv'
  <2>1. Stepped(r)
    BY <1>1, <1>3, DescendKeeps, SearchByIdsKeeps, SearchCachedKeeps, SearchESKeeps,
       GetDocsKeeps, DispatchCallbackKeeps, RespondKeeps DEF Run
  <2> QED BY <2>1, OthersKept
<1>4. ASSUME NEW r \in Requests, Complete(r)
      PROVE  IInv'
  <2>1. Stepped(r)
    BY <1>1, <1>4, SearchAnsweredKeeps, SearchFailedKeeps, MgetReadKeeps, MgetAnsweredKeeps,
       MgetFailedKeeps, MgetErrorKeeps, SeriesOverKeeps DEF Complete
  <2> QED BY <2>1, OthersKept
<1>5. ASSUME NEW e \in Documents, Rewrite(e)
      PROVE  IInv'
  BY <1>5, RewriteKeeps
<1>6. CASE UNCHANGED vars
  <2>1. UNCHANGED <<docs, caches, request, taskStack, calls, series, answers, faults>>
    BY <1>6 DEF vars, work
  <2>2. /\ Shape /\ Stores /\ CacheRight /\ \A r \in Requests : Local(r)
    BY DEF IInv
  <2>3. Stores' /\ CacheRight' /\ DocsKept
    BY <2>1, <2>2, Unstored
  <2>4. Shape' /\ \A r \in Requests : Kept(r)
    BY <2>1, <2>2 DEF Shape, Kept
  <2>5. \A r \in Requests : Local(r)'
    BY <2>2, <2>3, <2>4, KeptLocal
  <2> QED BY <2>3, <2>4, <2>5 DEF IInv
<1> QED BY <1>2, <1>3, <1>4, <1>5, <1>6 DEF Next

(* The server keeps its invariant: every request runs on in one place,     *)
(* over a stack of nested queries, with the results of those that have     *)
(* been answered.                                                          *)
THEOREM ServerInvariant == Spec => []IInv
<1>1. Init => IInv
  BY InitIInv
<1>2. IInv /\ [Next]_vars => IInv'
  BY NextIInv
<1> QED BY <1>1, <1>2, PTL DEF Spec

LEMMA Wider ==
  ASSUME NEW T, NEW S, S \subseteq T, NEW s \in Seq(S)
  PROVE  s \in Seq(T)
OBVIOUS

(* Every variable has its type, and the context of a request is there as   *)
(* long as anything of it is still to run.                                 *)
THEOREM ServerTyped == Spec => []TypeOK
<1>1. IInv => TypeOK
  <2> SUFFICES ASSUME IInv PROVE TypeOK
    OBVIOUS
  <2>1. Shape /\ Stores /\ \A r \in Requests : Own(r)
    BY DEF IInv, Local
  <2>2. /\ \A req : TasksFor(req) \subseteq Tasks /\ CallsFor(req) \subseteq Calls
        /\ \A req : SeriesFor(req) \subseteq SeriesTasks
    BY DEF TasksFor, CallsFor, SeriesFor
  <2>3. ASSUME NEW r \in Requests
        PROVE  /\ taskStack[r] \in Seq(Tasks) /\ calls[r] \in Seq(Calls)
               /\ series[r] \in Seq(SeriesTasks)
               /\ answers[r] \in Seq(Seq([id : Documents, version : Versions]))
    <3>1. taskStack[r] \in Seq(Tasks)
      BY <2>1, <2>2, Wider DEF Own
    <3>2. calls[r] \in Seq(Calls)
      BY <2>1, <2>2, Wider DEF Own
    <3>3. series[r] \in Seq(SeriesTasks)
      BY <2>1, <2>2, Wider DEF Own
    <3>4. answers[r] \in Seq(Answers)
      <4>1. AnswersFor(request[r]) \subseteq Answers
        BY DEF AnswersFor
      <4> QED BY <2>1, <4>1, Wider DEF Own
    <3> QED BY <3>1, <3>2, <3>3, <3>4 DEF Answers
  <2>4. /\ request \in [Requests -> Served \cup {Free}]
        /\ faults \in [Requests -> SUBSET FaultKinds]
    BY <2>1 DEF Shape, OnRequests, Own
  <2>5. /\ taskStack \in [Requests -> Seq(Tasks)] /\ calls \in [Requests -> Seq(Calls)]
        /\ series \in [Requests -> Seq(SeriesTasks)]
        /\ answers \in [Requests -> Seq(Seq([id : Documents, version : Versions]))]
    BY <2>1, <2>3 DEF Shape, OnRequests
  <2>6. \A r \in Requests : calls[r] # <<>> \/ series[r] # <<>> => taskStack[r] # <<>>
    BY <2>1 DEF Own
  <2> QED BY <2>1, <2>4, <2>5, <2>6 DEF TypeOK, Stores
<1> QED BY <1>1, ServerInvariant, PTL

(* Whatever other requests do, and whatever becomes of their caches, a     *)
(* request that meets no failure is answered with what its query means.    *)
THEOREM ServerAnswersRight == Spec => []AnswersRight
<1>1. IInv => AnswersRight
  BY DEF IInv, Local, AnswersOf, AnswersRight
<1> QED BY <1>1, ServerInvariant, PTL

(* No request is answered twice, unless it was given a reply that does not *)
(* parse.                                                                  *)
THEOREM ServerAnswersOnce == Spec => []AnsweredOnce
<1>1. IInv => AnsweredOnce
  <2> SUFFICES ASSUME IInv, NEW r \in Requests, "unparsed" \notin faults[r]
               PROVE  ~(Len(answers[r]) > 1)
    BY DEF AnsweredOnce
  <2>1. /\ Len(calls[r]) \in Nat /\ Len(series[r]) \in Nat /\ Len(answers[r]) \in Nat
    BY LenProperties DEF IInv, Local, Own
  <2>2. Len(calls[r]) + Len(series[r]) + Len(answers[r]) <= 1
    BY DEF IInv, Local, OneThread
  <2> DEFINE c == Len(calls[r])
             s == Len(series[r])
             a == Len(answers[r])
  <2>3. c \in Nat /\ s \in Nat /\ a \in Nat /\ c + s + a <= 1
    BY <2>1, <2>2
  <2> HIDE DEF c, s, a
  <2>4. ~(a > 1)
    BY <2>3
  <2> QED BY <2>4 DEF a
<1> QED BY <1>1, ServerInvariant, PTL

(* A forced request is answered with documents no older than those Redis   *)
(* held when it came.                                                      *)
THEOREM ServerAnswersFresh == Spec => []ForcedAnswersFresh
<1>1. IInv => ForcedAnswersFresh
  <2> SUFFICES ASSUME IInv, NEW r \in Requests, request[r].forceQuery,
                      NEW i \in DOMAIN answers[r], NEW j \in DOMAIN answers[r][i]
               PROVE  answers[r][i][j].version >= request[r].docs[answers[r][i][j].id]
    BY DEF ForcedAnswersFresh
  <2>1. answers[r] \in Seq(AnswersFor(request[r]))
    BY DEF IInv, Local, Own
  <2>2. answers[r][i] \in AnswersFor(request[r])
    BY <2>1, ElementOf
  <2> QED BY <2>2 DEF AnswersFor
<1> QED BY <1>1, ServerInvariant, PTL
=============================================================================
