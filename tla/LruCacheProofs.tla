--------------------------- MODULE LruCacheProofs ---------------------------
(***************************************************************************)
(* Proofs about LruCache for any keys, capacity, lifetime and clock.       *)
(* Eviction erases the key of the last node without looking for it in the  *)
(* map, so the bound on the map rests on the map and the list being each   *)
(* other's index: the two are inductive together, with the sizes equal.    *)
(***************************************************************************)
EXTENDS LruCache, FiniteSetTheorems, SequenceTheorems, TLAPS

SameSize == /\ IsFiniteSet(DOMAIN m_map)
            /\ Cardinality(DOMAIN m_map) = Len(m_list)

CacheInv == TypeOK /\ MapMatchesList /\ Bounded /\ SameSize

(* Erasing node i keeps the others in order.                               *)
LEMMA RemoveAtNodes ==
  ASSUME NEW S, NEW s \in Seq(S), NEW i \in 1..Len(s)
  PROVE  /\ RemoveAt(s, i) \in Seq(S)
         /\ Len(RemoveAt(s, i)) = Len(s) - 1
         /\ \A j \in 1..Len(s) - 1 :
              RemoveAt(s, i)[j] = IF j < i THEN s[j] ELSE s[j + 1]
<1> DEFINE a == SubSeq(s, 1, i - 1)
           b == SubSeq(s, i + 1, Len(s))
<1>1. /\ a \in Seq(S) /\ Len(a) = i - 1
      /\ \A j \in 1..i - 1 : a[j] = s[j]
  <2>1. \A j \in 1..i - 1 : s[j] \in S
    BY ElementOfSeq
  <2> QED BY <2>1, SubSeqProperties
<1>2. /\ b \in Seq(S) /\ Len(b) = Len(s) - i
      /\ \A j \in 1..Len(s) - i : b[j] = s[i + j]
  <2>1. \A j \in i + 1..Len(s) : s[j] \in S
    BY ElementOfSeq
  <2>2. i + 1 \in Int /\ Len(s) \in Int
    OBVIOUS
  <2>3. /\ SubSeq(s, i + 1, Len(s)) \in Seq(S)
        /\ Len(SubSeq(s, i + 1, Len(s))) = IF i + 1 <= Len(s) THEN Len(s) - (i + 1) + 1 ELSE 0
        /\ \A j \in 1..Len(s) - (i + 1) + 1 : SubSeq(s, i + 1, Len(s))[j] = s[i + 1 + j - 1]
    BY <2>1, <2>2, SubSeqProperties
  <2> QED BY <2>3
<1> HIDE DEF a, b
<1>3. /\ a \o b \in Seq(S) /\ Len(a \o b) = Len(a) + Len(b)
      /\ \A j \in 1..Len(a) + Len(b) : (a \o b)[j] = IF j <= Len(a) THEN a[j] ELSE b[j - Len(a)]
  BY <1>1, <1>2, ConcatProperties
<1>4. RemoveAt(s, i) = a \o b
  BY DEF RemoveAt, a, b
<1>5. Len(a \o b) = Len(s) - 1
  BY <1>1, <1>2, <1>3
<1>6. ASSUME NEW j \in 1..Len(s) - 1
      PROVE  (a \o b)[j] = IF j < i THEN s[j] ELSE s[j + 1]
  <2>1. CASE j < i
    BY <2>1, <1>1, <1>2, <1>3
  <2>2. CASE ~(j < i)
    <3>1. (a \o b)[j] = b[j - (i - 1)] /\ j - (i - 1) \in 1..Len(s) - i
      BY <2>2, <1>1, <1>2, <1>3
    <3>2. b[j - (i - 1)] = s[i + (j - (i - 1))] /\ i + (j - (i - 1)) = j + 1
      BY <3>1, <1>2
    <3> QED BY <2>2, <3>1, <3>2
  <2> QED BY <2>1, <2>2
<1> QED BY <1>3, <1>4, <1>5, <1>6

LEMMA FrontNodes ==
  ASSUME NEW S, NEW s \in Seq(S), s # <<>>
  PROVE  /\ Front(s) \in Seq(S)
         /\ Len(Front(s)) = Len(s) - 1
         /\ \A j \in 1..Len(s) - 1 : Front(s)[j] = s[j]
<1> DEFINE f == SubSeq(s, 1, Len(s) - 1)
           n == Len(s) - 1
<1>1. n \in Nat /\ \A j \in 1..n : s[j] \in S
  BY ElementOfSeq, EmptySeq
<1>2. /\ f \in Seq(S)
      /\ Len(f) = IF 1 <= n THEN n - 1 + 1 ELSE 0
      /\ \A j \in 1..n - 1 + 1 : f[j] = s[1 + j - 1]
  BY <1>1, SubSeqProperties
<1>3. Front(s) = f
  BY DEF Front
<1> HIDE DEF f, n
<1>4. Len(f) = n
  BY <1>1, <1>2
<1>5. \A j \in 1..n : f[j] = s[j]
  BY <1>1, <1>2
<1> QED BY <1>2, <1>3, <1>4, <1>5 DEF n

(* Pushing a node moves every other one back by one.                       *)
LEMMA PushNodes ==
  ASSUME NEW S, NEW s \in Seq(S), NEW e \in S
  PROVE  /\ <<e>> \o s \in Seq(S)
         /\ Len(<<e>> \o s) = Len(s) + 1
         /\ \A j \in 1..Len(s) + 1 : (<<e>> \o s)[j] = IF j = 1 THEN e ELSE s[j - 1]
OBVIOUS

LEMMA PositionIs ==
  ASSUME MapMatchesList, NEW k \in DOMAIN m_map
  PROVE  Position(k) \in DOMAIN m_list /\ m_list[Position(k)].key = k
BY DEF MapMatchesList, Position

(* What a list of distinct keys is, as a predicate of the list.            *)
Indexes(list, K) == /\ K = {list[i].key : i \in DOMAIN list}
                    /\ \A i, j \in DOMAIN list : list[i].key = list[j].key => i = j

LEMMA IndexesPush ==
  ASSUME NEW list \in Seq(Node), NEW K, Indexes(list, K),
         NEW k \in Keys, k \notin K, NEW n \in Nat
  PROVE  Indexes(<<[key |-> k, time |-> n]>> \o list, K \cup {k})
<1> DEFINE e == [key |-> k, time |-> n]
           l == <<e>> \o list
<1>1. e \in Node /\ e.key = k
  BY DEF Node
<1> HIDE DEF e
<1>2. /\ l \in Seq(Node) /\ Len(l) = Len(list) + 1
      /\ \A j \in 1..Len(list) + 1 : l[j] = IF j = 1 THEN e ELSE list[j - 1]
  BY <1>1, PushNodes
<1> HIDE DEF l
<1>3. DOMAIN l = 1..Len(list) + 1 /\ DOMAIN list = 1..Len(list) /\ Len(list) \in Nat
  BY <1>2
<1>4. K \cup {k} \subseteq {l[i].key : i \in DOMAIN l}
  <2>1. l[1].key = k /\ 1 \in DOMAIN l
    BY <1>1, <1>2, <1>3
  <2>2. \A i \in DOMAIN list : i + 1 \in DOMAIN l /\ l[i + 1].key = list[i].key
    BY <1>2, <1>3
  <2> QED BY <2>1, <2>2 DEF Indexes
<1>5. \A i \in DOMAIN l : l[i].key = k <=> i = 1
  BY <1>1, <1>2, <1>3 DEF Indexes
<1>6. \A i \in DOMAIN l : i # 1 => l[i].key = list[i - 1].key /\ i - 1 \in DOMAIN list
  BY <1>2, <1>3
<1>7. {l[i].key : i \in DOMAIN l} \subseteq K \cup {k}
  BY <1>5, <1>6 DEF Indexes
<1>8. \A i, j \in DOMAIN l : l[i].key = l[j].key => i = j
  <2> SUFFICES ASSUME NEW i \in DOMAIN l, NEW j \in DOMAIN l, l[i].key = l[j].key
               PROVE  i = j
    OBVIOUS
  <2>1. CASE i = 1 \/ j = 1
    BY <2>1, <1>5
  <2>2. CASE i # 1 /\ j # 1
    <3>1. i - 1 = j - 1
      BY <2>2, <1>6 DEF Indexes
    <3> QED BY <3>1, <1>3
  <2> QED BY <2>1, <2>2
<1>9. Indexes(l, K \cup {k})
  BY <1>4, <1>7, <1>8 DEF Indexes
<1> QED BY <1>9 DEF l, e

LEMMA IndexesRemove ==
  ASSUME NEW list \in Seq(Node), NEW K, Indexes(list, K), NEW p \in 1..Len(list),
         NEW rest \in Seq(Node), Len(rest) = Len(list) - 1,
         \A j \in 1..Len(list) - 1 : rest[j] = IF j < p THEN list[j] ELSE list[j + 1]
  PROVE  Indexes(rest, K \ {list[p].key})
<1>1. DOMAIN rest = 1..Len(list) - 1 /\ DOMAIN list = 1..Len(list) /\ Len(list) \in Nat
  OBVIOUS
<1> DEFINE old(j) == IF j < p THEN j ELSE j + 1
<1>2. \A j \in DOMAIN rest : old(j) \in DOMAIN list /\ old(j) # p /\ rest[j] = list[old(j)]
  BY <1>1
<1>3. \A i \in DOMAIN list : i # p => \E j \in DOMAIN rest : i = old(j)
  <2> SUFFICES ASSUME NEW i \in DOMAIN list, i # p PROVE \E j \in DOMAIN rest : i = old(j)
    OBVIOUS
  <2>1. CASE i < p
    BY <2>1, <1>1
  <2>2. CASE i > p
    <3>1. i - 1 \in DOMAIN rest /\ i = old(i - 1)
      BY <2>2, <1>1
    <3> QED BY <3>1
  <2> QED BY <2>1, <2>2, <1>1
<1>4. \A i, j \in DOMAIN rest : old(i) = old(j) => i = j
  BY <1>1
<1> HIDE DEF old
<1>5. K \ {list[p].key} = {rest[j].key : j \in DOMAIN rest}
  <2>1. ASSUME NEW j \in DOMAIN rest PROVE rest[j].key \in K \ {list[p].key}
    <3>1. old(j) \in DOMAIN list /\ old(j) # p /\ rest[j].key = list[old(j)].key
      BY <1>2
    <3>2. list[old(j)].key # list[p].key
      BY <1>1, <3>1 DEF Indexes
    <3> QED BY <3>1, <3>2 DEF Indexes
  <2>2. ASSUME NEW k \in K \ {list[p].key} PROVE \E j \in DOMAIN rest : k = rest[j].key
    <3>1. PICK i \in DOMAIN list : k = list[i].key
      BY DEF Indexes
    <3>2. PICK j \in DOMAIN rest : i = old(j)
      BY <1>3, <3>1
    <3> QED BY <1>2, <3>1, <3>2
  <2> QED BY <2>1, <2>2
<1>6. \A i, j \in DOMAIN rest : rest[i].key = rest[j].key => i = j
  BY <1>2, <1>4 DEF Indexes
<1> QED BY <1>5, <1>6 DEF Indexes

LEMMA SizeErase ==
  ASSUME SameSize, NEW k \in DOMAIN m_map
  PROVE  Cardinality(DOMAIN m_map \ {k}) = Len(m_list) - 1
<1> DEFINE D == DOMAIN m_map
<1>1. IsFiniteSet(D) /\ Cardinality(D) = Len(m_list) /\ k \in D
  BY DEF SameSize
<1> HIDE DEF D
<1>2. Cardinality(D \ {k}) = Cardinality(D) - 1
  BY <1>1, FS_RemoveElement
<1> QED BY <1>1, <1>2 DEF D

-----------------------------------------------------------------------------
THEOREM InitCache == Init => CacheInv
<1> SUFFICES ASSUME Init PROVE CacheInv
  OBVIOUS
<1>1. DOMAIN m_map = {} /\ m_map \in [DOMAIN m_map -> Values] /\ m_list = <<>>
  BY DEF Init, NoMap
<1>2. Len(m_list) = 0 /\ DOMAIN m_list = {} /\ m_list \in Seq(Node)
  BY <1>1
<1>3. IsFiniteSet(DOMAIN m_map) /\ Cardinality(DOMAIN m_map) = 0
  BY <1>1, FS_EmptySet
<1>4. TypeOK
  BY <1>1, <1>2 DEF Init, TypeOK, Calls
<1>5. MapMatchesList
  BY <1>1, <1>2 DEF MapMatchesList
<1> QED BY <1>2, <1>3, <1>4, <1>5, CapacityPositive DEF CacheInv, Bounded, SameSize

(* What each case of insert hands to PushFront: the nodes that stay, which *)
(* index the keys that stay.                                               *)
LEMMA PushPreserves ==
  ASSUME CacheInv, NEW k \in Keys, NEW v \in Values, call' \in Calls,
         UNCHANGED <<now_ms, setBack>>,
         NEW list \in Seq(Node), NEW K, Indexes(list, K), k \notin K,
         K \subseteq DOMAIN m_map, Len(list) = Cardinality(K), Len(list) < m_capacity,
         PushFront(list, k),
         DOMAIN m_map' = K \cup {k}, m_map' \in [K \cup {k} -> Values]
  PROVE  CacheInv'
<1>1. IsFiniteSet(K) /\ IsFiniteSet(K \cup {k}) /\ Cardinality(K \cup {k}) = Cardinality(K) + 1
  BY FS_Subset, FS_AddElement DEF CacheInv, SameSize
<1>2. /\ m_list' \in Seq(Node) /\ Len(m_list') = Len(list) + 1
      /\ Indexes(m_list', K \cup {k})
  <2> DEFINE e == [key |-> k, time |-> now_ms]
  <2>1. now_ms \in Nat /\ e \in Node /\ m_list' = <<e>> \o list
    BY DEF CacheInv, TypeOK, PushFront, Node
  <2>2. Indexes(<<[key |-> k, time |-> now_ms]>> \o list, K \cup {k})
    BY <2>1, IndexesPush
  <2> HIDE DEF e
  <2>3. <<e>> \o list \in Seq(Node) /\ Len(<<e>> \o list) = Len(list) + 1
    BY <2>1, PushNodes
  <2> QED BY <2>1, <2>2, <2>3 DEF e
<1>3. TypeOK'
  BY <1>2 DEF CacheInv, TypeOK
<1>4. MapMatchesList'
  BY <1>2 DEF Indexes, MapMatchesList
<1>5. SameSize' /\ Bounded'
  BY <1>1, <1>2, CapacityPositive DEF SameSize, Bounded
<1> QED BY <1>3, <1>4, <1>5 DEF CacheInv

LEMMA RefreshPreserves ==
  ASSUME CacheInv, NEW k \in Keys, NEW v \in Values, Refresh(k, v),
         call' \in Calls, UNCHANGED <<now_ms, setBack>>
  PROVE  CacheInv'
<1> DEFINE p == Position(k)
           rest == RemoveAt(m_list, p)
           K == DOMAIN m_map \ {k}
<1>1. p \in 1..Len(m_list) /\ m_list[p].key = k /\ k \in DOMAIN m_map
  BY PositionIs DEF Refresh, CacheInv, TypeOK
<1>2. /\ rest \in Seq(Node) /\ Len(rest) = Len(m_list) - 1
      /\ \A j \in 1..Len(m_list) - 1 :
           rest[j] = IF j < p THEN m_list[j] ELSE m_list[j + 1]
  BY <1>1, RemoveAtNodes DEF CacheInv, TypeOK
<1>3. PushFront(rest, k) /\ m_map' = Put(m_map, k, v)
  BY DEF Refresh
<1> HIDE DEF p, rest
<1>4. Indexes(m_list, DOMAIN m_map)
  BY DEF CacheInv, MapMatchesList, Indexes
<1>5. m_list \in Seq(Node)
  BY DEF CacheInv, TypeOK
<1>6. Indexes(rest, DOMAIN m_map \ {m_list[p].key})
  BY <1>1, <1>2, <1>4, <1>5, IndexesRemove
<1>7. Cardinality(K) = Len(rest) /\ Len(rest) < m_capacity
  <2>1. Cardinality(K) = Len(m_list) - 1
    BY <1>1, SizeErase DEF CacheInv
  <2> QED BY <1>1, <1>2, <2>1, CapacityPositive DEF CacheInv, Bounded
<1>8. DOMAIN m_map' = K \cup {k} /\ m_map' \in [K \cup {k} -> Values]
  BY <1>1, <1>3 DEF Put, CacheInv, TypeOK
<1> QED BY <1>1, <1>2, <1>3, <1>6, <1>7, <1>8, PushPreserves

LEMMA AddPreserves ==
  ASSUME CacheInv, NEW k \in Keys, NEW v \in Values, Add(k, v),
         call' \in Calls, UNCHANGED <<now_ms, setBack>>
  PROVE  CacheInv'
<1> DEFINE K == DOMAIN m_map
<1>1. k \notin K /\ PushFront(m_list, k) /\ m_map' = Put(m_map, k, v)
  BY DEF Add
<1>2. Indexes(m_list, K) /\ m_list \in Seq(Node)
  BY DEF CacheInv, MapMatchesList, TypeOK, Indexes
<1>3. Cardinality(K) = Len(m_list) /\ Len(m_list) < m_capacity
  BY CapacityPositive DEF Add, Full, CacheInv, SameSize, TypeOK
<1>4. DOMAIN m_map' = K \cup {k} /\ m_map' \in [K \cup {k} -> Values]
  BY <1>1 DEF Put, CacheInv, TypeOK
<1> QED BY <1>1, <1>2, <1>3, <1>4, PushPreserves

LEMMA EvictPreserves ==
  ASSUME CacheInv, NEW k \in Keys, NEW v \in Values, Evict(k, v),
         call' \in Calls, UNCHANGED <<now_ms, setBack>>
  PROVE  CacheInv'
<1> DEFINE rest == Front(m_list)
           n == Len(m_list)
           K == DOMAIN m_map \ {Victim}
<1>1. n \in Nat \ {0} /\ n <= m_capacity /\ m_list \in Seq(Node) /\ m_list # <<>>
      /\ Victim = m_list[n].key
  BY CapacityPositive DEF Evict, Full, Victim, Last, CacheInv, SameSize, Bounded, TypeOK
<1>2. /\ rest \in Seq(Node) /\ Len(rest) = n - 1
      /\ \A j \in 1..n - 1 : rest[j] = m_list[j]
  BY <1>1, FrontNodes
<1>3. k \notin K /\ PushFront(rest, k) /\ m_map' = Put(Erase(m_map, Victim), k, v)
  BY DEF Evict
<1> HIDE DEF rest
<1>4. Indexes(m_list, DOMAIN m_map) /\ Victim \in DOMAIN m_map
  BY <1>1 DEF CacheInv, MapMatchesList, Indexes
<1>5. \A j \in 1..n - 1 : rest[j] = IF j < n THEN m_list[j] ELSE m_list[j + 1]
  BY <1>1, <1>2
<1>6. Indexes(rest, DOMAIN m_map \ {m_list[n].key})
  <2>1. n \in 1..Len(m_list)
    BY <1>1
  <2> QED BY <1>1, <1>2, <1>4, <1>5, <2>1, IndexesRemove
<1>7. Cardinality(K) = Len(rest) /\ Len(rest) < m_capacity
  <2>1. Cardinality(K) = n - 1
    BY <1>4, SizeErase DEF CacheInv
  <2> QED BY <1>1, <1>2, <2>1, CapacityPositive
<1>8. DOMAIN m_map' = K \cup {k} /\ m_map' \in [K \cup {k} -> Values]
  BY <1>3 DEF Put, Erase, Restrict, CacheInv, TypeOK
<1> QED BY <1>1, <1>2, <1>3, <1>6, <1>7, <1>8, PushPreserves

THEOREM StepCache == CacheInv /\ [Next]_vars => CacheInv'
<1> SUFFICES ASSUME CacheInv, [Next]_vars PROVE CacheInv'
  OBVIOUS
<1>1. ASSUME NEW k \in Keys, NEW v \in Values, Insert(k, v) PROVE CacheInv'
  <2>1. call' \in Calls
    BY <1>1 DEF Insert, Calls
  <2> QED BY <1>1, <2>1, RefreshPreserves, AddPreserves, EvictPreserves DEF Insert
<1>2. ASSUME NEW k \in Keys, Get(k) PROVE CacheInv'
  <2>1. call' \in Calls
    BY <1>2 DEF Get, Hit, Miss, Alive, Calls, Found, CacheInv, TypeOK
  <2> QED BY <1>2, <2>1 DEF Get, Hit, Miss, CacheInv, TypeOK, MapMatchesList, Bounded, SameSize
<1>3. CASE Clear
  BY <1>3, FS_EmptySet, CapacityPositive
  DEF Clear, NoMap, Calls, CacheInv, TypeOK, MapMatchesList, Bounded, SameSize
<1>4. CASE SetClock
  BY <1>4, MaxTimeNatural
  DEF SetClock, CacheInv, TypeOK, MapMatchesList, Bounded, SameSize
<1>5. CASE UNCHANGED vars
  BY <1>5 DEF vars, CacheInv, TypeOK, MapMatchesList, Bounded, SameSize
<1> QED BY <1>1, <1>2, <1>3, <1>4, <1>5 DEF Next

THEOREM CacheInvariant == Spec => []CacheInv
<1> QED BY InitCache, StepCache, PTL DEF Spec

(* The iterators kept in m_map never dangle, for any capacity and whatever *)
(* the clock does.                                                         *)
THEOREM CacheIndexed == Spec => []MapMatchesList
<1>1. CacheInv => MapMatchesList
  BY DEF CacheInv
<1> QED BY <1>1, CacheInvariant, PTL

(* Neither the map nor the list outgrows m_capacity.                       *)
THEOREM CacheBounded == Spec => []Bounded
<1>1. CacheInv => Bounded
  BY DEF CacheInv
<1> QED BY <1>1, CacheInvariant, PTL

(* The cache's state keeps its types.                                      *)
THEOREM CacheTyped == Spec => []TypeOK
<1>1. CacheInv => TypeOK
  BY DEF CacheInv
<1> QED BY <1>1, CacheInvariant, PTL

-----------------------------------------------------------------------------
(* A list sorted by age at time n, as a predicate of the list.             *)
Aged(list, n) == /\ \A i, j \in DOMAIN list : i <= j => list[i].time >= list[j].time
                 /\ \A i \in DOMAIN list : list[i].time <= n

(* Every node of a list is dated.                                          *)
LEMMA NodeTimes ==
  ASSUME NEW list \in Seq(Node), NEW i \in DOMAIN list
  PROVE  list[i] \in Node /\ list[i].time \in Nat
<1>1. list[i] \in Node
  BY ElementOfSeq
<1> QED BY <1>1 DEF Node

(* A node dated now goes to the front of a sorted list.                    *)
LEMMA AgedPush ==
  ASSUME NEW list \in Seq(Node), NEW n \in Nat, Aged(list, n), NEW k \in Keys
  PROVE  Aged(<<[key |-> k, time |-> n]>> \o list, n)
<1> DEFINE e == [key |-> k, time |-> n]
           l == <<e>> \o list
<1>1. e \in Node /\ e.time = n
  BY DEF Node
<1> HIDE DEF e
<1>2. /\ l \in Seq(Node) /\ Len(l) = Len(list) + 1
      /\ \A j \in 1..Len(list) + 1 : l[j] = IF j = 1 THEN e ELSE list[j - 1]
  BY <1>1, PushNodes
<1> HIDE DEF l
<1>3. DOMAIN l = 1..Len(list) + 1 /\ DOMAIN list = 1..Len(list) /\ Len(list) \in Nat
  BY <1>2
<1>4. \A i \in DOMAIN l : i # 1 => i - 1 \in DOMAIN list /\ l[i].time = list[i - 1].time
  BY <1>2, <1>3
<1>5. \A i \in DOMAIN l : l[i].time <= n
  <2>1. l[1].time = n
    BY <1>1, <1>2, <1>3
  <2> QED BY <1>4, <2>1 DEF Aged
<1>6. ASSUME NEW i \in DOMAIN l, NEW j \in DOMAIN l, i <= j PROVE l[i].time >= l[j].time
  <2>1. CASE i = 1
    <3>1. l[j].time \in Nat /\ l[j].time <= n
      BY <1>2, <1>5, NodeTimes
    <3>2. l[i].time = n
      BY <1>1, <1>2, <1>3, <2>1
    <3> QED BY <3>1, <3>2
  <2>2. CASE i # 1
    <3>1. j # 1 /\ i - 1 <= j - 1
      BY <1>3, <1>6, <2>2
    <3> QED BY <1>4, <2>2, <3>1 DEF Aged
  <2> QED BY <2>1, <2>2
<1>7. Aged(l, n)
  BY <1>5, <1>6 DEF Aged
<1> QED BY <1>7 DEF l, e

(* A sorted list stays sorted when a node is taken out.                    *)
LEMMA AgedRemove ==
  ASSUME NEW list \in Seq(Node), NEW n \in Nat, Aged(list, n), NEW p \in 1..Len(list),
         NEW rest \in Seq(Node), Len(rest) = Len(list) - 1,
         \A j \in 1..Len(list) - 1 : rest[j] = IF j < p THEN list[j] ELSE list[j + 1]
  PROVE  Aged(rest, n)
<1> DEFINE old(j) == IF j < p THEN j ELSE j + 1
<1>1. DOMAIN rest = 1..Len(list) - 1 /\ DOMAIN list = 1..Len(list) /\ Len(list) \in Nat
  OBVIOUS
<1>2. \A j \in DOMAIN rest : old(j) \in DOMAIN list /\ rest[j] = list[old(j)]
  BY <1>1
<1>3. \A i, j \in DOMAIN rest : i <= j => old(i) <= old(j)
  BY <1>1
<1> HIDE DEF old
<1> QED BY <1>2, <1>3 DEF Aged

(* insert takes a node out, or none, and pushes one dated now.             *)
LEMMA InsertKeepsAge ==
  ASSUME CacheInv, SortedByAge, ~setBack, NEW k \in Keys, NEW v \in Values,
         Refresh(k, v) \/ Add(k, v) \/ Evict(k, v)
  PROVE  Aged(m_list', now_ms)
<1>1. Aged(m_list, now_ms) /\ m_list \in Seq(Node) /\ now_ms \in Nat
  BY DEF SortedByAge, Aged, CacheInv, TypeOK
<1>2. ASSUME NEW list \in Seq(Node), Aged(list, now_ms), PushFront(list, k)
      PROVE  Aged(m_list', now_ms)
  BY <1>1, <1>2, AgedPush DEF PushFront
<1>3. CASE Refresh(k, v)
  <2> DEFINE p == Position(k)
             rest == RemoveAt(m_list, p)
  <2>1. p \in 1..Len(m_list)
    BY <1>1, <1>3, PositionIs DEF Refresh, CacheInv
  <2>2. /\ rest \in Seq(Node) /\ Len(rest) = Len(m_list) - 1
        /\ \A j \in 1..Len(m_list) - 1 :
             rest[j] = IF j < p THEN m_list[j] ELSE m_list[j + 1]
    BY <1>1, <2>1, RemoveAtNodes
  <2>3. PushFront(rest, k)
    BY <1>3 DEF Refresh
  <2> HIDE DEF p, rest
  <2>4. Aged(rest, now_ms)
    BY <1>1, <2>1, <2>2, AgedRemove
  <2> QED BY <1>2, <2>2, <2>3, <2>4
<1>4. CASE Add(k, v)
  BY <1>1, <1>2, <1>4 DEF Add
<1>5. CASE Evict(k, v)
  <2> DEFINE rest == Front(m_list)
             n == Len(m_list)
  <2>1. n \in 1..Len(m_list) /\ m_list # <<>>
    BY <1>1, <1>5, CapacityPositive DEF Evict, Full, CacheInv, SameSize
  <2>2. /\ rest \in Seq(Node) /\ Len(rest) = n - 1 /\ \A j \in 1..n - 1 : rest[j] = m_list[j]
    BY <1>1, <2>1, FrontNodes
  <2>3. PushFront(rest, k)
    BY <1>5 DEF Evict
  <2> HIDE DEF rest
  <2>4. \A j \in 1..Len(m_list) - 1 : rest[j] = IF j < n THEN m_list[j] ELSE m_list[j + 1]
    BY <2>1, <2>2
  <2>5. Aged(rest, now_ms)
    BY <1>1, <2>1, <2>2, <2>4, AgedRemove
  <2> QED BY <1>2, <2>2, <2>3, <2>5
<1> QED BY <1>3, <1>4, <1>5

(* The list is sorted by age until the clock is set back.                  *)
THEOREM CacheSorted == Spec => []SortedByAge
<1>1. Init => SortedByAge
  BY DEF Init, SortedByAge
<1>2. CacheInv /\ SortedByAge /\ [Next]_vars => SortedByAge'
  <2> SUFFICES ASSUME CacheInv, SortedByAge, [Next]_vars, ~setBack' PROVE SortedByAge'
    BY DEF SortedByAge
  <2>1. CASE \E k \in Keys, v \in Values : Insert(k, v)
    BY <2>1, InsertKeepsAge DEF Insert, SortedByAge, Aged
  <2>2. CASE SetClock
    <3>1. ~setBack /\ ~(now_ms' < now_ms) /\ m_list' = m_list
      BY <2>2, Zenon DEF SetClock
    <3>2. now_ms \in Nat /\ now_ms' \in Nat /\ m_list \in Seq(Node)
      BY <2>2, MaxTimeNatural DEF SetClock, CacheInv, TypeOK
    <3>3. \A i \in DOMAIN m_list : m_list[i].time \in Nat /\ m_list[i].time <= now_ms
      BY <3>1, <3>2, NodeTimes DEF SortedByAge
    <3>4. \A i \in DOMAIN m_list : m_list[i].time <= now_ms'
      BY <3>1, <3>2, <3>3
    <3> QED BY <3>1, <3>4 DEF SortedByAge
  <2>3. CASE Clear
    BY <2>3 DEF Clear, SortedByAge
  <2>4. CASE (\E k \in Keys : Get(k)) \/ UNCHANGED vars
    BY <2>4 DEF Get, vars, SortedByAge
  <2> QED BY <2>1, <2>2, <2>3, <2>4 DEF Next
<1> QED BY <1>1, <1>2, CacheInvariant, PTL DEF Spec

(* Under a clock that is not set back an eviction takes the oldest entry,  *)
(* so it takes a live one only when every entry is live.                   *)
THEOREM CacheEvictsDeadFirst == Spec => EvictsDeadFirst
<1>1. ASSUME CacheInv, SortedByAge, [Next]_vars, ~setBack,
             NEW k \in DOMAIN m_map \ DOMAIN m_map', m_list' # <<>>, Alive(k),
             NEW x \in DOMAIN m_map
      PROVE  Alive(x)
  <2>1. PICK l \in Keys, v \in Values : Evict(l, v)
    <3>1. \E l \in Keys, w \in Values : Insert(l, w)
      BY <1>1 DEF Next, Get, Clear, SetClock, vars
    <3> QED BY <3>1 DEF Insert, Refresh, Add, Put
  <2> DEFINE n == Len(m_list)
  <2>2. m_list \in Seq(Node) /\ n \in 1..n /\ DOMAIN m_list = 1..n /\ Victim = m_list[n].key
    BY <1>1, <2>1, CapacityPositive DEF Evict, Full, CacheInv, SameSize, TypeOK, Victim, Last
  <2>3. k = Victim
    BY <1>1, <2>1 DEF Evict, Put, Erase, Restrict
  <2>4. Position(k) = n
    BY <1>1, <2>2, <2>3, PositionIs DEF CacheInv, MapMatchesList
  <2>5. Position(x) \in 1..n /\ Position(x) <= n
    BY <1>1, <2>2, PositionIs DEF CacheInv
  <2>6. m_list[Position(x)].time >= m_list[n].time
    BY <1>1, <2>2, <2>5 DEF SortedByAge
  <2>7. m_list[Position(x)].time \in Nat /\ m_list[n].time \in Nat /\ now_ms \in Nat
    BY <1>1, <2>2, <2>5, NodeTimes DEF CacheInv, TypeOK
  <2>8. m_list[n].time + m_lifetime > now_ms
    BY <1>1, <2>4 DEF Alive
  <2>9. m_list[Position(x)].time + m_lifetime > now_ms
    BY <2>6, <2>7, <2>8, LifetimeNatural
  <2> QED BY <2>9 DEF Alive
<1>2. CacheInv /\ SortedByAge /\ [Next]_vars =>
        [~setBack => \A k \in DOMAIN m_map \ DOMAIN m_map' :
            m_list' # <<>> /\ Alive(k) => \A x \in DOMAIN m_map : Alive(x)]_vars
  BY <1>1
<1> QED BY <1>2, CacheInvariant, CacheSorted, PTL DEF Spec, EvictsDeadFirst

-----------------------------------------------------------------------------
(* A node of a list of distinct keys is where its key is looked for.       *)
LEMMA PlaceOf ==
  ASSUME NEW list, \A i, j \in DOMAIN list : list[i].key = list[j].key => i = j,
         NEW i \in DOMAIN list
  PROVE  (CHOOSE j \in DOMAIN list : list[j].key = list[i].key) = i
OBVIOUS

(* What Held says of a cached key, in terms of its node.                   *)
LEMMA HeldOf ==
  ASSUME CacheInv, NEW i \in DOMAIN m_list
  PROVE  /\ m_list[i].key \in DOMAIN m_map
         /\ Held[m_list[i].key] = [value |-> m_map[m_list[i].key], time |-> m_list[i].time]
<1>1. m_list[i].key \in DOMAIN m_map
  BY DEF CacheInv, MapMatchesList
<1>2. Position(m_list[i].key) = i
  BY PlaceOf DEF CacheInv, MapMatchesList, Position
<1> QED BY <1>1, <1>2 DEF Held

(* The nodes that stay, and what becomes of the map and of what it holds.  *)
Stayed(list) == \A j \in DOMAIN list : \E i \in DOMAIN m_list : list[j] = m_list[i]
MapWith(K, k, v) == [x \in K \cup {k} |-> IF x = k THEN v ELSE m_map[x]]
HeldWith(K, k, v) ==
  [x \in K \cup {k} |-> IF x = k THEN [value |-> v, time |-> now_ms] ELSE Held[x]]

(* After an insertion the nodes that stayed hold what they held, one place *)
(* further back, and the new one holds the new value.                      *)
LEMMA HeldPush ==
  ASSUME CacheInv, CacheInv', NEW k, NEW v, NEW list \in Seq(Node), NEW K,
         Stayed(list), Indexes(list, K), k \in Keys, k \notin K,
         PushFront(list, k), now_ms \in Nat, m_map' = MapWith(K, k, v)
  PROVE  Held' = HeldWith(K, k, v)
<1> DEFINE e == [key |-> k, time |-> now_ms]
<1>1. e \in Node /\ e.key = k /\ e.time = now_ms /\ m_list' = <<e>> \o list
  BY DEF Node, PushFront
<1> HIDE DEF e
<1>2. /\ Len(m_list') = Len(list) + 1 /\ m_list' \in Seq(Node)
      /\ \A j \in 1..Len(list) + 1 : m_list'[j] = IF j = 1 THEN e ELSE list[j - 1]
  BY <1>1, PushNodes
<1>3. DOMAIN m_list' = 1..Len(list) + 1 /\ DOMAIN list = 1..Len(list) /\ Len(list) \in Nat
  BY <1>2
<1>4. \A i, j \in DOMAIN m_list' : m_list'[i].key = m_list'[j].key => i = j
  BY DEF CacheInv, MapMatchesList
<1> DEFINE P(x) == CHOOSE j \in DOMAIN m_list' : m_list'[j].key = x
<1>5. \A j \in DOMAIN m_list' : P(m_list'[j].key) = j
  BY <1>4, PlaceOf
<1>6. m_list'[P(k)].time = now_ms
  <2>1. 1 \in DOMAIN m_list' /\ m_list'[1] = e
    BY <1>2, <1>3
  <2>2. P(k) = 1
    BY <1>1, <1>5, <2>1
  <2> QED BY <1>1, <2>1, <2>2
<1>7. ASSUME NEW x \in K
      PROVE  x # k /\ Held[x] = [value |-> m_map[x], time |-> m_list'[P(x)].time]
  <2>1. PICK j \in DOMAIN list : list[j].key = x
    BY DEF Indexes
  <2>2. j + 1 \in DOMAIN m_list' /\ m_list'[j + 1] = list[j]
    BY <1>2, <1>3
  <2>3. P(x) = j + 1
    BY <1>5, <2>1, <2>2
  <2>4. PICK i \in DOMAIN m_list : list[j] = m_list[i]
    BY DEF Stayed
  <2> HIDE DEF P
  <2>5. Held[x] = [value |-> m_map[x], time |-> m_list[i].time]
    BY <2>1, <2>4, HeldOf
  <2> QED BY <2>2, <2>3, <2>4, <2>5
<1>8. DOMAIN m_map' = K \cup {k} /\ m_map'[k] = v /\ \A x \in K : m_map'[x] = m_map[x]
  BY DEF MapWith
<1>9. Held' = [x \in K \cup {k} |-> [value |-> m_map'[x], time |-> m_list'[P(x)].time]]
  BY <1>8 DEF Held, Position
<1> HIDE DEF P
<1> QED BY <1>6, <1>7, <1>8, <1>9 DEF HeldWith

(* The two modules count alike.                                            *)
LEMMA SameCardinality == ASSUME NEW S PROVE Cache!Cardinality(S) = Cardinality(S)
BY DEF Cardinality, Cache!Cardinality

(* Each case of insert is an insertion into the map of dated entries.      *)
LEMMA RefreshInserts ==
  ASSUME CacheInv, CacheInv', NEW k \in Keys, NEW v \in Values, Refresh(k, v),
         call' = <<"insert", k, v>>, UNCHANGED now_ms
  PROVE  Cache!Insert(k, v)
<1> DEFINE p == Position(k)
           rest == RemoveAt(m_list, p)
           K == DOMAIN m_map \ {k}
<1>1. p \in 1..Len(m_list) /\ m_list[p].key = k /\ k \in DOMAIN m_map
  BY PositionIs DEF Refresh, CacheInv, TypeOK
<1>2. /\ rest \in Seq(Node) /\ Len(rest) = Len(m_list) - 1
      /\ \A j \in 1..Len(m_list) - 1 :
           rest[j] = IF j < p THEN m_list[j] ELSE m_list[j + 1]
  BY <1>1, RemoveAtNodes DEF CacheInv, TypeOK
<1>3. PushFront(rest, k) /\ m_map' = Put(m_map, k, v)
  BY DEF Refresh
<1> HIDE DEF p, rest
<1>4. Indexes(m_list, DOMAIN m_map) /\ m_list \in Seq(Node) /\ now_ms \in Nat
  BY DEF CacheInv, MapMatchesList, Indexes, TypeOK
<1>5. Indexes(rest, K)
  BY <1>1, <1>2, <1>4, IndexesRemove
<1>6. DOMAIN rest = 1..Len(m_list) - 1 /\ DOMAIN m_list = 1..Len(m_list) /\ Len(m_list) \in Nat
  BY <1>2, <1>4
<1>7. Stayed(rest)
  <2> SUFFICES ASSUME NEW j \in DOMAIN rest PROVE \E i \in DOMAIN m_list : rest[j] = m_list[i]
    BY DEF Stayed
  <2>1. j \in DOMAIN m_list /\ j + 1 \in DOMAIN m_list
    BY <1>6
  <2>2. rest[j] = m_list[j] \/ rest[j] = m_list[j + 1]
    BY <1>2, <1>6
  <2> QED BY <2>1, <2>2
<1>8. K \cup {k} = DOMAIN m_map \cup {k}
  BY <1>1
<1>9. m_map' = MapWith(K, k, v)
  BY <1>3, <1>8 DEF Put, MapWith
<1>10. k \notin K
  OBVIOUS
<1>11. Held' = HeldWith(K, k, v)
  BY <1>2, <1>3, <1>4, <1>5, <1>7, <1>9, <1>10, HeldPush
<1>12. DOMAIN Held = DOMAIN m_map
  BY DEF Held
<1>13. Held' = Cache!With(Cache!Without({}), k, [value |-> v, time |-> now_ms])
  BY <1>8, <1>11, <1>12 DEF HeldWith, Cache!With, Cache!Without
<1>14. Cache!Room(k)
  BY <1>1, <1>12 DEF Cache!Room
<1> QED BY <1>13, <1>14 DEF Cache!Insert

LEMMA AddInserts ==
  ASSUME CacheInv, CacheInv', NEW k \in Keys, NEW v \in Values, Add(k, v),
         call' = <<"insert", k, v>>, UNCHANGED now_ms
  PROVE  Cache!Insert(k, v)
<1> DEFINE K == DOMAIN m_map
<1>1. k \notin K /\ PushFront(m_list, k) /\ m_map' = Put(m_map, k, v)
  BY DEF Add
<1>2. /\ m_list \in Seq(Node) /\ now_ms \in Nat /\ Indexes(m_list, K) /\ Stayed(m_list)
  BY DEF CacheInv, MapMatchesList, TypeOK, Indexes, Stayed
<1>3. m_map' = MapWith(K, k, v)
  BY <1>1 DEF Put, MapWith
<1> HIDE DEF K
<1>4. Held' = HeldWith(K, k, v)
  BY <1>1, <1>2, <1>3, HeldPush
<1>5. DOMAIN Held = K
  BY DEF Held, K
<1>6. Held' = Cache!With(Cache!Without({}), k, [value |-> v, time |-> now_ms])
  BY <1>4, <1>5 DEF HeldWith, Cache!With, Cache!Without
<1>7. Cache!Room(k)
  <2>1. Cardinality(K) = Len(m_list) /\ Len(m_list) \in Nat
    BY <1>2 DEF CacheInv, SameSize, K
  <2>2. ~(Cardinality(K) >= m_capacity)
    BY DEF Add, Full, K
  <2>3. Cardinality(DOMAIN Held) < m_capacity
    BY <1>5, <2>1, <2>2, CapacityPositive
  <2> QED BY <2>3, SameCardinality DEF Cache!Room
<1> QED BY <1>6, <1>7 DEF Cache!Insert

LEMMA EvictInserts ==
  ASSUME CacheInv, CacheInv', NEW k \in Keys, NEW v \in Values, Evict(k, v),
         call' = <<"insert", k, v>>, UNCHANGED now_ms
  PROVE  Cache!Insert(k, v)
<1> DEFINE rest == Front(m_list)
           n == Len(m_list)
           K == DOMAIN m_map \ {Victim}
<1>1. /\ n \in 1..n /\ m_list \in Seq(Node) /\ m_list # <<>> /\ Victim = m_list[n].key
      /\ now_ms \in Nat
  BY CapacityPositive DEF Evict, Full, Victim, Last, CacheInv, SameSize, Bounded, TypeOK
<1>2. /\ rest \in Seq(Node) /\ Len(rest) = n - 1
      /\ \A j \in 1..n - 1 : rest[j] = m_list[j]
  BY <1>1, FrontNodes
<1>3. k \notin DOMAIN m_map /\ PushFront(rest, k) /\ m_map' = Put(Erase(m_map, Victim), k, v)
  BY DEF Evict
<1> HIDE DEF rest
<1>4. Indexes(m_list, DOMAIN m_map) /\ Victim \in DOMAIN m_map
  BY <1>1 DEF CacheInv, MapMatchesList, Indexes
<1>5. \A j \in 1..n - 1 : rest[j] = IF j < n THEN m_list[j] ELSE m_list[j + 1]
  BY <1>1, <1>2
<1>6. Indexes(rest, K)
  BY <1>1, <1>2, <1>4, <1>5, IndexesRemove
<1>7. DOMAIN rest = 1..n - 1 /\ DOMAIN m_list = 1..n /\ n \in Nat
  BY <1>1, <1>2
<1>8. Stayed(rest)
  BY <1>2, <1>7 DEF Stayed
<1>9. m_map' = MapWith(K, k, v)
  BY <1>3 DEF Put, Erase, Restrict, MapWith
<1>10. k \notin K
  BY <1>3
<1>11. Held' = HeldWith(K, k, v)
  BY <1>1, <1>2, <1>3, <1>6, <1>8, <1>9, <1>10, HeldPush
<1>12. DOMAIN Held = DOMAIN m_map
  BY DEF Held
<1>13. Held' = Cache!With(Cache!Without({Victim}), k, [value |-> v, time |-> now_ms])
  BY <1>11, <1>12 DEF HeldWith, Cache!With, Cache!Without
<1>14. ~Cache!Room(k)
  <2>1. Cardinality(DOMAIN m_map) = n /\ Cardinality(DOMAIN m_map) >= m_capacity
    BY DEF Evict, Full, CacheInv, SameSize
  <2>2. k \notin DOMAIN Held /\ ~(Cardinality(DOMAIN Held) < m_capacity)
    BY <1>3, <1>7, <1>12, <2>1, CapacityPositive
  <2> QED BY <2>2, SameCardinality DEF Cache!Room
<1>15. {Victim} \in {{x} : x \in DOMAIN Held}
  BY <1>4, <1>12
<1> QED BY <1>13, <1>14, <1>15 DEF Cache!Insert

(* The map and the list implement the cache that the services rely on.     *)
THEOREM CacheRefines == Spec => CacheImplemented
<1>1. Init => Cache!CacheInit
  BY DEF Init, Cache!CacheInit, Held, NoMap
<1>2. CacheInv /\ CacheInv' /\ [Next]_vars => [Cache!CacheNext]_(Cache!cacheVars)
  <2> SUFFICES ASSUME CacheInv, CacheInv', [Next]_vars PROVE [Cache!CacheNext]_(Cache!cacheVars)
    OBVIOUS
  <2>1. ASSUME NEW k \in Keys, NEW v \in Values, Insert(k, v) PROVE Cache!Insert(k, v)
    BY <2>1, RefreshInserts, AddInserts, EvictInserts DEF Insert
  <2>2. ASSUME NEW k \in Keys, Get(k) PROVE Cache!Lookup(k)
    <3>1. DOMAIN Held = DOMAIN m_map /\ Held' = Held /\ now_ms' = now_ms
      BY <2>2 DEF Get, Held, Position
    <3>2. ASSUME k \in DOMAIN m_map
          PROVE  Held[k] = [value |-> m_map[k], time |-> m_list[Position(k)].time]
      BY <3>2 DEF Held
    <3>3. k \in DOMAIN Held /\ Held[k].time + m_lifetime > now_ms <=> Alive(k)
      BY <3>1, <3>2 DEF Alive
    <3>4. Alive(k) => Held[k].value = m_map[k]
      BY <3>2 DEF Alive
    <3> QED BY <2>2, <3>1, <3>3, <3>4 DEF Get, Hit, Miss, Cache!Lookup
  <2>3. ASSUME Clear PROVE Cache!Clear
    <3>1. DOMAIN Held = DOMAIN m_map /\ DOMAIN m_map' = {}
      BY <2>3 DEF Clear, NoMap, Held
    <3>2. Held' = [x \in {} |-> 0]
      BY <3>1 DEF Held
    <3> QED BY <2>3, <3>1, <3>2 DEF Clear, Cache!Clear, Cache!Without
  <2>4. ASSUME SetClock PROVE Cache!Tick
    BY <2>4, MaxTimeNatural DEF SetClock, Cache!Tick, Held, Position
  <2>5. CASE UNCHANGED vars
    BY <2>5 DEF vars, Cache!cacheVars, Held, Position
  <2> QED BY <2>1, <2>2, <2>3, <2>4, <2>5 DEF Next, Cache!CacheNext
<1> QED BY <1>1, <1>2, CacheInvariant, PTL DEF Spec, CacheImplemented, Cache!CacheSpec
=============================================================================
