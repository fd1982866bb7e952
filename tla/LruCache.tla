------------------------------ MODULE LruCache ------------------------------
(***************************************************************************)
(* The cache of the SQL server, utils/lru_cache.h: a map from keys to      *)
(* values, and a list of (key, time of insertion) nodes with the newest    *)
(* first.  The iterator kept with a value is the node of its key.          *)
(*                                                                         *)
(* insert and clear run under wguard and get under rguard, so each is one  *)
(* step here; RWLock shows that the guards exclude each other.  Time is    *)
(* system_clock, which is no steady clock: it can be set back.             *)
(***************************************************************************)
EXTENDS Integers, Sequences, FiniteSets, SequencesExt, Functions

CONSTANTS Keys, Values,
          m_capacity, m_lifetime,
          MaxTime              \* bound of the clock, for model checking
ASSUME CapacityPositive == m_capacity \in Nat \ {0}
ASSUME LifetimeNatural == m_lifetime \in Nat
ASSUME MaxTimeNatural == MaxTime \in Nat

VARIABLES m_map,      \* key -> value
          m_list,     \* nodes [key, time], most recently inserted first
          now_ms,     \* system_clock
          call,       \* the last call: its arguments, and what a get returned
          setBack,    \* history: the clock has been set back
          used        \* history: cached keys, most recently hit or inserted first

cacheVars == <<m_map, m_list>>
vars == <<m_map, m_list, now_ms, call, setBack, used>>

Node == [key : Keys, time : Nat]
NoMap == [k \in {} |-> CHOOSE v \in Values : TRUE]

Init == /\ m_map = NoMap
        /\ m_list = <<>>
        /\ now_ms = 0
        /\ call = <<>>
        /\ setBack = FALSE
        /\ used = <<>>

Put(m, k, v) == [x \in DOMAIN m \cup {k} |-> IF x = k THEN v ELSE m[x]]
Erase(m, k) == Restrict(m, DOMAIN m \ {k})
Position(k) == CHOOSE i \in DOMAIN m_list : m_list[i].key = k

-----------------------------------------------------------------------------
(* insert: its three cases, each of which ends by pushing a new node.      *)
PushFront(list, k) == m_list' = <<[key |-> k, time |-> now_ms]>> \o list

RefreshNode(k, v) == /\ k \in DOMAIN m_map  \* mutant: emplace leaves the value that is there
                     /\ PushFront(RemoveAt(m_list, Position(k)), k)
                     /\ UNCHANGED m_map
Refresh(k, v) == /\ k \in DOMAIN m_map
                 /\ PushFront(RemoveAt(m_list, Position(k)), k)
                 /\ m_map' = Put(m_map, k, v)

Full == Cardinality(DOMAIN m_map) >= m_capacity

Add(k, v) == /\ k \notin DOMAIN m_map
             /\ ~Full
             /\ PushFront(m_list, k)
             /\ m_map' = Put(m_map, k, v)

Victim == Last(m_list).key
EvictNodeOnly(k, v) == /\ k \notin DOMAIN m_map  \* mutant: no m_map.erase
                       /\ Full
                       /\ PushFront(Front(m_list), k)
                       /\ m_map' = Put(m_map, k, v)
EvictNewest(k, v) == /\ k \notin DOMAIN m_map  \* mutant: the other end of the list
                     /\ Full
                     /\ PushFront(Tail(m_list), k)
                     /\ m_map' = Put(Erase(m_map, Head(m_list).key), k, v)
Evict(k, v) == /\ k \notin DOMAIN m_map
               /\ Full
               /\ PushFront(Front(m_list), k)
               /\ m_map' = Put(Erase(m_map, Victim), k, v)

Touch(k) == used' = <<k>> \o SelectSeq(used, LAMBDA x : x # k /\ x \in DOMAIN m_map')

Insert(k, v) == /\ Refresh(k, v) \/ Add(k, v) \/ Evict(k, v)
                /\ Touch(k)
                /\ call' = <<"insert", k, v>>
                /\ UNCHANGED <<now_ms, setBack>>

(* get: a hit is an entry younger than the lifetime; nothing is moved.     *)
Alive(k) == k \in DOMAIN m_map /\ m_list[Position(k)].time + m_lifetime > now_ms

Hit(k) == Alive(k) /\ call' = <<"get", k, <<m_map[k]>>>> /\ Touch(k)
Miss(k) == ~Alive(k) /\ call' = <<"get", k, <<>>>> /\ UNCHANGED used
Get(k) == /\ UNCHANGED <<m_map, m_list, now_ms, setBack>>
          /\ Hit(k) \/ Miss(k)

Clear == /\ m_map' = NoMap
         /\ m_list' = <<>>
         /\ used' = <<>>
         /\ call' = <<"clear">>
         /\ UNCHANGED <<now_ms, setBack>>

(* The environment: the clock is moved forward by time and by adjustments, *)
(* or set back by an adjustment.                                           *)
SetClockNarrow == /\ now_ms' \in -MaxTime..MaxTime  \* mutant: milliseconds overflow
                  /\ setBack' = (setBack \/ now_ms' < now_ms)
                  /\ UNCHANGED <<m_map, m_list, call, used>>
SetClock == /\ now_ms' \in 0..MaxTime
            /\ now_ms' # now_ms
            /\ setBack' = (setBack \/ now_ms' < now_ms)
            /\ UNCHANGED <<m_map, m_list, call, used>>

-----------------------------------------------------------------------------
Next == \/ \E k \in Keys, v \in Values : Insert(k, v)
        \/ \E k \in Keys : Get(k)
        \/ Clear
        \/ SetClock

Spec == Init /\ [][Next]_vars

-----------------------------------------------------------------------------
Found == {<<>>} \cup {<<v>> : v \in Values}
Calls == {<<>>, <<"clear">>} \cup ({"insert"} \X Keys \X Values)
                               \cup ({"get"} \X Keys \X Found)

TypeOK == /\ m_list \in Seq(Node)
          /\ DOMAIN m_map \subseteq Keys
          /\ m_map \in [DOMAIN m_map -> Values]
          /\ now_ms \in Nat
          /\ call \in Calls
          /\ setBack \in BOOLEAN

(* Map and list stay each other's index: every key has exactly one node,   *)
(* so that the iterator kept with a value is never dangling and an         *)
(* eviction always finds the key it erases.                                *)
MapMatchesList ==
  /\ DOMAIN m_map = {m_list[i].key : i \in DOMAIN m_list}
  /\ \A i, j \in DOMAIN m_list : m_list[i].key = m_list[j].key => i = j

(* The cache never holds more than its capacity, in the map or the list.   *)
Bounded == Cardinality(DOMAIN m_map) <= m_capacity /\ Len(m_list) <= m_capacity

(* Unless the clock was set back the list is sorted by age, with nothing   *)
(* dated in the future.                                                    *)
SortedByAge == ~setBack =>
  /\ \A i, j \in DOMAIN m_list : i <= j => m_list[i].time >= m_list[j].time
  /\ \A i \in DOMAIN m_list : m_list[i].time <= now_ms

(* insert never drops a live entry while a dead one is kept: under a clock *)
(* that was not set back, an evicted entry is expired or nothing is.       *)
EvictsDeadFirst ==
  [][~setBack => \A k \in DOMAIN m_map \ DOMAIN m_map' :
        m_list' # <<>> /\ Alive(k) => \A x \in DOMAIN m_map : Alive(x)]_vars

(* Through its iterators the cache implements the map of dated entries     *)
(* that the services rely on: a lookup is answered by the value and the    *)
(* date of the last insertion of its key, and an insertion costs one other *)
(* entry, if the cache is full, or none.                                   *)
Held == [k \in DOMAIN m_map |-> [value |-> m_map[k], time |-> m_list[Position(k)].time]]
Cache == INSTANCE TimedCache WITH capacity <- m_capacity, lifetime <- m_lifetime,
                                  held <- Held, now <- now_ms
CacheImplemented == Cache!CacheSpec

(* "evict item from the end of most recently used list": the entry that    *)
(* insert evicts is the one whose last hit or insertion is the oldest.     *)
EvictsLeastRecentlyUsed ==
  [][\A k \in DOMAIN m_map \ DOMAIN m_map' : m_list' # <<>> => k = Last(used)]_vars
=============================================================================
