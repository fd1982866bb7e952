----------------------------- MODULE TimedCache -----------------------------
(***************************************************************************)
(* What the services of the SQL server expect of utils/lru_cache.h: a map  *)
(* whose entries carry the time of their last insertion.  An insertion     *)
(* costs another entry only when there is no room, and a lookup finds      *)
(* whatever was inserted last, while it is younger than the lifetime.  It  *)
(* says nothing of lists, nor of which entry has to go.                    *)
(***************************************************************************)
EXTENDS Integers, FiniteSets

CONSTANTS Keys, Values, capacity, lifetime

VARIABLES held,  \* key -> [value, time]
          now,
          call   \* the last call: its arguments, and what a lookup returned
cacheVars == <<held, now, call>>

Without(lost) == [x \in DOMAIN held \ lost |-> held[x]]
With(map, k, entry) == [x \in DOMAIN map \cup {k} |-> IF x = k THEN entry ELSE map[x]]
Room(k) == k \in DOMAIN held \/ Cardinality(DOMAIN held) < capacity

CacheInit == held = [x \in {} |-> 0] /\ now = 0 /\ call = <<>>

Insert(k, v) ==
  /\ \E lost \in IF Room(k) THEN {{}} ELSE {{x} : x \in DOMAIN held} :
       held' = With(Without(lost), k, [value |-> v, time |-> now])
  /\ call' = <<"insert", k, v>>
  /\ UNCHANGED now

Lookup(k) ==
  /\ call' = <<"get", k, IF k \in DOMAIN held /\ held[k].time + lifetime > now
                            THEN <<held[k].value>> ELSE <<>>>>
  /\ UNCHANGED <<held, now>>

Clear == held' = Without(DOMAIN held) /\ call' = <<"clear">> /\ UNCHANGED now
Tick == now' \in Nat /\ UNCHANGED <<held, call>>

CacheNext == \/ \E k \in Keys, v \in Values : Insert(k, v)
             \/ \E k \in Keys : Lookup(k)
             \/ Clear \/ Tick

CacheSpec == CacheInit /\ [][CacheNext]_cacheVars
=============================================================================
