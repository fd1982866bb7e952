----------------------------- MODULE MCSqlServer -----------------------------
EXTENDS SqlServer, TLC
CONSTANTS e1, e2, e3, v1, v2
MCFacts == {[kgc_id |-> e1, predicate |-> "p", value |-> v1, to_kgc_id |-> e2],
            [kgc_id |-> e2, predicate |-> "p", value |-> v2, to_kgc_id |-> NoId]}
Index(select, limit, subs) == [idSearch |-> FALSE, ids |-> <<>>, select |-> select,
                               limit |-> limit, subs |-> subs]
ById(ids, select, limit, subs) == [idSearch |-> TRUE, ids |-> ids, select |-> select,
                                   limit |-> limit, subs |-> subs]
(* SELECT p WHERE ...; WHERE ID = (inner); WHERE a = (byId) AND ID = (inner)*)
MCQuery == [inner |-> Index({"p"}, 1, <<>>),
            byId  |-> ById(<<>>, {"p"}, 5, <<[q |-> "inner", behindID |-> TRUE]>>),
            deep  |-> Index({}, 5, <<[q |-> "byId", behindID |-> FALSE],
                                     [q |-> "inner", behindID |-> TRUE]>>)]
MCHits(q, results) ==
  CASE q = "inner" -> <<e3, e1, e2>>
    [] q = "deep"  -> SetToSeq({f.kgc_id : f \in {g \in MCFacts :
                         g.value \in results[1] /\ g.kgc_id \in results[2]}})
MCArrivals == {[q |-> "deep", forceQuery |-> FALSE, forwardSearch |-> FALSE],
               [q |-> "byId", forceQuery |-> FALSE, forwardSearch |-> TRUE],
               [q |-> "inner", forceQuery |-> TRUE, forwardSearch |-> FALSE],
               [q |-> e1, forceQuery |-> FALSE, forwardSearch |-> FALSE]}
MCDeep == {a \in MCArrivals : a.q \in {"deep","inner"}}
Symmetric == Permutations(Requests)
=============================================================================
