---------------------------- MODULE MCFullIndexer ----------------------------
(* Two producers: one reads two entities, one of them with two triads, in  *)
(* any order, the other finds nothing and submits an empty job.            *)
EXTENDS FullIndexer, TLC
CONSTANTS ta1, ta2, tb, a, b, p1, p2
MCEntityOf == ta1 :> a @@ ta2 :> a @@ tb :> b
MCProducerOf == a :> p1 @@ b :> p1
=============================================================================
