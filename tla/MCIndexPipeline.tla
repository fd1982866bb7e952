--------------------------- MODULE MCIndexPipeline ---------------------------
(* One partition with two dispatcher and two worker threads.               *)
EXTENDS IndexPipeline
Symmetric == Permutations(Dispatchers) \cup Permutations(Workers) \cup Permutations(Stores)
               \cup Permutations(Entities)
=============================================================================
