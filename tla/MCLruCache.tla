----------------------------- MODULE MCLruCache -----------------------------
(* A full cache, one key more than fits, and a lifetime the clock can      *)
(* outrun.                                                                 *)
EXTENDS LruCache
KeySymmetry == Permutations(Keys)
=============================================================================
