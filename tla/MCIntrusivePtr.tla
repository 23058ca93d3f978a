--------------------------- MODULE MCIntrusivePtr ---------------------------
(* Three threads and four pointer variables: two threads may lock weak      *)
(* pointers while a third drops the last strong one.                        *)
EXTENDS IntrusivePtr, TLC

Symmetric == Permutations(Threads) \cup Permutations(Refs)
=============================================================================
