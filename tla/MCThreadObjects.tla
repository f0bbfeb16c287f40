-------------------------- MODULE MCThreadObjects --------------------------
(* Two threads, two databases and a note.  Three handles let one thread hold *)
(* a live note, its database and an expired database at once, and the two    *)
(* threads hold one object each while a third handle is leaked.              *)
EXTENDS ThreadObjects, TLC

Symmetric ==
    Permutations(Threads) \cup Permutations(Dbs) \cup Permutations(Notes)
        \cup Permutations(Handles)
=============================================================================
