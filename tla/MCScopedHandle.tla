--------------------------- MODULE MCScopedHandle ---------------------------
(* Two threads, three wrappers and three handles: enough for a chain of     *)
(* moves through a third wrapper while each thread owns a handle.           *)
EXTENDS ScopedHandle, TLC

Symmetric ==
    Permutations(Threads) \cup Permutations(Wrappers) \cup Permutations(Handles)
=============================================================================
