------------------------------- MODULE MCAcl -------------------------------
(* One manager of a database and two entry objects, which may be objects of one entry. *)
EXTENDS Acl, TLC

Symmetry == Permutations(Managers) \cup Permutations(Objects) \cup Permutations(Names)
              \cup Permutations(Levels) \cup Permutations(RoleNames)

\* Bounds the number of states: only Open reads the stored ACL, and what it would
\* read is built in the buffer anyway.
StoredHasNoEntry == \A n \in Names : stored.entry[n] = NoEntry
=============================================================================
