--------------------------- MODULE MCViewIterate ---------------------------
(* The paging of a view with at most MaxEntries entries. *)
EXTENDS ViewIterate
=============================================================================
