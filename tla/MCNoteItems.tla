---------------------------- MODULE MCNoteItems -----------------------------
EXTENDS NoteItems, TLC

CONSTANTS t1, t2, a, b

MCValues == {[as |-> "string", data |-> a], [as |-> "list", data |-> <<a>>],
             [as |-> "double", data |-> b]}
MCSymmetry == Permutations({t1, t2})
=============================================================================
