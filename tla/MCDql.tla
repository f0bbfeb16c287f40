------------------------------- MODULE MCDql --------------------------------
EXTENDS Dql

MCTexts == {<<"'", "or", "(", "\n">>, <<"\\n">>}
MCSixDecimals == [w \in {"0", "1e-7"} |-> "0"]

\* Of any two atoms each holds of a document or does not.
MCDocuments == UNION {kSubset(n, Atoms) : n \in 0 .. 2}
=============================================================================
