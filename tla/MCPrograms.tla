----------------------------- MODULE MCPrograms -----------------------------
EXTENDS Programs, TLC

CONSTANTS o1, o2, b1, b2, b3, b4, e1, e2, s1, s2, f1, r1, r2

MCObjects == MailLists \cup {o1, o2}
MCSymmetry == Permutations({b1, b2, b3, b4}) \cup Permutations({e1, e2})
=============================================================================
