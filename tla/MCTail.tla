------------------------------- MODULE MCTail -------------------------------
\* Small instance of Tail: two variants of one identity, pages of one record,
\* two segments of at most two pages, reads of one page and a half.
EXTENDS Tail

CONSTANTS r1, r2, x

MCIdOf == [r \in Record |-> x]
=============================================================================
