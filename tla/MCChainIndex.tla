---------------------------- MODULE MCChainIndex ----------------------------
\* Small instance of ChainIndex: two variants of one identity, the first of
\* which shares its content with a record of another identity.
EXTENDS ChainIndex

CONSTANTS a1, a2, b, f, k1, k2

MCIdOf == [r \in Record |-> IF r = b THEN 1 ELSE 2]
MCRefsOf == [r \in Record |-> IF r = a2 THEN {} ELSE {f}]
MCKeysOf == [r \in Record |-> IF r = a2 THEN {k2} ELSE {k1}]
=============================================================================
