----------------------------- MODULE MCSharing ------------------------------
\* Small instance of Sharing: one own record and one of a peer's, which refer
\* to the same content, and a worker that serves while selections change.
EXTENDS Sharing

CONSTANTS a, f, x, w

MCRefsOf == [k \in {a, f} |-> {x}]
=============================================================================
