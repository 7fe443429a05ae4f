----------------------------- MODULE MCLogStore -----------------------------
\* Two variants of one identity and one record of another; batches of two.
EXTENDS LogStore, TLC

CONSTANTS a1, a2, b1, a, b

MCIdOf == (a1 :> a) @@ (a2 :> a) @@ (b1 :> b)
=============================================================================
