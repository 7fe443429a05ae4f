----------------------------- MODULE MCSession ------------------------------
\* Small instance of Session: three records in pages of two, one of them two
\* chunks long, and content that the other peer's record shares.
EXTENDS Session

CONSTANTS p, q, h

MCHashesOf == [k \in Key |-> IF k = 1 THEN {} ELSE {h}]
MCSizeOf == [x \in Key \cup Hash |-> IF x = 2 THEN 2 ELSE 1]
MCOwn == [x \in Peer |-> IF x = p THEN {1, 2} ELSE {3}]
MCOwnBlobs == [x \in Peer |-> IF x = p THEN {h} ELSE {}]
=============================================================================
