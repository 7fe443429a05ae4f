---------------------------- MODULE MCPageStore -----------------------------
(* Constants of the checkpoint run.                                         *)
EXTENDS PageStore

MCLocations == [k \in Key |-> IF k = 4 THEN {1, 2} ELSE {(k % 2) + 1}]
MCWeightOf == << [expanded |-> 1, visible |-> 1], [expanded |-> 3, visible |-> 0] >>
MCFact == [k \in Key |-> k % 3]
MCHash == [f \in 0..2 |-> 3 * f]
=============================================================================
