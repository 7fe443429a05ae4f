------------------------------- MODULE OpSet -------------------------------
(***************************************************************************)
(* Canonical admission of immutable operation bytes                        *)
(* (editchain-core, admission.rs).                                         *)
(*                                                                         *)
(* A record is one exact encoding of an operation; IdOf gives the          *)
(* operation identity it carries.  The code keeps a map from identity to   *)
(* the set of byte variants seen for it; a set of records is the same      *)
(* thing, since every record carries its identity.                         *)
(***************************************************************************)
EXTENDS Naturals, Sequences

CONSTANTS
    OpId,       \* operation identities
    Record,     \* exact encoded records
    IdOf        \* the identity a record carries

ASSUME IdOfAssumption == IdOf \in [Record -> OpId]

Admission == {"Accepted", "Duplicate", "Conflict"}

\* The byte variants an evidence set retains for one identity.
Variants(set, id) == {r \in set : IdOf[r] = id}

classify(set, r) ==
    IF Variants(set, IdOf[r]) = {} THEN "Accepted"
    ELSE IF r \in set THEN "Duplicate"
    ELSE "Conflict"

insert(set, r) == set \cup {r}

\* Accepted records: the only variant of their identity.
accepted(set) == {r \in set : Variants(set, IdOf[r]) = {r}}

\* Quarantined identities: those with several variants.
conflicts(set) ==
    {id \in OpId : \E a, b \in set : a # b /\ IdOf[a] = id /\ IdOf[b] = id}

merge(set, other) == set \cup other

\* Inserting the records of a sequence in order: what the set holds before
\* the i-th insertion, and the outcome of each insertion.
InsertedBefore(set, batch, i) == set \cup {batch[j] : j \in 1 .. (i - 1)}

Admissions(set, batch) ==
    [i \in DOMAIN batch |-> classify(InsertedBefore(set, batch, i), batch[i])]

InsertedAll(set, batch) == set \cup {batch[j] : j \in DOMAIN batch}
=============================================================================
