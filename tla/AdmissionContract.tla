------------------------- MODULE AdmissionContract -------------------------
(***************************************************************************)
(* What a log store promises its callers (the AppendLog and LogStore       *)
(* contracts of editchain-store, log.rs): evidence is only ever added, a   *)
(* call that fails may still have added some of its records, and an answer *)
(* speaks of evidence that is already durable.                             *)
(***************************************************************************)
EXTENDS OpSet

CONSTANT MaxBatch       \* longest batch considered

VARIABLES
    retained,   \* durable records
    answered    \* record and outcome of every answer given so far

Batch == UNION {[1 .. n -> Record] : n \in 1 .. MaxBatch}

BatchRecords(batch) == {batch[i] : i \in DOMAIN batch}

Answers(batch, outcome) == {<<batch[i], outcome[i]>> : i \in DOMAIN batch}

ContractInit == retained \in SUBSET Record /\ answered = {}

\* Records become durable; their caller may never learn of it.
Retain ==
    /\ \E more \in SUBSET Record : retained' = retained \cup more
    /\ UNCHANGED answered

\* An accepted record is the only variant of its identity outside its own
\* batch and the first one inside it; a conflicting one has a rival.
Reply(batch, outcome) ==
    /\ BatchRecords(batch) \subseteq retained
    /\ \A i \in DOMAIN batch :
         /\ outcome[i] = "Accepted" =>
              /\ \A r \in retained \ BatchRecords(batch) : IdOf[r] # IdOf[batch[i]]
              /\ \A j \in 1 .. (i - 1) : IdOf[batch[j]] # IdOf[batch[i]]
         /\ outcome[i] = "Conflict" =>
              \E r \in retained : r # batch[i] /\ IdOf[r] = IdOf[batch[i]]
    /\ answered' = answered \cup Answers(batch, outcome)
    /\ UNCHANGED retained

ContractNext ==
    \/ Retain
    \/ \E batch \in Batch : \E outcome \in [DOMAIN batch -> Admission] : Reply(batch, outcome)

ContractSpec == ContractInit /\ [][ContractNext]_<<retained, answered>>
=============================================================================
