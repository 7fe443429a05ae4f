--------------------------- MODULE ChainStorage ----------------------------
(***************************************************************************)
(* One chain directory as its writers see it: the log behind the storage   *)
(* contract (LogStore shows how the segments keep it), the blob files, and *)
(* the writer lock that the engine's ChainWriter and the sync adapter hold *)
(* for their whole life (editchain-engine, writer.rs).                     *)
(***************************************************************************)
EXTENDS OpSet, BlobStore

CONSTANT Refs   \* the blobs a record references

ASSUME RefsAssumption == Refs \in [Record -> SUBSET Blob]

\* A record is an encoding, a blob a content address.
ASSUME DistinctAssumption == Record \cap Blob = {}

VARIABLES
    retained,   \* records a reader of the log finds
    safe,       \* the ones a power loss cannot take
    owner       \* holder of the writer lock

logVars == <<retained, safe>>

Elements(batch) == {batch[i] : i \in DOMAIN batch}

\* A batch whose append returned: every record of it is durable.  The append
\* may fence more than its own records; nothing relies on that.
AppendReturns(batch) ==
    /\ retained' = retained \cup Elements(batch)
    /\ safe' = safe \cup Elements(batch)

\* A batch whose append failed: some of it may be readable.
AppendFails(batch) ==
    /\ \E n \in 0 .. Len(batch) : retained' = retained \cup Elements(SubSeq(batch, 1, n))
    /\ UNCHANGED safe

SyncLog == safe' = retained /\ UNCHANGED retained

\* Any record that is not fenced may be lost.
LogPowerLoss ==
    /\ \E lost \in SUBSET (retained \ safe) : retained' = retained \ lost
    /\ safe' = retained'
=============================================================================
