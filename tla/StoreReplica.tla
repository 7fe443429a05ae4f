--------------------------- MODULE StoreReplica ----------------------------
(***************************************************************************)
(* Replication over caller-supplied storage (editchain-sync, adapter.rs).  *)
(* The adapter owns the log for its whole life and keeps the evidence it   *)
(* has read in a cache, which it drops before every write that can fail.   *)
(***************************************************************************)
EXTENDS ChainStorage

VARIABLES
    cache,      \* evidence kept between calls, if any
    shown,      \* the snapshot the session skips downloads by, if it has one
    publishing, \* the blob being published for the session, if any
    receipts    \* records and blobs the session was told are durable

replicaVars == <<cache, shown, publishing, receipts>>

OpenReplica ==
    /\ owner = "none"
    /\ owner' = "replica"
    /\ cache' = <<>>
    /\ shown' = <<>>
    /\ publishing' = <<>>
    /\ UNCHANGED <<receipts, blobVars, logVars>>

CloseReplica ==
    /\ owner = "replica"
    /\ publishing = <<>>
    /\ owner' = "none"
    /\ cache' = <<>>
    /\ shown' = <<>>
    /\ UNCHANGED <<publishing, receipts, blobVars, logVars>>

Ready == owner = "replica" /\ publishing = <<>>

\* The evidence the adapter works from: the cache, or the log read afresh.
Known == IF cache = <<>> THEN retained ELSE cache[1]

\* A new round fences the log before it trusts any evidence.
Snapshot ==
    /\ Ready
    /\ SyncLog
    /\ cache' = <<Known>>
    /\ shown' = <<Known>>
    /\ UNCHANGED <<owner, publishing, receipts, blobVars>>

SnapshotFails ==
    /\ Ready
    /\ cache' = <<>>
    /\ shown' = <<>>
    /\ UNCHANGED <<owner, publishing, receipts, blobVars, logVars>>

\* The records of a batch that are not known yet, once each.
Pending(records) == SelectSeq(records, LAMBDA r : r \notin Known)

\* Keeping the evidence it meant to write although the write failed.
IngestFailsKeepingCache(records) ==
    /\ Ready
    /\ shown # <<>>
    /\ AppendFails(Pending(records))
    /\ cache' = <<Known \cup Elements(records)>>
    /\ UNCHANGED <<owner, shown, publishing, receipts, blobVars>>

\* Records already retained are fenced again before they are confirmed.
Ingest(records) ==
    /\ Ready
    /\ shown # <<>>
    /\ retained' = retained \cup (Elements(records) \ Known)
    /\ safe' = IF \E r \in Elements(records) : r \in Known
               THEN retained \cup (Elements(records) \ Known)
               ELSE safe \cup (Elements(records) \ Known)
    /\ cache' = <<Known \cup Elements(records)>>
    /\ shown' = <<shown[1] \cup Elements(records)>>
    /\ receipts' = receipts \cup Elements(records)
    /\ UNCHANGED <<owner, publishing, blobVars>>

\* A failed fence or append leaves the cache empty; the session ends.
IngestFails(records) ==
    /\ Ready
    /\ shown # <<>>
    /\ AppendFails(Pending(records))
    /\ cache' = <<>>
    /\ shown' = <<>>
    /\ UNCHANGED <<owner, publishing, receipts, blobVars>>

\* Content a retained record references is published: bytes the peer sent, or
\* the bytes already there when they are confirmed instead of downloaded.
PublishBlob(b) ==
    /\ Ready
    /\ shown # <<>>
    /\ \E r \in Known : b \in Refs[r]
    /\ publishing' = <<b>>
    /\ job' = StartPublish(<<b>>)
    /\ UNCHANGED <<owner, cache, shown, receipts, files, logVars>>

BlobPublished ==
    /\ owner = "replica"
    /\ job.stage \in {"done", "failed"}
    /\ receipts' = IF job.stage = "done" THEN receipts \cup Elements(publishing) ELSE receipts
    /\ shown' = IF job.stage = "done" THEN shown ELSE <<>>
    /\ publishing' = <<>>
    /\ job' = Idle
    /\ UNCHANGED <<owner, cache, files, logVars>>

ReplicaInit ==
    /\ cache = <<>>
    /\ shown = <<>>
    /\ publishing = <<>>
    /\ receipts = {}
=============================================================================
