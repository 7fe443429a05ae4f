----------------------------- MODULE ChainCopy -----------------------------
(***************************************************************************)
(* One chain filled by restored archives and by replication sessions that  *)
(* take turns at its writer lock, while another program publishes blobs in *)
(* the same directory and crashes, power losses and I/O errors interrupt   *)
(* them.  A restore that did not finish is run again on the same archive.  *)
(***************************************************************************)
EXTENDS Archive, StoreReplica

CONSTANTS
    Sources,        \* chains that are exported
    InitialRecords, \* what the restored chain may hold before
    InitialFiles,   \* blob files it may have before
    Offers,         \* batches a peer offers
    MaxExports,     \* bound on exports, each restored as often as it takes
    MaxSessions,    \* bound on replication sessions
    MaxFaults       \* bound on crashes, power losses, I/O errors and races

ASSUME CopyAssumption ==
    /\ InitialFiles \subseteq [Blob -> FileState]
    /\ Offers \subseteq Seq(Record)

VARIABLE used       \* how much of each bound is spent

vars == <<archiveVars, replicaVars, blobVars, logVars, owner, used>>

Spend(what, bound) ==
    /\ used[what] < bound
    /\ used' = [used EXCEPT ![what] = @ + 1]

Init ==
    /\ ArchiveInit
    /\ ReplicaInit
    /\ source \in Sources
    /\ retained \in InitialRecords
    /\ safe = retained
    /\ files \in InitialFiles
    /\ job = Idle
    /\ owner = "none"
    /\ used = [exports |-> 0, sessions |-> 0, faults |-> 0]

Exports ==
    /\ Export
    /\ Spend("exports", MaxExports)
    /\ UNCHANGED <<replicaVars, blobVars, logVars, owner>>

Arrives ==
    /\ used.exports < MaxExports
    /\ \E b \in Blob : SourceBlobArrives(b)
    /\ UNCHANGED <<replicaVars, blobVars, logVars, owner, used>>

Unfinished == exit \in {"none", "io"}

Restores ==
    /\ archive # <<>>
    /\ Unfinished
    /\ StartRestore
    /\ UNCHANGED <<replicaVars, used>>

RestoreSteps == RestoreStep /\ UNCHANGED <<replicaVars, used>>

Publishes == PublishStep /\ UNCHANGED <<archiveVars, replicaVars, logVars, owner, used>>

Opens ==
    /\ OpenReplica
    /\ Spend("sessions", MaxSessions)
    /\ UNCHANGED archiveVars

SessionSteps ==
    /\ \/ CloseReplica
       \/ shown = <<>> /\ Snapshot
       \/ \E records \in Offers : ~(Elements(records) \subseteq receipts) /\ Ingest(records)
       \/ \E b \in Blob : b \notin receipts /\ PublishBlob(b)
       \/ BlobPublished
    /\ UNCHANGED <<archiveVars, used>>

\* The process that holds the lock dies.
ProcessEnds ==
    /\ owner' = "none"
    /\ batch' = Off
    /\ exit' = IF owner = "restore" THEN "io" ELSE exit
    /\ job' = Idle
    /\ cache' = <<>>
    /\ shown' = <<>>
    /\ publishing' = <<>>
    /\ UNCHANGED <<source, archive, answered, receipts>>

Crash ==
    /\ owner # "none"
    /\ ProcessEnds
    /\ UNCHANGED <<files, logVars>>

PowerLoss ==
    /\ ProcessEnds
    /\ files' \in FilesAfterPowerLoss(files)
    /\ LogPowerLoss

Faults ==
    /\ Spend("faults", MaxFaults)
    /\ \/ PublishFails /\ UNCHANGED <<archiveVars, replicaVars, logVars, owner>>
       \/ (\E b \in Blob : OtherPublishes(b)) /\ UNCHANGED <<archiveVars, replicaVars, logVars, owner>>
       \/ (AppendStops \/ OutputFails) /\ UNCHANGED replicaVars
       \/ SnapshotFails /\ UNCHANGED archiveVars
       \/ (\E records \in Offers : IngestFails(records)) /\ UNCHANGED archiveVars
       \/ Crash
       \/ PowerLoss

Next ==
    \/ Exports
    \/ Arrives
    \/ Restores
    \/ RestoreSteps
    \/ Publishes
    \/ Opens
    \/ SessionSteps
    \/ Faults

(***************************************************************************)
(* A command that runs goes on, sessions end, and an unfinished restore is *)
(* run again.                                                              *)
(***************************************************************************)
Spec ==
    /\ Init
    /\ [][Next]_vars
    /\ WF_vars(Restores)
    /\ WF_vars(RestoreSteps)
    /\ WF_vars(Publishes)
    /\ WF_vars(CloseReplica /\ UNCHANGED <<archiveVars, used>>)
    /\ WF_vars(BlobPublished /\ UNCHANGED <<archiveVars, used>>)

(***************************************************************************)
(* Properties                                                              *)
(***************************************************************************)
Durable(x) == IF x \in Blob THEN files[x] = "durable" ELSE x \in safe

\* Whatever restore has answered for and whatever a replication session has
\* been told is received survives any later crash or power loss, also when it
\* was already in the directory (archive.rs flush: "Emit results in archive
\* order only after the entire bounded operation batch is durable";
\* blob.rs verify_existing: "Readability alone is not proof of a durable
\* prior acknowledgement").
RepliesDurable == \A x \in answered \cup receipts : Durable(x)

Finished == {"ok", "conflict", "missing"}

\* The archive is what one export wrote, whole or cut short.
OneExport == \A i \in DOMAIN archive : archive[i].type = "header" => i = 1

\* A restore that reads an archive to its summary has copied every variant
\* the source retained and every blob the source had; it reports success only
\* if no referenced blob is unavailable, reports a conflict only for an
\* identity that is quarantined, and refuses an archive, for its counts or for
\* an entry out of its place, only when exports were joined in it, which it
\* never takes for a whole one (archive.rs restore, reader.rs
\* CanonicalChain::admit).
RestoreExact ==
    /\ exit = "refused" => ~OneExport
    /\ exit \in Finished =>
         /\ OneExport
         /\ Elements(source.log) \subseteq safe
         /\ \A i \in DOMAIN archive : archive[i].type = "blob" => files[archive[i].blob] = "durable"
    /\ exit = "ok" => \A r \in Elements(source.log) : \A b \in Refs[r] : files[b] = "durable"
    /\ exit = "conflict" => conflicts(retained) # {}

\* The adapter's cached evidence is exactly what the log holds, also after a
\* write that failed half-way, and the snapshot a session skips downloads by
\* holds only durable records (adapter.rs ingest_records: "A partial commit
\* must be rediscovered and fenced before a later receipt can acknowledge
\* it").
AdapterExact ==
    /\ cache # <<>> => cache[1] = retained
    /\ shown # <<>> => shown[1] \subseteq safe

Whole ==
    /\ archive # <<>>
    /\ OneExport
    /\ archive[Len(archive)].type = "summary"
    /\ ~archive[Len(archive)].stats.omitted
    /\ \A b \in Blob : files[b] # "torn"

\* However a restore is interrupted, running it again on the same whole
\* archive finishes it (docs/cli.md: "An interrupted archive can be replayed
\* safely").
Replayable == Whole ~> (exit \in Finished \/ ~Whole)
=============================================================================
