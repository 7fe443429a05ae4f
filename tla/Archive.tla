------------------------------ MODULE Archive ------------------------------
(***************************************************************************)
(* Portable archives (editchain, cli/archive.rs): exporting a chain and    *)
(* restoring an archive into another one.                                  *)
(*                                                                         *)
(* An export runs under the source's writer lock and emits, for every      *)
(* retained variant in key order, the record and each blob it is the first *)
(* to reference.  It can be cut short at any entry, and its output may be  *)
(* appended to an earlier one.  A restore collects entries into a bounded  *)
(* batch, publishes its blobs, appends its records and only then answers   *)
(* for them.                                                               *)
(***************************************************************************)
EXTENDS ChainStorage, FiniteSets

CONSTANTS
    KeyOrder,       \* every record, in the order of its key
    BlobOrder,      \* every blob, in the order of its hash
    Length,         \* how many bytes a record or a blob has
    FlushReplies,   \* replies a batch collects before it is flushed (1024)
    FlushBytes      \* bytes a batch collects before it is flushed (4 MiB)

ASSUME ArchiveAssumption ==
    /\ Length \in [Record \cup Blob -> Nat]
    /\ FlushReplies \in Nat \ {0}
    /\ FlushBytes \in Nat \ {0}

VARIABLES
    source,     \* the exported chain: its log, its blobs, an incomplete tail
    archive,    \* the entries in the archive
    batch,      \* the restore in progress: its position and pending batch
    answered,   \* replies emitted so far
    exit        \* how the last restore ended

archiveVars == <<source, archive, batch, answered, exit>>

Header == [type |-> "header"]
Operation(r) == [type |-> "operation", record |-> r]
BlobEntry(b) == [type |-> "blob", blob |-> b]
MissingBlob(b) == [type |-> "missing", blob |-> b]
Summary(stats) == [type |-> "summary", stats |-> stats]

\* A step repeated over the elements of a sequence, first to last.
InTurn(step(_, _), base, seq) ==
    LET after[n \in 0 .. Len(seq)] == IF n = 0 THEN base ELSE step(after[n - 1], seq[n])
    IN after[Len(seq)]

(***************************************************************************)
(* Reading the source: CanonicalChain counts as it admits.                 *)
(***************************************************************************)
NoRecords == [evidence |-> {}, accepted |-> {}, quarantined |-> 0]

\* Counting every conflicting record once, the first variant not at all.
AdmitCountingOnce(chain, r) ==
    LET result == classify(chain.evidence, r)
        ofId == {a \in chain.accepted : IdOf[a] = IdOf[r]}
    IN [evidence |-> insert(chain.evidence, r),
        accepted |-> CASE result = "Accepted" -> chain.accepted \cup {r}
                       [] result = "Duplicate" -> chain.accepted
                       [] OTHER -> chain.accepted \ ofId,
        quarantined |-> chain.quarantined + IF result = "Conflict" THEN 1 ELSE 0]

Admit(chain, r) ==
    LET result == classify(chain.evidence, r)
        ofId == {a \in chain.accepted : IdOf[a] = IdOf[r]}
    IN [evidence |-> insert(chain.evidence, r),
        accepted |-> CASE result = "Accepted" -> chain.accepted \cup {r}
                       [] result = "Duplicate" -> chain.accepted
                       [] OTHER -> chain.accepted \ ofId,
        quarantined |-> chain.quarantined +
            (IF result # "Conflict" THEN 0 ELSE IF ofId # {} THEN 2 ELSE 1)]

Read(log) == InTurn(Admit, NoRecords, log)

Stats(chain, tail) ==
    [accepted |-> Cardinality(chain.accepted), quarantined |-> chain.quarantined, omitted |-> tail]

(***************************************************************************)
(* export                                                                  *)
(***************************************************************************)
\* A blob is exported with the first record that references it; one that is
\* damaged stops the export.
ExportBlob(x, b) ==
    IF x.stopped \/ b \in x.exported THEN x
    ELSE IF source.blobs[b] = "Corrupt" THEN [x EXCEPT !.stopped = TRUE]
    ELSE [x EXCEPT !.exported = @ \cup {b},
                   !.out = Append(@, IF source.blobs[b] = "Found" THEN BlobEntry(b) ELSE MissingBlob(b))]

ExportRecord(x, r) ==
    IF x.stopped THEN x
    ELSE InTurn(ExportBlob, [x EXCEPT !.out = Append(@, Operation(r))],
                SelectSeq(BlobOrder, LAMBDA b : b \in Refs[r]))

Exported ==
    LET chain == Read(source.log)
        x == InTurn(ExportRecord, [out |-> <<Header>>, exported |-> {}, stopped |-> FALSE],
                    SelectSeq(KeyOrder, LAMBDA r : r \in chain.evidence))
    IN IF x.stopped THEN x.out ELSE Append(x.out, Summary(Stats(chain, source.tail)))

\* The output of an export reaches a new archive, whole or cut after an entry,
\* or is appended to the one before (whole: what follows a second header is
\* never read).
Export ==
    /\ batch.stage = "off"
    /\ \/ \E n \in 1 .. Len(Exported) : archive' = SubSeq(Exported, 1, n)
       \/ archive # <<>> /\ archive' = archive \o Exported
    /\ exit' = "none"
    /\ UNCHANGED <<source, batch, answered>>

\* A blob the source was missing arrives there.
SourceBlobArrives(b) ==
    /\ source.blobs[b] = "Missing"
    /\ source' = [source EXCEPT !.blobs[b] = "Found"]
    /\ UNCHANGED <<archive, batch, answered, exit>>

(***************************************************************************)
(* restore                                                                 *)
(***************************************************************************)
Off == [stage |-> "off", at |-> 0, records |-> <<>>, blobs |-> <<>>, replies |-> 0, bytes |-> 0,
        count |-> 0, last |-> FALSE, summary |-> FALSE, missing |-> FALSE, conflict |-> FALSE]

\* The writer is opened first: it takes the lock.
StartRestore ==
    /\ owner = "none"
    /\ owner' = "restore"
    /\ batch' = [Off EXCEPT !.stage = "read", !.at = 1]
    /\ exit' = "none"
    /\ UNCHANGED <<source, archive, answered, blobVars, logVars>>

\* The command ends and its writer releases the lock.
Ends(code) ==
    /\ exit' = code
    /\ batch' = Off
    /\ owner' = "none"
    /\ job' = Idle
    /\ UNCHANGED <<source, archive>>

Entry == archive[batch.at]

\* The batch after an entry, flushed when it is full.
Collected(next) ==
    [next EXCEPT !.at = @ + 1,
                 !.stage = IF next.replies >= FlushReplies \/ next.bytes >= FlushBytes
                           THEN "flush" ELSE "read"]

Collect ==
    CASE Entry.type = "header" -> [batch EXCEPT !.at = @ + 1]
      [] Entry.type = "operation" ->
           Collected([batch EXCEPT !.records = Append(@, Entry.record), !.replies = @ + 1,
                                   !.bytes = @ + Length[Entry.record], !.count = @ + 1])
      [] Entry.type = "blob" ->
           Collected([batch EXCEPT !.blobs = Append(@, Entry.blob), !.replies = @ + 1,
                                   !.bytes = @ + Length[Entry.blob]])
      [] Entry.type = "missing" -> Collected([batch EXCEPT !.missing = TRUE])
      [] OTHER -> Collected([batch EXCEPT !.summary = TRUE])

\* The first entry, and no other, is the header, and nothing follows the
\* summary.
OutOfPlace == batch.summary \/ (Entry.type = "header") # (batch.at = 1)

\* An operation is refused when it does not decode and a blob when its bytes
\* do not have its address; a summary when its counts differ from the entries
\* read, and when the source omitted records.  What is pending is then not
\* stored.
Refusal ==
    IF OutOfPlace THEN "refused"
    ELSE CASE Entry.type = "operation" -> IF Entry.record \in Record THEN "none" ELSE "refused"
           [] Entry.type = "blob" -> IF Entry.blob \in Blob THEN "none" ELSE "refused"
           [] Entry.type = "summary" ->
                IF Entry.stats.accepted + Entry.stats.quarantined # batch.count THEN "refused"
                ELSE IF Entry.stats.omitted THEN "omitted"
                ELSE "none"
           [] OTHER -> "none"

ReadEntry ==
    /\ batch.stage = "read"
    /\ batch.at <= Len(archive)
    /\ IF Refusal # "none"
       THEN Ends(Refusal) /\ UNCHANGED <<answered, files, logVars>>
       ELSE batch' = Collect /\ UNCHANGED <<source, archive, answered, exit, owner, blobVars, logVars>>

\* The end of the input flushes what is left.
EndOfInput ==
    /\ batch.stage = "read"
    /\ batch.at > Len(archive)
    /\ batch' = [batch EXCEPT !.stage = "flush", !.last = TRUE]
    /\ UNCHANGED <<source, archive, answered, exit, owner, blobVars, logVars>>

StoreBlobs ==
    /\ batch.stage = "flush"
    /\ job' = StartPublish(batch.blobs)
    /\ batch' = [batch EXCEPT !.stage = "blobs"]
    /\ UNCHANGED <<source, archive, answered, exit, owner, files, logVars>>

AppendRecords ==
    /\ batch.stage = "blobs"
    /\ job.stage = "done"
    /\ AppendReturns(batch.records)
    /\ batch' = [batch EXCEPT !.stage = "reply",
                              !.conflict = \/ @
                                           \/ \E i \in DOMAIN batch.records :
                                                Admissions(retained, batch.records)[i] = "Conflict"]
    /\ job' = Idle
    /\ UNCHANGED <<source, archive, answered, exit, owner, files>>

\* The replies are emitted in archive order; the batch starts over, or the
\* input is at its end.
ExitCode ==
    IF ~batch.summary THEN "incomplete"
    ELSE IF batch.conflict THEN "conflict"
    ELSE IF batch.missing THEN "missing"
    ELSE "ok"

EmitReplies ==
    /\ batch.stage = "reply"
    /\ answered' = answered \cup Elements(batch.records) \cup Elements(batch.blobs)
    /\ IF batch.last
       THEN Ends(ExitCode)
       ELSE /\ batch' = [batch EXCEPT !.stage = "read", !.records = <<>>, !.blobs = <<>>, !.replies = 0,
                                    !.bytes = 0]
            /\ UNCHANGED <<source, archive, exit, owner, job>>
    /\ UNCHANGED <<files, logVars>>

\* A blob that could not be published ends the command.
BlobsFailed ==
    /\ batch.stage = "blobs"
    /\ job.stage = "failed"
    /\ Ends("io")
    /\ UNCHANGED <<answered, files, logVars>>

RestoreStep == ReadEntry \/ EndOfInput \/ StoreBlobs \/ AppendRecords \/ EmitReplies \/ BlobsFailed

\* An error of the log or of the output ends it too.
AppendStops ==
    /\ batch.stage = "blobs"
    /\ job.stage = "done"
    /\ AppendFails(batch.records)
    /\ Ends("io")
    /\ UNCHANGED <<answered, files>>

OutputFails ==
    /\ batch.stage = "reply"
    /\ Ends("io")
    /\ UNCHANGED <<answered, files, logVars>>

ArchiveInit ==
    /\ archive = <<>>
    /\ batch = Off
    /\ answered = {}
    /\ exit = "none"
=============================================================================
