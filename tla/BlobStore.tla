----------------------------- MODULE BlobStore -----------------------------
(***************************************************************************)
(* Content-addressed blob files and their durable publication              *)
(* (editchain-store, blob.rs, blob_adapter.rs and durable.rs).             *)
(*                                                                         *)
(* A blob is named by the hash of its bytes, so a file under that name     *)
(* either holds exactly the blob or is torn.  Writing stages a cohort in   *)
(* temporary files, fences them all, links each final name without ever    *)
(* replacing one, and fences the directory.  Temporary files are never     *)
(* read back, so only the names and what a power loss leaves of them are   *)
(* kept here.                                                              *)
(***************************************************************************)
EXTENDS Naturals, Sequences

CONSTANTS
    Blob,           \* content addresses
    CohortSize      \* blobs staged before one fence (64 in the code)

ASSUME CohortAssumption == CohortSize \in Nat \ {0}

(***************************************************************************)
(* What the directory holds under a blob's name:                           *)
(*   absent   nothing                                                      *)
(*   torn     other bytes than the blob's                                  *)
(*   copied   the whole blob, neither its bytes nor its name fenced (left  *)
(*            by a program that does not fence)                            *)
(*   named    the whole blob, only its name fenced                         *)
(*   linked   the whole blob, only its bytes fenced                        *)
(*   durable  the whole blob, bytes and name fenced                        *)
(***************************************************************************)
FileState == {"absent", "torn", "copied", "named", "linked", "durable"}

VARIABLES
    files,      \* the state of every blob's file
    job         \* the publication in progress

blobVars == <<files, job>>

Idle == [stage |-> "idle", rest |-> <<>>, at |-> 1, staged |-> <<>>, linked |-> FALSE]

Readable(b) == files[b] \in {"copied", "named", "linked", "durable"}

\* The blobs of the cohort being published: one chunk of the batch.
Cohort == SubSeq(job.rest, 1, IF Len(job.rest) < CohortSize THEN Len(job.rest) ELSE CohortSize)

\* A call of write or write_batch: the caller goes on once the stage is
\* "done" or "failed".
StartPublish(blobs) ==
    [Idle EXCEPT !.stage = IF blobs = <<>> THEN "done" ELSE "open", !.rest = blobs]

NextCohort(blobs) ==
    [Idle EXCEPT !.stage = IF blobs = <<>> THEN "done" ELSE "verify", !.rest = blobs]

\* The names fenced by a directory fence.
DirectoryFenced(f) ==
    [b \in Blob |-> CASE f[b] = "linked" -> "durable"
                      [] f[b] = "copied" -> "named"
                      [] OTHER -> f[b]]

\* Reusing a readable file without fencing it again.
VerifiedUnfenced(f, b) == f

\* A whole file is reused only after its bytes and its directory are fenced.
Verified(f, b) ==
    DirectoryFenced([f EXCEPT ![b] = IF @ \in {"copied", "linked"} THEN "linked" ELSE "durable"])

\* A verification that fails at its fences: the bytes may be fenced.
VerifyInterrupted(f, b) ==
    {f, [f EXCEPT ![b] = CASE @ = "copied" -> "linked" [] @ = "named" -> "durable" [] OTHER -> @]}

Fail == job' = [job EXCEPT !.stage = "failed"]

\* A second publication of the same content is an error.
VerifyRejecting(b, next) == files[b] # "absent" /\ Fail /\ UNCHANGED files

\* verify_existing of a file that is there: fenced and reused, or an error.
VerifyExisting(b, next) ==
    \/ Readable(b) /\ files' = Verified(files, b) /\ job' = next
    \/ files[b] = "torn" /\ Fail /\ UNCHANGED files

VerifyFails(b) ==
    /\ Readable(b)
    /\ files' \in VerifyInterrupted(files, b)
    /\ Fail

\* create_dir_all fences the directory even when it was already there.
OpenDirectory ==
    /\ job.stage = "open"
    /\ files' = DirectoryFenced(files)
    /\ job' = [job EXCEPT !.stage = "verify"]

OpenDirectoryFails == job.stage = "open" /\ Fail /\ UNCHANGED files

\* The first loop of publish_batch: repeated entries are skipped, whole files
\* reused, missing ones staged.
Stage ==
    /\ job.stage = "verify"
    /\ job.at <= Len(Cohort)
    /\ LET b == Cohort[job.at]
           next == [job EXCEPT !.at = @ + 1]
       IN IF \E i \in 1 .. (job.at - 1) : Cohort[i] = b
          THEN job' = next /\ UNCHANGED files
          ELSE \/ VerifyExisting(b, next)
               \/ files[b] = "absent" /\ job' = [next EXCEPT !.staged = Append(@, b)] /\ UNCHANGED files

\* An existing file cannot be verified, or the temporary file of a missing one
\* cannot be prepared.
StageFails ==
    /\ job.stage = "verify"
    /\ job.at <= Len(Cohort)
    /\ ~\E i \in 1 .. (job.at - 1) : Cohort[i] = Cohort[job.at]
    /\ \/ VerifyFails(Cohort[job.at])
       \/ files[Cohort[job.at]] = "absent" /\ Fail /\ UNCHANGED files

\* Every worker fences its temporary files before any name is linked.
Fence ==
    /\ job.stage = "verify"
    /\ job.at > Len(Cohort)
    /\ job' = [job EXCEPT !.stage = "link"]
    /\ UNCHANGED files

FenceFails ==
    /\ job.stage = "verify"
    /\ job.at > Len(Cohort)
    /\ job.staged # <<>>
    /\ Fail
    /\ UNCHANGED files

\* A hard link installs a name only where there is none; a publication that
\* lost the race verifies the winner.
Link ==
    /\ job.stage = "link"
    /\ job.staged # <<>>
    /\ LET b == Head(job.staged)
           next == [job EXCEPT !.staged = Tail(@)]
       IN \/ VerifyExisting(b, next)
          \/ /\ files[b] = "absent"
             /\ files' = [files EXCEPT ![b] = "linked"]
             /\ job' = [next EXCEPT !.linked = TRUE]

LinkFails ==
    /\ job.stage = "link"
    /\ job.staged # <<>>
    /\ \/ VerifyFails(Head(job.staged))
       \/ files[Head(job.staged)] = "absent" /\ Fail /\ UNCHANGED files

\* The directory fence ends the cohort; the next chunk starts over.
SyncDirectory ==
    /\ job.stage = "link"
    /\ job.staged = <<>>
    /\ files' = IF job.linked THEN DirectoryFenced(files) ELSE files
    /\ job' = NextCohort(SubSeq(job.rest, Len(Cohort) + 1, Len(job.rest)))

SyncDirectoryFails ==
    /\ job.stage = "link"
    /\ job.staged = <<>>
    /\ job.linked
    /\ Fail
    /\ UNCHANGED files

PublishStep == OpenDirectory \/ Stage \/ Fence \/ Link \/ SyncDirectory

PublishFails == OpenDirectoryFails \/ StageFails \/ FenceFails \/ LinkFails \/ SyncDirectoryFails

\* Another program publishes a blob in the same directory.
OtherPublishes(b) ==
    /\ files[b] = "absent"
    /\ files' = [files EXCEPT ![b] = "linked"]
    /\ UNCHANGED job

\* What a power loss leaves of the directory.
Surviving(state) ==
    CASE state = "copied" -> {"absent", "torn", "durable"}
      [] state = "named" -> {"torn", "durable"}
      [] state = "linked" -> {"absent", "durable"}
      [] OTHER -> {state}

FilesAfterPowerLoss(f) == {g \in [Blob -> FileState] : \A b \in Blob : g[b] \in Surviving(f[b])}
=============================================================================
