------------------------------ MODULE LogStore ------------------------------
(***************************************************************************)
(* Exact admission over the segment store (editchain-store, log.rs):       *)
(* append_encoded_batch classifies a batch against the retained evidence,  *)
(* fences duplicates and conflicts with a sync of everything readable,     *)
(* appends what is new page by page and only then answers.  Between any    *)
(* two of its steps the process may die or the machine may stop.           *)
(***************************************************************************)
EXTENDS SegmentStore

CONSTANT MaxBatch       \* longest batch a caller submits

ASSUME MaxBatchAssumption == MaxBatch \in Nat \ {0}

VARIABLES
    cached,     \* LogStore.evidence is Some(..)
    evidence,   \* the evidence it caches
    call,       \* the append_encoded_batch call in progress
    answered    \* history: record and outcome of every answer returned

logVars == <<cached, evidence, call, answered>>
vars == <<segVars, logVars>>

Batch == UNION {[1 .. n -> Record] : n \in 1 .. MaxBatch}

Call == [pc : {"idle", "fence", "append"}, before : SUBSET Record, batch : Seq(Record),
         admissions : Seq(Admission), pending : Seq(Record)]

NoCall == [pc |-> "idle", before |-> {}, batch |-> << >>, admissions |-> << >>,
           pending |-> << >>]

Positions == UNION {[1 .. n -> 1 .. MaxBatch] : n \in 0 .. MaxBatch}

\* The positions of a batch that are written, in batch order: all but the
\* duplicates.
IsPending(index, admissions) ==
    /\ \A j, k \in DOMAIN index : j < k => index[j] < index[k]
    /\ {index[k] : k \in DOMAIN index}
         = {i \in DOMAIN admissions : admissions[i] # "Duplicate"}

NeverFences(admissions) == FALSE

NeedsFence(admissions) == \E i \in DOMAIN admissions : admissions[i] # "Accepted"

\* The next page append_records takes from what is pending, and the rest.
TakeLen(pending) == IF Len(pending) < PageLimit THEN Len(pending) ELSE PageLimit

NextPage(pending) == SubSeq(pending, 1, TakeLen(pending))

AfterPage(pending) == SubSeq(pending, TakeLen(pending) + 1, Len(pending))

\* read_evidence replays every complete page, durable or not.
read_evidence == Readable
-----------------------------------------------------------------------------
\* Until the call returns the cached evidence is gone: any error drops it.
Begin(batch) ==
    LET before     == IF cached THEN evidence ELSE read_evidence
        admissions == Admissions(before, batch)
    IN  /\ writer.phase = "idle"
        /\ call.pc = "idle"
        /\ \E index \in Positions :
             /\ IsPending(index, admissions)
             /\ call' = [pc |-> IF NeedsFence(admissions) THEN "fence" ELSE "append",
                         before |-> before, batch |-> batch, admissions |-> admissions,
                         pending |-> [k \in DOMAIN index |-> batch[index[k]]]]
        /\ cached' = FALSE
        /\ evidence' = {}
        /\ UNCHANGED <<segVars, answered>>

Fence ==
    /\ call.pc = "fence"
    /\ sync_all
    /\ call' = [call EXCEPT !.pc = "append"]
    /\ UNCHANGED <<cached, evidence, answered>>

FenceFails ==
    /\ call.pc = "fence"
    /\ SyncAllFails
    /\ call' = NoCall
    /\ UNCHANGED <<cached, evidence, answered>>

AppendPage ==
    /\ call.pc = "append"
    /\ call.pending # << >>
    /\ WritePage(NextPage(call.pending))
    /\ UNCHANGED logVars

PageFails ==
    /\ call.pc = "append"
    /\ call.pending # << >>
    /\ \/ WriteFails(NextPage(call.pending))
       \/ AppendRefused(NextPage(call.pending))
    /\ call' = NoCall
    /\ UNCHANGED <<cached, evidence, answered>>

PageDurable ==
    /\ call.pc = "append"
    /\ Persist
    /\ call' = [call EXCEPT !.pending = AfterPage(@)]
    /\ UNCHANGED <<cached, evidence, answered>>

PageUncertainKeepsEvidence ==
    /\ call.pc = "append"
    /\ PersistFails
    /\ call' = NoCall
    /\ cached' = TRUE
    /\ evidence' = InsertedAll(call.before, call.batch)
    /\ UNCHANGED answered

PageUncertain ==
    /\ call.pc = "append"
    /\ PersistFails
    /\ call' = NoCall
    /\ UNCHANGED <<cached, evidence, answered>>

\* Every page is durable: remember the evidence and return the outcomes.
Answer ==
    /\ call.pc = "append"
    /\ call.pending = << >>
    /\ writer.phase = "idle"
    /\ cached' = TRUE
    /\ evidence' = InsertedAll(call.before, call.batch)
    /\ answered' = answered \cup {<<call.batch[i], call.admissions[i]>> : i \in DOMAIN call.batch}
    /\ call' = NoCall
    /\ UNCHANGED segVars

OpenLog == Open /\ UNCHANGED logVars

CloseLog ==
    /\ call.pc = "idle"
    /\ Close
    /\ cached' = FALSE
    /\ evidence' = {}
    /\ UNCHANGED <<call, answered>>

\* A killed process or a power loss takes the store's memory with it.
Interrupted ==
    /\ Kill \/ PowerLoss
    /\ cached' = FALSE
    /\ evidence' = {}
    /\ call' = NoCall
    /\ UNCHANGED answered

Init ==
    /\ SegInit
    /\ cached = FALSE
    /\ evidence = {}
    /\ call = NoCall
    /\ answered = {}

Next ==
    \/ OpenLog
    \/ CloseLog
    \/ \E batch \in Batch : Begin(batch)
    \/ Fence
    \/ FenceFails
    \/ AppendPage
    \/ PageFails
    \/ PageDurable
    \/ PageUncertain
    \/ Answer
    \/ Interrupted

Spec == Init /\ [][Next]_vars
-----------------------------------------------------------------------------
TypeOK ==
    /\ SegTypeOK
    /\ cached \in BOOLEAN
    /\ evidence \in SUBSET Record
    /\ answered \in SUBSET (Record \X Admission)
    /\ call \in Call

\* LogStore never returns an outcome for a record that a power loss could
\* still take away: an answered record is durable, and stays so.
AnsweredDurable == \A a \in answered : a[1] \in Durable

\* Once append_encoded answered Conflict the identity stays quarantined
\* through any crash: two variants of it are durable.
QuarantineDurable ==
    \A a \in answered : a[2] = "Conflict" => IdOf[a[1]] \in conflicts(Durable)

\* Two variants of one identity are never both answered Accepted, whatever
\* failed, was retried or was lost in between.
AcceptedOnce ==
    \A a, b \in answered :
      a[2] = "Accepted" /\ b[2] = "Accepted" /\ IdOf[a[1]] = IdOf[b[1]] => a[1] = b[1]

\* Evidence reused between calls is exactly what a replay of the log would
\* give; an uncertain write discards it.
EvidenceExact == cached => evidence = Readable

\* The log store keeps the promise of AdmissionContract, durable records
\* being what it retains.
Contract == INSTANCE AdmissionContract WITH retained <- Durable

KeepsContract == Contract!ContractSpec
-----------------------------------------------------------------------------
(* The inductive invariant behind these properties.                        *)

\* A page that is written but not yet persisted is the next page of the call.
WrittenInv ==
    writer.phase = "written" =>
      LET pages == segs[writer.seq].pages
      IN  /\ call.pc = "append"
          /\ call.pending # << >>
          /\ pages[Len(pages)].recs = NextPage(call.pending)

\* During a call, the readable evidence and what is pending together are the
\* evidence the call started from and its batch.
CallInv ==
    call.pc # "idle" =>
      /\ call.batch \in Batch
      /\ call.admissions = Admissions(call.before, call.batch)
      /\ call.before \subseteq Readable
      /\ InsertedAll(call.before, call.batch) = InsertedAll(Readable, call.pending)
      /\ \A x \in answered : x[1] \in call.before

\* After the fence, if there was one, everything but the pending records is
\* durable.
AppendInv ==
    call.pc = "append" =>
      /\ InsertedAll({}, call.batch) \subseteq InsertedAll(Durable, call.pending)
      /\ NeedsFence(call.admissions) => call.before \subseteq Durable

IInv ==
    /\ TypeOK
    /\ SegInv
    /\ WrittenInv
    /\ CallInv
    /\ AppendInv
    /\ AnsweredDurable
    /\ QuarantineDurable
    /\ AcceptedOnce
    /\ EvidenceExact
    /\ cached => call.pc = "idle"
=============================================================================
