---------------------------- MODULE SharingProofs ---------------------------
(***************************************************************************)
(* Proofs about Sharing: for any number of workers, records, segments and  *)
(* selections, consent holds, content stays gated, provenance is exact and *)
(* receipts are durable.                                                   *)
(*                                                                         *)
(* What makes the invariants inductive is that each of them is kept for    *)
(* two ledgers: the one that is readable and the one a power loss leaves.  *)
(* They differ while a save is not synced, and then either the revision    *)
(* fence tells them apart or both say the same of the records concerned.   *)
(***************************************************************************)
EXTENDS Sharing, TLAPS

\* Zenon proves most leaves; those that need arithmetic, records or
\* sequences cite SMT.
USE Zenon

Opt(S) == {None} \cup {Some(v) : v \in S}

ScopeType == [excluded : SUBSET Key, received : SUBSET Key, received_blobs : SUBSET Hash,
              local : SUBSET Key, revision : Nat, cutoff : Nat]

SnapshotType == [recs : SUBSET Key, received : SUBSET Key, received_blobs : SUBSET Hash,
                 revision : Nat]

WorkerType == [open : BOOLEAN, revision : Nat, offers : SnapshotType, local : SnapshotType]

IngestType == [kind : {"ingest"}, w : Worker, batch : SUBSET Key, page : SUBSET Key,
               known : BOOLEAN]

BlobType == [kind : {"blob"}, w : Worker, hash : Hash]

SelectType == [kind : {"select"}, cutoff : Nat, fenced : BOOLEAN]

TypeOK ==
    /\ first \in [Key -> Nat] /\ segment \in Nat \ {0}
    /\ safe \subseteq Key /\ blobs \subseteq Hash
    /\ scope \in Opt(ScopeType) /\ scopeSafe \in Opt(ScopeType)
    /\ fence \in Opt(Nat) /\ fenceSafe \in Opt(Nat)
    /\ worker \in [Worker -> WorkerType]
    /\ job \in {NoJob} \cup IngestType \cup BlobType \cup SelectType
    /\ wrote \subseteq Own /\ kept \subseteq Key /\ supplied \subseteq Key
    /\ granted \subseteq Hash /\ acked \subseteq Key

\* Whoever holds the lock, or serves, found a ledger; the one a power loss
\* leaves is an earlier version of it.
ScopeInv ==
    /\ ~Free => scope # None
    /\ \A w \in Worker : worker[w].open => scope # None
    /\ scopeSafe # None => scope # None

\* Own records are durable once written, peers' records once acknowledged.
DurableInv ==
    /\ \A k \in Key : first[k] <= segment
    /\ wrote \subseteq safe /\ safe \subseteq Present /\ Present \cap Own \subseteq wrote
    /\ acked \subseteq safe
    /\ \A w \in Worker : worker[w].offers.recs \subseteq safe
    /\ job.kind = "ingest" =>
         /\ job.page \subseteq Foreign
         /\ job.batch \ job.page \subseteq Present
         /\ ~job.known => job.batch \ job.page \subseteq safe

Received(sc) == IF sc = None THEN {} ELSE sc[1].received

\* A ledger that accounts for every peer's record in the chain or on its way.
Accounts(sc) ==
    /\ Present \cap Foreign \subseteq Received(sc)
    /\ job.kind = "ingest" => job.page \subseteq Received(sc)
    /\ sc # None =>
         /\ sc[1].local \subseteq wrote /\ sc[1].excluded \subseteq wrote
         /\ sc[1].revision # 0 => sc[1].excluded = {}

ProvenanceInv == Accounts(scope) /\ Accounts(scopeSafe)

\* A record that may open its content: its content was granted, or it is
\* known as a peer's.
Opens(k, received) == k \in received \/ RefsOf[k] \subseteq granted

\* A ledger that shares own records only after their content was granted.
Grants(sc) ==
    sc # None =>
      /\ sc[1].received_blobs \subseteq granted
      /\ \A k \in wrote : excludes(sc[1], k) \/ Opens(k, sc[1].received)

Gated(snap) ==
    /\ snap.received_blobs \subseteq granted
    /\ \A k \in snap.recs : Opens(k, snap.received)

ContentInv ==
    /\ Grants(scope) /\ Grants(scopeSafe)
    /\ \A w \in Worker :
         /\ Gated(worker[w].offers) /\ Gated(worker[w].local)
         /\ worker[w].local.received \subseteq Received(scope)
    /\ job.kind = "ingest" => \A k \in job.batch : Opens(k, Received(scope))
    /\ job.kind = "blob" => job.hash \in granted

Revision(f) == IF f = None THEN 0 ELSE f[1]

\* The fence is never behind a ledger.
FenceInv ==
    /\ scope # None =>
         scope[1].revision <= Revision(fence) /\ scope[1].revision <= Revision(fenceSafe)
    /\ scopeSafe # None => scopeSafe[1].revision <= scope[1].revision
    /\ \A w \in Worker : worker[w].open => worker[w].revision <= scope[1].revision
    /\ job.kind = "select" =>
         /\ job.fenced => fence = Some(scope[1].revision + 1) /\ fenceSafe = fence
         /\ job.cutoff # 0 => \A k \in Key : first[k] < job.cutoff

Yields(s, k) == s.revision = 0 /\ k \in supplied

\* A ledger that holds back what is kept, unless the fence outdates it.
Honours(sc) ==
    sc # None /\ sc[1].revision \in {Revision(fence), Revision(fenceSafe)} =>
      \A k \in kept : excludes(sc[1], k) \/ Yields(sc[1], k)

ConsentInv ==
    /\ kept \subseteq Present
    /\ Honours(scope) /\ Honours(scopeSafe)
    /\ \A w \in Worker :
         worker[w].open /\ worker[w].revision = scope[1].revision =>
           \A k \in worker[w].offers.recs \cap kept : Yields(scope[1], k)

Inv == TypeOK /\ ScopeInv /\ DurableInv /\ ProvenanceInv /\ ContentInv /\ FenceInv /\ ConsentInv
-----------------------------------------------------------------------------
(* Optional values and types.                                              *)

\* An optional value is None or holds a value of its type.
LEMMA OptFacts ==
    ASSUME NEW S
    PROVE  /\ None \in Opt(S)
           /\ \A v \in S : Some(v) \in Opt(S)
           /\ \A o \in Opt(S) : o # None => o[1] \in S /\ o = Some(o[1])
  BY SMT DEF Opt, None, Some

\* What Some holds, and that it is not None.
LEMMA SomeFacts ==
    ASSUME NEW v
    PROVE  Some(v) # None /\ Some(v)[1] = v
  BY DEF None, Some

\* Content of records is content.
LEMMA RefsType ==
    ASSUME NEW keys \in SUBSET Key
    PROVE  Refs(keys) \subseteq Hash
  BY SharingAssumption DEF Refs, Key

\* Snapshots and a fresh binding are well formed.
LEMMA SnapshotTypes ==
    /\ NoSnapshot \in SnapshotType
    /\ Closed \in WorkerType
    /\ \A r \in Nat : Bound(r) \in WorkerType
  BY DEF NoSnapshot, SnapshotType, Closed, WorkerType, Bound

\* A snapshot of a ledger is well formed (snapshot_for).
LEMMA SnapshotForType ==
    ASSUME TypeOK, scope # None, NEW receiving \in BOOLEAN
    PROVE  snapshot_for(receiving) \in SnapshotType
  <1>1. scope[1] \in ScopeType
    BY OptFacts DEF TypeOK
  <1> QED BY <1>1 DEF snapshot_for, SnapshotType, ScopeType, Present

\* Every ledger an operation saves is well formed.
LEMMA ScopeTypes ==
    ASSUME TypeOK, scope # None
    PROVE  /\ scope[1] \in ScopeType
           /\ \A batch \in SUBSET Key : ledger(batch) \in ScopeType
           /\ \A c \in Nat : select(scope[1], c) \in ScopeType
           /\ \A h \in Hash : [scope[1] EXCEPT !.received_blobs = @ \cup {h}] \in ScopeType
  <1>1. scope[1] \in ScopeType
    BY OptFacts DEF TypeOK
  <1>2. ASSUME NEW batch \in SUBSET Key
        PROVE  ledger(batch) \in ScopeType
    <2>1. Echoed(batch) \subseteq Key
      BY DEF Echoed
    <2> QED BY <1>1, <2>1 DEF ledger, ScopeType
  <1>3. ASSUME NEW c \in Nat
        PROVE  select(scope[1], c) \in ScopeType
    <2>1. scope[1].revision + 1 \in Nat
      BY <1>1, SMT DEF ScopeType
    <2>2. ASSUME NEW r \in Nat
          PROVE  [scope[1] EXCEPT !.revision = r, !.cutoff = c, !.excluded = {}] \in ScopeType
      BY <1>1 DEF ScopeType
    <2> QED BY <2>1, <2>2 DEF select
  <1>4. ASSUME NEW h \in Hash
        PROVE  [scope[1] EXCEPT !.received_blobs = @ \cup {h}] \in ScopeType
    BY <1>1 DEF ScopeType
  <1> QED BY <1>1, <1>2, <1>3, <1>4

\* Appending keeps the places of records well formed (Appended).
LEMMA AppendedType ==
    ASSUME TypeOK, NEW keys \in SUBSET Key, NEW at \in Places, Appended(keys, at)
    PROVE  /\ first' \in [Key -> Nat] /\ segment' \in Nat \ {0}
           /\ segment <= segment' /\ at = segment'
           /\ \A k \in Key : first'[k] = IF k \in keys /\ first[k] = 0 THEN segment' ELSE first[k]
  <1>1. at \in Nat \ {0} /\ segment <= at
    BY SharingAssumption, SMT DEF Places, TypeOK
  <1> QED BY <1>1, SMT DEF Appended, occurs, TypeOK

\* The steps of a worker's session.
WorkerStep(w) ==
    \/ \E backfill, synced \in BOOLEAN : CreateScope(w, backfill, synced)
    \/ BindWorker(w)
    \/ CloseWorker(w)
    \/ \E receiving \in BOOLEAN : TakeSnapshot(w, receiving)
    \/ \E batch \in SUBSET Key : Ingest(w, batch) \/ IngestSaveFails(w, batch)
    \/ \E k \in Key, h \in Hash : IngestBlob(w, k, h) \/ ConfirmBlob(w, k, h)

ReceiptStep == IngestAppend \/ IngestReturn \/ ReceiptFails \/ \E synced \in BOOLEAN : BlobNoted(synced)

SelectStep ==
    \/ SelectFails
    \/ \E b \in BOOLEAN : Select(b) \/ SelectFence(b) \/ SelectSave(b)

LocalStep == (\E k \in Own : LocalWrite(k)) \/ (\E h \in LocalHash : LocalBlob(h))

\* Every step is a worker's, one of the operation that holds the lock, the
\* user's or a power loss (SharingNext).
LEMMA StepCases ==
    ASSUME [SharingNext]_sharingVars
    PROVE  \/ \E w \in Worker : WorkerStep(w)
           \/ ReceiptStep \/ SelectStep \/ LocalStep \/ PowerLoss
           \/ UNCHANGED sharingVars
  BY DEF SharingNext, WorkerStep, ReceiptStep, SelectStep, LocalStep

\* A worker's step keeps the types.
LEMMA WorkerStepType ==
    ASSUME TypeOK, ScopeInv, NEW w \in Worker, WorkerStep(w)
    PROVE  TypeOK'
  <1>0. worker[w] \in WorkerType
    BY DEF TypeOK
  <1>1. ASSUME NEW backfill \in BOOLEAN, NEW synced \in BOOLEAN, CreateScope(w, backfill, synced)
        PROVE  TypeOK'
    <2> DEFINE s == FirstScope(IF backfill THEN {} ELSE Present)
    <2>1. s \in ScopeType /\ s.excluded \subseteq Key
      BY DEF FirstScope, ScopeType, Present
    <2>2. scope' \in Opt(ScopeType) /\ scopeSafe' \in Opt(ScopeType)
      BY <1>1, <2>1, OptFacts DEF CreateScope, TypeOK
    <2>3. granted' \subseteq Hash /\ kept' \subseteq Key
      BY <1>1, <2>1, RefsType DEF CreateScope, TypeOK, Key
    <2>4. worker' \in [Worker -> WorkerType]
      BY <1>1, SnapshotTypes DEF CreateScope, TypeOK
    <2> QED BY <1>1, <2>2, <2>3, <2>4 DEF CreateScope, TypeOK, chainVars
  <1>2. CASE BindWorker(w)
    <2>1. scope[1].revision \in Nat
      BY <1>2, OptFacts, ZenonT(30) DEF BindWorker, TypeOK, ScopeType
    <2>2. worker' \in [Worker -> WorkerType]
      BY <1>2, <2>1, SnapshotTypes DEF BindWorker, TypeOK
    <2> QED BY <1>2, <2>2 DEF BindWorker, TypeOK, chainVars, policyVars, historyVars
  <1>3. CASE CloseWorker(w)
    <2>1. worker' \in [Worker -> WorkerType]
      BY <1>3, SnapshotTypes DEF CloseWorker, TypeOK
    <2> QED BY <1>3, <2>1 DEF CloseWorker, TypeOK, chainVars, policyVars, historyVars
  <1>4. ASSUME NEW receiving \in BOOLEAN, TakeSnapshot(w, receiving)
        PROVE  TypeOK'
    <2>1. \A b \in BOOLEAN : snapshot_for(b) \in SnapshotType
      BY <1>4, SnapshotForType DEF TakeSnapshot, ScopeInv
    <2>2. worker' \in [Worker -> WorkerType]
      <3>1. ASSUME NEW snap \in SnapshotType
            PROVE  /\ [worker EXCEPT ![w].local = snap] \in [Worker -> WorkerType]
                   /\ [worker EXCEPT ![w].offers = snap] \in [Worker -> WorkerType]
        BY <1>0 DEF TypeOK, WorkerType
      <3> QED BY <1>4, <2>1, <3>1 DEF TakeSnapshot
    <2> QED BY <1>4, <2>2 DEF TakeSnapshot, TypeOK, policyVars, historyVars, Present
  <1>5. ASSUME NEW batch \in SUBSET Key, Ingest(w, batch) \/ IngestSaveFails(w, batch)
        PROVE  TypeOK'
    <2>1. ledger(batch) \in ScopeType
      BY <1>5, ScopeTypes DEF Ingest, IngestSaveFails, Receives, ScopeInv
    <2>2. scope' \in Opt(ScopeType) /\ scopeSafe' \in Opt(ScopeType)
      BY <1>5, <2>1, OptFacts, SMT DEF Ingest, IngestSaveFails, TypeOK
    <2>3. worker' \in [Worker -> WorkerType]
      BY <1>5, SnapshotTypes DEF Ingest, IngestSaveFails, TypeOK
    <2>4. job' \in {NoJob} \cup IngestType \cup BlobType \cup SelectType
      <3>1. ASSUME NEW known \in BOOLEAN
            PROVE  [kind |-> "ingest", w |-> w, batch |-> batch, page |-> batch \ Present,
                    known |-> known] \in IngestType
        BY DEF IngestType
      <3>2. (batch \cap Present # {}) \in BOOLEAN
        OBVIOUS
      <3>3. CASE Ingest(w, batch)
        BY <3>1, <3>2, <3>3 DEF Ingest
      <3>4. CASE IngestSaveFails(w, batch)
        BY <3>4 DEF IngestSaveFails, TypeOK
      <3> QED BY <1>5, <3>3, <3>4
    <2>5. UNCHANGED <<first, segment, safe, blobs, fence, fenceSafe, wrote, kept, granted, acked>>
      BY <1>5 DEF Ingest, IngestSaveFails, chainVars
    <2>6. supplied' \subseteq Key
      BY <1>5 DEF Ingest, IngestSaveFails, TypeOK
    <2> QED BY <2>2, <2>3, <2>4, <2>5, <2>6 DEF TypeOK
  <1>6. ASSUME NEW k \in Key, NEW h \in Hash, IngestBlob(w, k, h) \/ ConfirmBlob(w, k, h)
        PROVE  TypeOK'
    <2>1. job' \in {NoJob} \cup IngestType \cup BlobType \cup SelectType
      BY <1>6, SMT DEF IngestBlob, ConfirmBlob, StoresBlob, BlobType
    <2>2. blobs' \subseteq Hash /\ granted' \subseteq Hash
      BY <1>6 DEF IngestBlob, ConfirmBlob, StoresBlob, TypeOK
    <2>3. UNCHANGED <<first, segment, safe, scope, scopeSafe, fence, fenceSafe, worker, wrote, kept,
                      supplied, acked>>
      BY <1>6 DEF IngestBlob, ConfirmBlob, StoresBlob, policyVars
    <2> QED BY <2>1, <2>2, <2>3 DEF TypeOK
  <1> QED BY <1>1, <1>2, <1>3, <1>4, <1>5, <1>6 DEF WorkerStep

\* A step of a receipt keeps the types.
LEMMA ReceiptStepType ==
    ASSUME TypeOK, ScopeInv, ReceiptStep
    PROVE  TypeOK'
  <1>1. CASE IngestAppend
    <2>1. job \in IngestType
      BY <1>1, SMT DEF IngestAppend, TypeOK, BlobType, SelectType, NoJob
    <2>2. PICK at \in Places : Appended(job.page, at)
      BY <1>1 DEF IngestAppend
    <2>3. first' \in [Key -> Nat] /\ segment' \in Nat \ {0}
      BY <2>1, <2>2, AppendedType DEF IngestType
    <2>4. job' \in IngestType
      BY <1>1, <2>1 DEF IngestAppend, IngestType
    <2>5. safe' \subseteq Key
      BY <1>1, <2>1 DEF IngestAppend, IngestType, TypeOK
    <2> QED BY <1>1, <2>3, <2>4, <2>5 DEF IngestAppend, TypeOK, policyVars, historyVars
  <1>2. CASE IngestReturn
    <2>1. job \in IngestType
      BY <1>2, SMT DEF IngestReturn, TypeOK, BlobType, SelectType, NoJob
    <2>2. scope[1] \in ScopeType
      BY <2>1, OptFacts, SMT DEF TypeOK, ScopeInv, Free, NoJob, IngestType
    <2>3. worker' \in [Worker -> WorkerType]
      <3>1. job.w \in Worker /\ worker[job.w] \in WorkerType /\ job.batch \subseteq Key
        BY <2>1 DEF IngestType, TypeOK
      <3>2. worker[job.w].local \in SnapshotType
        BY <3>1 DEF WorkerType
      <3>3. ASSUME NEW recs \in SUBSET Key, NEW received \in SUBSET Key, NEW rb \in SUBSET Hash
            PROVE  [worker[job.w].local EXCEPT !.recs = recs, !.received = received,
                                               !.received_blobs = rb] \in SnapshotType
        BY <3>2 DEF SnapshotType
      <3>4. worker[job.w].local.recs \cup job.batch \in SUBSET Key
              /\ scope[1].received \in SUBSET Key /\ scope[1].received_blobs \in SUBSET Hash
        BY <2>2, <3>1, <3>2 DEF SnapshotType, ScopeType
      <3>5. ASSUME NEW snap \in SnapshotType
            PROVE  [worker EXCEPT ![job.w].local = snap] \in [Worker -> WorkerType]
        BY <3>1 DEF TypeOK, WorkerType
      <3> QED BY <1>2, <3>3, <3>4, <3>5 DEF IngestReturn, Returned
    <2>4. safe' \subseteq Key /\ acked' \subseteq Key
      BY <1>2, <2>1 DEF IngestReturn, Returned, IngestType, TypeOK, Present
    <2> QED BY <1>2, <2>3, <2>4 DEF IngestReturn, Returned, TypeOK, policyVars
  <1>3. CASE ReceiptFails
    <2>1. job.w \in Worker
      BY <1>3, SMT DEF ReceiptFails, TypeOK, IngestType, BlobType, SelectType, NoJob
    <2>2. first' \in [Key -> Nat] /\ segment' \in Nat \ {0}
      <3>1. CASE UNCHANGED <<first, segment>>
        BY <3>1 DEF TypeOK
      <3>2. CASE job.kind = "ingest" /\ \E some \in SUBSET job.page \ {{}}, at \in Places : Appended(some, at)
        <4>1. job.page \subseteq Key
          BY <3>2, SMT DEF TypeOK, IngestType, BlobType, SelectType, NoJob
        <4>2. PICK some \in SUBSET Key, at \in Places : Appended(some, at)
          BY <3>2, <4>1
        <4> QED BY <4>2, AppendedType
      <3> QED BY <1>3, <3>1, <3>2 DEF ReceiptFails
    <2>3. worker' \in [Worker -> WorkerType]
      BY <1>3, <2>1, SnapshotTypes DEF ReceiptFails, TypeOK
    <2> QED BY <1>3, <2>2, <2>3 DEF ReceiptFails, TypeOK, policyVars, historyVars
  <1>4. ASSUME NEW synced \in BOOLEAN, BlobNoted(synced)
        PROVE  TypeOK'
    <2>1. job.w \in Worker /\ job.hash \in Hash /\ ~Free
      BY <1>4, SMT DEF BlobNoted, TypeOK, IngestType, BlobType, SelectType, NoJob, Free
    <2>2. [scope[1] EXCEPT !.received_blobs = @ \cup {job.hash}] \in ScopeType
      BY <2>1, ScopeTypes DEF ScopeInv
    <2>3. scope' \in Opt(ScopeType) /\ scopeSafe' \in Opt(ScopeType)
      BY <1>4, <2>2, OptFacts DEF BlobNoted, TypeOK
    <2>4. worker' \in [Worker -> WorkerType]
      BY <1>4, <2>1, SnapshotTypes DEF BlobNoted, TypeOK
    <2> QED BY <1>4, <2>3, <2>4 DEF BlobNoted, TypeOK, chainVars, historyVars
  <1> QED BY <1>1, <1>2, <1>3, <1>4 DEF ReceiptStep

\* A step of a selection keeps the types.
LEMMA SelectStepType ==
    ASSUME TypeOK, ScopeInv, SelectStep
    PROVE  TypeOK'
  <1>1. CASE SelectFails
    BY <1>1 DEF SelectFails, TypeOK, chainVars, policyVars, historyVars
  <1>2. ASSUME NEW backfill \in BOOLEAN, Select(backfill)
        PROVE  TypeOK'
    <2>1. segment' \in Nat \ {0}
      BY <1>2, SMT DEF Select, TypeOK
    <2>2. job' \in SelectType
      BY <1>2, <2>1 DEF Select, SelectType
    <2> QED BY <1>2, <2>1, <2>2 DEF Select, TypeOK, policyVars, historyVars
  <1>3. ASSUME NEW synced \in BOOLEAN, SelectFence(synced)
        PROVE  TypeOK'
    <2>1. job \in SelectType /\ ~Free
      BY <1>3, SMT DEF SelectFence, TypeOK, IngestType, BlobType, NoJob, Free
    <2>2. scope[1].revision + 1 \in Nat
      BY <2>1, ScopeTypes, SMT DEF ScopeInv, ScopeType
    <2>3. fence' \in Opt(Nat) /\ fenceSafe' \in Opt(Nat)
      BY <1>3, <2>2, OptFacts DEF SelectFence, TypeOK
    <2>4. job' \in {NoJob} \cup SelectType
      BY <1>3, <2>1 DEF SelectFence, SelectType
    <2> QED BY <1>3, <2>3, <2>4 DEF SelectFence, TypeOK, chainVars, historyVars
  <1>4. ASSUME NEW synced \in BOOLEAN, SelectSave(synced)
        PROVE  TypeOK'
    <2>1. job.cutoff \in Nat /\ ~Free
      BY <1>4, SMT DEF SelectSave, TypeOK, IngestType, BlobType, SelectType, NoJob, Free
    <2>2. select(scope[1], job.cutoff) \in ScopeType
      BY <2>1, ScopeTypes DEF ScopeInv
    <2>3. scope' \in Opt(ScopeType) /\ scopeSafe' \in Opt(ScopeType)
      BY <1>4, <2>2, OptFacts DEF SelectSave, TypeOK
    <2>4. kept' \subseteq Key /\ granted' \subseteq Hash
      BY <1>4, RefsType DEF SelectSave, TypeOK, Key, Present
    <2> QED BY <1>4, <2>3, <2>4 DEF SelectSave, TypeOK, chainVars
  <1> QED BY <1>1, <1>2, <1>3, <1>4 DEF SelectStep

\* The user's steps, a power loss and stuttering keep the types.
LEMMA OtherStepType ==
    ASSUME TypeOK, LocalStep \/ PowerLoss \/ UNCHANGED sharingVars
    PROVE  TypeOK'
  <1>1. ASSUME NEW k \in Own, LocalWrite(k)
        PROVE  TypeOK'
    <2>1. first' \in [Key -> Nat] /\ segment' \in Nat \ {0}
      BY <1>1, AppendedType DEF LocalWrite, Key
    <2>2. granted' \subseteq Hash
      BY <1>1, SharingAssumption DEF LocalWrite, TypeOK
    <2>3. safe' \subseteq Key /\ wrote' \subseteq Own
      BY <1>1 DEF LocalWrite, TypeOK, Key
    <2> QED BY <1>1, <2>1, <2>2, <2>3 DEF LocalWrite, TypeOK, policyVars
  <1>2. CASE \E h \in LocalHash : LocalBlob(h)
    BY <1>2, SharingAssumption DEF LocalBlob, TypeOK, policyVars, historyVars
  <1>3. CASE PowerLoss
    <2>1. worker' \in [Worker -> WorkerType]
      BY <1>3, SnapshotTypes DEF PowerLoss
    <2>2. first' \in [Key -> Nat] /\ safe' \subseteq Key /\ kept' \subseteq Key
      BY <1>3, SMT DEF PowerLoss, TypeOK, Present
    <2>3. /\ scope' \in Opt(ScopeType) /\ scopeSafe' \in Opt(ScopeType)
          /\ fence' \in Opt(Nat) /\ fenceSafe' \in Opt(Nat)
      BY <1>3 DEF PowerLoss, TypeOK
    <2> QED BY <1>3, <2>1, <2>2, <2>3 DEF PowerLoss, TypeOK
  <1>4. CASE UNCHANGED sharingVars
    BY <1>4 DEF sharingVars, TypeOK, chainVars, policyVars, historyVars
  <1> QED BY <1>1, <1>2, <1>3, <1>4 DEF LocalStep

\* Every step keeps the types.
LEMMA TypeStep ==
    ASSUME TypeOK, ScopeInv, [SharingNext]_sharingVars
    PROVE  TypeOK'
  BY StepCases, WorkerStepType, ReceiptStepType, SelectStepType, OtherStepType
-----------------------------------------------------------------------------
(* A ledger for whoever needs one.                                         *)

\* Every step keeps it.
LEMMA ScopeStep ==
    ASSUME TypeOK, ScopeInv, [SharingNext]_sharingVars
    PROVE  ScopeInv'
  <1>1. ASSUME NEW w \in Worker, WorkerStep(w)
        PROVE  ScopeInv'
    <2>1. ASSUME NEW backfill \in BOOLEAN, NEW synced \in BOOLEAN, CreateScope(w, backfill, synced)
          PROVE  ScopeInv'
      BY <2>1, SomeFacts DEF CreateScope, ScopeInv
    <2>2. CASE BindWorker(w)
      BY <2>2 DEF BindWorker, ScopeInv, Free, policyVars
    <2>3. CASE CloseWorker(w)
      BY <2>3 DEF CloseWorker, ScopeInv, Free, policyVars, TypeOK, Closed
    <2>4. ASSUME NEW receiving \in BOOLEAN, TakeSnapshot(w, receiving)
          PROVE  ScopeInv'
      BY <2>4 DEF TakeSnapshot, ScopeInv, Free, policyVars, TypeOK
    <2>5. ASSUME NEW batch \in SUBSET Key, Ingest(w, batch) \/ IngestSaveFails(w, batch)
          PROVE  ScopeInv'
      <3>1. scope # None /\ scope' # None
        BY <2>5, SomeFacts DEF Ingest, IngestSaveFails, Receives, ScopeInv
      <3> QED BY <3>1 DEF ScopeInv
    <2>6. ASSUME NEW k \in Key, NEW h \in Hash, IngestBlob(w, k, h) \/ ConfirmBlob(w, k, h)
          PROVE  ScopeInv'
      BY <2>6 DEF IngestBlob, ConfirmBlob, StoresBlob, ScopeInv, policyVars
    <2> QED BY <1>1, <2>1, <2>2, <2>3, <2>4, <2>5, <2>6 DEF WorkerStep
  <1>2. CASE ReceiptStep
    <2>1. scope # None
      BY <1>2, SMT DEF ReceiptStep, IngestAppend, IngestReturn, ReceiptFails, BlobNoted, ScopeInv, Free, NoJob
    <2>2. scope' # None
      BY <1>2, <2>1, SomeFacts DEF ReceiptStep, IngestAppend, IngestReturn, Returned, ReceiptFails,
                                   BlobNoted, policyVars
    <2> QED BY <2>2 DEF ScopeInv
  <1>3. CASE SelectStep
    <2>1. scope # None
      BY <1>3, SMT DEF SelectStep, Select, SelectFence, SelectSave, SelectFails, ScopeInv, Free, NoJob
    <2>2. scope' # None
      BY <1>3, <2>1, SomeFacts DEF SelectStep, Select, SelectFence, SelectSave, SelectFails, policyVars
    <2> QED BY <2>2 DEF ScopeInv
  <1>4. CASE LocalStep
    BY <1>4 DEF LocalStep, LocalWrite, LocalBlob, ScopeInv, Free, policyVars
  <1>5. CASE PowerLoss
    BY <1>5 DEF PowerLoss, ScopeInv, Free, Closed
  <1>6. CASE UNCHANGED sharingVars
    BY <1>6 DEF sharingVars, ScopeInv, Free, policyVars
  <1> QED BY <1>1, <1>2, <1>3, <1>4, <1>5, <1>6, StepCases
-----------------------------------------------------------------------------
(* Durability.                                                             *)

\* Steps that leave the chain as it is, or only sync it, and neither begin nor
\* continue a receipt.
ChainLeft ==
    /\ UNCHANGED <<first, wrote, acked>>
    /\ segment <= segment' /\ safe' \in {safe, Present}
    /\ job' = job \/ job'.kind # "ingest"
    /\ \A v \in Worker : worker'[v].offers.recs \subseteq safe'

\* Such a step keeps what is durable.
LEMMA ChainLeftDurable ==
    ASSUME TypeOK, TypeOK', DurableInv, ChainLeft
    PROVE  DurableInv'
  <1>1. safe \subseteq safe' /\ safe' \subseteq Present /\ Present' = Present
    BY DEF ChainLeft, DurableInv, Present
  <1>2. \A k \in Key : first'[k] <= segment'
    BY SMT DEF ChainLeft, DurableInv, TypeOK
  <1>3. job'.kind = "ingest" => job' = job
    BY DEF ChainLeft
  <1> QED BY <1>1, <1>2, <1>3 DEF ChainLeft, DurableInv

\* A worker's step keeps what is durable; a batch begins with all its own
\* records safe.
LEMMA WorkerStepDurable ==
    ASSUME TypeOK, TypeOK', DurableInv, NEW w \in Worker, WorkerStep(w)
    PROVE  DurableInv'
  <1>0. /\ \A v \in Worker : worker[v].offers.recs \subseteq safe
        /\ Closed.offers.recs = {} /\ \A r : Bound(r).offers.recs = {}
        /\ segment <= segment
    BY SMT DEF DurableInv, Closed, Bound, NoSnapshot, TypeOK
  <1>1. ASSUME NEW backfill \in BOOLEAN, NEW synced \in BOOLEAN, CreateScope(w, backfill, synced)
        PROVE  ChainLeft
    BY <1>0, <1>1 DEF CreateScope, ChainLeft, chainVars, TypeOK
  <1>2. ASSUME BindWorker(w)
        PROVE  ChainLeft
    BY <1>0, <1>2 DEF BindWorker, ChainLeft, chainVars, historyVars, TypeOK
  <1>3. ASSUME CloseWorker(w)
        PROVE  ChainLeft
    BY <1>0, <1>3 DEF CloseWorker, ChainLeft, chainVars, historyVars, TypeOK
  <1>4. ASSUME NEW receiving \in BOOLEAN, TakeSnapshot(w, receiving)
        PROVE  ChainLeft
    <2>1. ASSUME NEW v \in Worker
          PROVE  worker'[v].offers.recs \subseteq Present
      <3>1. worker[v].offers.recs \subseteq Present
        BY <1>0 DEF DurableInv
      <3>2. snapshot_for(FALSE).recs \subseteq Present
        BY DEF snapshot_for
      <3>3. worker'[v].offers = worker[v].offers \/ worker'[v].offers = snapshot_for(FALSE)
        BY <1>4, ZenonT(30) DEF TakeSnapshot, TypeOK, WorkerType
      <3> QED BY <3>1, <3>2, <3>3
    <2> QED BY <1>0, <1>4, <2>1 DEF TakeSnapshot, ChainLeft, historyVars
  <1>5. ASSUME NEW batch \in SUBSET Key, Ingest(w, batch)
        PROVE  DurableInv'
    <2>1. /\ UNCHANGED <<first, segment, safe, worker, wrote, acked>>
          /\ Present' = Present
      BY <1>5 DEF Ingest, chainVars, Present
    <2>2. /\ job'.page = batch \ Present /\ job'.batch = batch
          /\ batch \subseteq Foreign \cup wrote
      BY <1>5 DEF Ingest, Receives
    <2>3. ~job'.known => batch \cap Present = {}
      BY <1>5 DEF Ingest
    <2> QED BY <2>1, <2>2, <2>3 DEF DurableInv
  <1>6. ASSUME NEW batch \in SUBSET Key, IngestSaveFails(w, batch)
        PROVE  ChainLeft
    BY <1>0, <1>6 DEF IngestSaveFails, ChainLeft, chainVars, TypeOK
  <1>7. ASSUME NEW k \in Key, NEW h \in Hash, IngestBlob(w, k, h) \/ ConfirmBlob(w, k, h)
        PROVE  ChainLeft
    BY <1>0, <1>7, SMT DEF IngestBlob, ConfirmBlob, StoresBlob, ChainLeft
  <1> QED BY <1>1, <1>2, <1>3, <1>4, <1>5, <1>6, <1>7, ChainLeftDurable DEF WorkerStep

\* Appending adds the records and leaves those that were there in their place.
LEMMA AppendedPresent ==
    ASSUME TypeOK, DurableInv, NEW keys \in SUBSET Key, NEW at \in Places, Appended(keys, at)
    PROVE  /\ Present' = Present \cup keys
           /\ \A k \in Present : first'[k] = first[k]
           /\ \A k \in Key : first'[k] <= segment'
           /\ segment <= segment'
  <1>1. /\ first' \in [Key -> Nat] /\ segment' \in Nat \ {0}
        /\ segment <= segment'
        /\ \A k \in Key : first'[k] = IF k \in keys /\ first[k] = 0 THEN segment' ELSE first[k]
    BY AppendedType
  <1>2. \A k \in Key : first[k] \in Nat /\ first[k] <= segment
    BY DEF TypeOK, DurableInv
  <1>3. segment \in Nat
    BY DEF TypeOK
  <1>4. \A k \in Present : first'[k] = first[k]
    BY <1>1, <1>2, SMT DEF Present
  <1>5. \A k \in Key : first'[k] <= segment'
    BY <1>1, <1>2, <1>3, SMT
  <1>6. \A k \in Key : first'[k] > 0 <=> (first[k] > 0 \/ k \in keys)
    BY <1>1, <1>2, SMT
  <1>7. Present' = Present \cup keys
    BY <1>6 DEF Present
  <1> QED BY <1>1, <1>4, <1>5, <1>7

\* The receipt in progress is of one kind.
LEMMA JobKinds ==
    ASSUME TypeOK
    PROVE  /\ job.kind = "ingest" => job \in IngestType
           /\ job.kind = "blob" => job \in BlobType
           /\ job.kind = "select" => job \in SelectType
           /\ job.kind = "none" => job = NoJob
  BY SMT DEF TypeOK, IngestType, BlobType, SelectType, NoJob

\* A step of a receipt keeps what is durable; it is returned when its batch is.
LEMMA ReceiptStepDurable ==
    ASSUME TypeOK, TypeOK', DurableInv, ReceiptStep
    PROVE  DurableInv'
  <1>0. /\ \A v \in Worker : worker[v].offers.recs \subseteq safe
        /\ Closed.offers.recs = {} /\ NoJob.kind = "none"
        /\ segment <= segment
    BY SMT DEF DurableInv, Closed, NoSnapshot, TypeOK, NoJob
  <1>1. CASE IngestAppend
    <2>1. job \in IngestType /\ job.page \subseteq Foreign /\ job.page \subseteq Key
      BY <1>1, JobKinds DEF IngestAppend, DurableInv, Key
    <2>2. PICK at \in Places : Appended(job.page, at)
      BY <1>1 DEF IngestAppend
    <2>3. Present' = Present \cup job.page /\ \A k \in Key : first'[k] <= segment'
      BY <2>1, <2>2, AppendedPresent
    <2>4. job.page \cap Own = {}
      BY <2>1, SharingAssumption
    <2>5. /\ safe' = safe \cup job.page
          /\ UNCHANGED <<worker, wrote, acked>>
      BY <1>1 DEF IngestAppend, historyVars
    <2>6. /\ wrote' \subseteq safe' /\ safe' \subseteq Present' /\ Present' \cap Own \subseteq wrote'
          /\ acked' \subseteq safe' /\ \A v \in Worker : worker'[v].offers.recs \subseteq safe'
      BY <2>3, <2>4, <2>5 DEF DurableInv
    <2>7. job'.page = {} /\ job'.batch = job.batch /\ job'.known = job.known
      BY <1>1, <2>1 DEF IngestAppend, IngestType
    <2>8. job.batch \subseteq Present' /\ (~job.known => job.batch \subseteq safe')
      BY <1>1, <2>3, <2>5 DEF DurableInv, IngestAppend
    <2> QED BY <2>3, <2>6, <2>7, <2>8 DEF DurableInv
  <1>2. CASE IngestReturn
    <2>1. job \in IngestType /\ job.w \in Worker
      BY <1>2, JobKinds DEF IngestReturn, IngestType
    <2>2. /\ UNCHANGED <<first, segment, wrote>>
          /\ job' = NoJob /\ safe' = (IF job.known THEN Present ELSE safe)
          /\ acked' = acked \cup job.batch /\ Present' = Present
      BY <1>2 DEF IngestReturn, Returned, Present
    <2>3. safe \subseteq safe' /\ safe' \subseteq Present
      BY <2>2 DEF DurableInv
    <2>4. job.batch \subseteq safe'
      BY <1>2, <2>2 DEF DurableInv, IngestReturn
    <2>5. \A v \in Worker : worker'[v].offers = worker[v].offers
      BY <1>2, <2>1, SMT DEF IngestReturn, Returned, TypeOK, WorkerType
    <2> QED BY <1>0, <2>2, <2>3, <2>4, <2>5 DEF DurableInv
  <1>3. CASE ReceiptFails
    <2>1. job.w \in Worker
      BY <1>3, JobKinds DEF ReceiptFails, IngestType, BlobType
    <2>2. /\ UNCHANGED <<safe, wrote, acked>> /\ job' = NoJob
          /\ worker' = [worker EXCEPT ![job.w] = Closed]
      BY <1>3 DEF ReceiptFails, historyVars
    <2>3. \A v \in Worker : worker'[v].offers.recs \subseteq safe'
      BY <1>0, <2>1, <2>2 DEF TypeOK
    <2>4. CASE UNCHANGED <<first, segment>>
      BY <1>0, <2>2, <2>3, <2>4 DEF DurableInv, Present
    <2>5. CASE job.kind = "ingest" /\ \E some \in SUBSET job.page \ {{}}, at \in Places : Appended(some, at)
      <3>1. job.page \subseteq Foreign
        BY <2>5 DEF DurableInv
      <3>2. PICK some \in SUBSET Foreign, at \in Places : Appended(some, at)
        BY <2>5, <3>1
      <3>3. some \subseteq Key /\ some \cap Own = {}
        BY SharingAssumption DEF Key
      <3>4. Present' = Present \cup some /\ \A k \in Key : first'[k] <= segment'
        BY <3>2, <3>3, AppendedPresent
      <3> QED BY <1>0, <2>2, <2>3, <3>3, <3>4 DEF DurableInv
    <2> QED BY <1>3, <2>4, <2>5 DEF ReceiptFails
  <1>4. ASSUME NEW synced \in BOOLEAN, BlobNoted(synced)
        PROVE  ChainLeft
    <2>1. job.w \in Worker
      BY <1>4, JobKinds DEF BlobNoted, BlobType
    <2> QED BY <1>0, <1>4, <2>1 DEF BlobNoted, ChainLeft, chainVars, historyVars, TypeOK
  <1> QED BY <1>1, <1>2, <1>3, <1>4, ChainLeftDurable DEF ReceiptStep

\* Selections, the user's work and power losses keep what is durable.
LEMMA OtherStepDurable ==
    ASSUME TypeOK, TypeOK', DurableInv,
           SelectStep \/ LocalStep \/ PowerLoss \/ UNCHANGED sharingVars
    PROVE  DurableInv'
  <1>0. /\ \A v \in Worker : worker[v].offers.recs \subseteq safe
        /\ Closed.offers.recs = {} /\ NoJob.kind = "none"
        /\ segment <= segment
    BY SMT DEF DurableInv, Closed, NoSnapshot, TypeOK, NoJob
  <1>1. ASSUME SelectStep
        PROVE  ChainLeft
    <2>1. /\ UNCHANGED <<first, safe, worker, wrote, acked>>
          /\ job'.kind # "ingest"
      <3>1. CASE SelectFails \/ \E b \in BOOLEAN : Select(b) \/ SelectSave(b)
        BY <1>0, <3>1, SMT DEF Select, SelectSave, SelectFails, chainVars, historyVars
      <3>2. CASE \E b \in BOOLEAN : SelectFence(b)
        <4>1. [job EXCEPT !.fenced = TRUE].kind # "ingest"
          BY <3>2, JobKinds DEF SelectFence, SelectType
        <4> QED BY <1>0, <3>2, <4>1 DEF SelectFence, chainVars, historyVars
      <3> QED BY <1>1, <3>1, <3>2 DEF SelectStep
    <2>2. segment <= segment'
      BY <1>0, <1>1, SMT DEF SelectStep, Select, SelectFence, SelectSave, SelectFails, chainVars, TypeOK
    <2> QED BY <1>0, <2>1, <2>2 DEF ChainLeft
  <1>2. ASSUME NEW k \in Own, LocalWrite(k)
        PROVE  DurableInv'
    <2>1. PICK at \in Places : Appended({k}, at)
      BY <1>2 DEF LocalWrite
    <2>2. Present' = Present \cup {k} /\ \A l \in Key : first'[l] <= segment'
      BY <2>1, AppendedPresent DEF Key
    <2>3. /\ safe' = safe \cup {k} /\ wrote' = wrote \cup {k}
          /\ UNCHANGED <<worker, job, acked>> /\ job.kind = "none"
      BY <1>0, <1>2 DEF LocalWrite, Free
    <2> QED BY <2>2, <2>3 DEF DurableInv
  <1>3. ASSUME NEW h \in LocalHash, LocalBlob(h)
        PROVE  ChainLeft
    BY <1>0, <1>3 DEF LocalBlob, ChainLeft, historyVars
  <1>4. CASE PowerLoss
    <2>1. PICK lost \in SUBSET (Present \ safe) :
            /\ first' = [k \in Key |-> IF k \in lost THEN 0 ELSE first[k]]
            /\ safe' = Present \ lost
      BY <1>4 DEF PowerLoss
    <2>2. \A k \in Key : first'[k] > 0 <=> (first[k] > 0 /\ k \notin lost)
      BY <2>1, SMT DEF TypeOK
    <2>3. Present' = Present \ lost
      BY <2>2 DEF Present
    <2>4. \A k \in Key : first'[k] <= segment'
      BY <1>4, <2>1, SMT DEF PowerLoss, DurableInv, TypeOK
    <2>5. /\ UNCHANGED <<wrote, acked>> /\ job'.kind = "none"
          /\ \A v \in Worker : worker'[v].offers.recs = {}
      BY <1>0, <1>4 DEF PowerLoss
    <2>6. safe \subseteq safe'
      BY <2>1 DEF DurableInv
    <2> QED BY <2>1, <2>3, <2>4, <2>5, <2>6 DEF DurableInv
  <1>5. ASSUME UNCHANGED sharingVars
        PROVE  ChainLeft
    BY <1>0, <1>5 DEF sharingVars, ChainLeft, chainVars, historyVars
  <1> QED BY <1>1, <1>2, <1>3, <1>4, <1>5, ChainLeftDurable DEF LocalStep

\* Every step keeps what is durable.
LEMMA DurableStep ==
    ASSUME TypeOK, ScopeInv, DurableInv, [SharingNext]_sharingVars
    PROVE  DurableInv'
  BY StepCases, TypeStep, WorkerStepDurable, ReceiptStepDurable, OtherStepDurable
-----------------------------------------------------------------------------
(* Provenance.                                                             *)

\* What Accounts says of a ledger after a step.
AccountsNext(sc) ==
    /\ Present' \cap Foreign \subseteq Received(sc)
    /\ job'.kind = "ingest" => job'.page \subseteq Received(sc)
    /\ sc # None =>
         /\ sc[1].local \subseteq wrote' /\ sc[1].excluded \subseteq wrote'
         /\ sc[1].revision # 0 => sc[1].excluded = {}

\* Steps that bring in no record but those of the receipt in progress, and
\* begin none.
Carries ==
    /\ Present' \cap Foreign \subseteq Present \cup (IF job.kind = "ingest" THEN job.page ELSE {})
    /\ job'.kind = "ingest" => job.kind = "ingest" /\ job'.page \subseteq job.page
    /\ wrote \subseteq wrote'

\* After such a step a ledger accounts for what it accounted for.
LEMMA CarriesAccounts ==
    ASSUME NEW sc, Accounts(sc), Carries
    PROVE  AccountsNext(sc)
  BY DEF Accounts, AccountsNext, Carries

\* All steps but the begin of a receipt are of that kind.
LEMMA CarriesStep ==
    ASSUME TypeOK, DurableInv,
           \/ \E w \in Worker : WorkerStep(w)
           \/ ReceiptStep \/ SelectStep \/ LocalStep \/ PowerLoss \/ UNCHANGED sharingVars
    PROVE  Carries \/ \E w \in Worker, batch \in SUBSET Key : Ingest(w, batch)
  <1>0. NoJob.kind = "none"
    BY DEF NoJob
  <1>1. ASSUME NEW w \in Worker, WorkerStep(w), ~\E batch \in SUBSET Key : Ingest(w, batch)
        PROVE  Carries
    <2>1. UNCHANGED <<first, wrote>> /\ Present' = Present
      BY <1>1 DEF WorkerStep, CreateScope, BindWorker, CloseWorker, TakeSnapshot, IngestSaveFails,
                  IngestBlob, ConfirmBlob, StoresBlob, chainVars, historyVars, Present
    <2>2. job' = job \/ job'.kind = "blob"
      <3>1. CASE \E k \in Key, h \in Hash : IngestBlob(w, k, h) \/ ConfirmBlob(w, k, h)
        BY <3>1, SMT DEF IngestBlob, ConfirmBlob, StoresBlob
      <3>2. CASE ~\E k \in Key, h \in Hash : IngestBlob(w, k, h) \/ ConfirmBlob(w, k, h)
        BY <1>1, <3>2 DEF WorkerStep, CreateScope, BindWorker, CloseWorker, TakeSnapshot,
                          IngestSaveFails
      <3> QED BY <3>1, <3>2
    <2> QED BY <2>1, <2>2 DEF Carries
  <1>2. ASSUME ReceiptStep
        PROVE  Carries
    <2>1. CASE IngestAppend
      <3>1. job \in IngestType
        BY <2>1, JobKinds DEF IngestAppend
      <3>2. Present' = Present \cup job.page
        BY <2>1, <3>1, AppendedPresent DEF IngestAppend, IngestType
      <3>3. job'.page = {} /\ UNCHANGED wrote
        BY <2>1, <3>1 DEF IngestAppend, IngestType, historyVars
      <3> QED BY <2>1, <3>2, <3>3 DEF Carries, IngestAppend
    <2>2. CASE IngestReturn \/ \E synced \in BOOLEAN : BlobNoted(synced)
      BY <1>0, <2>2 DEF IngestReturn, Returned, BlobNoted, Carries, chainVars, historyVars, Present
    <2>3. CASE ReceiptFails
      <3>1. job'.kind = "none" /\ UNCHANGED wrote
        BY <1>0, <2>3 DEF ReceiptFails, historyVars
      <3>2. CASE UNCHANGED <<first, segment>>
        BY <3>1, <3>2 DEF Carries, Present
      <3>3. CASE job.kind = "ingest" /\ \E some \in SUBSET job.page \ {{}}, at \in Places : Appended(some, at)
        <4>1. PICK some \in SUBSET job.page, at \in Places : Appended(some, at)
          BY <3>3
        <4>2. job.page \subseteq Key
          BY <3>3, JobKinds DEF IngestType
        <4>3. Present' = Present \cup some
          BY <4>1, <4>2, AppendedPresent
        <4> QED BY <3>1, <3>3, <4>3 DEF Carries
      <3> QED BY <2>3, <3>2, <3>3 DEF ReceiptFails
    <2> QED BY <1>2, <2>1, <2>2, <2>3 DEF ReceiptStep
  <1>3. ASSUME SelectStep
        PROVE  Carries
    <2>1. UNCHANGED <<first, wrote>> /\ Present' = Present
      BY <1>3 DEF SelectStep, Select, SelectFence, SelectSave, SelectFails, chainVars, historyVars,
                  Present
    <2>2. job'.kind # "ingest"
      <3>1. CASE SelectFails \/ \E b \in BOOLEAN : Select(b) \/ SelectSave(b)
        BY <1>0, <3>1, SMT DEF Select, SelectSave, SelectFails
      <3>2. CASE \E b \in BOOLEAN : SelectFence(b)
        <4>1. [job EXCEPT !.fenced = TRUE].kind # "ingest"
          BY <3>2, JobKinds DEF SelectFence, SelectType
        <4> QED BY <1>0, <3>2, <4>1 DEF SelectFence
      <3> QED BY <1>3, <3>1, <3>2 DEF SelectStep
    <2> QED BY <2>1, <2>2 DEF Carries
  <1>4. ASSUME LocalStep
        PROVE  Carries
    <2>1. ASSUME NEW k \in Own, LocalWrite(k)
          PROVE  Carries
      <3>1. Present' = Present \cup {k}
        BY <2>1, AppendedPresent DEF LocalWrite, Key
      <3> QED BY <2>1, <3>1, SharingAssumption DEF LocalWrite, Carries
    <2>2. ASSUME NEW h \in LocalHash, LocalBlob(h)
          PROVE  Carries
      BY <2>2 DEF LocalBlob, Carries, historyVars, Present
    <2> QED BY <1>4, <2>1, <2>2 DEF LocalStep
  <1>5. ASSUME PowerLoss
        PROVE  Carries
    <2>1. \A k \in Key : first'[k] > 0 => first[k] > 0
      BY <1>5, SMT DEF PowerLoss, TypeOK
    <2>2. Present' \subseteq Present
      BY <2>1 DEF Present
    <2> QED BY <1>0, <1>5, <2>2 DEF PowerLoss, Carries
  <1>6. ASSUME UNCHANGED sharingVars
        PROVE  Carries
    BY <1>6 DEF sharingVars, Carries, chainVars, historyVars, Present
  <1> QED BY <1>1, <1>2, <1>3, <1>4, <1>5, <1>6

\* The ledger a receipt saves accounts for its batch.
LEMMA LedgerAccounts ==
    ASSUME TypeOK, DurableInv, Accounts(scope), scope # None, NEW batch \in SUBSET Key
    PROVE  /\ ledger(batch).received =
                scope[1].received \cup Echoed(batch) \cup (batch \ Present)
           /\ ledger(batch).excluded = scope[1].excluded \ batch
           /\ ledger(batch).received_blobs = scope[1].received_blobs
           /\ ledger(batch).revision = scope[1].revision
           /\ ledger(batch).cutoff = scope[1].cutoff
           /\ ledger(batch).local \subseteq wrote
  <1>1. scope[1] \in ScopeType
    BY ScopeTypes
  <1>2. /\ ledger(batch).received = scope[1].received \cup Echoed(batch) \cup (batch \ Present)
        /\ ledger(batch).excluded = scope[1].excluded \ batch
        /\ ledger(batch).received_blobs = scope[1].received_blobs
        /\ ledger(batch).revision = scope[1].revision
        /\ ledger(batch).cutoff = scope[1].cutoff
        /\ ledger(batch).local = scope[1].local \cup (Echoed(batch) \ scope[1].received)
    BY <1>1 DEF ledger, ScopeType
  <1>3. Echoed(batch) \ scope[1].received \subseteq wrote
    <2>1. ASSUME NEW k \in Echoed(batch), k \notin scope[1].received
          PROVE  k \in wrote
      <3>1. k \in scope[1].excluded \/ k \in Present
        BY DEF Echoed
      <3>2. CASE k \in scope[1].excluded
        BY <3>2 DEF Accounts
      <3>3. CASE k \in Present
        BY <2>1, <3>3 DEF Accounts, Received, DurableInv, Present, Key
      <3> QED BY <3>1, <3>2, <3>3
    <2> QED BY <2>1
  <1> QED BY <1>2, <1>3 DEF Accounts

\* Every step keeps the accounts of both ledgers.
LEMMA ProvenanceStep ==
    ASSUME TypeOK, ScopeInv, DurableInv, ProvenanceInv, [SharingNext]_sharingVars
    PROVE  ProvenanceInv'
  <1>0. SUFFICES AccountsNext(scope') /\ AccountsNext(scopeSafe')
    BY DEF ProvenanceInv, Accounts, AccountsNext, Received
  <1>1. Accounts(scope) /\ Accounts(scopeSafe)
    BY DEF ProvenanceInv
  <1>2. ASSUME NEW w \in Worker, NEW batch \in SUBSET Key, Ingest(w, batch)
        PROVE  AccountsNext(scope') /\ AccountsNext(scopeSafe')
    <2>1. /\ UNCHANGED <<first, wrote>> /\ Present' = Present
          /\ job'.page = batch \ Present /\ scope # None
      BY <1>2 DEF Ingest, Receives, chainVars, Present, ScopeInv
    <2>2. CASE scope' = Some(ledger(batch)) /\ scopeSafe' = scope'
      <3>1. scope'[1] = ledger(batch) /\ scope' # None
        BY <2>2, SomeFacts
      <3>2. AccountsNext(scope')
        BY <1>1, <2>1, <3>1, LedgerAccounts, SMT DEF AccountsNext, Received, Accounts
      <3> QED BY <2>2, <3>2
    <2>3. CASE batch \subseteq Present /\ UNCHANGED <<scope, scopeSafe>>
      BY <1>1, <2>1, <2>3 DEF AccountsNext, Accounts
    <2> QED BY <1>2, <2>2, <2>3 DEF Ingest
  <1>3. CASE Carries
    <2>0. AccountsNext(scope) /\ AccountsNext(scopeSafe)
      BY <1>1, <1>3, CarriesAccounts
    <2>1. ASSUME NEW w \in Worker, WorkerStep(w)
          PROVE  AccountsNext(scope') /\ AccountsNext(scopeSafe')
      <3>1. ASSUME NEW backfill \in BOOLEAN, NEW synced \in BOOLEAN, CreateScope(w, backfill, synced)
            PROVE  AccountsNext(scope') /\ AccountsNext(scopeSafe')
        <4> DEFINE s == FirstScope(IF backfill THEN {} ELSE Present)
        <4>1. Present \cap Foreign = {}
          BY <1>1, <3>1 DEF CreateScope, Accounts, Received
        <4>2. Present \subseteq wrote /\ Present' = Present /\ UNCHANGED <<wrote, job>>
          BY <3>1, <4>1 DEF CreateScope, DurableInv, Present, Key, chainVars
        <4>3. job.kind # "ingest"
          BY <3>1 DEF CreateScope, Free, NoJob
        <4>4. s.local = {} /\ s.excluded \subseteq Present /\ s.received = {} /\ s.revision = 0
          BY DEF FirstScope
        <4>5. AccountsNext(Some(s))
          BY <4>1, <4>2, <4>3, <4>4, SomeFacts DEF AccountsNext, Received
        <4> QED BY <2>0, <3>1, <4>5 DEF CreateScope
      <3>2. ASSUME NEW batch \in SUBSET Key, IngestSaveFails(w, batch)
            PROVE  AccountsNext(scope') /\ AccountsNext(scopeSafe')
        <4>1. /\ scope' = Some(ledger(batch)) /\ scope # None
              /\ UNCHANGED <<first, wrote, job, scopeSafe>> /\ Present' = Present
          BY <3>2 DEF IngestSaveFails, Receives, chainVars, Present, ScopeInv
        <4>2. scope'[1] = ledger(batch) /\ scope' # None
          BY <4>1, SomeFacts
        <4>3. AccountsNext(scope')
          BY <1>1, <4>1, <4>2, LedgerAccounts, SMT DEF AccountsNext, Received, Accounts
        <4> QED BY <2>0, <4>1, <4>3
      <3>3. ASSUME \/ BindWorker(w) \/ CloseWorker(w)
                   \/ \E receiving \in BOOLEAN : TakeSnapshot(w, receiving)
                   \/ \E k \in Key, h \in Hash : IngestBlob(w, k, h) \/ ConfirmBlob(w, k, h)
            PROVE  UNCHANGED <<scope, scopeSafe>>
        BY <3>3 DEF BindWorker, CloseWorker, TakeSnapshot, IngestBlob, ConfirmBlob, StoresBlob,
                    policyVars
      <3> QED BY <1>2, <2>0, <2>1, <3>1, <3>2, <3>3 DEF WorkerStep
    <2>2. ASSUME NEW synced \in BOOLEAN, BlobNoted(synced)
          PROVE  AccountsNext(scope') /\ AccountsNext(scopeSafe')
      <3> DEFINE s == [scope[1] EXCEPT !.received_blobs = @ \cup {job.hash}]
      <3>1. scope # None /\ scope[1] \in ScopeType
        BY <2>2, ScopeTypes, SMT DEF BlobNoted, ScopeInv, Free, NoJob
      <3>2. /\ s.received = scope[1].received /\ s.local = scope[1].local
            /\ s.excluded = scope[1].excluded /\ s.revision = scope[1].revision
        BY <3>1 DEF ScopeType
      <3>3. AccountsNext(Some(s))
        <4> HIDE DEF s
        <4> QED BY <2>0, <3>1, <3>2, SomeFacts DEF AccountsNext, Received
      <3> QED BY <2>0, <2>2, <3>3 DEF BlobNoted
    <2>3. ASSUME NEW synced \in BOOLEAN, SelectSave(synced)
          PROVE  AccountsNext(scope') /\ AccountsNext(scopeSafe')
      <3> DEFINE s == select(scope[1], job.cutoff)
      <3>1. scope # None /\ scope[1] \in ScopeType
        BY <2>3, ScopeTypes, SMT DEF SelectSave, ScopeInv, Free, NoJob
      <3>2. /\ s.received = scope[1].received /\ s.local = scope[1].local /\ s.excluded = {}
        BY <3>1 DEF ScopeType, select
      <3>3. AccountsNext(Some(s))
        <4> HIDE DEF s
        <4> QED BY <2>0, <3>1, <3>2, SomeFacts DEF AccountsNext, Received
      <3> QED BY <2>0, <2>3, <3>3 DEF SelectSave
    <2>4. ASSUME \/ IngestAppend \/ IngestReturn \/ ReceiptFails \/ SelectFails \/ LocalStep
                 \/ \E b \in BOOLEAN : Select(b) \/ SelectFence(b)
                 \/ UNCHANGED sharingVars
          PROVE  UNCHANGED <<scope, scopeSafe>>
      BY <2>4 DEF IngestAppend, IngestReturn, Returned, ReceiptFails, SelectFails, Select, SelectFence,
                  LocalStep, LocalWrite, LocalBlob, policyVars, sharingVars
    <2>5. ASSUME PowerLoss
          PROVE  scope' \in {scope, scopeSafe} /\ scopeSafe' = scope'
      BY <2>5 DEF PowerLoss
    <2> QED BY <2>0, <2>1, <2>2, <2>3, <2>4, <2>5, StepCases DEF ReceiptStep, SelectStep
  <1> QED BY <1>2, <1>3, StepCases, CarriesStep
-----------------------------------------------------------------------------
(* Content.                                                                *)

\* What Grants says of a ledger after a step.
GrantsNext(sc) ==
    sc # None =>
      /\ sc[1].received_blobs \subseteq granted'
      /\ \A k \in wrote' :
           \/ k \in sc[1].excluded \/ first'[k] < sc[1].cutoff
           \/ k \in sc[1].received \/ RefsOf[k] \subseteq granted'

\* What is granted stays so, own records stay in their place, and one written
\* beside a ledger is granted (LocalWrite).
GrantsGrow ==
    /\ granted \subseteq granted'
    /\ \A k \in wrote : first'[k] = first[k]
    /\ \A k \in wrote' \ wrote : scope # None => RefsOf[k] \subseteq granted'

\* Every step is of that kind.
LEMMA GrantsGrowStep ==
    ASSUME TypeOK, DurableInv, [SharingNext]_sharingVars
    PROVE  GrantsGrow
  <1>0. wrote \subseteq Present /\ wrote \subseteq safe /\ wrote \subseteq Key
    BY DEF DurableInv, TypeOK, Key
  <1>1. ASSUME NEW w \in Worker, WorkerStep(w)
        PROVE  GrantsGrow
    BY <1>1 DEF WorkerStep, CreateScope, BindWorker, CloseWorker, TakeSnapshot, Ingest, IngestSaveFails,
                IngestBlob, ConfirmBlob, StoresBlob, chainVars, historyVars, GrantsGrow
  <1>2. ASSUME ReceiptStep
        PROVE  GrantsGrow
    <2>1. UNCHANGED <<granted, wrote>>
      BY <1>2 DEF ReceiptStep, IngestAppend, IngestReturn, Returned, ReceiptFails, BlobNoted, historyVars
    <2>2. UNCHANGED first \/ \E keys \in SUBSET Key, at \in Places : Appended(keys, at)
      <3>1. CASE IngestAppend \/ ReceiptFails
        BY <3>1, JobKinds DEF IngestAppend, ReceiptFails, IngestType
      <3>2. CASE IngestReturn \/ \E synced \in BOOLEAN : BlobNoted(synced)
        BY <3>2 DEF IngestReturn, Returned, BlobNoted, chainVars
      <3> QED BY <1>2, <3>1, <3>2 DEF ReceiptStep
    <2> QED BY <1>0, <2>1, <2>2, AppendedPresent DEF GrantsGrow
  <1>3. ASSUME SelectStep
        PROVE  GrantsGrow
    BY <1>3 DEF SelectStep, Select, SelectFence, SelectSave, SelectFails, chainVars, historyVars,
                GrantsGrow
  <1>4. ASSUME NEW k \in Own, LocalWrite(k)
        PROVE  GrantsGrow
    <2>1. \A l \in Present : first'[l] = first[l]
      BY <1>4, AppendedPresent DEF LocalWrite, Key
    <2>2. k \in Present => k \in wrote
      BY DEF DurableInv
    <2> QED BY <1>0, <1>4, <2>1, <2>2 DEF LocalWrite, GrantsGrow
  <1>5. ASSUME NEW h \in LocalHash, LocalBlob(h)
        PROVE  GrantsGrow
    BY <1>5 DEF LocalBlob, GrantsGrow, historyVars
  <1>6. ASSUME PowerLoss
        PROVE  GrantsGrow
    BY <1>0, <1>6 DEF PowerLoss, GrantsGrow
  <1>7. ASSUME UNCHANGED sharingVars
        PROVE  GrantsGrow
    BY <1>7 DEF sharingVars, chainVars, historyVars, GrantsGrow
  <1> QED BY <1>1, <1>2, <1>3, <1>4, <1>5, <1>6, <1>7, StepCases DEF LocalStep

\* So a ledger goes on to grant what it shares.
LEMMA GrantsKept ==
    ASSUME NEW sc, Grants(sc), GrantsGrow, sc # None => scope # None
    PROVE  GrantsNext(sc)
  BY DEF Grants, GrantsNext, GrantsGrow, excludes, before_cutoff, Opens

\* So do the ledgers that operations save: the first one (CreateScope), ...
LEMMA FirstScopeGrants ==
    ASSUME TypeOK, DurableInv, NEW w, NEW backfill \in BOOLEAN, NEW synced,
           CreateScope(w, backfill, synced)
    PROVE  GrantsNext(scope')
  <1> DEFINE s == FirstScope(IF backfill THEN {} ELSE Present)
  <1>1. /\ s.received_blobs = {} /\ s.excluded = (IF backfill THEN {} ELSE Present)
    BY DEF FirstScope
  <1>2. /\ scope' = Some(s) /\ UNCHANGED wrote /\ wrote \subseteq Present
        /\ backfill => Refs(wrote) \subseteq granted'
    BY DEF CreateScope, DurableInv
  <1>3. \A k \in wrote : RefsOf[k] \subseteq Refs(wrote)
    BY DEF Refs
  <1> HIDE DEF s
  <1> QED BY <1>1, <1>2, <1>3, SomeFacts DEF GrantsNext

\* ... the one of a receipt (ledger), ...
LEMMA LedgerGrants ==
    ASSUME TypeOK, DurableInv, Accounts(scope), scope # None, NEW batch \in SUBSET Key,
           Grants(scope), UNCHANGED <<first, wrote, granted>>
    PROVE  GrantsNext(Some(ledger(batch)))
  <1> DEFINE s == ledger(batch)
  <1>1. /\ s.received = scope[1].received \cup Echoed(batch) \cup (batch \ Present)
        /\ s.excluded = scope[1].excluded \ batch
        /\ s.received_blobs = scope[1].received_blobs
        /\ s.cutoff = scope[1].cutoff
    BY LedgerAccounts
  <1>2. ASSUME NEW k \in wrote
        PROVE  \/ k \in s.excluded \/ first[k] < s.cutoff
               \/ k \in s.received \/ RefsOf[k] \subseteq granted
    <2>1. CASE k \in scope[1].excluded
      <3>1. k \in batch => k \in Echoed(batch)
        BY <2>1 DEF Echoed
      <3> QED BY <1>1, <2>1, <3>1
    <2>2. CASE first[k] < scope[1].cutoff
      BY <1>1, <2>2
    <2>3. CASE k \in scope[1].received \/ RefsOf[k] \subseteq granted
      BY <1>1, <2>3
    <2> QED BY <2>1, <2>2, <2>3 DEF Grants, excludes, before_cutoff, Opens
  <1> HIDE DEF s
  <1>3. s.received_blobs \subseteq granted
    BY <1>1 DEF Grants
  <1>4. GrantsNext(Some(s))
    BY <1>2, <1>3, SomeFacts DEF GrantsNext
  <1> QED BY <1>4 DEF s

\* ... of content that was received (BlobNoted) ...
LEMMA BlobNotedGrants ==
    ASSUME TypeOK, ScopeInv, ContentInv, NEW synced, BlobNoted(synced)
    PROVE  GrantsNext(scope')
  <1> DEFINE s == [scope[1] EXCEPT !.received_blobs = @ \cup {job.hash}]
  <1>1. scope # None /\ scope[1] \in ScopeType
    BY ScopeTypes, SMT DEF BlobNoted, ScopeInv, Free, NoJob
  <1>2. /\ s.received = scope[1].received /\ s.excluded = scope[1].excluded
        /\ s.cutoff = scope[1].cutoff
        /\ s.received_blobs = scope[1].received_blobs \cup {job.hash}
    BY <1>1 DEF ScopeType
  <1>3. /\ scope' = Some(s) /\ UNCHANGED <<first, wrote, granted>> /\ job.hash \in granted
    BY DEF BlobNoted, chainVars, historyVars, ContentInv
  <1>4. Grants(scope)
    BY DEF ContentInv
  <1> HIDE DEF s
  <1> QED BY <1>1, <1>2, <1>3, <1>4, SomeFacts, SMT DEF GrantsNext, Grants, excludes, before_cutoff, Opens

\* ... and of a selection, which holds back all own records or grants them.
LEMMA SelectSaveGrants ==
    ASSUME TypeOK, ScopeInv, FenceInv, ContentInv, NEW synced, SelectSave(synced)
    PROVE  GrantsNext(scope')
  <1> DEFINE s == select(scope[1], job.cutoff)
  <1>1. scope # None /\ scope[1] \in ScopeType
    BY ScopeTypes, SMT DEF SelectSave, ScopeInv, Free, NoJob
  <1>2. s.cutoff = job.cutoff /\ s.received_blobs = scope[1].received_blobs
    BY <1>1 DEF ScopeType, select
  <1>3. /\ scope' = Some(s) /\ UNCHANGED <<first, wrote>> /\ granted \subseteq granted'
        /\ s.cutoff = 0 => Refs(wrote) \subseteq granted'
    BY DEF SelectSave, chainVars
  <1>4. job.cutoff # 0 => \A k \in Key : first[k] < job.cutoff
    BY DEF FenceInv, SelectSave
  <1>5. \A k \in wrote : RefsOf[k] \subseteq Refs(wrote) /\ k \in Key
    BY DEF Refs, TypeOK, Key
  <1>6. scope[1].received_blobs \subseteq granted
    BY <1>1 DEF ContentInv, Grants
  <1> HIDE DEF s
  <1> QED BY <1>2, <1>3, <1>4, <1>5, <1>6, SomeFacts DEF GrantsNext

\* What a power loss leaves of the ledger is what it left before or the ledger.
LEMMA SafeScopeStep ==
    ASSUME [SharingNext]_sharingVars
    PROVE  scopeSafe' \in {scopeSafe, scope'}
  <1>1. ASSUME NEW w \in Worker, WorkerStep(w)
        PROVE  scopeSafe' \in {scopeSafe, scope'}
    BY <1>1 DEF WorkerStep, CreateScope, BindWorker, CloseWorker, TakeSnapshot, Ingest, IngestSaveFails,
                IngestBlob, ConfirmBlob, StoresBlob, policyVars
  <1>2. ASSUME ReceiptStep \/ SelectStep
        PROVE  scopeSafe' \in {scopeSafe, scope'}
    BY <1>2 DEF ReceiptStep, IngestAppend, IngestReturn, Returned, ReceiptFails, BlobNoted, SelectStep,
                Select, SelectFence, SelectSave, SelectFails, policyVars
  <1>3. ASSUME LocalStep \/ PowerLoss \/ UNCHANGED sharingVars
        PROVE  scopeSafe' \in {scopeSafe, scope'}
    BY <1>3 DEF LocalStep, LocalWrite, LocalBlob, PowerLoss, sharingVars, policyVars
  <1> QED BY <1>1, <1>2, <1>3, StepCases

\* Every step leaves ledgers that grant what they share.
LEMMA GrantsStep ==
    ASSUME TypeOK, ScopeInv, DurableInv, ProvenanceInv, FenceInv, ContentInv,
           [SharingNext]_sharingVars
    PROVE  GrantsNext(scope') /\ GrantsNext(scopeSafe')
  <1>0. GrantsNext(scope) /\ GrantsNext(scopeSafe)
    BY GrantsGrowStep, GrantsKept DEF ContentInv, ScopeInv
  <1>1. ASSUME NEW w \in Worker, NEW batch \in SUBSET Key, Ingest(w, batch) \/ IngestSaveFails(w, batch)
        PROVE  GrantsNext(scope')
    <2>1. scope # None /\ UNCHANGED <<first, wrote, granted>>
      BY <1>1 DEF Ingest, IngestSaveFails, Receives, ScopeInv, chainVars
    <2>2. GrantsNext(Some(ledger(batch)))
      BY <2>1, LedgerGrants DEF ProvenanceInv, ContentInv
    <2>3. scope' = scope \/ scope' = Some(ledger(batch))
      BY <1>1 DEF Ingest, IngestSaveFails
    <2> QED BY <1>0, <2>2, <2>3
  <1>2. ASSUME NEW w \in Worker, WorkerStep(w)
        PROVE  GrantsNext(scope')
    <2>1. CASE \E backfill, synced \in BOOLEAN : CreateScope(w, backfill, synced)
      BY <2>1, FirstScopeGrants
    <2>2. CASE \/ BindWorker(w) \/ CloseWorker(w) \/ \E receiving \in BOOLEAN : TakeSnapshot(w, receiving)
               \/ \E k \in Key, h \in Hash : IngestBlob(w, k, h) \/ ConfirmBlob(w, k, h)
      <3>1. UNCHANGED scope
        BY <2>2 DEF BindWorker, CloseWorker, TakeSnapshot, IngestBlob, ConfirmBlob, StoresBlob, policyVars
      <3> QED BY <1>0, <3>1
    <2> QED BY <1>1, <1>2, <2>1, <2>2 DEF WorkerStep
  <1>3. ASSUME ReceiptStep \/ SelectStep \/ LocalStep \/ UNCHANGED sharingVars
        PROVE  GrantsNext(scope')
    <2>1. CASE UNCHANGED scope
      BY <1>0, <2>1
    <2>2. CASE \E synced \in BOOLEAN : BlobNoted(synced)
      BY <2>2, BlobNotedGrants
    <2>3. CASE \E synced \in BOOLEAN : SelectSave(synced)
      BY <2>3, SelectSaveGrants
    <2> QED BY <1>3, <2>1, <2>2, <2>3 DEF ReceiptStep, IngestAppend, IngestReturn, Returned, ReceiptFails,
               SelectStep, Select, SelectFence, SelectFails, LocalStep, LocalWrite, LocalBlob,
               sharingVars, policyVars
  <1>4. CASE PowerLoss
    <2>1. scope' \in {scope, scopeSafe}
      BY <1>4 DEF PowerLoss
    <2> QED BY <1>0, <2>1, SafeScopeStep
  <1>5. GrantsNext(scope')
    BY <1>0, <1>2, <1>3, <1>4, StepCases
  <1> QED BY <1>0, <1>5, SafeScopeStep

\* What the ledger knows as received stays so, but for a power loss.
LEMMA ReceivedGrows ==
    ASSUME TypeOK, ScopeInv, DurableInv, ProvenanceInv, [SharingNext]_sharingVars, ~PowerLoss
    PROVE  Received(scope) \subseteq Received(scope')
  <1>1. ASSUME NEW w \in Worker, WorkerStep(w)
        PROVE  Received(scope) \subseteq Received(scope')
    <2>1. CASE \E backfill, synced \in BOOLEAN : CreateScope(w, backfill, synced)
      BY <2>1 DEF CreateScope, Received
    <2>2. CASE UNCHANGED scope
      BY <2>2
    <2>3. ASSUME NEW batch \in SUBSET Key, Ingest(w, batch) \/ IngestSaveFails(w, batch)
          PROVE  Received(scope) \subseteq Received(scope')
      <3>1. scope # None
        BY <2>3 DEF Ingest, IngestSaveFails, Receives, ScopeInv
      <3>2. scope[1].received \subseteq ledger(batch).received
        BY <3>1, LedgerAccounts DEF ProvenanceInv
      <3>3. scope' = scope \/ scope' = Some(ledger(batch))
        BY <2>3 DEF Ingest, IngestSaveFails
      <3> QED BY <3>1, <3>2, <3>3, SomeFacts DEF Received
    <2> QED BY <1>1, <2>1, <2>2, <2>3 DEF WorkerStep, BindWorker, CloseWorker, TakeSnapshot, IngestBlob,
               ConfirmBlob, StoresBlob, policyVars
  <1>2. ASSUME ReceiptStep \/ SelectStep \/ LocalStep \/ UNCHANGED sharingVars
        PROVE  Received(scope) \subseteq Received(scope')
    <2>1. CASE UNCHANGED scope
      BY <2>1
    <2>2. ASSUME NEW synced \in BOOLEAN, BlobNoted(synced) \/ SelectSave(synced)
          PROVE  Received(scope) \subseteq Received(scope')
      <3>1. scope # None /\ scope[1] \in ScopeType
        BY <2>2, ScopeTypes, SMT DEF BlobNoted, SelectSave, ScopeInv, Free, NoJob
      <3>2. /\ [scope[1] EXCEPT !.received_blobs = @ \cup {job.hash}].received = scope[1].received
            /\ select(scope[1], job.cutoff).received = scope[1].received
        BY <3>1 DEF ScopeType, select
      <3> QED BY <2>2, <3>1, <3>2, SomeFacts DEF BlobNoted, SelectSave, Received
    <2> QED BY <1>2, <2>1, <2>2 DEF ReceiptStep, IngestAppend, IngestReturn, Returned, ReceiptFails,
               SelectStep, Select, SelectFence, SelectFails, LocalStep, LocalWrite, LocalBlob,
               sharingVars, policyVars
  <1> QED BY <1>1, <1>2, StepCases

\* What Gated says of a snapshot after a step.
GatedNext(snap) ==
    /\ snap.received_blobs \subseteq granted'
    /\ \A k \in snap.recs : k \in snap.received \/ RefsOf[k] \subseteq granted'

\* A snapshot of the ledger opens only what was granted (snapshot_for).
LEMMA SnapshotGated ==
    ASSUME TypeOK, DurableInv, ProvenanceInv, ContentInv, scope # None, NEW receiving \in BOOLEAN
    PROVE  Gated(snapshot_for(receiving))
  <1>1. ASSUME NEW k \in snapshot_for(receiving).recs
        PROVE  Opens(k, scope[1].received)
    <2>1. k \in Present /\ (~excludes(scope[1], k) \/ k \in scope[1].received)
      BY <1>1 DEF snapshot_for
    <2>2. k \in Foreign => k \in scope[1].received
      BY <2>1 DEF ProvenanceInv, Accounts, Received
    <2>3. k \in Own => k \in wrote
      BY <2>1 DEF DurableInv
    <2> QED BY <2>1, <2>2, <2>3 DEF ContentInv, Grants, Opens, Present, Key
  <1>2. scope[1].received_blobs \subseteq granted
    BY DEF ContentInv, Grants
  <1> QED BY <1>1, <1>2 DEF snapshot_for, Gated

\* What a step leaves of a worker's snapshots.
WorkerGated(w) ==
    /\ GatedNext(worker'[w].offers) /\ GatedNext(worker'[w].local)
    /\ worker'[w].local.received \subseteq Received(scope')

\* A worker that starts anew, or is left alone, is gated.
LEMMA GatedKept ==
    ASSUME TypeOK, ContentInv, granted \subseteq granted', NEW w \in Worker,
           \/ worker'[w] = Closed
           \/ \E r \in Nat : worker'[w] = Bound(r)
           \/ worker'[w] = worker[w] /\ Received(scope) \subseteq Received(scope')
    PROVE  WorkerGated(w)
  <1>1. CASE worker'[w] = worker[w] /\ Received(scope) \subseteq Received(scope')
    BY <1>1 DEF ContentInv, Gated, GatedNext, Opens, WorkerGated
  <1>2. CASE worker'[w] = Closed \/ \E r \in Nat : worker'[w] = Bound(r)
    <2>1. worker'[w].offers = NoSnapshot /\ worker'[w].local = NoSnapshot
      <3>1. /\ Closed.offers = NoSnapshot /\ Closed.local = NoSnapshot
            /\ \A r \in Nat : Bound(r).offers = NoSnapshot /\ Bound(r).local = NoSnapshot
        BY DEF Closed, Bound
      <3> QED BY <1>2, <3>1
    <2> QED BY <2>1, SMT DEF NoSnapshot, GatedNext, WorkerGated
  <1> QED BY <1>1, <1>2

\* The steps that give a worker other snapshots: taking one, ...
LEMMA TakeSnapshotGated ==
    ASSUME TypeOK, ScopeInv, DurableInv, ProvenanceInv, ContentInv,
           NEW w \in Worker, NEW receiving \in BOOLEAN, TakeSnapshot(w, receiving),
           NEW v \in Worker
    PROVE  WorkerGated(v)
  <1>1. scope # None /\ UNCHANGED <<scope, granted>>
    BY DEF TakeSnapshot, ScopeInv, policyVars, historyVars
  <1>2. Gated(snapshot_for(TRUE)) /\ Gated(snapshot_for(FALSE))
    BY <1>1, SnapshotGated
  <1>3. snapshot_for(TRUE).received = Received(scope)
    BY <1>1 DEF snapshot_for, Received
  <1>4. ASSUME NEW snap
        PROVE  /\ [worker EXCEPT ![w].local = snap][v].offers = worker[v].offers
               /\ [worker EXCEPT ![w].local = snap][v].local = IF v = w THEN snap ELSE worker[v].local
               /\ [worker EXCEPT ![w].offers = snap][v].local = worker[v].local
               /\ [worker EXCEPT ![w].offers = snap][v].offers = IF v = w THEN snap ELSE worker[v].offers
    BY DEF TypeOK, WorkerType
  <1>5. /\ worker'[v].offers \in {worker[v].offers, snapshot_for(FALSE)}
        /\ worker'[v].local \in {worker[v].local, snapshot_for(TRUE)}
    BY <1>4, ZenonT(30) DEF TakeSnapshot
  <1> QED BY <1>1, <1>2, <1>3, <1>5 DEF ContentInv, Gated, GatedNext, Opens, WorkerGated

\* ... and a receipt, which adds the batch to what need not be downloaded.
LEMMA IngestReturnGated ==
    ASSUME TypeOK, ScopeInv, ContentInv, IngestReturn, NEW v \in Worker
    PROVE  WorkerGated(v)
  <1> DEFINE known == worker[job.w].local
             snap == [known EXCEPT !.recs = @ \cup job.batch, !.received = scope[1].received,
                                   !.received_blobs = scope[1].received_blobs]
  <1>0. job \in IngestType /\ scope # None
    BY JobKinds, SMT DEF IngestReturn, ScopeInv, Free, NoJob
  <1>1. job.w \in Worker /\ known \in SnapshotType
    BY <1>0 DEF TypeOK, IngestType, WorkerType
  <1>2. /\ snap.recs = known.recs \cup job.batch /\ snap.received = scope[1].received
        /\ snap.received_blobs = scope[1].received_blobs
    BY <1>1 DEF SnapshotType
  <1>3. /\ worker' = [worker EXCEPT ![job.w].local = snap]
        /\ UNCHANGED <<scope, granted>>
    BY DEF IngestReturn, Returned, policyVars
  <1>4. known.received \subseteq scope[1].received /\ Gated(known)
    BY <1>0, <1>1 DEF ContentInv, Received
  <1>5. \A k \in job.batch : Opens(k, scope[1].received)
    BY <1>0 DEF ContentInv, IngestType, Received
  <1>6. scope[1].received_blobs \subseteq granted
    BY <1>0 DEF ContentInv, Grants
  <1> HIDE DEF snap, known
  <1>7. Gated(snap) /\ snap.received = Received(scope)
    BY <1>0, <1>2, <1>4, <1>5, <1>6 DEF Gated, Opens, Received
  <1>8. /\ worker'[v].offers = worker[v].offers
        /\ worker'[v].local \in {worker[v].local, snap}
    BY <1>1, <1>3 DEF TypeOK, WorkerType
  <1> QED BY <1>3, <1>7, <1>8 DEF ContentInv, Gated, GatedNext, Opens, WorkerGated

\* Every step leaves workers' snapshots gated.
LEMMA GatedStep ==
    ASSUME TypeOK, ScopeInv, DurableInv, ProvenanceInv, ContentInv, [SharingNext]_sharingVars,
           NEW v \in Worker
    PROVE  WorkerGated(v)
  <1>0. granted \subseteq granted' /\ (~PowerLoss => Received(scope) \subseteq Received(scope'))
    BY GrantsGrowStep, ReceivedGrows DEF GrantsGrow
  <1>1. ASSUME NEW w \in Worker, NEW receiving \in BOOLEAN, TakeSnapshot(w, receiving)
        PROVE  WorkerGated(v)
    BY <1>1, TakeSnapshotGated
  <1>2. CASE IngestReturn
    BY <1>2, IngestReturnGated
  <1>3. CASE PowerLoss
    BY <1>0, <1>3, GatedKept DEF PowerLoss
  <1>4. ASSUME ~PowerLoss,
               \/ worker'[v] = worker[v] \/ worker'[v] = Closed
               \/ \E r \in Nat : worker'[v] = Bound(r)
        PROVE  WorkerGated(v)
    BY <1>0, <1>4, GatedKept
  <1>5. ASSUME NEW w \in Worker, WorkerStep(w), ~\E receiving \in BOOLEAN : TakeSnapshot(w, receiving)
        PROVE  \/ worker'[v] = worker[v] \/ worker'[v] = Closed
               \/ \E r \in Nat : worker'[v] = Bound(r)
    <2>1. ASSUME NEW x, worker' = [worker EXCEPT ![w] = x]
          PROVE  worker'[v] = worker[v] \/ worker'[v] = x
      BY <2>1 DEF TypeOK
    <2>2. CASE BindWorker(w)
      <3>1. scope[1].revision \in Nat
        BY <2>2, ScopeTypes DEF BindWorker, ScopeType
      <3> QED BY <2>1, <2>2, <3>1 DEF BindWorker
    <2>3. CASE \E backfill, synced \in BOOLEAN : CreateScope(w, backfill, synced)
      BY <2>1, <2>3 DEF CreateScope
    <2>4. CASE CloseWorker(w) \/ \E batch \in SUBSET Key : Ingest(w, batch) \/ IngestSaveFails(w, batch)
      BY <2>1, <2>4 DEF CloseWorker, Ingest, IngestSaveFails
    <2>5. CASE \E k \in Key, h \in Hash : IngestBlob(w, k, h) \/ ConfirmBlob(w, k, h)
      BY <2>5 DEF IngestBlob, ConfirmBlob, StoresBlob
    <2> QED BY <1>5, <2>2, <2>3, <2>4, <2>5 DEF WorkerStep
  <1>6. ASSUME ReceiptStep, ~IngestReturn
        PROVE  worker'[v] = worker[v] \/ worker'[v] = Closed
    BY <1>6 DEF ReceiptStep, IngestAppend, ReceiptFails, BlobNoted, TypeOK
  <1>7. ASSUME SelectStep \/ LocalStep \/ UNCHANGED sharingVars
        PROVE  worker'[v] = worker[v]
    BY <1>7 DEF SelectStep, Select, SelectFence, SelectSave, SelectFails, LocalStep, LocalWrite, LocalBlob,
                sharingVars
  <1> QED BY <1>1, <1>2, <1>3, <1>4, <1>5, <1>6, <1>7, StepCases

\* A receipt in progress opens only what was granted.
LEMMA JobContentStep ==
    ASSUME TypeOK, ScopeInv, DurableInv, ProvenanceInv, ContentInv, [SharingNext]_sharingVars
    PROVE  /\ job'.kind = "ingest" =>
                \A k \in job'.batch : k \in Received(scope') \/ RefsOf[k] \subseteq granted'
           /\ job'.kind = "blob" => job'.hash \in granted'
  <1> DEFINE Goal == /\ job'.kind = "ingest" =>
                          \A k \in job'.batch : k \in Received(scope') \/ RefsOf[k] \subseteq granted'
                     /\ job'.kind = "blob" => job'.hash \in granted'
  <1>0. granted \subseteq granted' /\ (~PowerLoss => Received(scope) \subseteq Received(scope'))
    BY GrantsGrowStep, ReceivedGrows DEF GrantsGrow
  <1>1. ASSUME job' = NoJob
        PROVE  Goal
    BY <1>1 DEF NoJob
  <1>2. ASSUME job' = job, ~PowerLoss
        PROVE  Goal
    BY <1>0, <1>2 DEF ContentInv, Opens
  <1>3. ASSUME job'.kind = "select"
        PROVE  Goal
    BY <1>3
  <1>4. ASSUME NEW w \in Worker, NEW batch \in SUBSET Key, Ingest(w, batch)
        PROVE  Goal
    <2>1. scope # None /\ UNCHANGED <<granted, wrote>> /\ job'.kind = "ingest" /\ job'.batch = batch
      BY <1>4 DEF Ingest, Receives, ScopeInv
    <2>2. scope' = Some(ledger(batch)) \/ (ledger(batch) = scope[1] /\ scope' = scope)
      BY <1>4 DEF Ingest
    <2>3. Received(scope') = ledger(batch).received
      BY <2>1, <2>2, SomeFacts DEF Received
    <2>4. ledger(batch).received = scope[1].received \cup Echoed(batch) \cup (batch \ Present)
      BY <2>1, LedgerAccounts DEF ProvenanceInv
    <2>5. ASSUME NEW k \in batch
          PROVE  k \in Received(scope') \/ RefsOf[k] \subseteq granted'
      <3>1. CASE k \notin Present \/ k \in Echoed(batch)
        BY <2>3, <2>4, <3>1
      <3>2. CASE k \in Present /\ k \notin Echoed(batch)
        <4>1. ~excludes(scope[1], k)
          BY <3>2 DEF Echoed, excludes
        <4>2. k \in Foreign => k \in scope[1].received
          BY <2>1, <3>2 DEF ProvenanceInv, Accounts, Received
        <4>3. k \in Own => k \in wrote
          BY <3>2 DEF DurableInv
        <4> QED BY <2>1, <2>3, <2>4, <4>1, <4>2, <4>3, SMT DEF ContentInv, Grants, Opens, Key
      <3> QED BY <3>1, <3>2
    <2> QED BY <2>1, <2>5
  <1>5. ASSUME NEW w \in Worker, NEW k \in Key, NEW h \in Hash, IngestBlob(w, k, h)
        PROVE  Goal
    BY <1>5 DEF IngestBlob, StoresBlob
  <1>6. ASSUME NEW w \in Worker, NEW k \in Key, NEW h \in Hash, ConfirmBlob(w, k, h)
        PROVE  Goal
    <2>1. job'.kind = "blob" /\ job'.hash = h
      BY <1>6 DEF ConfirmBlob, StoresBlob
    <2>2. /\ k \in worker[w].local.recs /\ h \in RefsOf[k]
          /\ k \notin worker[w].local.received \/ h \in worker[w].local.received_blobs
      BY <1>6 DEF ConfirmBlob, read_blob, permits_blob
    <2>3. h \in granted
      BY <2>2 DEF ContentInv, Gated, Opens
    <2> QED BY <1>0, <2>1, <2>3
  <1>7. ASSUME IngestAppend
        PROVE  Goal
    <2>1. job'.kind = "ingest" /\ job'.batch = job.batch /\ job.kind = "ingest" /\ ~PowerLoss
      BY <1>7, JobKinds DEF IngestAppend, IngestType, PowerLoss, NoJob
    <2> QED BY <1>0, <2>1 DEF ContentInv, Opens
  <1>8. ASSUME NEW w \in Worker, WorkerStep(w), ~PowerLoss
        PROVE  Goal
    <2>1. CASE \/ BindWorker(w) \/ CloseWorker(w) \/ \E receiving \in BOOLEAN : TakeSnapshot(w, receiving)
               \/ \E backfill, synced \in BOOLEAN : CreateScope(w, backfill, synced)
               \/ \E batch \in SUBSET Key : IngestSaveFails(w, batch)
      <3>1. job' = job
        BY <2>1 DEF BindWorker, CloseWorker, TakeSnapshot, CreateScope, IngestSaveFails
      <3> QED BY <1>2, <1>8, <3>1
    <2> QED BY <1>4, <1>5, <1>6, <1>8, <2>1 DEF WorkerStep
  <1>9. ASSUME ReceiptStep
        PROVE  Goal
    BY <1>1, <1>7, <1>9 DEF ReceiptStep, IngestReturn, Returned, ReceiptFails, BlobNoted
  <1>10. ASSUME SelectStep
         PROVE  Goal
    <2>1. job' = NoJob \/ job'.kind = "select"
      BY <1>10, JobKinds, SMT DEF SelectStep, Select, SelectFence, SelectSave, SelectFails, SelectType
    <2> QED BY <1>1, <1>3, <2>1
  <1>11. ASSUME LocalStep \/ UNCHANGED sharingVars, ~PowerLoss
         PROVE  Goal
    BY <1>2, <1>11 DEF LocalStep, LocalWrite, LocalBlob, sharingVars
  <1>12. ASSUME PowerLoss
         PROVE  Goal
    BY <1>1, <1>12 DEF PowerLoss
  <1> QED BY <1>8, <1>9, <1>10, <1>11, <1>12, StepCases

\* Content stays gated in every step.
LEMMA ContentStep ==
    ASSUME TypeOK, ScopeInv, DurableInv, ProvenanceInv, FenceInv, ContentInv,
           [SharingNext]_sharingVars
    PROVE  ContentInv'
  <1>1. Grants(scope)' /\ Grants(scopeSafe)'
    BY GrantsStep DEF GrantsNext, Grants, excludes, before_cutoff, Opens
  <1>2. \A w \in Worker :
          /\ Gated(worker[w].offers)' /\ Gated(worker[w].local)'
          /\ worker'[w].local.received \subseteq Received(scope)'
    BY GatedStep DEF WorkerGated, GatedNext, Gated, Opens, Received
  <1>3. /\ job'.kind = "ingest" => \A k \in job'.batch : Opens(k, Received(scope))'
        /\ job'.kind = "blob" => job'.hash \in granted'
    BY JobContentStep DEF Opens, Received
  <1> QED BY <1>1, <1>2, <1>3 DEF ContentInv
-----------------------------------------------------------------------------
(* The fence.                                                              *)

\* A step that neither makes the first ledger, nor selects, nor loses power:
\* revisions and cutoff stay, and only what a peer sends leaves `excluded`.
Quiet ==
    /\ UNCHANGED <<fence, fenceSafe, kept>>
    /\ scope = None => scope' = None
    /\ scope # None =>
         /\ scope' # None
         /\ scope'[1].revision = scope[1].revision /\ scope'[1].cutoff = scope[1].cutoff
         /\ scope[1].excluded \ scope'[1].excluded \subseteq supplied'

\* The steps that are not quiet.
LEMMA QuietSteps ==
    ASSUME TypeOK, ScopeInv, DurableInv, ProvenanceInv, [SharingNext]_sharingVars
    PROVE  \/ Quiet
           \/ \E w \in Worker, backfill, synced \in BOOLEAN : CreateScope(w, backfill, synced)
           \/ \E synced \in BOOLEAN : SelectFence(synced) \/ SelectSave(synced)
           \/ PowerLoss
  <1>1. ASSUME UNCHANGED <<scope, fence, fenceSafe, kept>>
        PROVE  Quiet
    BY <1>1 DEF Quiet
  <1>2. ASSUME NEW w \in Worker, NEW batch \in SUBSET Key, Ingest(w, batch) \/ IngestSaveFails(w, batch)
        PROVE  Quiet
    <2>1. scope # None /\ UNCHANGED <<fence, fenceSafe, kept>> /\ batch \subseteq supplied'
      BY <1>2 DEF Ingest, IngestSaveFails, Receives, ScopeInv
    <2>2. scope' = Some(ledger(batch)) \/ scope' = scope
      BY <1>2 DEF Ingest, IngestSaveFails
    <2>3. /\ ledger(batch).excluded = scope[1].excluded \ batch
          /\ ledger(batch).revision = scope[1].revision
          /\ ledger(batch).cutoff = scope[1].cutoff
      BY <2>1, LedgerAccounts DEF ProvenanceInv
    <2> QED BY <2>1, <2>2, <2>3, SomeFacts DEF Quiet
  <1>3. ASSUME NEW synced \in BOOLEAN, BlobNoted(synced)
        PROVE  Quiet
    <2> DEFINE s == [scope[1] EXCEPT !.received_blobs = @ \cup {job.hash}]
    <2>1. scope # None /\ scope[1] \in ScopeType
      BY <1>3, ScopeTypes, SMT DEF BlobNoted, ScopeInv, Free, NoJob
    <2>2. /\ s.revision = scope[1].revision /\ s.cutoff = scope[1].cutoff
          /\ s.excluded = scope[1].excluded
      BY <2>1 DEF ScopeType
    <2>3. scope' = Some(s) /\ UNCHANGED <<fence, fenceSafe, kept>>
      BY <1>3 DEF BlobNoted, historyVars
    <2> HIDE DEF s
    <2> QED BY <2>1, <2>2, <2>3, SomeFacts DEF Quiet
  <1>4. ASSUME NEW w \in Worker, WorkerStep(w)
        PROVE  Quiet \/ \E backfill, synced \in BOOLEAN : CreateScope(w, backfill, synced)
    <2>1. CASE \/ BindWorker(w) \/ CloseWorker(w) \/ \E receiving \in BOOLEAN : TakeSnapshot(w, receiving)
               \/ \E k \in Key, h \in Hash : IngestBlob(w, k, h) \/ ConfirmBlob(w, k, h)
      BY <1>1, <2>1, ZenonT(30) DEF BindWorker, CloseWorker, TakeSnapshot, IngestBlob, ConfirmBlob, StoresBlob,
                        policyVars, historyVars
    <2> QED BY <1>2, <1>4, <2>1 DEF WorkerStep
  <1>5. ASSUME ReceiptStep
        PROVE  Quiet
    BY <1>1, <1>3, <1>5 DEF ReceiptStep, IngestAppend, IngestReturn, Returned, ReceiptFails, policyVars,
                            historyVars
  <1>6. ASSUME SelectStep
        PROVE  Quiet \/ \E synced \in BOOLEAN : SelectFence(synced) \/ SelectSave(synced)
    BY <1>1, <1>6 DEF SelectStep, Select, SelectFails, policyVars, historyVars
  <1>7. ASSUME LocalStep \/ UNCHANGED sharingVars
        PROVE  Quiet
    BY <1>1, <1>7 DEF LocalStep, LocalWrite, LocalBlob, sharingVars, policyVars, historyVars
  <1> QED BY <1>4, <1>5, <1>6, <1>7, StepCases

\* A session keeps its revision and its offers, is bound to the present
\* ledger, or takes its offers from it.
LEMMA BindingStep ==
    ASSUME TypeOK, [SharingNext]_sharingVars, NEW v \in Worker, worker'[v].open
    PROVE  \/ /\ worker[v].open /\ worker'[v].revision = worker[v].revision
              /\ \/ worker'[v].offers = worker[v].offers
                 \/ /\ Loads(v) /\ worker'[v].offers = snapshot_for(FALSE)
                    /\ UNCHANGED <<first, scope, fence, fenceSafe, kept, supplied>>
           \/ worker'[v].revision = scope'[1].revision /\ worker'[v].offers.recs = {}
  <1> DEFINE Left == worker[v].open /\ worker'[v].revision = worker[v].revision /\ worker'[v].offers = worker[v].offers
             Fresh == worker'[v].revision = scope'[1].revision /\ worker'[v].offers.recs = {}
  <1>0. worker[v] \in WorkerType
    BY DEF TypeOK
  <1>1. ASSUME worker'[v] = worker[v]
        PROVE  Left
    BY <1>1
  <1>2. worker'[v] # Closed
    BY SMT DEF Closed
  <1>3. ASSUME NEW r, worker'[v] = Bound(r)
        PROVE  worker'[v].revision = r /\ worker'[v].offers.recs = {}
    BY <1>3, SMT DEF Bound, Closed, NoSnapshot
  <1>4. ASSUME NEW w \in Worker, NEW x, worker' = [worker EXCEPT ![w] = x]
        PROVE  worker'[v] = worker[v] \/ (worker'[v] = x /\ v = w)
    BY <1>4 DEF TypeOK
  <1>5. ASSUME NEW w \in Worker, NEW backfill \in BOOLEAN, NEW synced \in BOOLEAN,
               CreateScope(w, backfill, synced)
        PROVE  Left \/ Fresh
    <2>1. scope'[1].revision = 0
      BY <1>5, SomeFacts, SMT DEF CreateScope, FirstScope
    <2>2. worker' = worker \/ worker' = [worker EXCEPT ![w] = Bound(0)]
      BY <1>5 DEF CreateScope
    <2>3. worker'[v] = worker[v] \/ worker'[v] = Bound(0)
      BY <1>4, <2>2
    <2> QED BY <1>1, <1>3, <2>1, <2>3
  <1>6. ASSUME NEW w \in Worker, BindWorker(w)
        PROVE  Left \/ Fresh
    BY <1>1, <1>3, <1>4, <1>6 DEF BindWorker, policyVars
  <1>7. ASSUME NEW w \in Worker, NEW receiving \in BOOLEAN, TakeSnapshot(w, receiving)
        PROVE  \/ Left
               \/ /\ worker[v].open /\ worker'[v].revision = worker[v].revision
                  /\ Loads(v) /\ worker'[v].offers = snapshot_for(FALSE)
                  /\ UNCHANGED <<first, scope, fence, fenceSafe, kept, supplied>>
    <2>1. ASSUME NEW snap
          PROVE  /\ [worker EXCEPT ![w].local = snap][v].offers = worker[v].offers
                 /\ [worker EXCEPT ![w].local = snap][v].revision = worker[v].revision
                 /\ [worker EXCEPT ![w].offers = snap][v].revision = worker[v].revision
                 /\ [worker EXCEPT ![w].offers = snap][v].offers = IF v = w THEN snap ELSE worker[v].offers
      BY <1>0 DEF TypeOK, WorkerType
    <2>2. ASSUME NEW snap
          PROVE  v # w => /\ [worker EXCEPT ![w].local = snap][v] = worker[v]
                          /\ [worker EXCEPT ![w].offers = snap][v] = worker[v]
      BY <1>0 DEF TypeOK, WorkerType
    <2>3. worker[v].open
      BY <1>7, <2>2 DEF TakeSnapshot
    <2>4. UNCHANGED <<first, scope, fence, fenceSafe, kept, supplied>> /\ Loads(w)
      BY <1>7 DEF TakeSnapshot, policyVars, historyVars
    <2> QED BY <1>7, <2>1, <2>3, <2>4 DEF TakeSnapshot
  <1>8. ASSUME NEW w \in Worker, WorkerStep(w),
               ~\E receiving \in BOOLEAN : TakeSnapshot(w, receiving)
        PROVE  Left \/ Fresh
    <2>1. CASE CloseWorker(w) \/ \E batch \in SUBSET Key : IngestSaveFails(w, batch)
      BY <1>1, <1>2, <1>4, <2>1 DEF CloseWorker, IngestSaveFails
    <2>2. CASE \/ \E batch \in SUBSET Key : Ingest(w, batch)
               \/ \E k \in Key, h \in Hash : IngestBlob(w, k, h) \/ ConfirmBlob(w, k, h)
      BY <1>1, <2>2 DEF Ingest, IngestBlob, ConfirmBlob, StoresBlob
    <2> QED BY <1>5, <1>6, <1>8, <2>1, <2>2 DEF WorkerStep
  <1>9. ASSUME IngestReturn
        PROVE  Left
    <2>1. job.w \in Worker
      BY <1>9, JobKinds DEF IngestReturn, IngestType
    <2>2. ASSUME NEW snap
          PROVE  /\ [worker EXCEPT ![job.w].local = snap][v].offers = worker[v].offers
                 /\ [worker EXCEPT ![job.w].local = snap][v].revision = worker[v].revision
                 /\ [worker EXCEPT ![job.w].local = snap][v].open = worker[v].open
      BY <1>0, <2>1 DEF TypeOK, WorkerType
    <2> QED BY <1>9, <2>2 DEF IngestReturn, Returned
  <1>10. ASSUME ReceiptStep, ~IngestReturn
         PROVE  Left
    <2>1. worker'[v] = worker[v] \/ worker'[v] = Closed
      BY <1>10 DEF ReceiptStep, IngestAppend, ReceiptFails, BlobNoted, TypeOK
    <2> QED BY <1>1, <1>2, <2>1
  <1>11. ASSUME SelectStep \/ LocalStep \/ UNCHANGED sharingVars
         PROVE  Left
    BY <1>11 DEF SelectStep, Select, SelectFence, SelectSave, SelectFails, LocalStep, LocalWrite, LocalBlob,
                 sharingVars
  <1>12. ~PowerLoss
    BY <1>2 DEF PowerLoss
  <1> QED BY <1>7, <1>8, <1>9, <1>10, <1>11, <1>12, StepCases

\* While a selection is in progress its cutoff lies after every record, and
\* nothing else writes.
LEMMA SelectingStep ==
    ASSUME TypeOK, DurableInv, FenceInv, [SharingNext]_sharingVars, job'.kind = "select"
    PROVE  /\ job'.fenced => fence' = Some(scope'[1].revision + 1) /\ fenceSafe' = fence'
           /\ job'.cutoff # 0 => \A k \in Key : first'[k] < job'.cutoff
  <1> DEFINE Goal == /\ job'.fenced => fence' = Some(scope'[1].revision + 1) /\ fenceSafe' = fence'
                     /\ job'.cutoff # 0 => \A k \in Key : first'[k] < job'.cutoff
  <1>1. ASSUME NEW backfill \in BOOLEAN, Select(backfill)
        PROVE  Goal
    <2>1. ~job'.fenced /\ first' = first /\ (job'.cutoff # 0 => job'.cutoff = segment + 1)
      BY <1>1 DEF Select
    <2>2. \A k \in Key : first[k] \in Nat /\ first[k] < segment + 1
      BY SMT DEF TypeOK, DurableInv
    <2> QED BY <2>1, <2>2
  <1>2. ASSUME NEW synced \in BOOLEAN, SelectFence(synced)
        PROVE  Goal
    <2>1. job \in SelectType
      BY <1>2, JobKinds DEF SelectFence
    <2>2. synced
      BY <1>2 DEF SelectFence, NoJob
    <2>3. /\ job'.cutoff = job.cutoff /\ first' = first /\ scope' = scope
          /\ fence' = Some(scope[1].revision + 1) /\ fenceSafe' = fence'
      BY <1>2, <2>1, <2>2 DEF SelectFence, SelectType, chainVars
    <2> QED BY <1>2, <2>3 DEF FenceInv, SelectFence
  <1>3. ASSUME UNCHANGED <<job, first, scope, fence, fenceSafe>>
        PROVE  Goal
    BY <1>3 DEF FenceInv
  <1>4. ASSUME NEW w \in Worker, WorkerStep(w)
        PROVE  Goal
    <2>1. CASE CloseWorker(w)
      BY <1>3, <2>1 DEF CloseWorker, chainVars, policyVars
    <2>2. ASSUME NEW batch \in SUBSET Key, Ingest(w, batch)
          PROVE  job'.kind = "ingest"
      BY <2>2 DEF Ingest
    <2>3. ASSUME NEW k \in Key, NEW h \in Hash, StoresBlob(w, k, h)
          PROVE  job'.kind = "blob"
      BY <2>3 DEF StoresBlob
    <2>4. ASSUME \/ \E backfill, synced \in BOOLEAN : CreateScope(w, backfill, synced)
                 \/ BindWorker(w) \/ \E receiving \in BOOLEAN : TakeSnapshot(w, receiving)
                 \/ \E batch \in SUBSET Key : IngestSaveFails(w, batch)
          PROVE  job' = NoJob
      BY <2>4 DEF CreateScope, BindWorker, TakeSnapshot, IngestSaveFails, Receives, Free
    <2>5. NoJob.kind # "select"
      BY DEF NoJob
    <2> QED BY <1>4, <2>1, <2>2, <2>3, <2>4, <2>5 DEF WorkerStep, IngestBlob, ConfirmBlob
  <1>5. ~ReceiptStep
    <2>1. ReceiptStep => job' = NoJob \/ job'.kind = "ingest"
      BY JobKinds DEF ReceiptStep, IngestAppend, IngestReturn, Returned, ReceiptFails, BlobNoted, IngestType
    <2> QED BY <2>1, SMT DEF NoJob
  <1>6. ASSUME SelectStep
        PROVE  Goal
    <2>1. ~SelectFails /\ ~\E synced \in BOOLEAN : SelectSave(synced)
      BY SMT DEF SelectFails, SelectSave, NoJob
    <2> QED BY <1>1, <1>2, <1>6, <2>1 DEF SelectStep
  <1>7. ASSUME LocalStep \/ UNCHANGED sharingVars
        PROVE  Goal
    <2>1. ASSUME NEW k \in Own, LocalWrite(k)
          PROVE  FALSE
      <3>1. job' = NoJob
        BY <2>1 DEF LocalWrite, Free
      <3> QED BY <3>1 DEF NoJob
    <2> QED BY <1>3, <1>7, <2>1 DEF LocalStep, LocalBlob, sharingVars, chainVars, policyVars
  <1>8. ~PowerLoss
    BY SMT DEF PowerLoss, NoJob
  <1> QED BY <1>4, <1>5, <1>6, <1>7, <1>8, StepCases

\* A power loss leaves revisions that were there.
LEMMA RevisionTypes ==
    ASSUME TypeOK
    PROVE  /\ scope # None => scope[1].revision \in Nat /\ scope[1].cutoff \in Nat
           /\ scopeSafe # None => scopeSafe[1].revision \in Nat /\ scopeSafe[1].cutoff \in Nat
           /\ Revision(fence) \in Nat /\ Revision(fenceSafe) \in Nat
           /\ \A w \in Worker : worker[w].revision \in Nat
  <1>1. /\ scope # None => scope[1] \in ScopeType
        /\ scopeSafe # None => scopeSafe[1] \in ScopeType
    BY OptFacts DEF TypeOK
  <1>2. \A f \in Opt(Nat) : Revision(f) \in Nat
    BY OptFacts DEF Revision
  <1> QED BY <1>1, <1>2 DEF TypeOK, ScopeType, WorkerType

\* The ledger a selection saves (Scope::select).
LEMMA SelectSaved ==
    ASSUME TypeOK, ScopeInv, NEW synced, SelectSave(synced)
    PROVE  /\ scope # None /\ scope' # None
           /\ scope'[1].revision = scope[1].revision + 1 /\ scope'[1].cutoff = job.cutoff
  <1>1. scope # None /\ scope[1] \in ScopeType
    BY ScopeTypes, SMT DEF SelectSave, ScopeInv, Free, NoJob
  <1>2. scope[1].revision + 1 \in Nat
    BY <1>1, SMT DEF ScopeType
  <1>3. ASSUME NEW r \in Nat
        PROVE  /\ [scope[1] EXCEPT !.revision = r, !.cutoff = job.cutoff, !.excluded = {}].revision = r
               /\ [scope[1] EXCEPT !.revision = r, !.cutoff = job.cutoff, !.excluded = {}].cutoff = job.cutoff
    BY <1>1 DEF ScopeType
  <1>4. /\ select(scope[1], job.cutoff).revision = scope[1].revision + 1
        /\ select(scope[1], job.cutoff).cutoff = job.cutoff
    BY <1>2, <1>3 DEF select
  <1> QED BY <1>1, <1>4, SomeFacts DEF SelectSave

\* The fence is never behind a ledger, in every step.
LEMMA FenceStep ==
    ASSUME TypeOK, TypeOK', ScopeInv, ScopeInv', DurableInv, ProvenanceInv, FenceInv,
           [SharingNext]_sharingVars
    PROVE  FenceInv'
  <1> DEFINE Ahead == scope' # None => /\ scope'[1].revision <= Revision(fence')
                                       /\ scope'[1].revision <= Revision(fenceSafe')
             Older == scopeSafe' # None => scopeSafe'[1].revision <= scope'[1].revision
             Behind == \A v \in Worker : worker'[v].open => worker'[v].revision <= scope'[1].revision
  <1>0. /\ scope # None => scope[1].revision \in Nat
        /\ scopeSafe # None => scopeSafe[1].revision \in Nat
        /\ Revision(fence) \in Nat /\ Revision(fenceSafe) \in Nat
        /\ \A v \in Worker : worker[v].revision \in Nat
    BY RevisionTypes
  <1>1. scope' # None => scope'[1].revision \in Nat
    <2>1. scope' \in Opt(ScopeType)
      BY DEF TypeOK, Opt, ScopeType
    <2>2. scope' # None => scope'[1] \in ScopeType
      BY <2>1, OptFacts
    <2> QED BY <2>2 DEF ScopeType
  <1>2. ASSUME scope # None => scope' # None /\ scope[1].revision <= scope'[1].revision
        PROVE  Older /\ Behind
    <2>1. Older
      BY <1>0, <1>1, <1>2, SafeScopeStep, SMT DEF FenceInv, ScopeInv
    <2>2. ASSUME NEW v \in Worker, worker'[v].open
          PROVE  worker'[v].revision <= scope'[1].revision
      <3>1. \/ worker[v].open /\ worker'[v].revision = worker[v].revision
            \/ worker'[v].revision = scope'[1].revision
        BY <2>2, BindingStep
      <3>2. scope' # None
        BY <2>2 DEF ScopeInv
      <3> QED BY <1>0, <1>1, <1>2, <3>1, <3>2, SMT DEF FenceInv, ScopeInv
    <2> QED BY <2>1, <2>2
  <1>3. ASSUME Quiet
        PROVE  Ahead /\ Older /\ Behind
    BY <1>0, <1>2, <1>3, SMT DEF Quiet, FenceInv
  <1>4. ASSUME NEW w \in Worker, NEW backfill \in BOOLEAN, NEW synced \in BOOLEAN,
               CreateScope(w, backfill, synced)
        PROVE  Ahead /\ Older /\ Behind
    <2>1. scope = None /\ scope'[1].revision = 0 /\ UNCHANGED <<fence, fenceSafe>>
      BY <1>4, SomeFacts, SMT DEF CreateScope, FirstScope
    <2> QED BY <1>0, <1>2, <2>1, SMT
  <1>5. ASSUME NEW synced \in BOOLEAN, SelectFence(synced)
        PROVE  Ahead /\ Older /\ Behind
    <2>1. scope # None
      BY <1>5, SMT DEF SelectFence, ScopeInv, Free, NoJob
    <2>2. /\ UNCHANGED scope /\ Revision(fence') = scope[1].revision + 1
          /\ fenceSafe' \in {fence', fenceSafe}
      BY <1>5, SomeFacts DEF SelectFence, Revision
    <2>3. Ahead
      BY <1>0, <2>1, <2>2, SMT DEF FenceInv
    <2> QED BY <1>0, <1>2, <2>1, <2>2, <2>3, SMT
  <1>6. ASSUME NEW synced \in BOOLEAN, SelectSave(synced)
        PROVE  Ahead /\ Older /\ Behind
    <2>1. scope # None /\ scope' # None /\ scope'[1].revision = scope[1].revision + 1
      BY <1>6, SelectSaved
    <2>2. /\ fence' = Some(scope[1].revision + 1) /\ fenceSafe' = Some(scope[1].revision + 1)
      BY <1>6 DEF SelectSave, FenceInv
    <2>3. Revision(fence') = scope[1].revision + 1 /\ Revision(fenceSafe') = scope[1].revision + 1
      BY <2>2, SomeFacts DEF Revision
    <2> QED BY <1>0, <1>2, <2>1, <2>3, SMT
  <1>7. ASSUME PowerLoss
        PROVE  Ahead /\ Older /\ Behind
    <2>1. /\ scope' \in {scope, scopeSafe} /\ scopeSafe' = scope'
          /\ fence' \in {fence, fenceSafe} /\ fenceSafe' = fence'
          /\ \A v \in Worker : ~worker'[v].open
      BY <1>7 DEF PowerLoss, Closed
    <2> QED BY <1>0, <1>1, <2>1, SMT DEF FenceInv, ScopeInv
  <1>8. Ahead /\ Older /\ Behind
    BY <1>3, <1>4, <1>5, <1>6, <1>7, QuietSteps
  <1>9. job'.kind = "select" =>
          /\ job'.fenced => fence' = Some(scope'[1].revision + 1) /\ fenceSafe' = fence'
          /\ job'.cutoff # 0 => \A k \in Key : first'[k] < job'.cutoff
    BY SelectingStep
  <1> QED BY <1>8, <1>9 DEF FenceInv, Revision
-----------------------------------------------------------------------------
(* Consent.                                                                *)

\* A record stays where it is, but for a power loss.
LEMMA PresentStays ==
    ASSUME TypeOK, DurableInv, [SharingNext]_sharingVars, ~PowerLoss, NEW k \in Present
    PROVE  first'[k] = first[k] /\ k \in Present'
  <1>0. k \in Key /\ first[k] > 0
    BY DEF Present
  <1>1. ASSUME first'[k] = first[k]
        PROVE  k \in Present'
    BY <1>0, <1>1 DEF Present
  <1>2. ASSUME NEW keys \in SUBSET Key, NEW at \in Places, Appended(keys, at)
        PROVE  first'[k] = first[k]
    BY <1>2, AppendedPresent
  <1>3. ASSUME UNCHANGED first
        PROVE  first'[k] = first[k]
    BY <1>3
  <1>4. ASSUME NEW w \in Worker, WorkerStep(w)
        PROVE  UNCHANGED first
    BY <1>4 DEF WorkerStep, CreateScope, BindWorker, CloseWorker, TakeSnapshot, Ingest, IngestSaveFails,
                IngestBlob, ConfirmBlob, StoresBlob, chainVars
  <1>5. ASSUME ReceiptStep
        PROVE  first'[k] = first[k]
    <2>1. CASE IngestAppend \/ ReceiptFails
      BY <1>2, <1>3, <2>1, JobKinds DEF IngestAppend, ReceiptFails, IngestType
    <2>2. CASE IngestReturn \/ \E synced \in BOOLEAN : BlobNoted(synced)
      BY <1>3, <2>2 DEF IngestReturn, Returned, BlobNoted, chainVars
    <2> QED BY <1>5, <2>1, <2>2 DEF ReceiptStep
  <1>6. ASSUME SelectStep \/ UNCHANGED sharingVars
        PROVE  UNCHANGED first
    BY <1>6 DEF SelectStep, Select, SelectFence, SelectSave, SelectFails, sharingVars, chainVars
  <1>7. ASSUME LocalStep
        PROVE  first'[k] = first[k]
    BY <1>2, <1>3, <1>7 DEF LocalStep, LocalWrite, LocalBlob, Key
  <1>8. first'[k] = first[k]
    BY <1>3, <1>4, <1>5, <1>6, <1>7, StepCases
  <1> QED BY <1>1, <1>8

\* What a peer sent stays known.
LEMMA SuppliedGrows ==
    ASSUME [SharingNext]_sharingVars
    PROVE  supplied \subseteq supplied'
  <1>1. ASSUME NEW w \in Worker, WorkerStep(w)
        PROVE  supplied \subseteq supplied'
    BY <1>1 DEF WorkerStep, CreateScope, BindWorker, CloseWorker, TakeSnapshot, Ingest, IngestSaveFails,
                IngestBlob, ConfirmBlob, StoresBlob, historyVars
  <1>2. ASSUME ReceiptStep \/ SelectStep
        PROVE  supplied \subseteq supplied'
    BY <1>2 DEF ReceiptStep, IngestAppend, IngestReturn, Returned, ReceiptFails, BlobNoted, SelectStep,
                Select, SelectFence, SelectSave, SelectFails, historyVars
  <1>3. ASSUME LocalStep \/ PowerLoss \/ UNCHANGED sharingVars
        PROVE  supplied \subseteq supplied'
    BY <1>3 DEF LocalStep, LocalWrite, LocalBlob, PowerLoss, sharingVars, historyVars
  <1> QED BY <1>1, <1>2, <1>3, StepCases

\* What Honours says of a ledger after a step.
HonoursNext(sc) ==
    sc # None /\ sc[1].revision \in {Revision(fence'), Revision(fenceSafe')} =>
      \A k \in kept' :
        k \in sc[1].excluded \/ first'[k] < sc[1].cutoff \/ (sc[1].revision = 0 /\ k \in supplied')

\* A quiet step: what leaves `excluded` was sent by a peer, in revision 0.
LEMMA QuietHonours ==
    ASSUME TypeOK, ScopeInv, DurableInv, ProvenanceInv, ConsentInv, [SharingNext]_sharingVars,
           ~PowerLoss, Quiet
    PROVE  HonoursNext(scope') /\ HonoursNext(scopeSafe')
  <1>0. supplied \subseteq supplied' /\ \A k \in kept : first'[k] = first[k]
    BY SuppliedGrows, PresentStays DEF ConsentInv
  <1>1. ASSUME NEW sc, Honours(sc)
        PROVE  HonoursNext(sc)
    BY <1>0, <1>1 DEF Quiet, Honours, HonoursNext, excludes, before_cutoff, Yields
  <1>2. HonoursNext(scope')
    <2>1. CASE scope = None
      BY <2>1 DEF Quiet, HonoursNext
    <2>2. CASE scope # None
      <3>1. HonoursNext(scope)
        BY <1>1 DEF ConsentInv
      <3>2. scope[1].revision # 0 => scope[1].excluded = {}
        BY <2>2 DEF ProvenanceInv, Accounts
      <3> QED BY <2>2, <3>1, <3>2 DEF Quiet, HonoursNext
    <2> QED BY <2>1, <2>2
  <1> QED BY <1>1, <1>2, SafeScopeStep DEF ConsentInv

\* Each step leaves ledgers that hold back what is kept, or outdated ones.
LEMMA HonoursStep ==
    ASSUME TypeOK, ScopeInv, DurableInv, ProvenanceInv, FenceInv, ConsentInv,
           [SharingNext]_sharingVars
    PROVE  HonoursNext(scope') /\ HonoursNext(scopeSafe') /\ kept' \subseteq Present'
  <1>0. ASSUME ~PowerLoss
        PROVE  Present \subseteq Present' /\ (UNCHANGED kept => kept' \subseteq Present')
    BY <1>0, PresentStays DEF ConsentInv
  <1>1. CASE Quiet /\ ~PowerLoss
    BY <1>0, <1>1, QuietHonours DEF Quiet
  <1>2. ASSUME NEW w \in Worker, NEW backfill \in BOOLEAN, NEW synced \in BOOLEAN,
               CreateScope(w, backfill, synced), ~PowerLoss
        PROVE  HonoursNext(scope') /\ HonoursNext(scopeSafe') /\ kept' \subseteq Present'
    <2>1. scope'[1].excluded = kept' /\ kept' \subseteq Present /\ scopeSafe = None
      BY <1>2, SomeFacts DEF CreateScope, FirstScope, ScopeInv
    <2>2. HonoursNext(scope') /\ HonoursNext(None)
      BY <2>1 DEF HonoursNext
    <2> QED BY <1>0, <1>2, <2>1, <2>2, SafeScopeStep
  <1>3. ASSUME NEW synced \in BOOLEAN, SelectFence(synced), ~PowerLoss
        PROVE  HonoursNext(scope') /\ HonoursNext(scopeSafe') /\ kept' \subseteq Present'
    <2>1. scope # None /\ scope[1].revision \in Nat
      BY <1>3, RevisionTypes, SMT DEF SelectFence, ScopeInv, Free, NoJob
    <2>2. /\ Revision(fence') = scope[1].revision + 1 /\ fenceSafe' \in {fence', fenceSafe}
          /\ UNCHANGED <<first, scope, scopeSafe, supplied, kept>>
      BY <1>3, SomeFacts DEF SelectFence, Revision, chainVars, historyVars
    <2>3. ASSUME NEW sc, Honours(sc), sc # None => sc[1].revision \in Nat /\ sc[1].revision <= scope[1].revision
          PROVE  HonoursNext(sc)
      <3>1. SUFFICES ASSUME sc # None, sc[1].revision \in {Revision(fence'), Revision(fenceSafe')}
                     PROVE  \A k \in kept' : \/ k \in sc[1].excluded \/ first'[k] < sc[1].cutoff
                                             \/ (sc[1].revision = 0 /\ k \in supplied')
        BY DEF HonoursNext
      <3>2. sc[1].revision # Revision(fence')
        BY <2>1, <2>2, <2>3, <3>1, SMT
      <3>3. sc[1].revision = Revision(fenceSafe)
        BY <2>2, <3>1, <3>2
      <3> QED BY <2>2, <2>3, <3>1, <3>3 DEF Honours, excludes, before_cutoff, Yields
    <2>4. HonoursNext(scope) /\ HonoursNext(scopeSafe)
      BY <2>1, <2>3, RevisionTypes, SMT DEF ConsentInv, FenceInv
    <2> QED BY <1>0, <1>3, <2>2, <2>4
  <1>4. ASSUME NEW synced \in BOOLEAN, SelectSave(synced), ~PowerLoss
        PROVE  HonoursNext(scope') /\ HonoursNext(scopeSafe') /\ kept' \subseteq Present'
    <2>1. /\ scope # None /\ scope' # None
          /\ scope'[1].revision = scope[1].revision + 1 /\ scope'[1].cutoff = job.cutoff
      BY <1>4, SelectSaved
    <2>2. /\ UNCHANGED first /\ kept' \subseteq Present
          /\ Revision(fence') = scope[1].revision + 1 /\ Revision(fenceSafe') = scope[1].revision + 1
      BY <1>4, SomeFacts DEF SelectSave, FenceInv, Revision, chainVars
    <2>3. kept' # {} => job.cutoff # 0
      BY <1>4, <2>1, SomeFacts DEF SelectSave
    <2>4. job.cutoff # 0 => \A k \in Key : first[k] < job.cutoff
      BY <1>4 DEF SelectSave, FenceInv
    <2>5. HonoursNext(scope')
      BY <2>1, <2>2, <2>3, <2>4 DEF HonoursNext, Present
    <2>6. HonoursNext(scopeSafe)
      <3>1. scopeSafe # None => scopeSafe[1].revision \in Nat /\ scopeSafe[1].revision <= scope[1].revision
        BY RevisionTypes DEF FenceInv
      <3>2. scope[1].revision \in Nat
        BY <2>1, RevisionTypes
      <3> QED BY <2>2, <3>1, <3>2, SMT DEF HonoursNext
    <2> QED BY <1>0, <1>4, <2>2, <2>5, <2>6, SafeScopeStep
  <1>5. CASE PowerLoss
    <2>1. /\ scope' \in {scope, scopeSafe} /\ scopeSafe' = scope'
          /\ fence' \in {fence, fenceSafe} /\ fenceSafe' = fence' /\ UNCHANGED supplied
      BY <1>5 DEF PowerLoss
    <2>2. kept' \subseteq kept /\ \A k \in kept' : first'[k] = first[k]
      BY <1>5 DEF PowerLoss, ConsentInv, Present
    <2>3. ASSUME NEW sc, Honours(sc)
          PROVE  HonoursNext(sc)
      BY <2>1, <2>2, <2>3 DEF Honours, HonoursNext, excludes, before_cutoff, Yields
    <2>4. kept' \subseteq Present'
      BY <2>2 DEF ConsentInv, Present
    <2> QED BY <2>1, <2>3, <2>4 DEF ConsentInv
  <1> QED BY <1>1, <1>2, <1>3, <1>4, <1>5, QuietSteps

\* A session whose revision is not outdated is bound to the fence
\* (ensure_revision).
LEMMA EnsuredRevision ==
    ASSUME TypeOK, NEW w \in Worker, ensure_scope(w)
    PROVE  Revision(fence) = worker[w].revision
  BY RevisionTypes, SomeFacts DEF ensure_scope, ensure_revision, Revision

\* No session of the current revision offers what is kept.
LEMMA OffersStep ==
    ASSUME TypeOK, ScopeInv, DurableInv, ProvenanceInv, FenceInv, ConsentInv,
           [SharingNext]_sharingVars,
           NEW v \in Worker, worker'[v].open, worker'[v].revision = scope'[1].revision,
           NEW k \in worker'[v].offers.recs \cap kept'
    PROVE  scope'[1].revision = 0 /\ k \in supplied'
  <1>0. ~PowerLoss /\ supplied \subseteq supplied'
    <2>1. ~Closed.open
      BY DEF Closed
    <2> QED BY <2>1, SuppliedGrows DEF PowerLoss
  <1>1. /\ worker[v].open /\ worker'[v].revision = worker[v].revision
        /\ \/ worker'[v].offers = worker[v].offers
           \/ Loads(v) /\ worker'[v].offers = snapshot_for(FALSE)
    BY BindingStep
  <1>2. scope # None /\ scope[1].revision \in Nat /\ worker[v].revision <= scope[1].revision
        /\ worker[v].revision \in Nat
    BY <1>1, RevisionTypes DEF ScopeInv, FenceInv
  <1>3. UNCHANGED kept /\ scope'[1].revision = scope[1].revision
    <2>1. ASSUME NEW w \in Worker, NEW backfill \in BOOLEAN, NEW synced \in BOOLEAN
          PROVE  ~CreateScope(w, backfill, synced)
      BY <1>2 DEF CreateScope
    <2>2. ASSUME NEW synced \in BOOLEAN, SelectSave(synced)
          PROVE  FALSE
      <3>1. scope'[1].revision = scope[1].revision + 1
        BY <2>2, SelectSaved
      <3>2. worker[v].revision = scope[1].revision + 1
        BY <1>1, <3>1
      <3>3. \A m, n \in Nat : m <= n => m # n + 1
        BY SMT
      <3> QED BY <1>2, <3>2, <3>3
    <2>3. ASSUME NEW synced \in BOOLEAN, SelectFence(synced)
          PROVE  UNCHANGED <<scope, kept>>
      BY <2>3 DEF SelectFence, historyVars
    <2>4. ASSUME Quiet
          PROVE  UNCHANGED kept /\ scope'[1].revision = scope[1].revision
      BY <1>2, <2>4 DEF Quiet
    <2> QED BY <1>0, <2>1, <2>2, <2>3, <2>4, QuietSteps
  <1>4. CASE worker'[v].offers = worker[v].offers
    BY <1>0, <1>1, <1>3, <1>4 DEF ConsentInv, Yields
  <1>5. CASE Loads(v) /\ worker'[v].offers = snapshot_for(FALSE)
    <2>1. scope[1].revision = Revision(fence)
      BY <1>5, EnsuredRevision DEF Loads
    <2>2. ~excludes(scope[1], k)
      BY <1>5, SMT DEF snapshot_for
    <2>3. Yields(scope[1], k)
      BY <1>2, <1>3, <2>1, <2>2 DEF ConsentInv, Honours
    <2> QED BY <1>0, <1>3, <2>3 DEF Yields
  <1> QED BY <1>1, <1>4, <1>5

\* Consent is kept by every step.
LEMMA ConsentStep ==
    ASSUME TypeOK, ScopeInv, DurableInv, ProvenanceInv, FenceInv, ConsentInv,
           [SharingNext]_sharingVars
    PROVE  ConsentInv'
  <1>1. Honours(scope)' /\ Honours(scopeSafe)' /\ (kept \subseteq Present)'
    BY HonoursStep DEF HonoursNext, Honours, excludes, before_cutoff, Yields, Revision
  <1>2. \A w \in Worker :
          worker'[w].open /\ worker'[w].revision = scope'[1].revision =>
            \A k \in worker'[w].offers.recs \cap kept' : Yields(scope[1], k)'
    BY OffersStep DEF Yields
  <1> QED BY <1>1, <1>2 DEF ConsentInv
-----------------------------------------------------------------------------
(* The theorems.                                                           *)

\* The invariant holds of an empty chain without a ledger (SharingInit).
LEMMA InvInit == SharingInit => Inv
  <1> SUFFICES ASSUME SharingInit
               PROVE  Inv
    OBVIOUS
  <1>0. /\ \A w \in Worker : worker[w] = Closed
        /\ Closed.offers = NoSnapshot /\ Closed.local = NoSnapshot /\ ~Closed.open
        /\ NoSnapshot.recs = {} /\ NoSnapshot.received = {} /\ NoSnapshot.received_blobs = {}
        /\ job.kind = "none"
    BY DEF SharingInit, Closed, NoSnapshot, NoJob
  <1>1. TypeOK
    BY SnapshotTypes, OptFacts, SMT DEF SharingInit, TypeOK
  <1>2. ScopeInv
    BY <1>0 DEF SharingInit, ScopeInv, Free
  <1>3. Present = {}
    BY SMT DEF SharingInit, Present
  <1>4. DurableInv
    BY <1>0, <1>3, SMT DEF SharingInit, DurableInv
  <1>5. ProvenanceInv
    BY <1>0, <1>3 DEF SharingInit, ProvenanceInv, Accounts, Received
  <1>6. ContentInv
    BY <1>0 DEF SharingInit, ContentInv, Grants, Gated, Received
  <1>7. FenceInv
    BY <1>0 DEF SharingInit, FenceInv
  <1>8. ConsentInv
    BY <1>0, <1>3 DEF SharingInit, ConsentInv, Honours
  <1> QED BY <1>1, <1>2, <1>4, <1>5, <1>6, <1>7, <1>8 DEF Inv

\* Every step keeps it (SharingNext).
LEMMA InvStep == Inv /\ [SharingNext]_sharingVars => Inv'
  <1> SUFFICES ASSUME Inv, [SharingNext]_sharingVars
               PROVE  Inv'
    OBVIOUS
  <1>0. TypeOK /\ ScopeInv /\ DurableInv /\ ProvenanceInv /\ ContentInv /\ FenceInv /\ ConsentInv
    BY DEF Inv
  <1>1. TypeOK' /\ ScopeInv'
    BY <1>0, TypeStep, ScopeStep
  <1>2. DurableInv' /\ ProvenanceInv' /\ ContentInv'
    BY <1>0, DurableStep, ProvenanceStep, ContentStep
  <1>3. FenceInv' /\ ConsentInv'
    BY <1>0, <1>1, FenceStep, ConsentStep
  <1> QED BY <1>1, <1>2, <1>3 DEF Inv

\* The invariant of sharing, for any workers, records, segments and
\* selections, with failures and power losses between any two steps.
THEOREM SharingInvariant == SharingSpec => []Inv
  BY InvInit, InvStep, PTL DEF SharingSpec

\* A record that was here when the user chose to share from now on is never
\* sent (Replica::offers, Scope::select, ensure_revision).
THEOREM ConsentHolds == SharingSpec => []ConsentHeld
  <1>1. ASSUME Inv
        PROVE  ConsentHeld
    <2> SUFFICES ASSUME NEW w \in Worker, NEW k \in Key, Sends(w, k), k \in kept
                 PROVE  scope[1].revision = 0 /\ k \in supplied
      BY DEF ConsentHeld
    <2>0. TypeOK /\ ScopeInv /\ FenceInv /\ ConsentInv
      BY <1>1 DEF Inv
    <2>1. worker[w].open /\ k \in worker[w].offers.recs /\ Revision(fence) = worker[w].revision
      BY <2>0, EnsuredRevision DEF Sends
    <2>2. scope # None /\ worker[w].revision <= scope[1].revision /\ scope[1].revision <= Revision(fence)
      BY <2>0, <2>1 DEF ScopeInv, FenceInv
    <2>3. worker[w].revision = scope[1].revision
      BY <2>0, <2>1, <2>2, RevisionTypes, SMT
    <2> QED BY <2>0, <2>1, <2>3 DEF ConsentInv, Yields
  <1> QED BY <1>1, SharingInvariant, PTL

\* Content that is sent came from a peer or belongs to an own record that was
\* shared at some time (Snapshot::permits_blob, Replica::read_blob).
THEOREM ContentStaysGated == SharingSpec => []ContentGated
  <1>1. ASSUME Inv
        PROVE  ContentGated
    <2> SUFFICES ASSUME NEW w \in Worker, NEW k \in Key, NEW h \in Hash, SendsBlob(w, k, h)
                 PROVE  h \in granted
      BY DEF ContentGated
    <2>1. /\ k \in worker[w].offers.recs /\ h \in RefsOf[k]
          /\ k \notin worker[w].offers.received \/ h \in worker[w].offers.received_blobs
      BY DEF SendsBlob, read_blob, permits_blob
    <2>2. Gated(worker[w].offers)
      BY <1>1 DEF Inv, ContentInv
    <2> QED BY <2>1, <2>2 DEF Gated, Opens
  <1> QED BY <1>1, SharingInvariant, PTL

\* A peer's record is in the ledger before it is in the chain, and only this
\* device's records count as local (Replica::ingest_batch).
THEOREM ProvenanceHolds == SharingSpec => []ProvenanceExact
  <1>1. Inv => ProvenanceExact
    BY DEF Inv, ProvenanceInv, Accounts, Received, ProvenanceExact
  <1> QED BY <1>1, SharingInvariant, PTL

\* A receipt is returned, and a record offered, only for what is durable
\* (Replica::ingest_batch, Replica::snapshot).
THEOREM ReceiptsAreDurable == SharingSpec => []ReceiptsDurable
  <1>1. Inv => ReceiptsDurable
    BY DEF Inv, DurableInv, ReceiptsDurable
  <1> QED BY <1>1, SharingInvariant, PTL
=============================================================================
