------------------------------- MODULE Sharing ------------------------------
(***************************************************************************)
(* What a device shares (editchain-sync, replica.rs and scope.rs): the     *)
(* ledger of consent and provenance beside the chain, the snapshots that   *)
(* replication offers from, receipts, and the user's selections.  Workers  *)
(* serve peers while another process changes the selection; any of them    *)
(* may fail or die between two writes, and the machine may lose power.     *)
(*                                                                         *)
(* Every operation that writes holds the chain's writer lock: `job` is the *)
(* one in progress.  A record is its key; the chain is where each record   *)
(* occurs first.                                                           *)
(***************************************************************************)
EXTENDS Naturals, FiniteSets

CONSTANTS
    Worker,         \* processes that serve a peer
    Own,            \* records this device's user writes
    Foreign,        \* records only peers write
    Hash,           \* content
    LocalHash,      \* content this device's user may store
    RefsOf,         \* RefsOf[k]: content a record refers to
    MaxSegment,     \* bound: segments
    MaxRevision,    \* bound: selections
    MaxLosses       \* bound: power losses

ASSUME SharingAssumption ==
    /\ Own \cap Foreign = {}
    /\ LocalHash \subseteq Hash
    /\ RefsOf \in [Own \cup Foreign -> SUBSET Hash]
    /\ MaxSegment \in Nat /\ MaxRevision \in Nat /\ MaxLosses \in Nat

VARIABLES
    first,          \* first[k]: segment of the first occurrence, 0 if absent
    segment,        \* the newest segment file
    safe,           \* records a power loss leaves
    blobs,          \* content in the blob store
    scope,          \* multiplayer/scope.json, if any
    scopeSafe,      \* what a power loss leaves of it
    fence,          \* multiplayer/scope-revision, if any
    fenceSafe,
    worker,         \* worker[w]: its Replica and the snapshots of its session
    job,            \* the operation that holds the writer lock
    losses,
    wrote,          \* history: records written here
    kept,           \* history: records that were here when the selection was made
    supplied,       \* history: records a peer sent
    granted,        \* history: content a peer sent or a shared own record refers to
    acked           \* history: records a receipt was returned for

chainVars == <<first, segment, safe, blobs>>
policyVars == <<scope, scopeSafe, fence, fenceSafe>>
historyVars == <<wrote, kept, supplied, granted, acked>>
sharingVars == <<chainVars, policyVars, worker, job, losses, historyVars>>

Key == Own \cup Foreign

None == << >>
Some(v) == <<v>>

Present == {k \in Key : first[k] > 0}

Refs(keys) == UNION {RefsOf[k] : k \in keys}

NoJob == [kind |-> "none"]

Free == job = NoJob
-----------------------------------------------------------------------------
(* The ledger.  cutoff is the first segment that is shared, 0 for none.    *)

FirstScope(excluded) ==
    [excluded |-> excluded, received |-> {}, received_blobs |-> {}, local |-> {},
     revision |-> 0, cutoff |-> 0]

before_cutoff(s, k) == first[k] < s.cutoff

excludes(s, k) == k \in s.excluded \/ before_cutoff(s, k)

\* ensure_revision: no file stands for revision 0.
ensure_revision(expected) == fence = (IF expected = 0 /\ fence = None THEN None ELSE Some(expected))

ensure_scope(w) == ensure_revision(worker[w].revision)

\* load_scope of a worker succeeds.
Loads(w) == ensure_scope(w) /\ scope[1].revision = worker[w].revision

\* Scope::select.
select(s, first_segment) ==
    [s EXCEPT !.revision = @ + 1, !.cutoff = first_segment, !.excluded = {}]
-----------------------------------------------------------------------------
(* Snapshots.                                                              *)

NoSnapshot == [recs |-> {}, received |-> {}, received_blobs |-> {}, revision |-> 0]

snapshot_for(receiving) ==
    [recs |-> {k \in Present : ~excludes(scope[1], k) \/ (receiving /\ k \in scope[1].received)},
     received |-> scope[1].received, received_blobs |-> scope[1].received_blobs,
     revision |-> scope[1].revision]

permits_any(snap, k, h) == TRUE

permits_blob(snap, k, h) == k \notin snap.received \/ h \in snap.received_blobs

ensure_snapshot(w, snap) == ensure_scope(w) /\ snap.revision = worker[w].revision

read_blob(w, snap, k, h) ==
    /\ ensure_snapshot(w, snap)
    /\ permits_blob(snap, k, h)
    /\ k \in snap.recs
    /\ h \in RefsOf[k] \cap blobs

Closed == [open |-> FALSE, revision |-> 0, offers |-> NoSnapshot, local |-> NoSnapshot]

Bound(revision) == [Closed EXCEPT !.open = TRUE, !.revision = revision]

\* Replica::open binds to the ledger as it is.
BindWorker(w) ==
    /\ Free /\ ~worker[w].open
    /\ scope # None
    /\ worker' = [worker EXCEPT ![w] = Bound(scope[1].revision)]
    /\ UNCHANGED <<chainVars, policyVars, job, losses, historyVars>>

\* Replica::open makes the first ledger; if that is not synced it returns an
\* error and leaves the file.
CreateScope(w, backfill, synced) ==
    LET s == FirstScope(IF backfill THEN {} ELSE Present)
    IN  /\ Free /\ ~worker[w].open
        /\ scope = None
        /\ scope' = Some(s)
        /\ scopeSafe' = IF synced THEN Some(s) ELSE scopeSafe
        /\ worker' = IF synced THEN [worker EXCEPT ![w] = Bound(0)] ELSE worker
        /\ kept' = s.excluded
        /\ granted' = granted \cup (IF backfill THEN Refs(wrote) ELSE {})
        /\ UNCHANGED <<chainVars, fence, fenceSafe, job, losses, wrote, supplied, acked>>

\* Snapshot of what is offered, or of what need not be downloaded; whatever is
\* readable is synced first.
TakeSnapshot(w, receiving) ==
    /\ Free /\ worker[w].open
    /\ Loads(w)
    /\ safe' = Present
    /\ worker' = IF receiving THEN [worker EXCEPT ![w].local = snapshot_for(TRUE)]
                 ELSE [worker EXCEPT ![w].offers = snapshot_for(FALSE)]
    /\ UNCHANGED <<first, segment, blobs, policyVars, job, losses, historyVars>>

\* A session that meets an error, or an outdated revision, is closed.
CloseWorker(w) ==
    /\ worker[w].open
    /\ job.kind \in {"ingest", "blob"} => job.w # w
    /\ worker' = [worker EXCEPT ![w] = Closed]
    /\ UNCHANGED <<chainVars, policyVars, job, losses, historyVars>>
-----------------------------------------------------------------------------
(* Receipts.  The ledger is saved before the records are appended.         *)

\* Records that were held back here when the peer sent them.
Echoed(batch) ==
    {k \in batch : k \in scope[1].excluded \/ (k \in Present /\ before_cutoff(scope[1], k))}

ledger(batch) ==
    [scope[1] EXCEPT
       !.excluded = @ \ batch,
       !.local = @ \cup (Echoed(batch) \ scope[1].received),
       !.received = @ \cup Echoed(batch) \cup (batch \ Present)]

Receives(w, batch) ==
    /\ Free /\ worker[w].open
    /\ batch # {} /\ batch \subseteq Foreign \cup wrote
    /\ Loads(w) /\ ensure_snapshot(w, worker[w].local)

IngestUnsaved(w, batch) ==
    /\ Receives(w, batch)
    /\ job' = [kind |-> "ingest", w |-> w, batch |-> batch, page |-> batch \ Present,
              known |-> batch \cap Present # {}]
    /\ supplied' = supplied \cup batch
    /\ UNCHANGED <<chainVars, policyVars, worker, losses, wrote, kept, granted, acked>>

Ingest(w, batch) ==
    /\ Receives(w, batch)
    /\ IF ledger(batch) # scope[1] \/ ~(batch \subseteq Present)
       THEN scope' = Some(ledger(batch)) /\ scopeSafe' = scope'
       ELSE UNCHANGED <<scope, scopeSafe>>
    /\ job' = [kind |-> "ingest", w |-> w, batch |-> batch, page |-> batch \ Present,
              known |-> batch \cap Present # {}]
    /\ supplied' = supplied \cup batch
    /\ UNCHANGED <<chainVars, fence, fenceSafe, worker, losses, wrote, kept, granted, acked>>

\* The ledger was renamed but not synced.
IngestSaveFails(w, batch) ==
    /\ Receives(w, batch)
    /\ scope' = Some(ledger(batch))
    /\ worker' = [worker EXCEPT ![w] = Closed]
    /\ supplied' = supplied \cup batch
    /\ UNCHANGED <<chainVars, scopeSafe, fence, fenceSafe, job, losses, wrote, kept, granted, acked>>

\* Where a writer puts a page: in the newest segment or, when that is full or
\* has an incomplete tail, in a new one.
Places == {segment, segment + 1} \cap 1 .. MaxSegment

occurs_last(old, at) == at

\* Corpus::admit_record: a repeated record stays where it was first.
occurs(old, at) == IF old > 0 THEN old ELSE at

Appended(keys, at) ==
    /\ first' = [k \in Key |-> IF k \in keys THEN occurs(first[k], at) ELSE first[k]]
    /\ segment' = at

IngestAppend ==
    /\ job.kind = "ingest" /\ job.page # {}
    /\ \E at \in Places : Appended(job.page, at)
    /\ safe' = safe \cup job.page
    /\ job' = [job EXCEPT !.page = {}]
    /\ UNCHANGED <<blobs, policyVars, worker, losses, historyVars>>

Returned ==
    LET known == worker[job.w].local
    IN  /\ acked' = acked \cup job.batch
        /\ worker' = [worker EXCEPT ![job.w].local =
                         [known EXCEPT !.recs = @ \cup job.batch, !.received = scope[1].received,
                                       !.received_blobs = scope[1].received_blobs]]
        /\ job' = NoJob
        /\ UNCHANGED <<first, segment, blobs, policyVars, losses, wrote, kept, supplied, granted>>

IngestReturnUnsynced ==
    /\ job.kind = "ingest" /\ job.page = {}
    /\ safe' = safe
    /\ Returned

\* A batch with records that were here already is acknowledged after a sync of
\* everything readable.
IngestReturn ==
    /\ job.kind = "ingest" /\ job.page = {}
    /\ safe' = IF job.known THEN Present ELSE safe
    /\ Returned

\* Content is written, then it is noted as received.
StoresBlob(w, k, h) ==
    /\ Free /\ worker[w].open
    /\ Loads(w)
    /\ k \in Present /\ (~excludes(scope[1], k) \/ k \in scope[1].received)
    /\ h \in RefsOf[k]
    /\ blobs' = blobs \cup {h}
    /\ job' = [kind |-> "blob", w |-> w, hash |-> h]
    /\ UNCHANGED <<first, segment, safe, policyVars, worker, losses, wrote, kept, supplied, acked>>

IngestBlob(w, k, h) == StoresBlob(w, k, h) /\ granted' = granted \cup {h}

\* Content that is here already and may be read for the record.
ConfirmBlob(w, k, h) ==
    /\ read_blob(w, worker[w].local, k, h)
    /\ StoresBlob(w, k, h)
    /\ UNCHANGED granted

BlobNoted(synced) ==
    LET s == [scope[1] EXCEPT !.received_blobs = @ \cup {job.hash}]
    IN  /\ job.kind = "blob"
        /\ scope' = Some(s)
        /\ scopeSafe' = IF synced THEN Some(s) ELSE scopeSafe
        /\ worker' = IF synced THEN worker ELSE [worker EXCEPT ![job.w] = Closed]
        /\ job' = NoJob
        /\ UNCHANGED <<chainVars, fence, fenceSafe, losses, historyVars>>

\* An append or a sync fails, or the process dies: some of the page may be
\* readable.
ReceiptFails ==
    /\ job.kind \in {"ingest", "blob"}
    /\ \/ UNCHANGED <<first, segment>>
       \/ /\ job.kind = "ingest"
          /\ \E some \in SUBSET job.page \ {{}}, at \in Places : Appended(some, at)
    /\ worker' = [worker EXCEPT ![job.w] = Closed]
    /\ job' = NoJob
    /\ UNCHANGED <<safe, blobs, policyVars, losses, historyVars>>
-----------------------------------------------------------------------------
(* The user's selection: boundary segment, fence, ledger.                  *)

Select(backfill) ==
    /\ Free /\ scope # None /\ scope[1].revision < MaxRevision
    /\ segment' = IF backfill THEN segment ELSE segment + 1
    /\ segment' <= MaxSegment
    /\ job' = [kind |-> "select", cutoff |-> IF backfill THEN 0 ELSE segment', fenced |-> FALSE]
    /\ UNCHANGED <<first, safe, blobs, policyVars, worker, losses, historyVars>>

SelectFence(synced) ==
    /\ job.kind = "select" /\ ~job.fenced
    /\ fence' = Some(scope[1].revision + 1)
    /\ fenceSafe' = IF synced THEN fence' ELSE fenceSafe
    /\ job' = IF synced THEN [job EXCEPT !.fenced = TRUE] ELSE NoJob
    /\ UNCHANGED <<chainVars, scope, scopeSafe, worker, losses, historyVars>>

SelectSave(synced) ==
    LET s == select(scope[1], job.cutoff)
    IN  /\ job.kind = "select" /\ job.fenced
        /\ scope' = Some(s)
        /\ scopeSafe' = IF synced THEN Some(s) ELSE scopeSafe
        /\ kept' = IF s.cutoff = 0 THEN {} ELSE Present
        /\ granted' = granted \cup (IF s.cutoff = 0 THEN Refs(wrote) ELSE {})
        /\ job' = NoJob
        /\ UNCHANGED <<chainVars, fence, fenceSafe, worker, losses, wrote, supplied, acked>>

SelectFails ==
    /\ job.kind = "select"
    /\ job' = NoJob
    /\ UNCHANGED <<chainVars, policyVars, worker, losses, historyVars>>
-----------------------------------------------------------------------------
\* The user's own work: a record is appended, perhaps not for the first time.
LocalWrite(k) ==
    /\ Free
    /\ \E at \in Places : Appended({k}, at)
    /\ safe' = safe \cup {k}
    /\ wrote' = wrote \cup {k}
    /\ granted' = granted \cup (IF scope # None /\ k \notin Present THEN RefsOf[k] ELSE {})
    /\ UNCHANGED <<blobs, policyVars, worker, job, losses, kept, supplied, acked>>

LocalBlob(h) ==
    /\ h \notin blobs
    /\ blobs' = blobs \cup {h}
    /\ UNCHANGED <<first, segment, safe, policyVars, worker, job, losses, historyVars>>

\* Every process ends; what was not synced may be there afterwards or not.
PowerLoss ==
    /\ losses < MaxLosses
    /\ \E lost \in SUBSET (Present \ safe) :
         /\ first' = [k \in Key |-> IF k \in lost THEN 0 ELSE first[k]]
         /\ safe' = Present \ lost
         /\ kept' = kept \ lost
    /\ scope' \in {scope, scopeSafe} /\ scopeSafe' = scope'
    /\ fence' \in {fence, fenceSafe} /\ fenceSafe' = fence'
    /\ worker' = [w \in Worker |-> Closed]
    /\ job' = NoJob
    /\ losses' = losses + 1
    /\ UNCHANGED <<segment, blobs, wrote, supplied, granted, acked>>

SharingInit ==
    /\ first = [k \in Key |-> 0] /\ segment = 1 /\ safe = {} /\ blobs = {}
    /\ scope = None /\ scopeSafe = None /\ fence = None /\ fenceSafe = None
    /\ worker = [w \in Worker |-> Closed]
    /\ job = NoJob /\ losses = 0
    /\ wrote = {} /\ kept = {} /\ supplied = {} /\ granted = {} /\ acked = {}

SharingNext ==
    \/ \E w \in Worker :
         \/ \E backfill, synced \in BOOLEAN : CreateScope(w, backfill, synced)
         \/ BindWorker(w)
         \/ CloseWorker(w)
         \/ \E receiving \in BOOLEAN : TakeSnapshot(w, receiving)
         \/ \E batch \in SUBSET Key : Ingest(w, batch) \/ IngestSaveFails(w, batch)
         \/ \E k \in Key, h \in Hash : IngestBlob(w, k, h) \/ ConfirmBlob(w, k, h)
    \/ IngestAppend
    \/ IngestReturn
    \/ \E synced \in BOOLEAN : BlobNoted(synced)
    \/ ReceiptFails
    \/ \E backfill \in BOOLEAN : Select(backfill)
    \/ \E synced \in BOOLEAN : SelectFence(synced)
    \/ \E synced \in BOOLEAN : SelectSave(synced)
    \/ SelectFails
    \/ \E k \in Own : LocalWrite(k)
    \/ \E h \in LocalHash : LocalBlob(h)
    \/ PowerLoss

SharingSpec == SharingInit /\ [][SharingNext]_sharingVars
-----------------------------------------------------------------------------
(* What a worker would send now: every message checks the revision first.  *)

Sends(w, k) == worker[w].open /\ ensure_scope(w) /\ k \in worker[w].offers.recs

SendsBlob(w, k, h) == worker[w].open /\ read_blob(w, worker[w].offers, k, h)

\* A record that was here when the user chose to share from now on is never
\* sent, not from an older snapshot, not while a selection is half saved and
\* not after it is appended again; only the first selection yields to a peer
\* that sends the record itself.
ConsentHeld ==
    \A w \in Worker, k \in Key :
      Sends(w, k) /\ k \in kept => scope[1].revision = 0 /\ k \in supplied

\* A record from a peer does not open content that is only this device's:
\* what is sent came from a peer or belongs to a record of this device that
\* was shared at some time.
ContentGated == \A w \in Worker, k \in Key, h \in Hash : SendsBlob(w, k, h) => h \in granted

\* Provenance survives every interruption: a peer's record is in the ledger
\* before it is in the chain, and only this device's records count as local.
ProvenanceExact ==
    scope # None => Present \cap Foreign \subseteq scope[1].received /\ scope[1].local \subseteq wrote

\* A receipt is returned, and a record offered, only for what is durable.
ReceiptsDurable ==
    /\ acked \subseteq safe
    /\ \A w \in Worker : worker[w].open => worker[w].offers.recs \subseteq safe
=============================================================================
