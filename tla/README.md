# EditChain: TLA+ models and proofs

EditChain keeps an append-only history of edit operations in a chain directory
and replicates it between devices. This directory holds TLA+ modules that model
its parts, TLC configurations that check them on small instances, and TLAPS
proofs for the parts that promise the most: the segment log, exact admission,
the derived index, restores and migration, what is shared and acknowledged in
replication, and what peer workers share. Paths in this file are short for
`src/crates/editchain-<crate>/src/`.

`PROJECT.json` is the index: every part of the system with its modules, every
run with its properties, the source lines each definition stands for, the
hazards of the code and the theorems.

## The system

| part | state | operations | what is hard |
|---|---|---|---|
| byte admission (`core/admission.rs`) | byte variants per identity | classify, insert, merge | none alone: a pure algebra the rest relies on |
| segment store (`store/segment.rs`) | numbered segment files, writer lock, length, layout marker | open, append page, sync, rotate, drop | interrupted writes, failed fsync, directory durability, upgrade of an older layout |
| log store (`store/log.rs`) | cached evidence | append a batch, read | answers that outlive a power loss; retries; uncertain appends |
| tail reader (`store/tail.rs`, `indexed.rs`) | segment, offset, file stamps, admitted records | poll, drain, resume | reads a file another process grows; races with rotation |
| chain index (`index/*`) | derived maps, change journal, checkpoint | open, refresh, publish, rebuild, since | incremental equals rebuilt; failed publication; bounded journal |
| index pages (`index-pages/*`) | copy-on-write pages, a root; hash map and rank tree | read, write, commit; insert, remove, rank | crash-safe commit; balancing; sharing of pages |
| queries (`engine/queries/*`) | a view of the index, blob states | lookup, resolve, history, ancestors, content, compare, search | pages across refreshes; conflicts; gaps in content |
| activity replay (`core/activity/replay.rs`) | records per stream and item | insert, quarantine, content | any order, duplicates, conflicts |
| blob store (`store/blob.rs`, `durable.rs`) | content-addressed files | write, write batch, resolve | what exists is not yet durable, or torn |
| archives (`editchain/src/cli/archive.rs`) | a restore's pending batch | export, restore | interruption, replay, exit code |
| migration (`store/migration.rs`) | staging directory, checkpoint | migrate, resume, roll back, publish | interruption anywhere |
| replication session (`sync/session.rs`, `transfer.rs`) | pull in progress, source of the peer's pull | hello, page, need, chunk, ack | both directions at once, growth during paging, lost connections |
| replica and scope (`sync/replica.rs`, `scope.rs`) | consent, cutoff, revision, snapshots | share, ingest, serve | consent withdrawn while serving; crashes between two files |
| store adapter (`sync/adapter.rs`) | cached evidence, snapshot | snapshot, ingest, confirm | a cache over writes that fail half-way |
| membership, identity, peer workers (`sync/membership.rs`, `identity.rs`, `secure.rs`, `ipc.rs`) | approved devices, credentials, connections | approve, revoke, create, open, turn | revocation while connected; two processes editing; racing creators |
| git resolution, command line | none of their own | commands | read-only projections |

The log store writes through the segment store; the tail reader and the index
read the same files without the lock; queries read the index; replication and
archives read and append through the log and blob stores; migration replaces
the directory while holding its lock; peer workers run replication for the
devices their member file approves.

## Modules

| module | models | built on |
|---|---|---|
| `OpSet` | `core/admission.rs`: sets of exact encodings, `IdOf` their identity; admission, acceptance, quarantine | |
| `ChainFiles` | the chain directory as readers see it: pages, incomplete tails, what fsync made durable; `FilesSpec` is what a reader may rely on | `OpSet` |
| `SegmentStore` | `store/segment.rs`: the writer; implements `FilesSpec` (`KeepsFiles`) | `ChainFiles` |
| `AdmissionContract` | what a log store promises its callers, with no files in it | `OpSet` |
| `LogStore` | `store/log.rs`: `append_encoded_batch` in its steps; implements `AdmissionContract` (`KeepsContract`) | `SegmentStore` |
| `Tail` | `store/tail.rs`, `indexed.rs`: a reader without the lock, its checkpoint | `ChainFiles` |
| `ChainIndex` | `index/chain.rs` and what it derives: refresh, publication, journal | `OpSet` |
| `RankTree`, `PageMap` | `index-pages/rank.rs`, `ordered.rs`; `map.rs`: the persistent tree and hash trie, as operators on nodes that know their page | |
| `PageStore` | `index-pages/storage.rs`, `page.rs` and the state kept in it: commits, failures, power losses | `RankTree`, `PageMap` |
| `Replay` | `core/activity/replay.rs`, `validation.rs`: a stream of records and the content it replays to | |
| `Queries` | `engine/queries/*` over the index's facts | |
| `Reader` | arriving records, a consumer that replays them and callers who query | `Replay`, `Queries` |
| `BlobStore` | `store/blob.rs`, `durable.rs`: publication in cohorts | |
| `ChainStorage` | the log by its contract, the blob files and the writer lock | `OpSet`, `BlobStore` |
| `Archive` | `cli/archive.rs`, `store/reader.rs`: export and restore | `ChainStorage` |
| `StoreReplica` | `sync/adapter.rs` | `ChainStorage` |
| `ChainCopy` | restores and replication sessions that take turns at one chain | `Archive`, `StoreReplica` |
| `Migration` | `store/migration.rs` | |
| `Session` | `sync/session.rs`, `transfer.rs`: two peers and a connection | |
| `Sharing` | `sync/replica.rs`, `scope.rs`, `evidence.rs`: ledger, selections, snapshots, receipts | |
| `Membership`, `Identity`, `Peers` | `sync/membership.rs`; `identity.rs`; `secure.rs` and `ipc.rs`: workers of one host and their connections | each on the one before |
| `LogStoreProofs` | theorems about `SegmentStore` and `LogStore` | `LogStore` |
| `IndexProofs` | theorems about `ChainIndex` | `ChainIndex` |
| `CopyProofs` | theorems about `ChainCopy` and `Migration` | `ChainCopy`, `Migration` |
| `SessionProofs`, `PullProofs`, `ProtocolProofs` | theorems about `Session`: what each handler keeps whatever arrives, then what two peers that follow the protocol rely on | each on the one before |
| `SharingProofs`, `PeersProofs` | theorems about the module of that name | |
| `MC*` | instances for TLC | |

The composition is by promise. `SegmentStore` implements `FilesSpec`, and
`Tail` is checked against everything `FilesSpec` allows, not against one writer.
`LogStore` implements `AdmissionContract`. `ChainStorage` assumes no more of an
append than that: what returned is durable, what failed may be readable in
part. `ChainIndex` shows that the index holds what a rebuild from the same
records would derive, so `Queries` takes it to be that set of records, and
`PageStore` shows that the structures it is kept in answer as the rows they
stand for. `Session` takes storage as `ReplicationStorage` promises it
(`sync/storage.rs`), and `Sharing` and `StoreReplica` model the two
implementations of that trait.

### How state and actions correspond to the code

* **`ChainFiles`, `SegmentStore`.** `segs` is what a reader sees, `synced` and
  `entries` what fsync of files and of the directory made durable, `marker` the
  layout marker, `legacy` the segments of an older layout. `WritePage` and
  `Persist` are the two halves of `append_page` (write; then fsync of file and
  directory, marker and length). `WriteFails`, `PersistFails`, `SyncAllFails`
  and `AppendRefused` are its error returns.
* **`LogStore`.** `Begin` classifies a batch and drops the cached evidence,
  `Fence` is `sync_all`, `AppendPage` and `PageDurable` go page by page, `Answer`
  returns. Every other exit leaves no cached evidence.
* **`Tail`.** `StatFile`, `ReadFile` and `LookForSuccessor` are the three points
  of `poll` where another process can act in between; `FileUnsettled` is the
  retry when the file moved under the read. A page may be empty, as the boundary
  a sharing scope writes is. A checkpoint is the frontier (segment, offset,
  sealed stamps) and what was admitted; `refresh` publishes it when bytes were
  read or content changed, which `Tail` leaves open, and `rebuild` always. A stamp stands for
  inode, length and modification time, so two contents of a file have two
  stamps. The writer's fsync plays no part in what a reader sees and is left
  out of `WriterStep`.
* **`ChainIndex`.** `refresh` reads new records, applies additions, removals
  (quarantine) and changes of content, and publishes: pages, sync, root. The
  journal keeps `Retained` changes; a consumer that is too far behind, or of
  another generation, is told to rebuild. Generation 0 is a root of before there
  were generations: `Open` gives it one and publishes it before the first
  refresh. Keys and references are opaque.
* **`RankTree`, `PageMap`, `PageStore`.** A node's `addr` is where its page was
  written; every mutable access drops it, so the addresses that survive an edit
  are the pages the next commit shares. `Write`, `Flush`, `SyncPages`,
  `RenameRoot` and `Publish` are the steps of `commit`; `CommitFails` ends it
  after any of them and fences the handle (`needs_reopen`); `Unload` reads the
  committed state back lazily. A page's digest makes a read of anything else
  fail; the invariants exclude that such a read happens.
* **`Replay`, `Queries`, `Reader`.** `Receive` is `StreamState::insert` of one
  record, the conflicting and the invalid ones included; `Valid` is the contract
  a record keeps by itself, without the ranges, versions and texts no record of
  the model has; `Content` is `StreamState::content`. Which payloads, links and
  keys a record has follows from its kind and its envelope by the tables of
  `fields.rs`, `relationships.rs`, `references.rs` and `keys.rs`. The queries are operators on the records the index
  saw at its last refresh and the blob states it cached then; `StartScan` and
  `ReadPage` are a caller who follows `next_after` while `Refresh` runs between
  the pages. Identities are small numbers, so a prefix is an interval as in
  `id_query.rs`. A blob is named by its bytes, and a file may hold others; a
  reference has a length that may be wrong.
* **`BlobStore`, `ChainStorage`, `Archive`, `StoreReplica`, `ChainCopy`.**
  `files[b]` says what the directory holds under a blob's name and which fences
  it has seen. `job` steps through `publish_batch_with`: verify, stage, fence,
  link, fence the directory; staging may fail before a temporary file exists or
  while it is written. A restore checks that each entry is in its place (header
  first, summary last, blobs before the records that refer to them), collects a bounded batch, publishes its
  blobs, appends its records and then answers. The lock has one `owner`.
  Another program may publish the same blob at any moment.
* **`Migration`.** `run` is the command in progress with its program counter;
  `place` and `state` are the output directory's name and its checkpoint, with
  what is durable of each. An output page is durable when it counts as written
  (that is `SegmentStore`). A source whose sharing policy is incomplete is
  refused while the auxiliary files are copied, until `RepairPolicy`. Opening
  the destination syncs its directory.
* **`Session`.** `process` is one handler per message, with the source and the
  pull of a peer as records. A batch of which nothing was readable yet makes
  only itself durable; one that repeats a readable record fences the whole log
  (`log.rs`). Sizes are counted in chunks. Frames, versions and
  progress counters are left out.
* **`Sharing`.** A record is its key, the chain is the segment of each record's
  first occurrence, because that is all a cutoff looks at. `Select`,
  `SelectFence` and `SelectSave` are the three writes of `set_sharing_scope`;
  `Ingest`, `IngestAppend` and `IngestReturn` those of `ingest_into`. Each may
  fail after its effect is visible and before it is durable. `job` is the
  holder of the writer lock. `Sends` and `SendsBlob` say what a handler would
  send now, the revision check at its start included; a message that passed
  the check before a selection may still leave. An interruption before the
  fence leaves the earlier policy in force.
* **`Membership`, `Identity`, `Peers`.** `call[w]` is the request a worker
  handles and the stage it is in; `lock` and `deviceLock` are the writer lock of
  the chain and `identity.lock`; `survivors` and `deviceSurvivors` are the file
  contents a power loss may leave. `Load`, `Save` and `SaveReturns` are the
  steps of `approve` and `revoke`; `BeginTurn` rechecks the member file as
  `SecurePeer::turn` does; `Handshake` is `authenticate`. `approved`, `revoked`,
  `returned`, `created` and the field `barred` are history. TLS is external: a
  handshake completes only with a certificate of the roots the connection was
  opened with.

### The environment

A power loss keeps what fsync made durable and, per file, an arbitrary prefix
of the rest, possibly ending inside a page; directory entries survive in order
of creation; a failed fsync leaves data dirty, so that a later successful one
makes it durable; synced bytes do not rot. A renamed file that was not synced
may come back in either version. A lock file admits one holder and is released
when its process dies. Records of the log have one size: page boundaries depend
on sizes only through the limits.

## Runs

| run | what it shows | bounds |
|---|---|---|
| `admission` | an answer speaks of durable records (`AnsweredDurable`); cached evidence equals a replay (`EvidenceExact`); an older layout's segments are never extended (`LegacyBoundary`); the log store implements `AdmissionContract` (`KeepsContract`) and `ChainFiles` (`KeepsFiles`: size limit, nothing behind an incomplete tail, sealed segments and durable pages fixed) | two variants of one identity and another record, batches of two, pages of at most one record, two segments of two pages |
| `tail` | what a checkpoint and the merged deltas say is exact (`TailExact`); honest growth is never reported as damage (`NoFalseAlarm`); a follower catches up (`CatchesUp`); a reopened reader has everything or says so (`ReopenedComplete`) | three pages, two segments, a read limit below a segment |
| `index` | incremental equals rebuilt (`IncrementalExact`); a consumer of the journal is exact (`ConsumerExact`) and gets everything (`ConsumerFollows`); a refresh that reports nothing missed nothing (`QuietRefreshComplete`) | three records of which two conflict, a journal of two, an index of an older version or none, two generations besides the consumer's, one late or damaged blob |
| `pages` | tree and map answer as the rows they stand for (`IndexExact`); the root always names whole, synced pages, and pages that are shared stay what they were (`CheckpointReadable`) | five rows, buckets of two, two commits, one fault, sums that saturate |
| `reader` | replayed content depends on what arrived, not on its order (`ArrivalIndependent`), and later arrivals only complete it (`ReplayMonotone`); a paged search across refreshes misses nothing (`ScanComplete`); ancestry within a budget (`AncestorsExact`), prefixes (`ResolutionExact`), content and comparisons (`ContentExact`) answer what the records say | any four of ten records: a message in three parts and its session, two rival variants of the second part, a cycle of parents, two snapshots, two file revisions, an invalid record; any number of refreshes |
| `archive` | what was answered survives (`RepliesDurable`); a finished restore is a complete copy with the right exit code (`RestoreExact`); the adapter's cache matches the log (`AdapterExact`); an interrupted restore can be run again to its end (`Replayable`) | three records, two blobs, three sources (conflict and missing blob; incomplete tail; damaged blob), archives cut at any entry or holding two exports, batches of three answers or five bytes, two exports, one session, one fault |
| `migration` | what is published is the whole source once (`PublishesWhole`), nothing is used under a name that is not durable (`ReleasedDurable`), and it completes unless the source changed, its sharing policy stays incomplete or the staging directory is not its own (`Completes`) | two source segments, a source that grows to five records, three interruptions |
| `session` | no honest peer is rejected (`HonestNeverRejected`), acknowledged is durable (`AcknowledgedDurable`), a round is complete (`RoundsComplete`), an open connection converges (`Converges`) | three records, two of them with the same content, pages of two, two connections, one failure |
| `sharing` | nothing held back is sent (`ConsentHeld`), content stays closed (`ContentGated`), provenance comes before records (`ProvenanceExact`), receipts are durable (`ReceiptsDurable`) | an own and a peer's record with the same content, three segments, two selections after the first, one power loss |
| `peers` | no turn begun after a revocation returned serves the device (`RevokedNotServed`); acknowledged edits are kept and the limit holds (`MembershipKept`); all workers get the same credentials (`IdentityStable`); every request returns (`RequestsReturn`) | two workers, two devices with a limit of one, three edits, two openings, one fault |

The bounds are chosen so that the cases the properties are about happen: a
segment boundary and a page boundary inside a segment, a bucket that splits and
a rotation of the tree, an interruption, a retry after it, and growth of the
chain in between. The mutants listed in `PROJECT.json` show that each property
can fail within them.

Two runs show a disagreement between the code and what it says of itself
(`findings` in `PROJECT.json` quotes the lines):

* `tail_skip`: a page appended, with a rotation, between a read that found
  nothing and the look for the successor is skipped. `ReopenedComplete` in the
  run `tail` shows the damage ends there: reopening detects it.
* `migration_first`: a kill during the first save of the checkpoint leaves a
  staging directory every later run refuses.

Deadlock is checked in `admission`, `tail`, `tail_skip`, `sharing` and `pages`.
The others end when their bounds are used up.

### Fairness

`admission`, `sharing`, `pages` and `reader` state safety only. Elsewhere:

* `tail`: a follower polls for ever (the follow loop of the command line), and a
  file is not found moving for ever.
* `index`: whoever holds the index open goes on refreshing, a publication ends,
  the consumer goes on asking.
* `session`: an open connection delivers in order, and the host's timer calls
  `tick`. Connections need not be made again: convergence is claimed of one
  that stays open.
* `migration`: the user runs the command again until it succeeds; a run, once
  started, goes on unless it is interrupted.
* `archive`: a command that runs goes on, a session ends, and whoever restores
  runs an unfinished restore again, as `docs/cli.md` tells them to.
* `peers`: a worker goes on with its request (weak fairness; requests are
  handled by one loop), and `identity.lock` is granted to a waiter that finds it
  free again and again (strong fairness: `flock` queues waiters). The chain's
  writer lock needs none: a worker gives up on it after two seconds.

## Proofs

For every set of records, size limit, page size, batch length and number of
segments:

* `SegInvariant`: `SegSpec => []SegInv`. `SegInv` adds to the types where the
  writer is (at the newest segment or one past it, never at an incomplete tail
  once it has looked) and that the older layout's segments are durable and
  behind the writer. `LegacyBoundaryInvariant`, `SealedImmutableHolds` and
  `TailNeverExtendedHolds` follow from it.
* `LogInvariant`: `Spec => []IInv`. During a call, what is readable and what is
  pending together make up the evidence the call began with and its batch
  (`CallInv`); past the fence everything but the pending records is durable
  (`AppendInv`); a page in flight is the next page of the call (`WrittenInv`).
  Without these the durability of answers is not inductive: `Answer` must know
  that every page of its batch was persisted. `AnsweredDurableHolds`,
  `QuarantineDurableHolds`, `AcceptedOnceHolds`, `EvidenceExactHolds` follow.
* `LogStoreKeepsContract`: the log store implements `AdmissionContract`.
* `SegmentStoreKeepsFiles` and `LogStoreKeepsFiles`: both implement `ChainFiles`.
  `SegInv` says where the writer is; the size limit also needs what the writer
  believes (`LengthInv`: a writer that does not look again before its next
  append knows its segment's length) and that every page takes bytes (`PageEnds`:
  so length 0 means no page). Each action is then a growth, a tear, an fsync, a
  loss, or no step of the files at all. That every log store step is a step of
  the segment store below comes from `LogInvariant`.

For every set of records, keys and references, every journal length and any
number of generations (`ChainIndex`):

* `IndexInvariant`: every state the index keeps (in memory, staged, published)
  is what `State::build` derives from the records it has read (`StatesInv`), and
  the staged or published state either extends the one in use or is of a
  generation nobody has seen (`RevisionInv`). The heart is the journal
  (`ConsumerInv`): whatever differs between a consumer's rows and the rows of a
  state of its generation is named behind the consumer's position, if the
  journal still reaches back that far. `IncrementalIsExact`, `ConsumerIsExact`
  and `QuietRefreshIsComplete` follow. The proof goes through the operations of
  `state.rs` field by field; that the changes of a refresh can be put in order
  is proved by a least counterexample over the size of the set.

For every set of records and blobs, cohort size and batch limit (`ChainCopy`):

* `CopyInvariant`: only the holder of the writer lock has a batch, a cache or a
  publication (`LockInv`); a blob to be published is durable, staged, linked and
  waiting for the directory fence, or still ahead (`JobInv`); what is about to
  be answered is durable already (`ReplyInv`). `RepliesAreDurable` and
  `AdapterStaysExact` follow.

For every source, conversion and number of interruptions (`Migration`):

* `MigrationInvariant`: where the directory is and what of it is durable
  (`PlaceInv`), that no checkpoint counts more segments than are archived, the
  one a power loss leaves included (`StateInv`), and what the run has done of
  the source as it is now (`RunInv`). `ReleasedIsDurable` and
  `PublishesTheWhole` follow. The conversion stays opaque: that the output is
  the converted source comes from the comparison before publication.

For any two peers, stores, sizes, limits and number of connections and failures
(`Session`):

* `SessionInvariant`: every acknowledgment, received or under way, names an
  object that is durable at its sender. Each handler is shown to keep what is
  durable and to acknowledge only that, whatever message arrives: the argument
  does not need the other side to follow the protocol. `AcknowledgedIsDurable`
  follows.
* `ProtocolInvariant`: `SyncSpec => []ProtocolInv`. For each of the two pulls of
  a connection, `ProtocolInv` says what every message under way promises. The
  queue of one direction carries the requests of one pull and the responses of
  the other; `Of` separates them. At most one response is under way, and none
  while a request is (`Responses`, `Lone`); requests stand in the order
  acknowledgments, `Checked`, `Inventory` (`Ordered`). The source's `unacked` is
  what is staged, just arrived or acknowledged in the queue, and page and
  position agree on both sides (`Abreast`, `InPage`). Neither invariant of the
  run is inductive without this: whether a message is rejected depends on what
  the receiver did when it sent the one this answers. `SessionProofs` has the
  definitions and the side that serves, `PullProofs` the side that pulls and
  each action of the two peers, `ProtocolProofs` what has to be counted.
  `NeverRejected` (`HonestNeverRejected`) and `RoundsAreComplete`
  (`RoundsComplete`) follow.

For every set of workers, records, segments and selections (`Sharing`):

* `SharingInvariant`: consent, content and provenance are each claimed of two
  ledgers, the readable one and the one a power loss leaves (`ConsentInv`,
  `ContentInv`, `ProvenanceInv`). They differ while a save is not synced; then
  either the revision fence tells them apart (`FenceInv`: it is never behind a
  ledger) or both say the same of the records concerned. `ConsentHolds`,
  `ContentStaysGated`, `ProvenanceHolds` and `ReceiptsAreDurable` follow.

For every set of workers and finite set of devices, every device limit, and any
number of requests and faults:

* `PeersInvariant`: `Inv` adds to the types what the lock holders know: an edit
  past its lock is the holder's and works on the file's present content
  (`EditInv`); a creator of credentials holds `identity.lock` and sees no
  credentials until it has renamed its own into place (`CreatorInv`); only
  devices that are still revoked are barred from a turn (`TurnInv`).
  `MembershipKeptHolds`, `RevokedNotServedHolds` and `IdentityStableHolds`
  follow.

The assumptions are those of the modules, and TLC evaluates them in the runs:
sizes, limits and cohorts are positive, every record has an identity, keys,
references and content of a record are sets of the right kind
(`IdOfAssumption`, `SegmentAssumption`, `MaxBatchAssumption`,
`IndexAssumption`, `CohortAssumption`, `RefsAssumption`, `ArchiveAssumption`,
`CopyAssumption`, `MigrationAssumption`); an encoding is not a content address
(`DistinctAssumption`); a session has two peers, and records and hashes are
finitely many (`SessionAssumption`); the own
records and the peers' are different ones (`SharingAssumption`); the device set
is finite and "free" names no worker (`MembershipAssumption`,
`PeersAssumption`).

Model-checked only:

* liveness under fairness and ENABLED, which TLAPS does not prove: `CatchesUp`,
  `ConsumerFollows`, `Completes`, `Converges`, `Replayable`, `RequestsReturn`;
* all of `PageStore` and `Reader`: trees, tries, walks and traversals are
  recursive definitions over data, and what they compute for every input is
  outside what TLAPS proves; `Tail`, whose deltas are filtered and flattened
  sequences, for the same reason;
* `RestoreExact`: it compares what was restored with what an export of the
  source holds, and the archive is computed by a recursive function over the
  source's log.

Two facts about sequences that would need induction over data are proved by a
least counterexample instead: that the changes of a refresh, and the keys a page
leaves to fetch, can be put in order.

## Not modelled

Byte layouts, checksums, compression and message frames; conversion of older
payloads; the value types of operations; git resolution; command line parsing.
These have no order of steps to get wrong. `PROJECT.json` gives the reason part
by part. Within the parts that are modelled:

* *Power losses beside a tail reader.* A reader may checkpoint pages the writer
  has not synced. After a power loss and further appends the files can be
  different and long enough, and `resume` (`store/tail.rs:262`) compares
  identity and length only, although line 243 promises to reject "source
  replacement, truncation, missing segments or IO errors". The run `tail` has
  no power losses and makes no claim about them.
* *Power losses beside an index consumer.* `open_inner` (`index/chain.rs:98`)
  serves a root that was renamed and not yet synced, so a revision given out may
  be taken back although line 153 speaks of "durable changes". The run `pages`
  covers what the root names; the run `index` takes what is visible as durable.
* *Loaded credentials.* A worker that loads `device.json` does not fence its
  directory. Credentials whose creator died between the rename and the fence
  may be lent out and then lost. `IdentityStable` therefore claims durability
  for credentials whose creation returned, and equality for all others only
  until the next power loss.
* *Archives.* They are outputs of `export`, cut at any entry, or one export
  written behind another, which a restore refuses. Restoring one
  whose source omitted records stops with exit code 4 before the last pending
  batch is stored; `Replayable` speaks of archives without omissions. The
  branch of `publish_batch_with` for a blob that occurs twice in a batch is not
  reached by them.
* *Replay.* The comment at `core/activity/replay.rs:15` calls an item finished
  when "the selected head" finished it; the code, and the model, take any record
  of the item.
* *Tail errors.* What a reader reports when a file was replaced, shortened or
  damaged is left out: the writer never does that.
* *Migration.* One converter is used by every run. A run with another one is
  refused before it changes anything (`store/migration.rs:162`).
* *Queries.* Resolution against a Git repository, size limits, the byte formats
  of fields, and the order of fields and relationships within one record.
* *TLS and IPC framing.* External, by the contract stated in `Peers`.
