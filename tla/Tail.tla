-------------------------------- MODULE Tail --------------------------------
(***************************************************************************)
(* A reader that follows a growing chain without the writer's lock         *)
(* (editchain-store, tail.rs and indexed.rs) and publishes its frontier as *)
(* a checkpoint it can resume from (editchain-index, chain.rs).            *)
(*                                                                         *)
(* Between the reader's calls - the stat of a file, the read of its bytes, *)
(* the look for a successor - the writer may do anything ChainFiles lets   *)
(* it do.  A file stamp (identity, length, modification time) is the       *)
(* file's content: no writer replaces a segment file, and a new content    *)
(* has a new time.  Power losses are left out; where poll and scan report  *)
(* an error the step is disabled, and NoFalseAlarm shows that this never   *)
(* happens beside a writer.                                                *)
(***************************************************************************)
EXTENDS ChainFiles, FiniteSets

CONSTANTS
    ReadLimit,      \* MAX_FRAME_BYTES: bytes read by one poll
    MaxPages        \* bound: pages the writer has in the chain at a time

ASSUME ReadAssumption == ReadLimit \in Nat /\ MaxPages \in Nat

VARIABLES
    saved,      \* the published checkpoint: the retained frontier
    view,       \* identities a caller holds accepted who applies every delta
    poll        \* the drain in progress

reader == <<saved, view, poll>>
tailVars == <<files, reader>>

\* An optional value is a sequence of length at most one.
None == << >>
Some(v) == <<v>>

Stamp(k) == segs[k]

StampLen(stamp) == FileLen(stamp)

\* Tail::empty.  chain is the indexed evidence: the first location of every
\* byte variant; tails is stats.incomplete_tails.
Empty == [segment |-> 1, offset |-> 0, observed |-> None, sealed |-> << >>,
          incomplete |-> FALSE, chain |-> {}, tails |-> 0]

NoPoll(pc) == [pc |-> pc, tail |-> Empty, stamp |-> None, before |-> <<0, 0>>,
               added |-> {}, removed |-> {}, read |-> FALSE, rebuild |-> FALSE]

Recs(chain) == {v.rec : v \in chain}

AcceptedIds(chain) == {IdOf[r] : r \in accepted(Recs(chain))}

\* The bytes at a location are still those that were indexed.
Located(v) ==
    /\ Exists(v.seg)
    /\ \E i \in DOMAIN segs[v.seg].pages :
         segs[v.seg].pages[i].end = v.end /\ Holds(segs[v.seg].pages[i], v.rec)
-----------------------------------------------------------------------------
(* Validation of a frontier against what the file system says.             *)

validate_growth(old, new) == StampLen(new) > StampLen(old)

validate_successor(old, new) ==
    /\ StampLen(new) >= StampLen(old)
    /\ StampLen(new) = StampLen(old) => new = old

validate_frontier(t) ==
    t.observed # None =>
      Exists(t.segment) /\ validate_successor(t.observed[1], Stamp(t.segment))

resume_active_only(t) == validate_frontier(t)

resume(t) ==
    /\ \A k \in DOMAIN t.sealed : Exists(k) /\ Stamp(k) = t.sealed[k]
    /\ validate_frontier(t)
-----------------------------------------------------------------------------
(* Reading.                                                                *)

\* Bytes of the file behind the offset that one read returns, and the pages
\* they hold in full.
BytesRead(t) ==
    LET rest == FileLen(segs[t.segment]) - t.offset
    IN  IF rest < ReadLimit THEN rest ELSE ReadLimit

PagesRead(t) ==
    SelectSeq(segs[t.segment].pages,
              LAMBDA p : p.end > t.offset /\ p.end <= t.offset + BytesRead(t))

\* The offset is where a page of the file ends, else the bytes are no frame.
Framed(t) ==
    \/ t.offset = 0
    \/ \E i \in DOMAIN segs[t.segment].pages : segs[t.segment].pages[i].end = t.offset

\* Records of the pages read, in order, with their locations.
Found(t) ==
    LET pages == PagesRead(t)
        at(p) == [j \in DOMAIN p.recs |-> [rec |-> p.recs[j], seg |-> t.segment, end |-> p.end]]
        all[n \in 0 .. Len(pages)] == IF n = 0 THEN << >> ELSE all[n - 1] \o at(pages[n])
    IN  all[Len(pages)]

\* classify rereads the indexed variants of an identity to compare bytes.
Comparable(t, found) ==
    \A v \in t.chain : (\E j \in DOMAIN found : IdOf[found[j].rec] = IdOf[v.rec]) => Located(v)

\* admit_record for each of them: outcome of the j-th, and the chain after.
Outcome(t, found, j) ==
    classify(Recs(t.chain) \cup {found[i].rec : i \in 1 .. (j - 1)}, found[j].rec)

Admitted(t, found) ==
    t.chain \cup {found[j] : j \in {i \in DOMAIN found : Outcome(t, found, i) # "Duplicate"}}

AddedBy(t, found) ==
    {IdOf[found[j].rec] : j \in {i \in DOMAIN found : Outcome(t, found, i) = "Accepted"}}

RemovedBy(t, found) ==
    {IdOf[found[j].rec] : j \in {i \in DOMAIN found : Outcome(t, found, i) = "Conflict"}}

ScannedToStamp(t, stamp) ==
    [t EXCEPT !.offset = StampLen(stamp), !.chain = Admitted(t, Found(t)),
              !.observed = Some(stamp)]

\* The tail after scanning what one read returned; stamp is older than the
\* bytes.
Scanned(t, stamp) ==
    LET pages == PagesRead(t)
        end   == IF pages = << >> THEN t.offset ELSE pages[Len(pages)].end
        short == /\ end < t.offset + BytesRead(t)
                 /\ t.offset + BytesRead(t) >= StampLen(stamp)
    IN  [t EXCEPT !.offset = end, !.chain = Admitted(t, Found(t)), !.observed = Some(stamp),
                  !.incomplete = short,
                  !.tails = IF short = t.incomplete THEN @
                            ELSE IF short THEN @ + 1 ELSE @ - 1]

\* On to the successor file.
Sealed(t) ==
    [t EXCEPT !.sealed = Append(@, t.observed[1]), !.segment = @ + 1, !.offset = 0,
              !.observed = None, !.incomplete = FALSE]
-----------------------------------------------------------------------------
\* refresh publishes the state it reached if the drain read bytes, or if that of
\* some content changed; rebuild always.
Publish(t, read) == saved' \in IF poll.rebuild \/ read THEN {t} ELSE {t, saved}

\* poll returns: drain calls it again after progress, else the state it reached
\* is published and the caller gets the delta.
Returns(t, added, removed, read) ==
    IF <<t.segment, t.offset>> = poll.before
    THEN /\ Publish(t, read)
         /\ view' = IF poll.rebuild THEN AcceptedIds(t.chain) ELSE (view \cup added) \ removed
         /\ poll' = NoPoll("idle")
    ELSE /\ poll' = [poll EXCEPT !.pc = "stat", !.tail = t, !.before = <<t.segment, t.offset>>,
                                 !.stamp = None, !.added = added, !.removed = removed,
                                 !.read = read]
         /\ UNCHANGED <<saved, view>>

\* open: the checkpoint is used when its frontier validates.
Resume ==
    /\ poll.pc = "closed"
    /\ resume(saved)
    /\ poll' = NoPoll("idle")
    /\ view' = AcceptedIds(saved.chain)
    /\ UNCHANGED <<files, saved>>

\* refresh, or rebuild_at and rebuild, which start from nothing.
StartDrain(rebuild) ==
    LET t == IF rebuild THEN Empty ELSE saved
    IN  /\ poll.pc = "idle" \/ (rebuild /\ poll.pc = "closed")
        /\ poll' = [NoPoll("stat") EXCEPT !.tail = t, !.before = <<t.segment, t.offset>>,
                                          !.rebuild = rebuild]
        /\ UNCHANGED <<files, saved, view>>

\* Open and stat the current file: not there yet, ...
FileMissing ==
    /\ poll.pc = "stat"
    /\ ~Exists(poll.tail.segment) /\ poll.tail.observed = None
    /\ Returns(poll.tail, poll.added, poll.removed, poll.read)
    /\ UNCHANGED files

\* ... being written: while the writer holds its lock the time of a file may
\* change before its length does, and the poll ends early, ...
FileUnsettled ==
    /\ poll.pc = "stat"
    /\ Exists(poll.tail.segment) /\ poll.tail.observed # None
    /\ Stamp(poll.tail.segment) = poll.tail.observed[1]
    /\ Returns(poll.tail, poll.added, poll.removed, poll.read)
    /\ UNCHANGED files

\* ... or fit to be read.
StatFile ==
    /\ poll.pc = "stat"
    /\ Exists(poll.tail.segment)
    /\ validate_frontier(poll.tail)
    /\ poll' = [poll EXCEPT !.pc = "read", !.stamp = Some(Stamp(poll.tail.segment))]
    /\ UNCHANGED <<files, saved, view>>

\* Deltas of several polls: a later removal cancels an earlier addition.
Merged(found) ==
    LET removed == RemovedBy(poll.tail, found)
    IN  [added |-> (poll.added \cup AddedBy(poll.tail, found)) \ removed,
         removed |-> poll.removed \cup removed]

CanScan(t) == Framed(t) /\ Comparable(t, Found(t))

\* Read and scan; progress ends the poll, no progress leads to the question
\* whether the segment has a successor.
ReadFile ==
    LET t == Scanned(poll.tail, poll.stamp[1])
        d == Merged(Found(poll.tail))
        read == poll.read \/ BytesRead(poll.tail) > 0
    IN  /\ poll.pc = "read"
        /\ CanScan(poll.tail)
        /\ IF t.offset > poll.tail.offset
           THEN Returns(t, d.added, d.removed, read)
           ELSE /\ poll' = [poll EXCEPT !.pc = "next", !.tail = t, !.stamp = None, !.read = read]
                /\ UNCHANGED <<saved, view>>
        /\ UNCHANGED files

LookWhenComplete ==
    /\ poll.pc = "next"
    /\ IF Exists(poll.tail.segment + 1) /\ ~poll.tail.incomplete
       THEN /\ poll' = [poll EXCEPT !.pc = "stat", !.tail = Sealed(@)]
            /\ UNCHANGED <<saved, view>>
       ELSE Returns(poll.tail, poll.added, poll.removed, poll.read)
    /\ UNCHANGED files

LookForSuccessor ==
    /\ poll.pc = "next"
    /\ IF Exists(poll.tail.segment + 1)
       THEN /\ poll' = [poll EXCEPT !.pc = "stat", !.tail = Sealed(@)]
            /\ UNCHANGED <<saved, view>>
       ELSE Returns(poll.tail, poll.added, poll.removed, poll.read)
    /\ UNCHANGED files

\* The reader's process ends, between drains or inside one.
CloseReader ==
    /\ poll.pc # "closed"
    /\ poll' = NoPoll("closed")
    /\ view' = {}
    /\ UNCHANGED <<files, saved>>

\* fsync is left out: no reader sees it, and it only narrows what a power
\* loss can do.
WriterStep ==
    /\ Extend
    /\ Cardinality({<<k, i>> \in (DOMAIN segs') \X (1 .. MaxPages + 1) :
                     i \in DOMAIN segs'[k].pages}) <= MaxPages
    /\ UNCHANGED reader

TailInit ==
    /\ FilesInit
    /\ saved = Empty
    /\ view = {}
    /\ poll = NoPoll("closed")

ReaderStep ==
    \/ Resume
    \/ \E rebuild \in BOOLEAN : StartDrain(rebuild)
    \/ FileMissing
    \/ FileUnsettled
    \/ StatFile
    \/ ReadFile
    \/ LookForSuccessor

TailNext == ReaderStep \/ CloseReader \/ WriterStep

TailSpec == TailInit /\ [][TailNext]_tailVars

\* A follower polls for ever (some step of it is always possible); a file is
\* not found being written for ever, since each append comes to an end and
\* only finitely many fit the bounds.
FairTailSpec ==
    TailSpec /\ []<><<ReaderStep>>_tailVars /\ <>[][~FileUnsettled]_tailVars
-----------------------------------------------------------------------------
\* What a checkpoint admitted is what the files hold up to its frontier, in
\* every segment that still has the stamp it was sealed with; the incomplete
\* tails it counts are those of these segments.  Applying the deltas of refresh
\* one after the other gives the accepted identities of that evidence, however
\* the polls cut it.
TailExact ==
    LET trusted == {k \in DOMAIN saved.sealed : saved.sealed[k] = Stamp(k)}
    IN  /\ \A v \in saved.chain : Located(v)
        /\ \A k \in DOMAIN segs : \A i \in DOMAIN segs[k].pages :
             (k \in trusted \/ (k = saved.segment /\ segs[k].pages[i].end <= saved.offset)) =>
               \A j \in DOMAIN segs[k].pages[i].recs :
                 segs[k].pages[i].recs[j] \in Recs(saved.chain)
        /\ trusted = DOMAIN saved.sealed =>
             saved.tails = Cardinality({k \in trusted : segs[k].torn})
                             + (IF saved.incomplete THEN 1 ELSE 0)
        /\ poll.pc = "idle" => view = AcceptedIds(saved.chain)

\* Reading beside a writer never fails: whatever the writer did between two
\* calls of the reader, the frontier validates and the bytes can be scanned.
NoFalseAlarm ==
    /\ poll.pc = "stat" => validate_frontier(poll.tail)
    /\ poll.pc = "read" => CanScan(poll.tail)

\* A follower that keeps polling comes to have read every page, except pages
\* of a segment whose stamp tells that it was left too early.
CatchesUp ==
    <>[](poll.pc # "closed") =>
      <>[](\A k \in DOMAIN segs :
             \/ k \in DOMAIN saved.sealed /\ saved.sealed[k] # Stamp(k)
             \/ \A i \in DOMAIN segs[k].pages : \A j \in DOMAIN segs[k].pages[i].recs :
                  segs[k].pages[i].recs[j] \in Recs(saved.chain))

\* Reopening is the remedy: a checkpoint that passes resume misses nothing
\* that lies before its frontier.
ReopenedComplete ==
    [][Resume =>
         \A k \in 1 .. (saved.segment - 1) : \A i \in DOMAIN segs[k].pages :
           \A j \in DOMAIN segs[k].pages[i].recs :
             segs[k].pages[i].recs[j] \in Recs(saved.chain)]_tailVars

\* A refresh brings in everything that was appended before the frontier it
\* reaches.
NothingSkipped ==
    poll.pc = "idle" =>
      \A k \in 1 .. (saved.segment - 1) : \A i \in DOMAIN segs[k].pages :
        \A j \in DOMAIN segs[k].pages[i].recs :
          segs[k].pages[i].recs[j] \in Recs(saved.chain)
=============================================================================
