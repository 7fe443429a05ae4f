---------------------------- MODULE SegmentStore ----------------------------
(***************************************************************************)
(* The append-only segment store (editchain-store, segment.rs): numbered   *)
(* segment files of pages, one exclusive writer, fsync before success, a   *)
(* fresh segment after an incomplete tail.                                 *)
(*                                                                         *)
(* Disk.  The files are those of ChainFiles, with the marker of the packed *)
(* layout beside them; a killed process loses only its own memory.         *)
(*                                                                         *)
(* Writer.  The lock file admits one writer at a time, so one record holds *)
(* the state of whichever process owns the lock.                           *)
(***************************************************************************)
EXTENDS ChainFiles

VARIABLES
    marker,     \* the packed-layout marker file
    writer,     \* the owner of the writer lock
    legacy      \* the segments an older layout had left behind

disk == <<segs, synced, entries, marker, legacy>>
segVars == <<segs, synced, entries, marker, writer, legacy>>

Writer == [phase : {"closed", "idle", "written"}, seq : Nat, length : Nat,
           needs_recovery : BOOLEAN, initialize_layout : BOOLEAN]

Closed == [phase |-> "closed", seq |-> 1, length |-> 0,
           needs_recovery |-> TRUE, initialize_layout |-> FALSE]

-----------------------------------------------------------------------------
(* Writer bookkeeping.  A sequence number past MaxSegments stands for the  *)
(* "segment sequence exhausted" error.                                     *)

Exhausted(w) == w.seq > MaxSegments

rotate(w) == IF Exists(w.seq) THEN [w EXCEPT !.seq = @ + 1, !.length = 0] ELSE w

FrontierLength(w) == IF Exists(w.seq) THEN FileLen(segs[w.seq]) ELSE 0

recover_frontier_ignoring_tail(w) ==
    [w EXCEPT !.length = FrontierLength(w), !.needs_recovery = FALSE]

recover_frontier(w) ==
    LET seen == [w EXCEPT !.length = FrontierLength(w)]
        full == Exists(w.seq) /\ (segs[w.seq].torn \/ seen.length >= MaxSegmentBytes)
    IN  [(IF full THEN rotate(seen) ELSE seen) EXCEPT !.needs_recovery = FALSE]

\* Where append_with decides to put a page.
Placed(page) ==
    LET w == IF writer.needs_recovery THEN recover_frontier(writer) ELSE writer
    IN  IF w.length > 0 /\ w.length + EncodedLen(page) > MaxSegmentBytes
        THEN rotate(w) ELSE w

\* The directory once the segment file of w exists (OpenOptions create).
Created(w) == IF Exists(w.seq) THEN segs ELSE Append(segs, EmptySegment)

CreatedSynced(w) == IF Exists(w.seq) THEN synced ELSE Append(synced, 0)
-----------------------------------------------------------------------------
OpenWithoutBoundary(init) ==
    recover_frontier([phase |-> "idle", seq |-> IF segs = << >> THEN 1 ELSE Len(segs),
                      length |-> 0, needs_recovery |-> TRUE, initialize_layout |-> init])

\* open_inner: take the lock, find the frontier, and keep the old layout's
\* boundary once when its marker is missing.
OpenWith(init) ==
    LET w == recover_frontier([phase |-> "idle", seq |-> IF segs = << >> THEN 1 ELSE Len(segs),
                               length |-> 0, needs_recovery |-> TRUE,
                               initialize_layout |-> init])
    IN  IF init THEN rotate(w) ELSE w

Open ==
    /\ writer.phase = "closed"
    /\ ~Exhausted(OpenWith(marker = "absent"))
    /\ writer' = OpenWith(marker = "absent")
    /\ UNCHANGED disk

\* write_all of append_page put every byte of the page in the file.
WritePage(page) ==
    LET w   == Placed(page)
        seg == Created(w)[w.seq]
        new == [recs |-> page, end |-> FileLen(seg) + EncodedLen(page)]
    IN  /\ writer.phase = "idle"
        /\ ~Exhausted(w)
        /\ segs' = [Created(w) EXCEPT ![w.seq].pages = Append(@, new)]
        /\ synced' = CreatedSynced(w)
        /\ writer' = [w EXCEPT !.phase = "written", !.needs_recovery = TRUE]
        /\ UNCHANGED <<entries, marker, legacy>>

\* Opening the file or writing failed: the file may have been created and an
\* incomplete page may be left in it.
WriteFails(page) ==
    LET w == Placed(page)
    IN  /\ writer.phase = "idle"
        /\ ~Exhausted(w)
        /\ \/ UNCHANGED <<segs, synced>>
           \/ \E torn \in BOOLEAN :
                /\ segs' = [Created(w) EXCEPT ![w.seq].torn = @ \/ torn]
                /\ synced' = CreatedSynced(w)
        /\ writer' = [w EXCEPT !.needs_recovery = TRUE]
        /\ UNCHANGED <<entries, marker, legacy>>

\* The append stops before it touches the file: the frontier could not be
\* read, or there is no sequence number left to rotate to.
AppendRefused(page) ==
    LET w == IF writer.needs_recovery THEN recover_frontier(writer) ELSE writer
    IN  /\ writer.phase = "idle"
        /\ \/ writer.needs_recovery /\ UNCHANGED writer
           \/ Exhausted(w) /\ writer' = [writer EXCEPT !.length = FrontierLength(writer)]
           \/ ~Exhausted(w) /\ Exhausted(Placed(page)) /\ writer' = w
        /\ UNCHANGED disk

PersistWithoutDirectory ==
    /\ writer.phase = "written"
    /\ synced' = [synced EXCEPT ![writer.seq] = Len(segs[writer.seq].pages)]
    /\ marker' = IF writer.initialize_layout THEN "durable" ELSE marker
    /\ writer' = [writer EXCEPT !.phase = "idle", !.needs_recovery = FALSE,
                                !.initialize_layout = FALSE,
                                !.length = FileLen(segs[writer.seq])]
    /\ UNCHANGED <<segs, entries, legacy>>

\* fsync of the file and of its directory, the layout marker the first time,
\* and the new length.
Persist ==
    /\ writer.phase = "written"
    /\ synced' = [synced EXCEPT ![writer.seq] = Len(segs[writer.seq].pages)]
    /\ entries' = Len(segs)
    /\ marker' = IF writer.initialize_layout THEN "durable" ELSE marker
    /\ writer' = [writer EXCEPT !.phase = "idle", !.needs_recovery = FALSE,
                                !.initialize_layout = FALSE,
                                !.length = FileLen(segs[writer.seq])]
    /\ UNCHANGED <<segs, legacy>>

\* One of those steps failed: nothing, the file alone, the file and the
\* directory, or those and the marker may have become durable before the
\* error.  Only a failure after the marker's publication leaves the writer
\* knowing that the layout is initialized.
PersistFails ==
    /\ writer.phase = "written"
    /\ \E file, dir, mark, known \in BOOLEAN :
         /\ (dir => file) /\ (mark => dir /\ writer.initialize_layout) /\ (known => mark)
         /\ synced' = IF file
                      THEN [synced EXCEPT ![writer.seq] = Len(segs[writer.seq].pages)]
                      ELSE synced
         /\ entries' = IF dir THEN Len(segs) ELSE entries
         /\ marker' = IF known THEN "durable" ELSE IF mark THEN "visible" ELSE marker
         /\ writer' = [writer EXCEPT !.phase = "idle",
                                     !.initialize_layout = @ /\ ~known]
    /\ UNCHANGED <<segs, legacy>>

sync_all ==
    /\ writer.phase = "idle"
    /\ synced' = [k \in DOMAIN segs |-> Len(segs[k].pages)]
    /\ entries' = Len(segs)
    /\ UNCHANGED <<segs, marker, writer, legacy>>

\* Some files were synced before the error.
SyncAllFails ==
    /\ writer.phase = "idle"
    /\ \E n \in 0 .. Len(segs) :
         synced' = [k \in DOMAIN segs |-> IF k <= n THEN Len(segs[k].pages) ELSE synced[k]]
    /\ UNCHANGED <<segs, entries, marker, writer, legacy>>

\* The caller asks for a fresh segment (the sharing cutoff does).
Rotate ==
    /\ writer.phase = "idle"
    /\ ~Exhausted(rotate(writer))
    /\ writer' = rotate(writer)
    /\ UNCHANGED disk

\* Drop releases the lock.
Close ==
    /\ writer.phase = "idle"
    /\ writer' = Closed
    /\ UNCHANGED disk

\* The process dies; the lock goes with it and written bytes stay readable.
Kill ==
    /\ writer.phase # "closed"
    /\ writer' = Closed
    /\ UNCHANGED disk

\* The machine stops: what was not synced survives only up to some point.
PowerLoss ==
    /\ Lose
    /\ marker' \in (IF marker = "visible" THEN {"absent", "durable"} ELSE {marker})
    /\ writer' = Closed
    /\ UNCHANGED legacy
-----------------------------------------------------------------------------
SegInit ==
    /\ FilesInit
    /\ marker = "absent"
    /\ writer = Closed
    /\ legacy = segs

SegNext ==
    \/ Open
    \/ \E page \in BoundedPage : WritePage(page) \/ WriteFails(page) \/ AppendRefused(page)
    \/ Persist
    \/ PersistFails
    \/ sync_all
    \/ SyncAllFails
    \/ Rotate
    \/ Close
    \/ Kill
    \/ PowerLoss

SegSpec == SegInit /\ [][SegNext]_segVars
-----------------------------------------------------------------------------
SegTypeOK ==
    /\ segs \in Seq(Segment)
    /\ synced \in [DOMAIN segs -> Nat]
    /\ \A k \in DOMAIN segs : synced[k] <= Len(segs[k].pages)
    /\ entries \in 0 .. Len(segs)
    /\ marker \in {"absent", "visible", "durable"}
    /\ writer \in Writer
    /\ legacy \in Seq(Segment)

\* SegmentStore appends only to its newest segment and never overwrites: a
\* step leaves at most a shorter copy of an older segment (after a power
\* loss), and a durable page stays where it is.
SealedStep ==
    /\ \A k \in DOMAIN segs :
         k < Len(segs) /\ k \in DOMAIN segs' =>
           \A i \in DOMAIN segs'[k].pages :
             i \in DOMAIN segs[k].pages /\ segs'[k].pages[i] = segs[k].pages[i]
    /\ \A k \in 1 .. entries : \A i \in 1 .. synced[k] :
         /\ k \in 1 .. entries' /\ i \in 1 .. synced'[k] /\ i \in DOMAIN segs'[k].pages
         /\ segs'[k].pages[i] = segs[k].pages[i]

SealedImmutable == [][SealedStep]_segVars

\* After an interrupted append the next page goes to a fresh segment: no page
\* is ever added behind an incomplete tail.
TailStep ==
    \A k \in DOMAIN segs :
      segs[k].torn /\ k \in DOMAIN segs' =>
        Len(segs'[k].pages) <= Len(segs[k].pages)

TailNeverExtended == [][TailStep]_segVars

\* No page is ever added to a segment that the older layout left behind, so a
\* sharing cutoff recorded there keeps its meaning through any interrupted
\* upgrade.
LegacyBoundary ==
    \A k \in DOMAIN legacy : k \in DOMAIN segs /\ segs[k].pages = legacy[k].pages

\* Whatever the writer does, fails to do or loses, readers see files that
\* behave as ChainFiles says.
KeepsFiles == FilesSpec
-----------------------------------------------------------------------------
(* The inductive invariant behind these properties.                        *)

\* The writer is at the newest segment or one past it, and never where an
\* incomplete tail lies once it has looked.
WriterInv ==
    /\ writer.phase # "closed" => writer.seq \in {Len(segs), Len(segs) + 1} \ {0}
    /\ writer.phase = "written" => writer.seq = Len(segs) /\ segs[writer.seq].pages # << >>
    /\ writer.phase = "written" \/ ~writer.needs_recovery =>
         (writer.seq \in DOMAIN segs => ~segs[writer.seq].torn)

\* The old layout's segments are durable and the writer is beyond them; the
\* marker is published only when a durable segment beyond them exists.
LegacyInv ==
    /\ entries >= Len(legacy)
    /\ \A k \in DOMAIN legacy :
         segs[k].pages = legacy[k].pages /\ synced[k] = Len(legacy[k].pages)
    /\ legacy # << >> /\ writer.phase # "closed" => writer.seq > Len(legacy)
    /\ legacy # << >> /\ marker # "absent" => entries > Len(legacy)

SegInv == SegTypeOK /\ WriterInv /\ LegacyInv
=============================================================================
