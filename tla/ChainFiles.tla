----------------------------- MODULE ChainFiles -----------------------------
(***************************************************************************)
(* The files of a chain directory, as anyone who reads them without the    *)
(* writer's lock sees them (editchain-store, segment.rs and format/).      *)
(*                                                                         *)
(* segs is the sequence of segments (segment file k-1 is segs[k]), each a  *)
(* sequence of complete pages and possibly an incomplete tail.  Of segs[k] *)
(* only the first synced[k] pages, and of the directory only the first     *)
(* `entries` segment files, have been made durable by fsync.  A power loss *)
(* keeps these and an arbitrary prefix of the rest.                        *)
(*                                                                         *)
(* FilesSpec is what readers may rely on, whatever the writer does:        *)
(* SegmentStore implements it.                                             *)
(***************************************************************************)
EXTENDS OpSet

CONSTANTS
    MaxSegmentBytes,    \* SegmentOptions.max_segment_bytes
    FrameOverhead,      \* bytes a page costs besides its records
    RecordBytes,        \* bytes of one record in a page
    FrameTarget,        \* FRAME_TARGET_BYTES: where append_records splits a batch
    MaxSegments         \* number of segment sequence numbers (2^32 in the code)

ASSUME SegmentAssumption ==
    /\ MaxSegmentBytes \in Nat \ {0}
    /\ FrameOverhead \in Nat \ {0}
    /\ RecordBytes \in Nat \ {0}
    /\ FrameTarget \in Nat
    /\ MaxSegments \in Nat \ {0}

VARIABLES
    segs,       \* the segments a reader sees
    synced,     \* synced[k]: pages of segs[k] that are durable
    entries     \* segments whose directory entry is durable

files == <<segs, synced, entries>>

Page == Seq(Record)
Stored == [recs : Page, end : Nat]      \* a page and the offset where it ends
Segment == [pages : Seq(Stored), torn : BOOLEAN]

EncodedLen(page) == FrameOverhead + RecordBytes * Len(page)

\* Records append_records puts in one page: as many as fit the target, at
\* least one.
PageLimit ==
    LET target == IF FrameTarget < MaxSegmentBytes THEN FrameTarget ELSE MaxSegmentBytes
    IN  IF target < FrameOverhead + RecordBytes
        THEN 1 ELSE 1 + (target - FrameOverhead - RecordBytes) \div RecordBytes

\* The cutoff of a sharing scope is an empty page.
BoundedPage == UNION {[1 .. n -> Record] : n \in 0 .. PageLimit}

\* Offset where the complete pages of a segment end, and its file size.
Frontier(seg) == IF seg.pages = << >> THEN 0 ELSE seg.pages[Len(seg.pages)].end

FileLen(seg) == Frontier(seg) + (IF seg.torn THEN 1 ELSE 0)

EmptySegment == [pages |-> << >>, torn |-> FALSE]

Exists(k) == k \in DOMAIN segs

Holds(page, r) == \E j \in DOMAIN page.recs : page.recs[j] = r

\* Records of the complete pages, and of the durable ones.
Readable ==
    {r \in Record : \E k \in DOMAIN segs : \E i \in DOMAIN segs[k].pages :
        Holds(segs[k].pages[i], r)}

Durable ==
    {r \in Record : \E k \in 1 .. entries : \E i \in 1 .. synced[k] :
        Holds(segs[k].pages[i], r)}
-----------------------------------------------------------------------------
(* The newest segment, unless its tail is incomplete, or a fresh one is    *)
(* where a writer writes.                                                  *)

WithFile(k) == IF Exists(k) THEN segs ELSE Append(segs, EmptySegment)

Writable(k) ==
    /\ k \in {Len(segs), Len(segs) + 1}
    /\ k \in 1 .. MaxSegments
    /\ ~WithFile(k)[k].torn

GrowAt(k, page) ==
    LET seg == WithFile(k)[k]
        new == [recs |-> page, end |-> Frontier(seg) + EncodedLen(page)]
    IN  /\ Writable(k)
        /\ seg.pages = << >> \/ new.end <= MaxSegmentBytes
        /\ segs' = [WithFile(k) EXCEPT ![k].pages = Append(@, new)]
        /\ synced' = IF Exists(k) THEN synced ELSE Append(synced, 0)
        /\ UNCHANGED entries

\* An interrupted append: perhaps a new file, perhaps part of a page.
TearAt(k, torn) ==
    /\ Writable(k)
    /\ segs' = [WithFile(k) EXCEPT ![k].torn = torn]
    /\ synced' = IF Exists(k) THEN synced ELSE Append(synced, 0)
    /\ UNCHANGED entries

\* fsync of some of the files, perhaps of the directory.
Settle(some, dir) ==
    /\ synced' = [k \in DOMAIN segs |-> IF k \in some THEN Len(segs[k].pages) ELSE synced[k]]
    /\ entries' = IF dir THEN Len(segs) ELSE entries
    /\ UNCHANGED segs

\* What a power loss may leave of a segment: the durable pages and some of
\* the others, with the beginning of the first page it takes.
Remains(k) ==
    {[pages |-> SubSeq(segs[k].pages, 1, m), torn |-> t] :
        m \in synced[k] .. Len(segs[k].pages), t \in BOOLEAN}

\* The machine stops: what was not synced survives only up to some point.
Lose ==
    \E n \in entries .. Len(segs) :
      /\ segs' \in [1 .. n -> UNION {Remains(k) : k \in 1 .. n}]
      /\ \A k \in 1 .. n :
           /\ segs'[k] \in Remains(k)
           /\ segs'[k].torn => segs[k].torn \/ Len(segs'[k].pages) < Len(segs[k].pages)
      /\ synced' = [k \in 1 .. n |-> Len(segs'[k].pages)]
      /\ entries' = n

\* A chain directory starts empty or holds a segment of the older layout,
\* whose last append may have been interrupted.
FilesInit ==
    /\ \/ segs = << >>
       \/ \E r \in Record, t \in BOOLEAN :
            segs = <<[pages |-> <<[recs |-> <<r>>, end |-> EncodedLen(<<r>>)]>>, torn |-> t]>>
    /\ synced = [k \in DOMAIN segs |-> Len(segs[k].pages)]
    /\ entries = Len(segs)

Extend ==
    \/ \E k \in 1 .. MaxSegments, page \in BoundedPage : GrowAt(k, page)
    \/ \E k \in 1 .. MaxSegments, torn \in BOOLEAN : TearAt(k, torn)

FilesNext ==
    \/ \E some \in SUBSET DOMAIN segs, dir \in BOOLEAN : Settle(some, dir)
    \/ Extend
    \/ Lose

FilesSpec == FilesInit /\ [][FilesNext]_files
=============================================================================
