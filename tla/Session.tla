------------------------------ MODULE Session -------------------------------
(***************************************************************************)
(* Replication between two peers (editchain-sync, session.rs and           *)
(* transfer.rs).  Each peer pulls: it asks for the inventory of the other  *)
(* page by page, downloads the records and the content it lacks in chunks, *)
(* and acknowledges what it has made durable.  Both pull at once over one  *)
(* ordered connection, which may end at any moment; a storage error fails  *)
(* the session and a power loss takes what was never synced.               *)
(*                                                                         *)
(* A record is its key.  Sizes are counted in chunks.                      *)
(***************************************************************************)
EXTENDS Naturals, Sequences, FiniteSets, Functions

CONSTANTS
    Peer,               \* the two peers
    Key,                \* record keys
    Hash,               \* content
    HashesOf,           \* HashesOf[k]: content a record refers to
    SizeOf,             \* SizeOf[x]: length of a record or of content, in chunks
    Own,                \* Own[p]: records that p's user may write
    OwnBlobs,           \* OwnBlobs[p]: content p's user may store
    PageLimit,          \* INVENTORY_PAGE
    BatchLength,        \* BATCH_BYTES
    MaxStaged,          \* MAX_OBJECT_BYTES
    MaxConnections,     \* bound: connections made
    MaxFailures         \* bound: storage errors and power losses

ASSUME SessionAssumption ==
    /\ IsFiniteSet(Key) /\ IsFiniteSet(Hash)
    /\ \E a, b \in Peer : a # b /\ Peer = {a, b}
    /\ HashesOf \in [Key -> SUBSET Hash]
    /\ SizeOf \in [Key \cup Hash -> Nat]
    /\ \A k \in Key \cup Hash : SizeOf[k] <= MaxStaged
    /\ Own \in [Peer -> SUBSET Key] /\ OwnBlobs \in [Peer -> SUBSET Hash]
    /\ {PageLimit, BatchLength} \subseteq Nat \ {0}

VARIABLES
    disk,               \* disk[p]: readable and durable records and content
    session,            \* session[p]: the Session of an open connection
    net,                \* net[p]: messages under way to p
    connections,        \* number of connections made; the last may be open
    failures,           \* number of storage errors and power losses
    acknowledged        \* history: acknowledged[p]: objects p was told to be safe

syncVars == <<disk, session, net, connections, failures, acknowledged>>

None == << >>
Some(v) == <<v>>

other(p) == CHOOSE q \in Peer : q # p

\* An object is a record (no content) or content a record refers to.
RecordObject(k) == [record |-> k, blob |-> None]
BlobObject(k, h) == [record |-> k, blob |-> Some(h)]
Length(o) == IF o.blob = None THEN SizeOf[o.record] ELSE SizeOf[o.blob[1]]

\* A set in some order that depends on nothing but the set.
Listing(S) == CHOOSE s \in [1 .. Cardinality(S) -> S] : IsInjective(s)

\* The keys of K as they follow each other in a page.
InOrder(s, keys) ==
    \A i, j \in DOMAIN s :
      i < j => \E a, b \in DOMAIN keys : a < b /\ keys[a] = s[i] /\ keys[b] = s[j]

Kept(keys, K) == CHOOSE s \in [1 .. Cardinality(K) -> K] : InOrder(s, keys)

\* ordered_keys: the order of an inventory is a function of its records.
ordered_keys(keys) == Listing(keys)

StagedLength(staged) == FoldFunction(+, 0, [i \in DOMAIN staged |-> SizeOf[staged[i]]])
-----------------------------------------------------------------------------
(* Storage, as ReplicationStorage promises: a snapshot syncs first, what   *)
(* ingest returns for is durable.                                          *)

EmptyDisk == [recs |-> {}, safe |-> {}, blobs |-> {}, safeBlobs |-> {}]

unsynced(d) == d

synced(d) == [d EXCEPT !.safe = d.recs]

\* The appended page is durable; everything is when a record was there before.
ingest_records(d, keys) ==
    [d EXCEPT !.recs = @ \cup keys,
              !.safe = (IF keys \cap d.recs = {} THEN @ ELSE d.recs) \cup keys]

ingest_blob(d, h) == [d EXCEPT !.blobs = @ \cup {h}, !.safeBlobs = @ \cup {h}]
-----------------------------------------------------------------------------
NoPull == [waiting_page |-> FALSE, position |-> 0, after |-> None, more |-> FALSE,
           keys |-> << >>, records |-> << >>, blobs |-> << >>, tried |-> {},
           staged |-> << >>, download |-> None, total |-> None]

NoSource == [snapshot |-> {}, order |-> << >>, next |-> 0, cursor |-> None, more |-> FALSE,
             active |-> None, unacked |-> {}, awaiting_check |-> FALSE]

NewSession == [accepted |-> FALSE, synchronizing |-> FALSE, failed |-> "no",
               local |-> {}, pull |-> NoPull, source |-> NoSource]

NoSession == [NewSession EXCEPT !.failed = "closed"]

Hello == [type |-> "Hello"]
Inventory(after) == [type |-> "Inventory", after |-> after]
Page(offset, total, records, more) ==
    [type |-> "Page", offset |-> offset, total |-> total, records |-> records, more |-> more]
Need(o, offset) == [type |-> "Need", object |-> o, offset |-> offset]
Chunk(o, offset, length) == [type |-> "Chunk", object |-> o, offset |-> offset,
                             total |-> Length(o), length |-> length]
Missing(o) == [type |-> "Missing", object |-> o]
Ack(o) == [type |-> "Ack", object |-> o]
Checked(end) == [type |-> "Checked", end |-> end]

\* What a handler leaves: the session, the disk and the replies.
Outcome(s, d, replies) == [s |-> s, d |-> d, replies |-> replies]

Rejects(s, d) == Outcome([s EXCEPT !.failed = "protocol"], d, << >>)
-----------------------------------------------------------------------------
(* The side that serves (Source).                                          *)

freeze_once(src, d) ==
    IF src.order # << >> THEN [src EXCEPT !.next = 0]
    ELSE [src EXCEPT !.snapshot = d.recs, !.order = ordered_keys(d.recs), !.next = 0]

freeze(src, d) ==
    [src EXCEPT !.snapshot = d.recs, !.order = ordered_keys(d.recs), !.next = 0]

\* Source::inventory: each round freezes a snapshot and pages through it.
inventory(s, d, after) ==
    LET src    == s.source
        frozen == IF after = None THEN freeze(src, d) ELSE src
        end    == IF frozen.next + PageLimit < Len(frozen.order)
                  THEN frozen.next + PageLimit ELSE Len(frozen.order)
        part   == SubSeq(frozen.order, frozen.next + 1, end)
        more   == end < Len(frozen.order)
    IN  IF \/ src.active # None \/ src.unacked # {} \/ src.awaiting_check
           \/ after # None /\ (after # src.cursor \/ ~src.more)
        THEN Rejects(s, d)
        ELSE Outcome([s EXCEPT !.source =
                        [frozen EXCEPT !.next = end, !.more = more, !.awaiting_check = TRUE,
                           !.cursor = IF part = << >> THEN None ELSE Some(part[Len(part)])]],
                     IF after = None THEN synced(d) ELSE d,
                     <<Page(frozen.next, Len(frozen.order), part, more)>>)

\* Source::need.  read_blob of the record's references; content can be gone
\* only before the transfer of an object starts.
need(s, d, o, offset) ==
    LET src     == s.source
        bad     == \/ ~src.awaiting_check
                   \/ offset = 0 /\ (\/ src.active # None
                                     \/ Cardinality(src.unacked) >= PageLimit
                                     \/ o \in src.unacked
                                     \/ o.record \notin src.snapshot)
                   \/ offset # 0 /\ src.active # Some([object |-> o, next |-> offset])
        absent  == offset = 0 /\ o.blob # None
                     /\ o.blob[1] \notin d.blobs \cap HashesOf[o.record]
        length  == IF offset < Length(o) THEN 1 ELSE 0
        end     == offset + length
    IN  IF bad THEN Rejects(s, d)
        ELSE IF absent THEN Outcome(s, d, <<Missing(o)>>)
        ELSE Outcome([s EXCEPT
                !.source.active = IF end = Length(o) THEN None ELSE Some([object |-> o, next |-> end]),
                !.source.unacked = IF end = Length(o) THEN @ \cup {o} ELSE @],
              d, <<Chunk(o, offset, length)>>)

\* Source::ack and Source::checked.
ack(s, d, o) ==
    IF o \in s.source.unacked
    THEN Outcome([s EXCEPT !.source.unacked = @ \ {o}], d, << >>)
    ELSE Rejects(s, d)

checked(s, d, end) ==
    IF s.source.awaiting_check /\ s.source.active = None /\ s.source.unacked = {}
         /\ end = s.source.next
    THEN Outcome([s EXCEPT !.source.awaiting_check = FALSE], d, << >>)
    ELSE Rejects(s, d)
-----------------------------------------------------------------------------
(* The side that pulls.                                                    *)

start_round(s, d) ==
    IF ~s.accepted \/ s.synchronizing THEN Outcome(s, d, << >>)
    ELSE Outcome([s EXCEPT !.local = d.recs, !.pull = [NoPull EXCEPT !.waiting_page = TRUE],
                           !.synchronizing = TRUE],
                 synced(d), <<Inventory(None)>>)

\* flush: acknowledge what ingest_records made durable.
flush(x) ==
    LET staged == x.s.pull.staged
        keys   == Range(staged)
    IN  IF staged = << >> THEN x
        ELSE Outcome([x.s EXCEPT !.local = @ \cup keys, !.pull.staged = << >>],
                     ingest_records(x.d, keys),
                     x.replies \o [i \in DOMAIN staged |-> Ack(RecordObject(staged[i]))])

download(x, o) ==
    Outcome([x.s EXCEPT !.pull.download = Some([object |-> o, received |-> 0, total |-> None])],
            x.d, Append(x.replies, Need(o, 0)))

\* find_blobs: content of the page's records that is neither here nor asked
\* for; what is here is confirmed, which makes it durable.
find_blobs(x) ==
    LET pull   == x.s.pull
        wanted == UNION {{BlobObject(k, h) : h \in HashesOf[k]} : k \in Range(pull.keys)} \ pull.tried
        here   == {o.blob[1] : o \in wanted} \cap x.d.blobs
    IN  Outcome([x.s EXCEPT !.pull.tried = @ \cup wanted,
                            !.pull.blobs = Listing({o \in wanted : o.blob[1] \notin here})],
                [x.d EXCEPT !.safeBlobs = @ \cup here], x.replies)

finish_page_unchecked(x) ==
    LET pull == x.s.pull
    IN  IF pull.more
        THEN Outcome([x.s EXCEPT !.pull.waiting_page = TRUE], x.d,
                     x.replies \o <<Inventory(pull.after), Checked(pull.position)>>)
        ELSE Outcome([x.s EXCEPT !.synchronizing = FALSE], x.d, Append(x.replies, Checked(pull.position)))

finish_page(x) ==
    LET pull == x.s.pull
        end  == Append(x.replies, Checked(pull.position))
    IN  IF pull.more
        THEN Outcome([x.s EXCEPT !.pull.waiting_page = TRUE], x.d,
                     Append(end, Inventory(pull.after)))
        ELSE Outcome([x.s EXCEPT !.synchronizing = FALSE], x.d, end)

advance(x) ==
    LET pull    == x.s.pull
        flushed == flush(x)
        found   == IF pull.blobs = << >> THEN find_blobs(flushed) ELSE flushed
        blobs   == found.s.pull.blobs
    IN  IF pull.records # << >>
        THEN download([x EXCEPT !.s.pull.records = Tail(@)], RecordObject(Head(pull.records)))
        ELSE IF blobs # << >>
        THEN download([found EXCEPT !.s.pull.blobs = Tail(@)], Head(blobs))
        ELSE finish_page(found)

\* page: the position, the total and the order must be those of one inventory.
page(s, d, m) ==
    LET pull == s.pull
        end  == m.offset + Len(m.records)
        bad  == \/ ~pull.waiting_page \/ Len(m.records) > PageLimit
                \/ m.more /\ m.records = << >>
                \/ m.offset # pull.position
                \/ ~IsInjective(m.records)
                \/ end > m.total \/ m.more # (end < m.total)
                \/ pull.total # None /\ pull.total # Some(m.total)
    IN  IF bad THEN Rejects(s, d)
        ELSE advance(Outcome([s EXCEPT !.pull =
               [pull EXCEPT !.total = Some(m.total), !.position = end,
                  !.after = IF m.records = << >> THEN None ELSE Some(m.records[Len(m.records)]),
                  !.waiting_page = FALSE, !.more = m.more,
                  !.records = Kept(m.records, Range(m.records) \ s.local),
                  !.keys = m.records, !.tried = {}]], d, << >>))

acks_when_staged(x) ==
    LET o     == x.s.pull.download[1].object
        taken == [x EXCEPT !.s.pull.download = None]
    IN  IF o.blob # None
        THEN Outcome(taken.s, ingest_blob(taken.d, o.blob[1]), Append(taken.replies, Ack(o)))
        ELSE [taken EXCEPT !.s.pull.staged = Append(@, o.record), !.replies = Append(@, Ack(o))]

\* complete: content is ingested at once, records are staged up to a batch.
complete(x) ==
    LET o     == x.s.pull.download[1].object
        taken == [x EXCEPT !.s.pull.download = None]
        room  == IF StagedLength(taken.s.pull.staged) + Length(o) > MaxStaged
                 THEN flush(taken) ELSE taken
        kept  == [room EXCEPT !.s.pull.staged = Append(@, o.record)]
    IN  IF o.blob # None
        THEN Outcome(taken.s, ingest_blob(taken.d, o.blob[1]), Append(taken.replies, Ack(o)))
        ELSE IF StagedLength(kept.s.pull.staged) >= BatchLength THEN flush(kept) ELSE kept

\* Download::append, then the next chunk or the next object.
chunk(s, d, m) ==
    LET got == s.pull.download[1]
        end == m.offset + m.length
        bad == \/ m.object # got.object \/ m.offset # got.received
               \/ (got.total # None /\ got.total # Some(m.total))
               \/ end > m.total \/ (m.length = 0 /\ end # m.total)
        kept == [s EXCEPT !.pull.download =
                   Some([object |-> got.object, received |-> end, total |-> Some(m.total)])]
    IN  IF s.pull.download = None THEN Rejects(s, d)
        ELSE IF bad THEN Rejects(s, d)
        ELSE IF end = m.total THEN advance(complete(Outcome(kept, d, << >>)))
        ELSE Outcome(kept, d, <<Need(got.object, end)>>)

missing(s, d, o) ==
    IF s.pull.download = None THEN Rejects(s, d)
    ELSE IF s.pull.download[1].object # o \/ o.blob = None \/ s.pull.download[1].received # 0
    THEN Rejects(s, d)
    ELSE advance(Outcome([s EXCEPT !.pull.download = None], d, << >>))

\* Session::process.
process(s, d, m) ==
    IF ~s.accepted
    THEN IF m = Hello THEN start_round([s EXCEPT !.accepted = TRUE], d) ELSE Rejects(s, d)
    ELSE CASE m.type = "Hello"     -> Rejects(s, d)
           [] m.type = "Inventory" -> inventory(s, d, m.after)
           [] m.type = "Need"      -> need(s, d, m.object, m.offset)
           [] m.type = "Ack"       -> ack(s, d, m.object)
           [] m.type = "Checked"   -> checked(s, d, m.end)
           [] m.type = "Page"      -> page(s, d, m)
           [] m.type = "Chunk"     -> chunk(s, d, m)
           [] m.type = "Missing"   -> missing(s, d, m.object)
-----------------------------------------------------------------------------
Open(p) == session[p].failed = "no"

\* A new connection: both sides construct a Session and say hello.
Connect ==
    /\ connections < MaxConnections
    /\ \A p \in Peer : session[p].failed = "closed"
    /\ session' = [p \in Peer |-> NewSession]
    /\ net' = [p \in Peer |-> <<Hello>>]
    /\ connections' = connections + 1
    /\ UNCHANGED <<disk, failures, acknowledged>>

Receive(p) ==
    LET m == Head(net[p])
        x == process(session[p], disk[p], m)
    IN  /\ Open(p)
        /\ net[p] # << >>
        /\ session' = [session EXCEPT ![p] = x.s]
        /\ disk' = [disk EXCEPT ![p] = x.d]
        /\ net' = [net EXCEPT ![p] = Tail(@), ![other(p)] = @ \o x.replies]
        /\ acknowledged' = [acknowledged EXCEPT ![p] =
                              IF m.type = "Ack" THEN @ \cup {m.object} ELSE @]
        /\ UNCHANGED <<connections, failures>>

\* A storage error in the handler: part of what it would have written may be
\* readable, nothing is acknowledged and the session is of no more use.
ReceiveFails(p) ==
    LET x == process(session[p], disk[p], Head(net[p]))
    IN  /\ Open(p)
        /\ net[p] # << >>
        /\ failures < MaxFailures
        /\ \E recs \in SUBSET (x.d.recs \ disk[p].recs), blobs \in SUBSET (x.d.blobs \ disk[p].blobs) :
             disk' = [disk EXCEPT ![p].recs = @ \cup recs, ![p].blobs = @ \cup blobs]
        /\ session' = [session EXCEPT ![p].failed = "storage"]
        /\ net' = [net EXCEPT ![p] = Tail(@)]
        /\ failures' = failures + 1
        /\ UNCHANGED <<connections, acknowledged>>

\* The host's timer starts another round on an idle session.
Tick(p) ==
    LET x == start_round(session[p], disk[p])
    IN  /\ Open(p)
        /\ session[p].accepted /\ ~session[p].synchronizing
        /\ session' = [session EXCEPT ![p] = x.s]
        /\ disk' = [disk EXCEPT ![p] = x.d]
        /\ net' = [net EXCEPT ![other(p)] = @ \o x.replies]
        /\ UNCHANGED <<connections, failures, acknowledged>>

\* The connection ends; what was under way is lost.
Disconnect ==
    /\ \E p \in Peer : session[p].failed # "closed"
    /\ session' = [p \in Peer |-> NoSession]
    /\ net' = [p \in Peer |-> << >>]
    /\ UNCHANGED <<disk, connections, failures, acknowledged>>

\* A power loss at p ends the connection and takes what was not synced.
PowerLoss(p) ==
    /\ failures < MaxFailures
    /\ \E recs \in SUBSET (disk[p].recs \ disk[p].safe),
          blobs \in SUBSET (disk[p].blobs \ disk[p].safeBlobs) :
         disk' = [disk EXCEPT ![p].recs = @ \ recs, ![p].blobs = @ \ blobs]
    /\ session' = [q \in Peer |-> NoSession]
    /\ net' = [q \in Peer |-> << >>]
    /\ failures' = failures + 1
    /\ UNCHANGED <<connections, acknowledged>>

\* The users' own work.
WriteRecord(p, k) ==
    /\ k \in Own[p] \ disk[p].recs
    /\ disk' = [disk EXCEPT ![p] = ingest_records(@, {k})]
    /\ UNCHANGED <<session, net, connections, failures, acknowledged>>

WriteBlob(p, h) ==
    /\ h \in OwnBlobs[p] \ disk[p].blobs
    /\ disk' = [disk EXCEPT ![p] = ingest_blob(@, h)]
    /\ UNCHANGED <<session, net, connections, failures, acknowledged>>

SyncInit ==
    /\ disk = [p \in Peer |-> EmptyDisk]
    /\ session = [p \in Peer |-> NoSession]
    /\ net = [p \in Peer |-> << >>]
    /\ connections = 0
    /\ failures = 0
    /\ acknowledged = [p \in Peer |-> {}]

SyncNext ==
    \/ Connect
    \/ Disconnect
    \/ \E p \in Peer :
         \/ Receive(p)
         \/ ReceiveFails(p)
         \/ Tick(p)
         \/ PowerLoss(p)
         \/ \E k \in Key : WriteRecord(p, k)
         \/ \E h \in Hash : WriteBlob(p, h)

SyncSpec == SyncInit /\ [][SyncNext]_syncVars

\* An open connection delivers, and the host's timer goes on.
FairSyncSpec ==
    /\ SyncSpec
    /\ \A p \in Peer :
         /\ []<>(~Open(p) \/ net[p] = << >>) \/ []<><<Receive(p)>>_syncVars
         /\ []<>(~Open(p) \/ ~session[p].accepted \/ session[p].synchronizing) \/ []<><<Tick(p)>>_syncVars
-----------------------------------------------------------------------------
\* Two peers that follow the protocol never reject each other, however the
\* two pulls interleave and however their stores grow meanwhile.
HonestNeverRejected == \A p \in Peer : session[p].failed # "protocol"

\* What a peer was told to be safe is durable at the other, through storage
\* errors and power losses.
AcknowledgedDurable ==
    \A p \in Peer : \A o \in acknowledged[p] :
      IF o.blob = None THEN o.record \in disk[other(p)].safe
      ELSE o.blob[1] \in disk[other(p)].safeBlobs

\* A round that ends has made durable every record of the snapshot the other
\* side froze for it, however the pages cut it and both stores grew meanwhile.
RoundEnds(p) == session[p].synchronizing /\ ~session'[p].synchronizing /\ session'[p].failed = "no"

CompleteStep ==
    \A p \in Peer : RoundEnds(p) => session[other(p)].source.snapshot \subseteq disk'[p].safe

RoundsComplete == [][CompleteStep]_syncVars

\* Over a connection that stays open both peers end up with all records and
\* all content any of them has, content that arrives late included.
Converged ==
    \A p, q \in Peer :
      /\ disk[p].recs \subseteq disk[q].safe
      /\ disk[p].blobs \cap UNION {HashesOf[k] : k \in disk[p].recs} \subseteq disk[q].safeBlobs

Converges == <>[](\A p \in Peer : Open(p)) => <>[]Converged
=============================================================================
