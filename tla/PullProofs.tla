----------------------------- MODULE PullProofs -----------------------------
(***************************************************************************)
(* Proofs about Session: what the side that pulls does with each message,  *)
(* and that each step of the two peers keeps ProtocolInv.  SessionProofs   *)
(* has the invariant, the side that serves and what is asked for next.     *)
(***************************************************************************)
EXTENDS SessionProofs

\* Zenon proves most leaves; those that need arithmetic, records or
\* sequences cite SMT.
USE Zenon

(* What the side that pulls does with a response.                          *)

\* The last chunk of an object: content is acknowledged, a record is staged.
LEMMA CompleteBetween ==
    ASSUME NEW s, NEW src, NEW d, NEW x, NEW o, Sound(d, x), SourceOK(src),
           x.s.failed = s.failed, x.s.accepted = s.accepted, x.s.source = s.source,
           x.s.local \subseteq x.d.safe, x.d.recs \subseteq Key,
           x.replies = << >>, x.s.pull.download[1].object = o, Wanted(x.s, src, o),
           src.active = None, src.unacked = Objects(x.s.pull.staged) \cup {o}
    PROVE  Between(s, src, complete(x), {})
  <1> DEFINE taken == [x EXCEPT !.s.pull.download = None]
             full == StagedLength(taken.s.pull.staged) + Length(o) > MaxStaged
             room == IF full THEN flush(taken) ELSE taken
             kept == [room EXCEPT !.s.pull.staged = Append(@, o.record)]
             e == ingest_blob(taken.d, o.blob[1])
             ms == Append(taken.replies, Ack(o))
             batch == StagedLength(kept.s.pull.staged) >= BatchLength
  <1>1. complete(x) = IF o.blob # None THEN Outcome(taken.s, e, ms)
                      ELSE IF batch THEN flush(kept) ELSE kept
    BY SMT DEF complete
  <1> HIDE DEF batch
  <1>2. Sound(d, taken)
    BY ZenonT(30) DEF Sound, IsSession, SessionShape, IsPull, PullShape
  <1>3. /\ taken.s.failed = x.s.failed /\ taken.s.accepted = x.s.accepted
        /\ taken.s.source = x.s.source /\ taken.s.local = x.s.local /\ taken.d = x.d
        /\ taken.replies = << >> /\ taken.s.pull.staged = x.s.pull.staged
        /\ taken.s.pull.records = x.s.pull.records /\ taken.s.pull.keys = x.s.pull.keys
        /\ SamePage(x.s, taken.s)
    BY DEF Sound, IsSession, SessionShape, IsPull, PullShape, SamePage
  <1> HIDE DEF taken, full
  <1>4. /\ OnlyAcks(<< >>) /\ Acked(<< >>) = {} /\ Objects(<< >>) = {} /\ RecordsOf({}) = {}
    BY NoReplies, SMT DEF OnlyAcks, Ordered, Acked, Of, Objects, RecordsOf
  <1>5. PICK k \in Range(x.s.pull.keys) :
          \/ o = RecordObject(k) /\ InPage(x.s, src, {k})
          \/ /\ \E h \in Hash : o = BlobObject(k, h)
             /\ InPage(x.s, src, {}) /\ x.s.pull.records = << >> /\ x.s.pull.staged = << >>
    BY DEF Wanted
  <1>6. CASE /\ \E h \in Hash : o = BlobObject(k, h)
             /\ InPage(x.s, src, {}) /\ x.s.pull.records = << >> /\ x.s.pull.staged = << >>
    <2>1. o.blob # None
      BY <1>6, SMT DEF BlobObject, Some, None
    <2>2. InPage(taken.s, src, {})
      BY <1>3, <1>6, SameWanted
    <2>3. OnlyAcks(ms) /\ Acked(ms) = {o}
      <3> DEFINE rs == taken.replies
      <3>1. OnlyAcks(rs) /\ Acked(rs) = {}
        BY <1>3, <1>4
      <3> HIDE DEF rs
      <3>2. o \notin Acked(rs)
        BY <3>1
      <3>3. OnlyAcks(Append(rs, Ack(o))) /\ Acked(Append(rs, Ack(o))) = Acked(rs) \cup {o}
        BY ONLY <3>1, <3>2, OneAck
      <3> QED BY <3>1, <3>3 DEF rs
    <2>4. e.safe = x.d.safe /\ e.recs = x.d.recs
      BY <1>2, <1>3 DEF ingest_blob, Sound, IsDisk
    <2> DEFINE y == Outcome(taken.s, e, ms)
    <2>5. y.s = taken.s /\ y.d = e /\ y.replies = ms
      BY DEF Outcome
    <2> HIDE DEF e, ms, y
    <2>6. /\ src.unacked = Acked(y.replies) \cup Objects(y.s.pull.staged) \cup RecordsOf({})
          /\ Acked(y.replies) \cap Objects(y.s.pull.staged) = {}
          /\ Acked(y.replies) \cap RecordsOf({}) = {}
      BY <1>3, <1>4, <1>6, <2>3, <2>5
    <2>7. Between(s, src, y, {})
      BY <1>3, <2>2, <2>3, <2>4, <2>5, <2>6 DEF Between
    <2> QED BY <1>1, <2>1, <2>7 DEF y
  <1>7. CASE o = RecordObject(k) /\ InPage(x.s, src, {k})
    <2>1. o.blob = None /\ o.record = k
      BY <1>7, SMT DEF RecordObject
    <2>2. RecordsOf({k}) = {o}
      BY <1>7 DEF RecordsOf
    <2>3. Between(s, src, taken, {k})
      <3>1. InPage(taken.s, src, {k})
        BY <1>3, <1>7, SameWanted
      <3>2. /\ src.unacked = Acked(taken.replies) \cup Objects(taken.s.pull.staged) \cup RecordsOf({k})
            /\ Acked(taken.replies) \cap Objects(taken.s.pull.staged) = {}
            /\ Acked(taken.replies) \cap RecordsOf({k}) = {}
        <4>1. Acked(taken.replies) = {} /\ Objects(taken.s.pull.staged) = Objects(x.s.pull.staged)
          BY <1>3, <1>4
        <4> QED BY ONLY <2>2, <4>1, src.unacked = Objects(x.s.pull.staged) \cup {o}
      <3> QED BY <1>3, <1>4, <3>1, <3>2 DEF Between
    <2>4. Sound(d, room) /\ Between(s, src, room, {k})
      <3>1. Sound(d, flush(taken)) /\ Between(s, src, flush(taken), {k})
        BY <1>2, <2>3, FlushSound, FlushBetween
      <3> QED BY <1>2, <2>3, <3>1
    <2> HIDE DEF room
    <2> DEFINE old == room.s.pull.staged
               st == Append(old, k)
    <2>5. /\ InPage(room.s, src, {k})
          /\ src.unacked = Acked(room.replies) \cup Objects(old) \cup {o}
          /\ Acked(room.replies) \cap Objects(old) = {} /\ Acked(room.replies) \cap {o} = {}
      BY <2>2, <2>4 DEF Between
    <2>6. /\ old \in Seq(Range(room.s.pull.keys)) /\ IsInjective(old)
          /\ k \in Range(room.s.pull.keys) /\ k \notin Range(old)
          /\ k \notin Range(room.s.pull.records)
          /\ Range(room.s.pull.records) \cap Range(old) = {}
      BY <2>5 DEF InPage
    <2>7. /\ st \in Seq(Range(room.s.pull.keys)) /\ IsInjective(st)
          /\ Range(st) = Range(old) \cup {k} /\ Objects(st) = Objects(old) \cup {o}
      <3> HIDE DEF old
      <3> QED BY <1>7, <2>6, InjectiveAppend, SMT
    <2>8. IsSeq(st)
      BY <2>7, SeqIsSeq
    <2>9. kept = [room EXCEPT !.s.pull.staged = st]
      BY <2>1
    <2> HIDE DEF st, kept
    <2>10. Sound(d, kept)
      BY <2>4, <2>8, <2>9, ZenonT(30) DEF Sound, IsSession, SessionShape, IsPull, PullShape
    <2>11. /\ kept.s.failed = room.s.failed /\ kept.s.accepted = room.s.accepted
           /\ kept.s.source = room.s.source
           /\ kept.s.local = room.s.local /\ kept.s.synchronizing = room.s.synchronizing
           /\ kept.s.pull.staged = st /\ kept.d = room.d /\ kept.replies = room.replies
           /\ kept.s.pull.waiting_page = room.s.pull.waiting_page
           /\ kept.s.pull.position = room.s.pull.position
           /\ kept.s.pull.after = room.s.pull.after /\ kept.s.pull.more = room.s.pull.more
           /\ kept.s.pull.keys = room.s.pull.keys /\ kept.s.pull.records = room.s.pull.records
           /\ kept.s.pull.blobs = room.s.pull.blobs /\ kept.s.pull.total = room.s.pull.total
      BY <2>4, <2>9 DEF Sound, IsSession, SessionShape, IsPull, PullShape
    <2>12. InPage(kept.s, src, {})
      <3>1. Abreast(kept.s, src)
        BY <2>5, <2>11 DEF InPage, Abreast
      <3>2. \A i \in 1 .. src.next :
              src.order[i] \in kept.s.local \cup Range(kept.s.pull.records) \cup Range(st) \cup {}
        <4>1. \A i \in 1 .. src.next :
                src.order[i] \in room.s.local \cup Range(room.s.pull.records) \cup Range(old) \cup {k}
          BY <2>5 DEF InPage
        <4> HIDE DEF old
        <4> QED BY <2>7, <2>11, <4>1
      <3>3. Range(kept.s.pull.records) \cap Range(st) = {}
        <4> HIDE DEF old
        <4> QED BY <2>6, <2>7, <2>11
      <3> QED BY <2>5, <2>7, <2>11, <3>1, <3>2, <3>3, ZenonT(30) DEF InPage
    <2>13. /\ src.unacked = Acked(kept.replies) \cup Objects(kept.s.pull.staged) \cup RecordsOf({})
           /\ Acked(kept.replies) \cap Objects(kept.s.pull.staged) = {}
           /\ Acked(kept.replies) \cap RecordsOf({}) = {}
      <3> HIDE DEF old
      <3> QED BY <1>4, <2>5, <2>7, <2>11
    <2>14. Between(s, src, kept, {})
      <3>1. /\ room.s.failed = s.failed /\ room.s.accepted = s.accepted /\ room.s.source = s.source
            /\ room.s.local \subseteq room.d.safe /\ room.d.recs \subseteq Key
            /\ OnlyAcks(room.replies)
        BY <2>4 DEF Between
      <3> QED BY <2>11, <2>12, <2>13, <3>1 DEF Between
    <2>15. Between(s, src, flush(kept), {})
      BY <2>10, <2>14, FlushBetween
    <2> QED BY <1>1, <2>1, <2>14, <2>15
  <1> QED BY <1>5, <1>6, <1>7

\* A page of the inventory is taken, whatever the own store holds of it.
LEMMA PageAsks ==
    ASSUME Counting,
           NEW s, NEW src, NEW d, NEW m, IsSession(s), IsDisk(d), SourceOK(src),
           s.local \subseteq d.safe, d.recs \subseteq Key, PageSent(s, src, m)
    PROVE  Asks(s, src, page(s, d, m))
  <1> DEFINE rest == Kept(m.records, Range(m.records) \ s.local)
             last == IF m.records = << >> THEN None ELSE Some(m.records[Len(m.records)])
             end == m.offset + Len(m.records)
             total == Some(m.total)
             pl == [s.pull EXCEPT !.total = total, !.position = end, !.after = last,
                      !.waiting_page = FALSE, !.more = m.more, !.records = rest,
                      !.keys = m.records, !.tried = {}]
             s1 == [s EXCEPT !.pull = pl]
             x == Outcome(s1, d, << >>)
             part == SubSeq(src.order, m.offset + 1, src.next)
  <1>1. /\ s.synchronizing /\ s.pull.waiting_page /\ s.pull.staged = << >> /\ s.pull.blobs = << >>
        /\ src.awaiting_check /\ src.active = None /\ src.unacked = {}
        /\ m.offset = s.pull.position /\ m.offset \in 0 .. src.next
        /\ src.next <= m.offset + PageLimit
        /\ m.records = part
        /\ m.total = Len(src.order) /\ m.more = src.more
        /\ src.more = (src.next < Len(src.order)) /\ (src.more => m.offset < src.next)
        /\ src.cursor = last
        /\ s.pull.total \in {None, Some(Len(src.order))}
        /\ \A i \in 1 .. m.offset : src.order[i] \in s.local
    BY DEF PageSent
  <1>2. /\ src.order \in Seq(src.snapshot) /\ IsInjective(src.order)
        /\ src.snapshot \subseteq Key /\ src.next \in 0 .. Len(src.order)
    BY DEF SourceOK, IsListing
  <1>3. /\ part \in Seq(src.snapshot) /\ IsInjective(part) /\ Len(part) = src.next - m.offset
        /\ \A i \in 1 .. src.next : i <= m.offset \/ src.order[i] \in Range(part)
    BY <1>1, <1>2, InjectivePart
  <1> HIDE DEF part
  <1>4. Len(src.order) \in Nat /\ src.next \in Nat /\ m.offset \in Nat /\ m.offset <= src.next
    BY <1>1, <1>2, SMT
  <1>5. /\ end = src.next /\ Len(m.records) \in Nat /\ Len(m.records) <= PageLimit
        /\ m.records = << >> => m.offset = src.next
    <2>1. Len(m.records) = src.next - m.offset
      BY <1>1, <1>3
    <2> QED BY <1>1, <1>4, <2>1, SessionAssumption, SMT
  <1>6. page(s, d, m) = advance(x)
    <2>1. ~(m.more /\ m.records = << >>)
      BY <1>1, <1>4, <1>5, SMT
    <2>2. IsInjective(m.records)
      BY <1>1, <1>3
    <2>3. ~(end > m.total) /\ m.more = (end < m.total)
      BY <1>1, <1>2, <1>4, <1>5, SMT
    <2>4. s.pull.total = None \/ s.pull.total = Some(m.total)
      BY <1>1
    <2>5. ~(Len(m.records) > PageLimit)
      BY <1>5, SessionAssumption, WithinBound
    <2> QED BY <1>1, <2>1, <2>2, <2>3, <2>4, <2>5, ZenonT(30) DEF page
  <1>7. Range(m.records) \subseteq src.snapshot
    BY <1>1, <1>3, SMT DEF Range
  <1>8. IsListing(rest, Range(m.records) \ s.local)
    <2>1. m.records \in Seq(src.snapshot) /\ IsInjective(m.records)
      BY <1>1, <1>3
    <2>2. m.records \in Seq(Key)
      BY <2>1, SMT DEF SourceOK
    <2>3. (Range(m.records) \ s.local) \in SUBSET Range(m.records)
      OBVIOUS
    <2> QED BY <2>1, <2>2, <2>3 DEF Counting
  <1> HIDE DEF rest, last, end, total
  <1>9. IsPull(pl)
    BY DEF IsSession, IsPull, PullShape
  <1>10. /\ pl.total = total /\ pl.position = end /\ pl.after = last /\ ~pl.waiting_page
         /\ pl.more = m.more /\ pl.records = rest /\ pl.keys = m.records
         /\ pl.staged = s.pull.staged /\ pl.blobs = s.pull.blobs
    BY DEF IsSession, IsPull, PullShape
  <1> HIDE DEF pl
  <1>11. IsSession(s1)
    BY <1>9 DEF IsSession, SessionShape
  <1>12. /\ s1.failed = s.failed /\ s1.accepted = s.accepted /\ s1.source = s.source
         /\ s1.local = s.local /\ s1.synchronizing = s.synchronizing /\ s1.pull = pl
    BY DEF IsSession, SessionShape
  <1> HIDE DEF s1
  <1>13. Sound(d, x)
    BY <1>11, SyncedKeeps, OutcomeSound, NoReplies
  <1>14. /\ Range(<< >>) = {} /\ Objects(<< >>) = {} /\ IsInjective(<< >>) /\ RecordsOf({}) = {}
         /\ OnlyAcks(<< >>) /\ Acked(<< >>) = {}
    BY NoReplies, SMT DEF OnlyAcks, Ordered, Acked, Of, Objects, RecordsOf, Range, IsInjective
  <1>15. Abreast(s1, src)
    <2>1. src.more => last # None
      BY <1>1, <1>4, <1>5, SMT DEF last, Some, None
    <2> QED BY <1>1, <1>5, <1>10, <1>12, <2>1 DEF Abreast, total
  <1>16. /\ rest \in Seq(Range(m.records)) /\ IsInjective(rest)
         /\ Range(m.records) \subseteq s.local \cup Range(rest)
    <2>1. /\ rest \in Seq(Range(m.records) \ s.local) /\ IsInjective(rest)
          /\ \A k \in Range(m.records) \ s.local : \E i \in 1 .. Len(rest) : rest[i] = k
      BY <1>8 DEF IsListing
    <2>2. DOMAIN rest = 1 .. Len(rest)
      BY <2>1, SMT
    <2>3. \A k \in Range(m.records) \ s.local : k \in Range(rest)
      BY <2>1, <2>2 DEF Range
    <2>4. rest \in Seq(Range(m.records))
      BY <2>1, SMT
    <2> QED BY <2>1, <2>3, <2>4
  <1>17. InPage(s1, src, {})
    <2>1. \A i \in 1 .. src.next :
            src.order[i] \in s1.local \cup Range(pl.records) \cup Range(pl.staged) \cup {}
      <3>1. ASSUME NEW i \in 1 .. src.next
            PROVE  src.order[i] \in s.local \cup Range(rest)
        <4>1. CASE i <= m.offset
          BY <1>1, <1>4, <4>1, SMT
        <4>2. CASE ~(i <= m.offset)
          BY <1>1, <1>3, <1>16, <4>2
        <4> QED BY <4>1, <4>2
      <3> QED BY <1>10, <1>12, <3>1
    <2>2. pl.keys \in Seq(src.snapshot) /\ Len(pl.keys) <= PageLimit
      BY <1>1, <1>3, <1>5, <1>10
    <2>3. pl.blobs \in Seq(Contents(pl.keys)) /\ pl.staged \in Seq(Range(pl.keys))
      BY <1>1, <1>10, SMT
    <2>4. /\ pl.records \in Seq(Range(pl.keys)) /\ IsInjective(pl.records) /\ IsInjective(pl.staged)
          /\ Range(pl.staged) = {}
      BY <1>1, <1>10, <1>14, <1>16
    <2> QED BY <1>1, <1>10, <1>12, <1>15, <2>1, <2>2, <2>3, <2>4 DEF InPage
  <1>18. x.s = s1 /\ x.d = d /\ x.replies = << >>
    BY DEF Outcome
  <1> HIDE DEF x
  <1>19. Between(s, src, x, {})
    BY <1>1, <1>10, <1>12, <1>14, <1>17, <1>18 DEF Between
  <1> QED BY <1>6, <1>13, <1>19, AdvanceAsks

\* A chunk is the one asked for: the next is asked for, or the next object.
LEMMA ChunkAsks ==
    ASSUME Counting,
           NEW s, NEW src, NEW d, NEW m, IsSession(s), IsDisk(d), SourceOK(src),
           s.local \subseteq d.safe, d.recs \subseteq Key, ChunkSent(s, src, m)
    PROVE  Asks(s, src, chunk(s, d, m))
  <1> DEFINE o == m.object
             end == m.offset + m.length
             got == s.pull.download[1]
             dl == [object |-> o, received |-> end, total |-> Some(m.total)]
             kept == [s EXCEPT !.pull.download = Some(dl)]
             x == Outcome(kept, d, << >>)
             n == Need(o, end)
             y == Outcome(kept, d, <<n>>)
  <1>1. /\ Wanted(s, src, o) /\ Downloads(s, o, m.offset)
        /\ m.total = Length(o) /\ m.offset \in 0 .. Length(o)
        /\ m.length = IF m.offset < Length(o) THEN 1 ELSE 0
    BY DEF ChunkSent
  <1>2. /\ end = Length(o) => src.active = None /\ src.unacked = Objects(s.pull.staged) \cup {o}
        /\ end # Length(o) => /\ src.active = Some([object |-> o, next |-> end])
                              /\ src.unacked = Objects(s.pull.staged)
    BY DEF ChunkSent
  <1>3. Length(o) \in Nat
    BY <1>1, WantedObject
  <1>4. /\ end \in Nat /\ end <= Length(o) /\ (m.length = 0 => end = Length(o))
        /\ (end # Length(o) => end # 0 /\ end < Length(o))
    BY <1>1, <1>3, SMT
  <1>5. PICK total \in {None, Some(Length(o))} :
          s.pull.download = Some([object |-> o, received |-> m.offset, total |-> total])
    BY <1>1 DEF Downloads
  <1>6. /\ s.pull.download # None /\ got.object = o /\ got.received = m.offset
        /\ got.total \in {None, Some(m.total)}
    BY <1>1, <1>5, SMT DEF Some, None
  <1> HIDE DEF end
  <1>7. chunk(s, d, m) = IF end = m.total THEN advance(complete(x)) ELSE y
    <2>1. ~(end > m.total) /\ ~(m.length = 0 /\ end # m.total)
      BY <1>1, <1>3, <1>4, SMT
    <2> QED BY <1>6, <2>1 DEF chunk, end
  <1>8. /\ IsSession(kept) /\ SamePage(s, kept) /\ kept.pull.download = Some(dl)
        /\ kept.failed = s.failed /\ kept.accepted = s.accepted /\ kept.source = s.source
        /\ kept.local = s.local /\ kept.synchronizing = s.synchronizing
        /\ kept.pull.staged = s.pull.staged
    <2> HIDE DEF dl
    <2> QED BY DEF IsSession, SessionShape, IsPull, PullShape, SamePage
  <1> HIDE DEF kept
  <1>9. Wanted(kept, src, o)
    BY <1>1, <1>8, SameWanted
  <1>10. CASE end = m.total
    <2>1. Sound(d, x)
      BY <1>8, SyncedKeeps, OutcomeSound, NoReplies
    <2>2. x.s = kept /\ x.d = d /\ x.replies = << >>
      BY DEF Outcome
    <2>3. x.s.pull.download[1].object = o
      BY <1>8, <2>2, SMT DEF Some
    <2> HIDE DEF x, o
    <2>4. src.active = None /\ src.unacked = Objects(x.s.pull.staged) \cup {o}
      BY <1>1, <1>2, <1>8, <1>10, <2>2
    <2>5. Between(s, src, complete(x), {})
      BY <1>8, <1>9, <2>1, <2>2, <2>3, <2>4, CompleteBetween
    <2>6. Sound(d, complete(x))
      BY <2>1, CompleteSound
    <2> QED BY <1>7, <1>10, <2>5, <2>6, AdvanceAsks
  <1>11. CASE end # m.total
    <2>1. y.s = kept /\ y.d = d /\ y.replies = <<n>>
      BY DEF Outcome
    <2>2. n.type = "Need" /\ n.object = o /\ n.offset = end
      BY DEF Need
    <2> HIDE DEF n, y
    <2>3. /\ IsSeq(<<n>>) /\ Ordered(<<n>>)
          /\ Of(<<n>>, {"Need"}) = {n} /\ Of(<<n>>, {"Need", "Checked"}) = {n}
          /\ Of(<<n>>, {"Checked"}) = {} /\ Of(<<n>>, {"Inventory"}) = {} /\ Of(<<n>>, {"Ack"}) = {}
          /\ Of(<<n>>, Response \cup {"Hello"}) = {}
      <3>1. /\ n.type \in {"Need"} /\ n.type \in {"Need", "Checked"} /\ n.type \notin {"Checked"}
            /\ n.type \notin {"Inventory"} /\ n.type \notin {"Ack"}
            /\ n.type \notin Response \cup {"Hello"}
        BY <2>2 DEF Response
      <3> QED BY ONLY <3>1, OfOne, ZenonT(30)
    <2>4. Acked(<<n>>) = {}
      BY <2>3 DEF Acked
    <2>5. Downloads(kept, o, end)
      BY <1>1, <1>8 DEF Downloads
    <2>6. NeedSent(kept, src, n, {})
      <3>1. src.active = Some([object |-> o, next |-> end]) /\ src.unacked = Objects(kept.pull.staged)
        BY <1>1, <1>2, <1>8, <1>11
      <3>2. /\ src.unacked = {} \cup Objects(kept.pull.staged)
            /\ {} \cap Objects(kept.pull.staged) = {}
        BY <3>1
      <3>3. n.offset \in Nat /\ n.offset # 0 /\ n.offset < Length(o)
        BY <1>1, <1>4, <1>11, <2>2
      <3> QED BY <1>9, <2>2, <2>5, <3>1, <3>2, <3>3 DEF NeedSent
    <2>7. kept.synchronizing
      BY <1>9, WantedObject
    <2>8. Requests(kept, src, <<n>>)
      BY <2>3, <2>4, <2>6, <2>7 DEF Requests
    <2>9. Asks(s, src, y)
      BY <1>8, <2>1, <2>3, <2>7, <2>8 DEF Asks
    <2> QED BY <1>7, <1>11, <2>9
  <1> QED BY <1>10, <1>11

\* Content that the source lacks is left out.
LEMMA MissingAsks ==
    ASSUME Counting,
           NEW s, NEW src, NEW d, NEW m, IsSession(s), IsDisk(d), SourceOK(src),
           s.local \subseteq d.safe, d.recs \subseteq Key, MissingSent(s, src, m)
    PROVE  Asks(s, src, missing(s, d, m.object))
  <1> DEFINE o == m.object
             s1 == [s EXCEPT !.pull.download = None]
             x == Outcome(s1, d, << >>)
  <1>1. /\ Wanted(s, src, o) /\ o.blob # None /\ Downloads(s, o, 0)
        /\ src.active = None /\ src.unacked = Objects(s.pull.staged)
    BY DEF MissingSent
  <1>2. PICK total \in {None, Some(Length(o))} :
          s.pull.download = Some([object |-> o, received |-> 0, total |-> total])
    BY <1>1 DEF Downloads
  <1>3. missing(s, d, o) = advance(x)
    <2>1. /\ s.pull.download # None /\ s.pull.download[1].object = o
          /\ s.pull.download[1].received = 0
      BY <1>2, SMT DEF Some, None
    <2> QED BY <1>1, <2>1 DEF missing
  <1>4. /\ IsSession(s1) /\ SamePage(s, s1)
        /\ s1.failed = s.failed /\ s1.accepted = s.accepted /\ s1.source = s.source
        /\ s1.local = s.local /\ s1.pull.staged = s.pull.staged
    BY DEF IsSession, SessionShape, IsPull, PullShape, SamePage
  <1> HIDE DEF s1
  <1>5. Sound(d, x)
    BY <1>4, SyncedKeeps, OutcomeSound, NoReplies
  <1>6. x.s = s1 /\ x.d = d /\ x.replies = << >>
    BY DEF Outcome
  <1> HIDE DEF x
  <1>7. InPage(s, src, {})
    BY <1>1, SMT DEF Wanted, RecordObject
  <1>8. InPage(s1, src, {})
    BY <1>4, <1>7, SameWanted
  <1>9. /\ OnlyAcks(<< >>) /\ Acked(<< >>) = {} /\ RecordsOf({}) = {}
    BY NoReplies, SMT DEF OnlyAcks, Ordered, Acked, Of, RecordsOf
  <1>10. /\ src.unacked = Acked(x.replies) \cup Objects(x.s.pull.staged) \cup RecordsOf({})
         /\ Acked(x.replies) \cap Objects(x.s.pull.staged) = {}
         /\ Acked(x.replies) \cap RecordsOf({}) = {}
    BY <1>1, <1>4, <1>6, <1>9
  <1>11. Between(s, src, x, {})
    BY <1>1, <1>4, <1>6, <1>8, <1>9, <1>10 DEF Between
  <1> QED BY <1>3, <1>5, <1>11, AdvanceAsks

\* A response of a peer that follows the protocol is taken, and leaves the two
\* sides as the invariant has them.
LEMMA PullStep ==
    ASSUME Counting,
           NEW s, NEW src, NEW d, NEW req, NEW rsp, IsSession(s), IsDisk(d), SourceOK(src),
           s.local \subseteq d.safe, d.recs \subseteq Key, s.accepted, IsSeq(req), IsSeq(rsp),
           rsp # << >>, Head(rsp).type \in Response, Responses(s, src, req, rsp)
    PROVE  LET x == process(s, d, Head(rsp))
           IN  /\ Asks(s, src, x) /\ Requests(x.s, src, req \o x.replies)
               /\ Responses(x.s, src, req \o x.replies, Tail(rsp))
  <1> DEFINE m == Head(rsp)
             tl == Tail(rsp)
             x == process(s, d, m)
             ms == req \o x.replies
  <1>1. m \in Of(rsp, Response)
    BY OfTail, ZenonT(30)
  <1>2. /\ Of(req, Request) = {} /\ Lone(rsp)
        /\ m.type = "Page" => PageSent(s, src, m)
        /\ m.type = "Chunk" => ChunkSent(s, src, m)
        /\ m.type = "Missing" => MissingSent(s, src, m)
    BY <1>1 DEF Responses
  <1>3. Asks(s, src, x)
    <2>1. CASE m.type = "Page"
      <3>1. x = page(s, d, m)
        BY <2>1 DEF process
      <3> QED BY <1>2, <2>1, <3>1, PageAsks
    <2>2. CASE m.type = "Chunk"
      <3>1. x = chunk(s, d, m)
        BY <2>2 DEF process
      <3> QED BY <1>2, <2>2, <3>1, ChunkAsks
    <2>3. CASE m.type = "Missing"
      <3>1. x = missing(s, d, m.object)
        BY <2>3 DEF process
      <3> QED BY <1>2, <2>3, <3>1, MissingAsks
    <2> QED BY <2>1, <2>2, <2>3 DEF Response
  <1> HIDE DEF x
  <1>4. IsSeq(x.replies) /\ Requests(x.s, src, x.replies)
    BY <1>3 DEF Asks
  <1>5. Ordered(ms)
    BY <1>2, <1>4, OrderConcat DEF Requests
  <1>6. ASSUME NEW T \in SUBSET Request
        PROVE  Of(ms, T) = Of(x.replies, T)
    <2>1. Of(ms, T) = Of(req, T) \cup Of(x.replies, T)
      BY <1>4, OfConcat, SMT
    <2>2. Of(req, T) \subseteq Of(req, Request)
      BY OfFewer
    <2> QED BY <1>2, <2>1, <2>2
  <1> HIDE DEF ms
  <1>7. Requests(x.s, src, ms)
    <2>1. SamePull(x.s, x.s)
      BY DEF SamePull
    <2> QED BY <1>4, <1>5, <1>6, <2>1, RequestsSame
  <1>8. Lone(tl) /\ Of(tl, Response) = {}
    <2>1. /\ m = rsp[1] /\ Len(rsp) \in Nat \ {0} /\ Len(tl) = Len(rsp) - 1
          /\ \A i \in 1 .. Len(rsp) - 1 : tl[i] = rsp[i + 1]
      BY SeqParts
    <2> HIDE DEF tl, m
    <2>2. ASSUME NEW i \in 1 .. Len(tl)
          PROVE  tl[i].type \notin Response
      <3>1. i + 1 \in 1 .. Len(rsp) /\ 1 \in 1 .. Len(rsp) /\ 1 < i + 1 /\ tl[i] = rsp[i + 1]
        BY <2>1, SMT
      <3> QED BY <1>2, <2>1, <3>1 DEF Lone, m
    <2> QED BY <2>2 DEF Lone, Of
  <1>9. Responses(x.s, src, ms, tl)
    BY <1>8 DEF Responses
  <1> QED BY <1>3, <1>7, <1>9 DEF x, ms
-----------------------------------------------------------------------------
(* The steps of a session.                                                 *)

\* A round starts behind the end of the last one.
LEMMA StartStep ==
    ASSUME NEW s, NEW t, NEW src, NEW d, NEW req, NEW rsp, IsSession(t), IsDisk(d),
           d.recs \subseteq Key, SamePull(s, t), t.accepted, ~t.synchronizing,
           IsSeq(req), Responses(s, src, req, rsp)
    PROVE  LET x == start_round(t, d)
           IN  /\ x.s.failed = t.failed /\ x.s.accepted /\ x.s.source = t.source
               /\ x.s.synchronizing /\ x.s.local \subseteq x.d.safe /\ x.d.recs \subseteq Key
               /\ IsSeq(x.replies) /\ Of(x.replies, Response \cup {"Hello"}) = {}
               /\ Requests(s, src, req) => Requests(x.s, src, req \o x.replies)
               /\ \A ms, ns : Lone(ns) /\ Of(ns, Response) \subseteq Of(rsp, Response) =>
                                Responses(x.s, src, ms, ns)
  <1> DEFINE pl == [NoPull EXCEPT !.waiting_page = TRUE]
             s1 == [t EXCEPT !.local = d.recs, !.pull = pl, !.synchronizing = TRUE]
             m == Inventory(None)
             x == start_round(t, d)
             ms == req \o <<m>>
  <1>1. x = Outcome(s1, synced(d), <<m>>)
    BY DEF start_round
  <1>2. x.s = s1 /\ x.d = synced(d) /\ x.replies = <<m>>
    BY <1>1, SMT DEF Outcome
  <1>3. /\ pl.waiting_page /\ pl.staged = << >> /\ pl.blobs = << >> /\ pl.position = 0
        /\ pl.total = None
    BY DEF NoPull
  <1> HIDE DEF pl, x
  <1>4. /\ s1.failed = t.failed /\ s1.accepted = t.accepted /\ s1.source = t.source
        /\ s1.local = d.recs /\ s1.synchronizing /\ s1.pull = pl
    BY DEF IsSession, SessionShape
  <1> HIDE DEF s1
  <1>5. synced(d).recs = d.recs /\ synced(d).safe = d.recs
    BY DEF synced, IsDisk
  <1>6. m.type = "Inventory" /\ m.after = None
    BY DEF Inventory
  <1> HIDE DEF m
  <1>7. /\ IsSeq(<<m>>) /\ Ordered(<<m>>)
        /\ Of(<<m>>, {"Need"}) = {} /\ Of(<<m>>, {"Need", "Checked"}) = {}
        /\ Of(<<m>>, {"Checked"}) = {} /\ Of(<<m>>, {"Inventory"}) = {m} /\ Of(<<m>>, {"Ack"}) = {}
        /\ Of(<<m>>, Response \cup {"Hello"}) = {}
    <2>1. /\ m.type \notin {"Need"} /\ m.type \notin {"Need", "Checked"} /\ m.type \notin {"Checked"}
          /\ m.type \in {"Inventory"} /\ m.type \notin {"Ack"}
          /\ m.type \notin Response \cup {"Hello"}
      BY <1>6 DEF Response
    <2> QED BY ONLY <2>1, OfOne, SMT
  <1>8. ~s.synchronizing
    BY DEF SamePull
  <1>9. \A o : ~Wanted(s, src, o)
    BY <1>8 DEF Wanted, InPage, Abreast
  <1>10. Of(rsp, Response) = {}
    <2>1. ASSUME NEW n \in Of(rsp, Response)
          PROVE  FALSE
      <3>1. n.type \in Response
        BY OfPlaces
      <3> QED BY <1>8, <1>9, <3>1 DEF Responses, PageSent, ChunkSent, MissingSent, Response
    <2> QED BY <2>1
  <1>11. \A rs, ns : Lone(ns) /\ Of(ns, Response) \subseteq Of(rsp, Response) =>
                       Responses(x.s, src, rs, ns)
    BY <1>10 DEF Responses
  <1>12. ASSUME Requests(s, src, req)
         PROVE  Requests(s1, src, ms)
    <2>1. Of(req, {"Need"}) = {} /\ Of(req, {"Inventory"}) = {}
      BY <1>8, <1>9, <1>12 DEF Requests, NeedSent, InventorySent
    <2>2. ASSUME NEW T
          PROVE  Of(ms, T) = Of(req, T) \cup Of(<<m>>, T)
      <3> DEFINE one == <<m>>
      <3>1. IsSeq(one)
        BY <1>7
      <3> HIDE DEF one
      <3>2. Of(req \o one, T) = Of(req, T) \cup Of(one, T)
        BY ONLY <3>1, IsSeq(req), OfConcat, SMT
      <3> QED BY <3>2 DEF one
    <2>3. /\ Of(ms, {"Need"}) = {} /\ Of(ms, {"Inventory"}) = {m}
      BY <1>7, <2>1, <2>2
    <2>4. /\ Of(ms, {"Checked"}) = Of(req, {"Checked"}) /\ Of(ms, {"Ack"}) = Of(req, {"Ack"})
          /\ Of(ms, {"Need", "Checked"}) = Of(req, {"Need", "Checked"})
      <3>1. ASSUME NEW T, Of(<<m>>, T) = {}
            PROVE  Of(ms, T) = Of(req, T)
        <4>1. Of(ms, T) = Of(req, T) \cup Of(<<m>>, T)
          BY <2>2
        <4> QED BY ONLY <3>1, <4>1
      <3> HIDE DEF ms
      <3> QED BY ONLY <1>7, <3>1
    <2>5. Acked(ms) = Acked(req)
      BY <2>4 DEF Acked
    <2>6. Ordered(ms)
      <3>1. Len(req) \in Nat /\ IsSeq(<<m>>) /\ Len(<<m>>) = 1 /\ <<m>>[1] = m
        BY <1>7, SeqParts
      <3>2. /\ Len(ms) = Len(req) + 1
            /\ \A i \in 1 .. Len(req) + 1 : ms[i] = IF i <= Len(req) THEN req[i] ELSE <<m>>[i - Len(req)]
        BY <3>1, SeqConcat
      <3> HIDE DEF ms
      <3>3. ms[Len(req) + 1] = m /\ \A i \in 1 .. Len(req) : ms[i] = req[i]
        BY <3>1, <3>2, SMT
      <3>4. \A i \in 1 .. Len(req) : req[i].type \in Request => req[i].type \in {"Ack", "Checked"}
        <4>1. \A i \in 1 .. Len(req) : req[i].type \notin {"Need"} /\ req[i].type \notin {"Inventory"}
          BY <2>1, OfPlaces
        <4> QED BY <4>1 DEF Request
      <3>5. Ordered(req)
        BY <1>12 DEF Requests
      <3>6. ASSUME NEW i \in 1 .. Len(ms), NEW j \in 1 .. Len(ms), i < j,
                   ms[i].type \in Request, ms[j].type \in Request
            PROVE  /\ ms[i].type \in {"Ack", "Checked"}
                   /\ ms[i].type = "Checked" => ms[j].type = "Inventory"
                   /\ ms[i].type = "Ack" /\ ms[j].type = "Ack" => ms[i].object # ms[j].object
        <4>1. /\ i \in 1 .. Len(req) /\ ms[i] = req[i]
              /\ j \in 1 .. Len(req) \/ j = Len(req) + 1
          BY <3>1, <3>2, <3>3, <3>6, LastPlace
        <4>2. CASE j \in 1 .. Len(req)
          <5>1. ms[j] = req[j]
            BY <3>3, <4>2
          <5> QED BY <3>5, <3>6, <4>1, <4>2, <5>1, SMT DEF Ordered
        <4>3. CASE j = Len(req) + 1
          BY <1>6, <3>3, <3>4, <3>6, <4>1, <4>3, ZenonT(30)
        <4> QED BY <4>1, <4>2, <4>3
      <3> QED BY <3>6 DEF Ordered
    <2>7. InventorySent(s1, src, m)
      BY <1>3, <1>4, <1>6 DEF InventorySent
    <2>8. Of(req, {"Checked"}) = {} => Quiet(src)
      BY <1>8, <1>12 DEF Requests
    <2> HIDE DEF ms
    <2>9. \A n \in Of(ms, {"Checked"}) : CheckedSent(src, n, Acked(ms))
      BY <1>12, <2>4, <2>5 DEF Requests
    <2>10. Acked(ms) # {} => Of(ms, {"Need", "Checked"}) # {}
      BY <1>12, <2>4, <2>5 DEF Requests
    <2> QED BY <2>3, <2>4, <2>6, <2>7, <2>8, <2>9, <2>10, ZenonT(30) DEF Requests
  <1> QED BY <1>2, <1>4, <1>5, <1>7, <1>11, <1>12 DEF x, ms

\* What the handling of a message by the session s, with the disk d, leaves: s
\* pulls from t over the queues nt (to t) and ns (to s), and t from s.
Handled(s, t, x, ns, nt) ==
    /\ x.s.failed = s.failed /\ x.s.accepted
    /\ x.s.local \subseteq x.d.safe /\ x.d.recs \subseteq Key
    /\ SourceOK(x.s.source)
    /\ IsSeq(x.replies) /\ Of(x.replies, {"Hello"}) = {}
    /\ Responses(x.s, t.source, nt \o x.replies, Tail(ns))
    /\ Requests(s, t.source, nt) => Requests(x.s, t.source, nt \o x.replies)
    /\ Responses(t, x.s.source, Tail(ns), nt \o x.replies)
    /\ Requests(t, x.s.source, Tail(ns))
    /\ s.synchronizing /\ ~x.s.synchronizing => t.source.snapshot \subseteq x.d.safe

\* Every message between two peers that follow the protocol is handled so.
LEMMA ProcessStep ==
    ASSUME Counting,
           NEW s, NEW t, NEW d, NEW ns, NEW nt, IsSession(s), IsDisk(d), d.recs \subseteq Key,
           s.local \subseteq d.safe, SourceOK(s.source), SourceOK(t.source), Greeted(s, ns),
           IsSeq(ns), IsSeq(nt), ns # << >>, Head(ns).type \in MessageType,
           Responses(s, t.source, nt, ns), Responses(t, s.source, ns, nt), Requests(t, s.source, ns)
    PROVE  Handled(s, t, process(s, d, Head(ns)), ns, nt)
  <1> DEFINE m == Head(ns)
             x == process(s, d, m)
  <1>1. m = ns[1] /\ 1 \in 1 .. Len(ns)
    BY SeqParts, SMT
  <1>2. SamePull(t, t)
    BY DEF SamePull
  <1>3. m.type # "Hello" => s.accepted
    BY <1>1 DEF Greeted
  <1>4. ASSUME NEW ms, NEW T, NEW U \in SUBSET T, Of(ms, T) = {}
        PROVE  Of(ms, U) = {}
    <2>1. Of(ms, U) \subseteq Of(ms, T)
      BY ONLY OfFewer, U \in SUBSET T
    <2> QED BY ONLY <1>4, <2>1
  <1>5. CASE m.type \in Response
    <2>1. m.type # "Hello" /\ m.type \notin Request
      BY <1>5 DEF Response, Request
    <2>2. /\ Asks(s, t.source, x) /\ Requests(x.s, t.source, nt \o x.replies)
          /\ Responses(x.s, t.source, nt \o x.replies, Tail(ns))
      BY <1>3, <1>5, <2>1, PullStep
    <2> HIDE DEF x
    <2>3. /\ x.s.failed = s.failed /\ x.s.accepted = s.accepted /\ x.s.source = s.source
          /\ x.s.local \subseteq x.d.safe /\ x.d.recs \subseteq Key
          /\ IsSeq(x.replies) /\ Of(x.replies, Response \cup {"Hello"}) = {}
          /\ ~x.s.synchronizing => t.source.snapshot \subseteq x.d.safe
      BY <2>2 DEF Asks
    <2>4. Of(x.replies, Response) = {} /\ Of(x.replies, {"Hello"}) = {}
      BY <1>4, <2>3, SMT
    <2>5. /\ Requests(t, x.s.source, Tail(ns))
          /\ Responses(t, x.s.source, Tail(ns), nt \o x.replies)
      BY <1>2, <2>1, <2>3, <2>4, PullFrame
    <2> HIDE DEF m
    <2> QED BY <1>3, <2>1, <2>2, <2>3, <2>4, <2>5 DEF Handled, x, m
  <1>6. CASE m.type \in Request
    <2>1. m.type # "Hello" /\ m.type \notin Response
      BY <1>6 DEF Response, Request
    <2>2. /\ Serves(s, x) /\ x.d \in {d, synced(d)} /\ FromSource(x.replies)
          /\ Requests(t, x.s.source, Tail(ns))
          /\ Responses(t, x.s.source, Tail(ns), nt \o x.replies)
      BY <1>3, <1>6, <2>1, ServeStep
    <2> HIDE DEF x
    <2>3. /\ x.s.failed = s.failed /\ x.s.accepted = s.accepted /\ SamePull(s, x.s)
          /\ SourceOK(x.s.source) /\ IsSeq(x.replies)
          /\ Of(x.replies, Request \cup {"Hello"}) = {}
      BY <2>2 DEF Serves, FromSource
    <2>4. Of(x.replies, Request) = {} /\ Of(x.replies, {"Hello"}) = {}
      BY <1>4, <2>3, SMT
    <2>5. x.d.recs = d.recs /\ d.safe \subseteq x.d.safe
      BY <2>2 DEF synced, IsDisk
    <2>6. /\ Requests(s, t.source, nt) => Requests(x.s, t.source, nt \o x.replies)
          /\ Responses(x.s, t.source, nt \o x.replies, Tail(ns))
      BY <2>1, <2>3, <2>4, ServeFrame
    <2>7. x.s.local = s.local /\ x.s.synchronizing = s.synchronizing
      BY <2>3 DEF SamePull
    <2> HIDE DEF m
    <2> QED BY <1>3, <2>1, <2>2, <2>3, <2>4, <2>5, <2>6, <2>7 DEF Handled, x, m
  <1>7. CASE m.type = "Hello"
    <2> DEFINE s1 == [s EXCEPT !.accepted = TRUE]
    <2>1. m = Hello /\ ~s.accepted /\ ~s.synchronizing
      BY <1>1, <1>7 DEF Greeted
    <2>2. x = start_round(s1, d)
      BY <2>1 DEF process
    <2>3. /\ IsSession(s1) /\ SamePull(s, s1) /\ s1.accepted /\ ~s1.synchronizing
          /\ s1.source = s.source /\ s1.failed = s.failed
      BY <2>1 DEF IsSession, SessionShape, SamePull
    <2> HIDE DEF s1, x
    <2> DEFINE z == start_round(s1, d)
    <2>4. /\ x.s.failed = s1.failed /\ x.s.accepted /\ x.s.source = s1.source
          /\ x.s.synchronizing /\ x.s.local \subseteq x.d.safe /\ x.d.recs \subseteq Key
          /\ IsSeq(x.replies) /\ Of(x.replies, Response \cup {"Hello"}) = {}
          /\ Requests(s, t.source, nt) => Requests(x.s, t.source, nt \o x.replies)
          /\ \A ms, ps : Lone(ps) /\ Of(ps, Response) \subseteq Of(ns, Response) =>
                           Responses(x.s, t.source, ms, ps)
      <3>1. /\ z.s.failed = s1.failed /\ z.s.accepted /\ z.s.source = s1.source
            /\ z.s.synchronizing /\ z.s.local \subseteq z.d.safe /\ z.d.recs \subseteq Key
            /\ IsSeq(z.replies) /\ Of(z.replies, Response \cup {"Hello"}) = {}
            /\ Requests(s, t.source, nt) => Requests(z.s, t.source, nt \o z.replies)
            /\ \A ms, ps : Lone(ps) /\ Of(ps, Response) \subseteq Of(ns, Response) =>
                             Responses(z.s, t.source, ms, ps)
        BY <2>3, StartStep
      <3> HIDE DEF z
      <3>2. x = z
        BY <2>2 DEF z
      <3> QED BY ONLY <3>1, <3>2
    <2>5. Of(x.replies, Response) = {} /\ Of(x.replies, {"Hello"}) = {}
      BY <1>4, <2>4, SMT
    <2>6. Responses(x.s, t.source, nt \o x.replies, Tail(ns))
      <3>1. Lone(Tail(ns))
        BY OrderTail DEF Responses
      <3>2. Of(Tail(ns), Response) \subseteq Of(ns, Response)
        BY OfTail
      <3> QED BY <2>4, <3>1, <3>2
    <2>7. m.type \notin Request
      BY <1>7 DEF Request
    <2>8. /\ Requests(t, x.s.source, Tail(ns))
          /\ Responses(t, x.s.source, Tail(ns), nt \o x.replies)
      BY <1>2, <2>3, <2>4, <2>5, <2>7, PullFrame
    <2> HIDE DEF m
    <2> QED BY <2>1, <2>3, <2>4, <2>5, <2>6, <2>8 DEF Handled, x, m
  <1> QED BY <1>5, <1>6, <1>7 DEF MessageType, Response, Request

\* Behind the greeting, or behind any message taken, there is none.
LEMMA GreetedTail ==
    ASSUME NEW s, NEW t, NEW ms, IsSeq(ms), ms # << >>, Greeted(s, ms), t.accepted
    PROVE  Greeted(t, Tail(ms))
  <1> DEFINE tl == Tail(ms)
  <1>1. /\ Len(ms) \in Nat \ {0} /\ Len(tl) = Len(ms) - 1
        /\ \A i \in 1 .. Len(ms) - 1 : tl[i] = ms[i + 1]
    BY SeqParts
  <1> HIDE DEF tl
  <1>2. ASSUME NEW i \in 1 .. Len(tl)
        PROVE  tl[i].type # "Hello"
    <2>1. i + 1 \in 1 .. Len(ms) /\ i + 1 # 1 /\ tl[i] = ms[i + 1]
      BY <1>1, SMT
    <2> QED BY <2>1 DEF Greeted
  <1> QED BY <1>2 DEF Greeted, tl

\* Messages other than a greeting follow what is under way.
LEMMA GreetedConcat ==
    ASSUME NEW s, NEW ms, NEW b, IsSeq(ms), IsSeq(b), Greeted(s, ms), Of(b, {"Hello"}) = {}
    PROVE  Greeted(s, ms \o b)
  <1> DEFINE ns == ms \o b
  <1>1. Len(ms) \in Nat /\ Len(b) \in Nat
    BY SeqParts
  <1>2. /\ IsSeq(ns) /\ Len(ns) = Len(ms) + Len(b)
        /\ \A i \in 1 .. Len(ms) + Len(b) : ns[i] = IF i <= Len(ms) THEN ms[i] ELSE b[i - Len(ms)]
    BY SeqConcat
  <1> HIDE DEF ns
  <1>3. ASSUME NEW i \in 1 .. Len(ns), ns[i].type = "Hello"
        PROVE  i \in 1 .. Len(ms) /\ ns[i] = ms[i]
    <2>1. CASE i <= Len(ms)
      BY <1>1, <1>2, <2>1, SMT
    <2>2. CASE ~(i <= Len(ms))
      <3>1. i - Len(ms) \in 1 .. Len(b) /\ ns[i] = b[i - Len(ms)]
        BY <1>1, <1>2, <2>2, SMT
      <3> QED BY <1>3, <3>1, OfPlaces
    <2> QED BY <2>1, <2>2
  <1>4. ms # << >> => ns # << >> /\ ns[1] = ms[1]
    <2>1. ms # << >> => Len(ms) # 0
      BY SeqParts
    <2>2. ms # << >> => 1 \in 1 .. Len(ms) + Len(b) /\ 1 <= Len(ms)
      BY <1>1, <2>1, SMT
    <2>3. ns = << >> => Len(ns) = 0
      BY SMT
    <2> QED BY <1>1, <1>2, <2>2, <2>3, SMT
  <1> QED BY <1>3, <1>4 DEF Greeted, ns

\* A source that has served nothing.
LEMMA FreshSource == SourceOK(NoSource) /\ Quiet(NoSource)
  <1>1. IsListing(<< >>, {})
    BY SMT DEF IsListing, IsInjective
  <1>2. 0 \in 0 .. Len(<< >>)
    BY SMT
  <1> QED BY <1>1, <1>2 DEF SourceOK, SourceShape, Quiet, NoSource

\* The invariant, by the two peers.
LEMMA BothPeers ==
    ASSUME NEW p \in Peer,
           PeerInv(p)', PeerInv(other(p))', PullInv(p)', PullInv(other(p))'
    PROVE  ProtocolInv'
  BY OtherPeer DEF ProtocolInv

\* No connection.
LEMMA ClosedProtocol ==
    ASSUME session' = [p \in Peer |-> NoSession], net' = [p \in Peer |-> << >>],
           \A p \in Peer : disk'[p].recs \subseteq Key
    PROVE  ProtocolInv'
  <1>1. /\ NoSession.failed = "closed" /\ ~NoSession.synchronizing /\ NoSession.local = {}
        /\ NoSession.source = NoSource
    BY DEF NoSession, NewSession
  <1>2. Of(<< >>, Response) = {} /\ Lone(<< >>)
    BY SMT DEF Of, Lone
  <1>3. ASSUME NEW p \in Peer
        PROVE  PeerInv(p)' /\ PullInv(p)'
    <2>1. other(p) \in Peer
      BY OtherPeer
    <2>2. session'[p] = NoSession /\ session'[other(p)] = NoSession /\ net'[p] = << >>
          /\ net'[other(p)] = << >>
      BY <2>1
    <2>3. PeerOK(NoSession, disk'[p], << >>)
      BY <1>1, FreshSource DEF PeerOK
    <2>4. PullOK(NoSession, NoSession, << >>, << >>)
      BY <1>1, <1>2 DEF PullOK, Responses
    <2> QED BY <2>2, <2>3, <2>4 DEF PeerInv, PullInv
  <1> QED BY <1>3 DEF ProtocolInv

\* Two greetings under way.
LEMMA ConnectProtocol ==
    ASSUME Inv, ProtocolInv, Connect
    PROVE  ProtocolInv'
  <1> DEFINE s == NewSession
             ms == <<Hello>>
  <1>1. /\ s.failed = "no" /\ ~s.synchronizing /\ ~s.accepted /\ s.local = {} /\ s.source = NoSource
    BY DEF NewSession
  <1>2. Hello.type = "Hello"
    BY DEF Hello
  <1> HIDE DEF s, Hello
  <1>3. ms # << >> /\ Len(ms) = 1 /\ ms[1] = Hello
    OBVIOUS
  <1>4. /\ Ordered(ms) /\ Lone(ms) /\ Of(ms, Request) = {} /\ Of(ms, Response) = {}
        /\ Of(ms, {"Need"}) = {} /\ Of(ms, {"Need", "Checked"}) = {} /\ Of(ms, {"Ack"}) = {}
        /\ Of(ms, {"Checked"}) = {} /\ Of(ms, {"Inventory"}) = {}
    <2>1. /\ Hello.type \notin Request /\ Hello.type \notin Response /\ Hello.type \notin {"Need"}
          /\ Hello.type \notin {"Need", "Checked"} /\ Hello.type \notin {"Ack"}
          /\ Hello.type \notin {"Checked"} /\ Hello.type \notin {"Inventory"}
      BY <1>2 DEF Request, Response
    <2> QED BY ONLY <2>1, OfOne
  <1>5. Acked(ms) = {}
    BY <1>4 DEF Acked
  <1>6. Greeted(s, ms)
    BY <1>1, <1>2, <1>3, SMT DEF Greeted
  <1> HIDE DEF ms
  <1>7. PullOK(s, s, ms, ms)
    BY <1>1, <1>4, <1>5, FreshSource DEF PullOK, Requests, Responses
  <1>8. ASSUME NEW p \in Peer
        PROVE  PeerInv(p)' /\ PullInv(p)'
    <2>1. other(p) \in Peer
      BY OtherPeer
    <2>2. /\ session'[p] = s /\ session'[other(p)] = s /\ net'[p] = ms /\ net'[other(p)] = ms
          /\ disk'[p] = disk[p]
      BY <2>1 DEF Connect, s, ms
    <2>3. PeerOK(s, disk[p], ms)
      <3>1. disk[p].recs \subseteq Key
        BY DEF ProtocolInv, PeerInv, PeerOK
      <3> QED BY <1>1, <1>6, <3>1, FreshSource DEF PeerOK
    <2> QED BY <1>7, <2>2, <2>3 DEF PeerInv, PullInv
  <1> QED BY <1>8 DEF ProtocolInv

\* The end of a connection.
LEMMA DisconnectProtocol ==
    ASSUME Inv, ProtocolInv, Disconnect
    PROVE  ProtocolInv'
  BY ClosedProtocol DEF Disconnect, ProtocolInv, PeerInv, PeerOK

\* A power loss.
LEMMA PowerLossProtocol ==
    ASSUME NEW p \in Peer, Inv, ProtocolInv, PowerLoss(p)
    PROVE  ProtocolInv'
  <1>1. PICK recs, blobs : disk' = [disk EXCEPT ![p].recs = @ \ recs, ![p].blobs = @ \ blobs]
    BY DEF PowerLoss
  <1>2. ASSUME NEW q \in Peer
        PROVE  disk'[q].recs \subseteq Key
    <2>1. disk[q].recs \subseteq Key
      BY DEF ProtocolInv, PeerInv, PeerOK
    <2>2. CASE q = p
      <3>1. disk'[p].recs = disk[p].recs \ recs
        BY <1>1 DEF Inv, ShapeInv, OnPeers, IsDisk
      <3> QED BY <2>1, <2>2, <3>1
    <2>3. CASE q # p
      <3>1. disk'[q] = disk[q]
        BY <1>1, <2>3 DEF Inv, ShapeInv, OnPeers
      <3> QED BY <2>1, <3>1
    <2> QED BY <2>2, <2>3
  <1> QED BY <1>2, ClosedProtocol DEF PowerLoss

\* A user's own work.
LEMMA WriteProtocol ==
    ASSUME NEW p \in Peer, Inv, ProtocolInv,
           (\E k \in Key : WriteRecord(p, k)) \/ (\E h \in Hash : WriteBlob(p, h))
    PROVE  ProtocolInv'
  <1> DEFINE d == disk[p]
  <1>1. PICK e : /\ e.recs \subseteq Key /\ d.safe \subseteq e.safe /\ disk' = [disk EXCEPT ![p] = e]
                 /\ UNCHANGED <<session, net>>
    <2>1. IsDisk(d) /\ OnPeers(disk) /\ d.recs \subseteq Key
      BY DEF Inv, ShapeInv, ProtocolInv, PeerInv, PeerOK
    <2>2. CASE \E k \in Key : WriteRecord(p, k)
      <3>1. PICK k \in Key : WriteRecord(p, k)
        BY <2>2
      <3> DEFINE e == ingest_records(d, {k})
      <3>2. disk' = [disk EXCEPT ![p] = e] /\ UNCHANGED <<session, net>>
        BY <2>1, <3>1 DEF WriteRecord
      <3>3. e.recs \subseteq Key /\ d.safe \subseteq e.safe
        <4> HIDE DEF d
        <4> QED BY <2>1 DEF IsDisk, ingest_records
      <3> HIDE DEF e
      <3> QED BY <3>2, <3>3
    <2>3. CASE \E h \in Hash : WriteBlob(p, h)
      <3>1. PICK h \in Hash : WriteBlob(p, h)
        BY <2>3
      <3> DEFINE e == ingest_blob(d, h)
      <3>2. disk' = [disk EXCEPT ![p] = e] /\ UNCHANGED <<session, net>>
        BY <2>1, <3>1 DEF WriteBlob
      <3>3. e.recs \subseteq Key /\ d.safe \subseteq e.safe
        <4> HIDE DEF d
        <4> QED BY <2>1 DEF IsDisk, ingest_blob
      <3> HIDE DEF e
      <3> QED BY <3>2, <3>3
    <2> QED BY <2>2, <2>3
  <1>2. disk'[p] = e /\ \A q \in Peer : q # p => disk'[q] = disk[q]
    BY <1>1 DEF Inv, ShapeInv, OnPeers
  <1>3. ASSUME NEW q \in Peer
        PROVE  PeerInv(q)' /\ PullInv(q)'
    <2>1. PeerOK(session[q], disk[q], net[q])
      BY DEF ProtocolInv, PeerInv
    <2>2. PeerOK(session[q], disk'[q], net[q])
      BY <1>1, <1>2, <2>1 DEF PeerOK
    <2>3. PullOK(session[q], session[other(q)], net[q], net[other(q)])
      BY DEF ProtocolInv, PullInv
    <2> QED BY <1>1, <2>2, <2>3 DEF PeerInv, PullInv
  <1> QED BY <1>3 DEF ProtocolInv

\* The message a peer takes next is handled.
LEMMA MessageHandled ==
    ASSUME Counting,
           NEW p \in Peer, Inv, ProtocolInv, Open(p), net[p] # << >>
    PROVE  Handled(session[p], session[other(p)], process(session[p], disk[p], Head(net[p])),
                   net[p], net[other(p)])
  <1> DEFINE q == other(p)
             s == session[p]
             t == session[q]
             d == disk[p]
             ns == net[p]
             nt == net[q]
  <1>1. q \in Peer /\ other(q) = p
    BY OtherPeer
  <1>2. IsSession(s) /\ IsDisk(d) /\ IsSeq(ns) /\ IsSeq(nt) /\ Honest(ns, disk[q])
    BY <1>1 DEF Inv, ShapeInv, AckInv
  <1>3. PeerOK(s, d, ns) /\ PeerOK(t, disk[q], nt)
    BY <1>1 DEF ProtocolInv, PeerInv
  <1>4. PullOK(s, t, ns, nt)
    BY DEF ProtocolInv, PullInv
  <1>5. PullOK(t, s, nt, ns)
    BY <1>1 DEF ProtocolInv, PullInv
  <1>6. s.failed = "no" /\ ns # << >>
    BY DEF Open
  <1> HIDE DEF q, s, t, d, ns, nt
  <1>7. Head(ns).type \in MessageType
    BY <1>2, <1>6, TakenMessage
  <1>8. /\ Greeted(s, ns) /\ d.recs \subseteq Key /\ s.local \subseteq d.safe
        /\ SourceOK(s.source) /\ SourceOK(t.source)
    BY <1>3, <1>6 DEF PeerOK
  <1>9. Responses(s, t.source, nt, ns) /\ Responses(t, s.source, ns, nt) /\ Requests(t, s.source, ns)
    BY <1>4, <1>5, <1>6 DEF PullOK
  <1>10. Handled(s, t, process(s, d, Head(ns)), ns, nt)
    BY <1>2, <1>6, <1>7, <1>8, <1>9, ProcessStep, ZenonT(30)
  <1> QED BY <1>10 DEF q, s, t, d, ns, nt

\* A message is handled.
LEMMA ReceiveProtocol ==
    ASSUME Counting,
           NEW p \in Peer, Inv, ProtocolInv, Receive(p)
    PROVE  ProtocolInv'
  <1> DEFINE q == other(p)
             s == session[p]
             t == session[q]
             ns == net[p]
             nt == net[q]
             x == process(session[p], disk[p], Head(net[p]))
             n1 == [net EXCEPT ![p] = Tail(net[p])]
  <1>1. q \in Peer /\ q # p /\ other(q) = p
    BY OtherPeer
  <1>2. Handled(s, t, x, ns, nt) /\ s.failed = "no" /\ ns # << >>
    BY MessageHandled DEF Receive, Open
  <1>3. disk' = [disk EXCEPT ![p] = x.d] /\ session' = [session EXCEPT ![p] = x.s]
    BY DEF Receive
  <1>4. net' = [n1 EXCEPT ![q] = nt \o x.replies]
    BY <1>1 DEF Receive
  <1>5. IsSeq(ns) /\ IsSeq(nt)
    BY <1>1 DEF Inv, ShapeInv
  <1>6. PeerOK(s, disk[p], ns) /\ PeerOK(t, disk[q], nt)
    BY <1>1 DEF ProtocolInv, PeerInv
  <1>7. PullOK(s, t, ns, nt) /\ other(p) = q
    BY DEF ProtocolInv, PullInv
  <1> HIDE DEF x, q
  <1>8. session'[p] = x.s /\ session'[q] = t /\ disk'[p] = x.d /\ disk'[q] = disk[q]
    BY <1>1, <1>3 DEF OnPeers, Inv, ShapeInv
  <1>9. net'[p] = Tail(ns) /\ net'[q] = nt \o x.replies
    <2>1. OnPeers(n1) /\ n1[p] = Tail(ns)
      BY DEF OnPeers, Inv, ShapeInv
    <2> HIDE DEF n1
    <2> QED BY <1>1, <1>4, <2>1 DEF OnPeers
  <1> HIDE DEF s, t, ns, nt
  <1>10. PeerOK(x.s, x.d, Tail(ns))
    <2>1. Greeted(x.s, Tail(ns))
      BY <1>2, <1>5, <1>6, GreetedTail DEF Handled, PeerOK
    <2> QED BY <1>2, <2>1 DEF Handled, PeerOK
  <1>11. PeerOK(t, disk[q], nt \o x.replies)
    <2>1. t.failed = "no" => Greeted(t, nt \o x.replies)
      BY <1>2, <1>5, <1>6, GreetedConcat DEF Handled, PeerOK
    <2> QED BY <1>6, <2>1 DEF PeerOK
  <1>12. PullOK(x.s, t, Tail(ns), nt \o x.replies)
    BY <1>2, <1>7 DEF Handled, PullOK
  <1>13. PullOK(t, x.s, nt \o x.replies, Tail(ns))
    BY <1>2 DEF Handled, PullOK
  <1>14. PeerInv(p)' /\ PeerInv(q)'
    BY <1>8, <1>9, <1>10, <1>11 DEF PeerInv
  <1>15. PullInv(p)' /\ PullInv(q)'
    BY <1>1, <1>7, <1>8, <1>9, <1>12, <1>13 DEF PullInv
  <1> QED BY <1>7, <1>14, <1>15, BothPeers

\* A message is lost to a storage error.
LEMMA ReceiveFailsProtocol ==
    ASSUME Counting,
           NEW p \in Peer, Inv, ProtocolInv, ReceiveFails(p)
    PROVE  ProtocolInv'
  <1> DEFINE q == other(p)
             s == session[p]
             t == session[q]
             d == disk[p]
             ns == net[p]
             nt == net[q]
             x == process(session[p], disk[p], Head(net[p]))
             s1 == [session[p] EXCEPT !.failed = "storage"]
  <1>1. q \in Peer /\ q # p /\ other(q) = p
    BY OtherPeer
  <1>2. Handled(s, t, x, ns, nt) /\ ns # << >>
    BY MessageHandled DEF ReceiveFails
  <1>3. PICK recs \in SUBSET (x.d.recs \ d.recs), blobs \in SUBSET (x.d.blobs \ d.blobs) :
          disk' = [disk EXCEPT ![p].recs = @ \cup recs, ![p].blobs = @ \cup blobs]
    BY DEF ReceiveFails
  <1>4. session' = [session EXCEPT ![p] = s1] /\ net' = [net EXCEPT ![p] = Tail(net[p])]
    BY DEF ReceiveFails
  <1>5. IsSession(s) /\ IsDisk(d) /\ IsSeq(ns) /\ IsSeq(nt)
    BY <1>1 DEF Inv, ShapeInv
  <1>6. PeerOK(s, d, ns) /\ PeerOK(t, disk[q], nt)
    BY <1>1 DEF ProtocolInv, PeerInv
  <1>7. PullOK(s, t, ns, nt) /\ other(p) = q
    BY DEF ProtocolInv, PullInv
  <1>8. PullOK(t, s, nt, ns)
    BY <1>1 DEF ProtocolInv, PullInv
  <1>9. /\ disk'[p].recs = d.recs \cup recs /\ disk'[p].safe = d.safe /\ disk'[q] = disk[q]
    BY <1>1, <1>3, <1>5 DEF OnPeers, Inv, ShapeInv, IsDisk
  <1> HIDE DEF x, q
  <1>10. /\ s1.failed = "storage" /\ s1.local = s.local /\ s1.source = s.source /\ SamePull(s, s1)
    BY <1>5 DEF IsSession, SessionShape, SamePull
  <1> HIDE DEF s1
  <1>11. /\ session'[p] = s1 /\ session'[q] = t /\ net'[p] = Tail(ns) /\ net'[q] = nt
    BY <1>1, <1>4 DEF OnPeers, Inv, ShapeInv
  <1> HIDE DEF s, t, d, ns, nt
  <1>12. PeerOK(s1, disk'[p], Tail(ns))
    <2>1. x.d.recs \subseteq Key
      BY <1>2 DEF Handled
    <2>2. disk'[p].recs \subseteq Key
      BY <1>3, <1>6, <1>9, <2>1 DEF PeerOK
    <2> QED BY <1>6, <1>9, <1>10, <2>2 DEF PeerOK
  <1>13. PullOK(s1, t, Tail(ns), nt)
    <2>1. Responses(s1, t.source, nt, Tail(ns))
      BY <1>2, <1>5, <1>7, <1>10, LossFrame DEF PullOK
    <2>2. Requests(s, t.source, nt) => Requests(s1, t.source, nt)
      BY <1>10, RequestsSame DEF Requests
    <2> QED BY <1>7, <2>1, <2>2 DEF PullOK
  <1>14. PullOK(t, s1, nt, Tail(ns))
    <2>1. SamePull(t, t)
      BY DEF SamePull
    <2>2. Responses(t, s.source, Tail(ns), nt)
      BY <1>2, <1>5, <1>8, <2>1, LossFrame DEF PullOK
    <2> QED BY <1>10, <2>2 DEF PullOK
  <1>15. PeerInv(p)' /\ PeerInv(q)'
    BY <1>6, <1>9, <1>11, <1>12 DEF PeerInv
  <1>16. PullInv(p)' /\ PullInv(q)'
    BY <1>1, <1>7, <1>11, <1>13, <1>14 DEF PullInv
  <1> QED BY <1>7, <1>15, <1>16, BothPeers

\* The timer starts a round.
LEMMA TickProtocol ==
    ASSUME NEW p \in Peer, Inv, ProtocolInv, Tick(p)
    PROVE  ProtocolInv'
  <1> DEFINE q == other(p)
             s == session[p]
             t == session[q]
             d == disk[p]
             ns == net[p]
             nt == net[q]
             x == start_round(session[p], disk[p])
             y == start_round(s, d)
  <1>1. q \in Peer /\ q # p /\ other(q) = p
    BY OtherPeer
  <1>2. s.failed = "no" /\ s.accepted /\ ~s.synchronizing
    BY DEF Tick, Open
  <1>3. /\ disk' = [disk EXCEPT ![p] = x.d] /\ session' = [session EXCEPT ![p] = x.s]
        /\ net' = [net EXCEPT ![q] = net[q] \o x.replies]
    BY DEF Tick
  <1>4. IsSession(s) /\ IsDisk(d) /\ IsSeq(ns) /\ IsSeq(nt)
    BY <1>1 DEF Inv, ShapeInv
  <1>5. PeerOK(s, d, ns) /\ PeerOK(t, disk[q], nt)
    BY <1>1 DEF ProtocolInv, PeerInv
  <1>6. PullOK(s, t, ns, nt) /\ other(p) = q
    BY DEF ProtocolInv, PullInv
  <1>7. PullOK(t, s, nt, ns)
    BY <1>1 DEF ProtocolInv, PullInv
  <1>8. y = x
    OBVIOUS
  <1> HIDE DEF x, q
  <1>9. session'[p] = x.s /\ session'[q] = t /\ disk'[p] = x.d /\ disk'[q] = disk[q]
    BY <1>1, <1>3 DEF OnPeers, Inv, ShapeInv
  <1>10. net'[p] = ns /\ net'[q] = nt \o x.replies
    BY <1>1, <1>3 DEF OnPeers, Inv, ShapeInv
  <1> HIDE DEF s, t, d, ns, nt
  <1>11. SamePull(s, s) /\ d.recs \subseteq Key /\ Responses(s, t.source, nt, ns)
    BY <1>5, <1>6 DEF SamePull, PeerOK, PullOK
  <1>12. /\ y.s.failed = s.failed /\ y.s.accepted /\ y.s.source = s.source
         /\ y.s.synchronizing /\ y.s.local \subseteq y.d.safe /\ y.d.recs \subseteq Key
         /\ IsSeq(y.replies) /\ Of(y.replies, Response \cup {"Hello"}) = {}
         /\ Requests(s, t.source, nt) => Requests(y.s, t.source, nt \o y.replies)
         /\ \A ms, ps : Lone(ps) /\ Of(ps, Response) \subseteq Of(ns, Response) =>
                          Responses(y.s, t.source, ms, ps)
    BY <1>2, <1>4, <1>11, StartStep
  <1> HIDE DEF y
  <1>13. Of(y.replies, Response) = {} /\ Of(y.replies, {"Hello"}) = {}
    <2>1. /\ Of(y.replies, Response) \subseteq Of(y.replies, Response \cup {"Hello"})
          /\ Of(y.replies, {"Hello"}) \subseteq Of(y.replies, Response \cup {"Hello"})
      BY ONLY OfFewer
    <2> QED BY <1>12, <2>1
  <1>14. PullOK(y.s, t, ns, nt \o y.replies)
    <2>1. Lone(ns)
      BY <1>11 DEF Responses
    <2> QED BY <1>6, <1>12, <2>1 DEF PullOK
  <1>15. PullOK(t, y.s, nt \o y.replies, ns)
    <2>1. SamePull(t, t) /\ Responses(t, s.source, ns, nt)
      BY <1>7 DEF SamePull, PullOK
    <2>2. Lone(nt \o y.replies)
      BY <1>4, <1>12, <1>13, <2>1, OrderConcat DEF Responses
    <2>3. Of(nt \o y.replies, Response) \subseteq Of(nt, Response)
      <3>1. Of(nt \o y.replies, Response) = Of(nt, Response) \cup Of(y.replies, Response)
        BY <1>4, <1>12, OfConcat, SMT
      <3> QED BY <1>13, <3>1
    <2>4. Responses(t, s.source, ns, nt \o y.replies)
      BY <2>1, <2>2, <2>3, ResponsesSame
    <2> QED BY <1>2, <1>7, <1>12, <2>4 DEF PullOK
  <1>16. PeerOK(y.s, y.d, ns)
    <2>1. Greeted(y.s, ns)
      BY <1>2, <1>5, <1>12 DEF PeerOK, Greeted
    <2> QED BY <1>2, <1>5, <1>12, <2>1 DEF PeerOK
  <1>17. PeerOK(t, disk[q], nt \o y.replies)
    <2>1. t.failed = "no" => Greeted(t, nt \o y.replies)
      BY <1>4, <1>5, <1>12, <1>13, GreetedConcat DEF PeerOK
    <2> QED BY <1>5, <2>1 DEF PeerOK
  <1>18. PeerInv(p)' /\ PeerInv(q)'
    BY <1>8, <1>9, <1>10, <1>16, <1>17 DEF PeerInv
  <1>19. PullInv(p)' /\ PullInv(q)'
    BY <1>1, <1>6, <1>8, <1>9, <1>10, <1>14, <1>15 DEF PullInv
  <1> QED BY <1>6, <1>18, <1>19, BothPeers

\* Every step keeps the protocol.
LEMMA NextProtocol == Counting /\ Inv /\ ProtocolInv /\ [SyncNext]_syncVars => ProtocolInv'
  <1> SUFFICES ASSUME Counting, Inv, ProtocolInv, [SyncNext]_syncVars
               PROVE  ProtocolInv'
    OBVIOUS
  <1>1. CASE Connect
    BY <1>1, ConnectProtocol
  <1>2. CASE Disconnect
    BY <1>2, DisconnectProtocol
  <1>3. ASSUME NEW p \in Peer, Receive(p)
        PROVE  ProtocolInv'
    BY <1>3, ReceiveProtocol
  <1>4. ASSUME NEW p \in Peer, ReceiveFails(p)
        PROVE  ProtocolInv'
    BY <1>4, ReceiveFailsProtocol
  <1>5. ASSUME NEW p \in Peer, Tick(p)
        PROVE  ProtocolInv'
    BY <1>5, TickProtocol
  <1>6. ASSUME NEW p \in Peer, PowerLoss(p)
        PROVE  ProtocolInv'
    BY <1>6, PowerLossProtocol
  <1>7. ASSUME NEW p \in Peer,
               (\E k \in Key : WriteRecord(p, k)) \/ (\E h \in Hash : WriteBlob(p, h))
        PROVE  ProtocolInv'
    BY <1>7, WriteProtocol
  <1>8. CASE UNCHANGED syncVars
    BY <1>8 DEF ProtocolInv, PeerInv, PullInv, syncVars
  <1> QED BY <1>1, <1>2, <1>3, <1>4, <1>5, <1>6, <1>7, <1>8, ZenonT(30) DEF SyncNext

\* The first state.
LEMMA InitProtocol == SyncInit => ProtocolInv
  <1> SUFFICES ASSUME SyncInit
               PROVE  ProtocolInv
    OBVIOUS
  <1>1. /\ NoSession.failed = "closed" /\ ~NoSession.synchronizing /\ NoSession.local = {}
        /\ NoSession.source = NoSource
    BY DEF NoSession, NewSession
  <1>2. Of(<< >>, Response) = {} /\ Lone(<< >>)
    BY SMT DEF Of, Lone
  <1>3. PeerOK(NoSession, EmptyDisk, << >>)
    BY <1>1, FreshSource DEF PeerOK, EmptyDisk
  <1>4. PullOK(NoSession, NoSession, << >>, << >>)
    BY <1>1, <1>2 DEF PullOK, Responses
  <1> QED BY <1>3, <1>4, OtherPeer DEF ProtocolInv, PeerInv, PullInv, SyncInit

\* A round ends only by the response behind which nothing is lacking.
LEMMA RoundStep == Counting /\ Inv /\ ProtocolInv /\ [SyncNext]_syncVars => [CompleteStep]_syncVars
  <1> SUFFICES ASSUME Counting, Inv, ProtocolInv, SyncNext, NEW p \in Peer, RoundEnds(p)
               PROVE  session[other(p)].source.snapshot \subseteq disk'[p].safe
    BY DEF CompleteStep
  <1>1. session[p].synchronizing /\ ~session'[p].synchronizing /\ session'[p].failed = "no"
    BY DEF RoundEnds
  <1>2. session[p].failed # "closed"
    BY <1>1 DEF ProtocolInv, PeerInv, PeerOK
  <1>3. ~Connect
    BY <1>2 DEF Connect
  <1>4. NoSession.failed = "closed"
    BY DEF NoSession, NewSession
  <1>5. ~Disconnect
    BY <1>1, <1>4 DEF Disconnect
  <1>6. PICK q \in Peer :
          \/ Receive(q) \/ ReceiveFails(q) \/ Tick(q) \/ PowerLoss(q)
          \/ (\E k \in Key : WriteRecord(q, k)) \/ (\E h \in Hash : WriteBlob(q, h))
    BY <1>3, <1>5 DEF SyncNext
  <1>7. ~PowerLoss(q)
    BY <1>1, <1>4 DEF PowerLoss
  <1>8. session' # session
    BY <1>1
  <1>9. ~(\E k \in Key : WriteRecord(q, k)) /\ ~(\E h \in Hash : WriteBlob(q, h))
    BY <1>8 DEF WriteRecord, WriteBlob
  <1>10. q = p
    <2>1. \E v : session' = [session EXCEPT ![q] = v]
      BY <1>6, <1>7, <1>9 DEF Receive, ReceiveFails, Tick
    <2> QED BY <1>1, <2>1 DEF Inv, ShapeInv, OnPeers
  <1>11. ~Tick(p)
    BY <1>1 DEF Tick
  <1>12. ~ReceiveFails(p)
    <2>1. ReceiveFails(p) => session'[p].failed = "storage"
      BY ZenonT(30) DEF ReceiveFails, Inv, ShapeInv, OnPeers, IsSession, SessionShape
    <2> QED BY <1>1, <2>1
  <1>13. Receive(p)
    BY <1>6, <1>7, <1>9, <1>10, <1>11, <1>12, ZenonT(30)
  <1> DEFINE x == process(session[p], disk[p], Head(net[p]))
  <1>14. Handled(session[p], session[other(p)], x, net[p], net[other(p)])
    BY <1>13, MessageHandled DEF Receive
  <1>15. session' = [session EXCEPT ![p] = x.s] /\ disk' = [disk EXCEPT ![p] = x.d]
    BY <1>13 DEF Receive
  <1> HIDE DEF x
  <1>16. session'[p] = x.s /\ disk'[p] = x.d
    BY <1>15 DEF Inv, ShapeInv, OnPeers
  <1> QED BY <1>1, <1>14, <1>16 DEF Handled

=============================================================================
