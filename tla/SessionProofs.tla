--------------------------- MODULE SessionProofs ---------------------------
(***************************************************************************)
(* Proof that what a peer was told to be safe is durable at the other one, *)
(* for any stores, sizes, limits and number of connections and failures.   *)
(***************************************************************************)
EXTENDS Session, TLAPS

\* Zenon proves most leaves; those that need arithmetic, records or
\* sequences cite SMT.
USE Zenon

MessageType == {"Hello", "Inventory", "Page", "Need", "Chunk", "Missing", "Ack", "Checked"}

\* A sequence, of whatever it holds.
IsSeq(s) == s \in Seq({s[i] : i \in DOMAIN s})

IsDisk(d) ==
    /\ d \in [recs : {d.recs}, safe : {d.safe}, blobs : {d.blobs}, safeBlobs : {d.safeBlobs}]
    /\ d.safe \subseteq d.recs

PullShape(pl) ==
    pl \in [waiting_page : {pl.waiting_page}, position : {pl.position}, after : {pl.after},
            more : {pl.more}, keys : {pl.keys}, records : {pl.records}, blobs : {pl.blobs},
            tried : {pl.tried}, staged : {pl.staged}, download : {pl.download},
            total : {pl.total}]

IsPull(pl) == PullShape(pl) /\ IsSeq(pl.staged)

SessionShape(s) ==
    s \in [accepted : {s.accepted}, synchronizing : {s.synchronizing}, failed : {s.failed},
           local : {s.local}, pull : {s.pull}, source : {s.source}]

IsSession(s) == SessionShape(s) /\ IsPull(s.pull)

\* An object that a power loss cannot take from the disk d.
Durable(d, o) ==
    IF o.blob = None THEN o.record \in d.safe ELSE o.blob[1] \in d.safeBlobs

\* What is durable on d stays durable on e.
Keeps(d, e) == d.safe \subseteq e.safe /\ d.safeBlobs \subseteq e.safeBlobs

\* Messages that acknowledge only what is durable on d.
Honest(ms, d) ==
    \A i \in 1 .. Len(ms) :
      /\ ms[i].type \in MessageType
      /\ ms[i].type = "Ack" => Durable(d, ms[i].object)

\* What a handler may leave behind that started with the disk d.
Sound(d, x) ==
    /\ x \in [s : {x.s}, d : {x.d}, replies : {x.replies}]
    /\ IsSession(x.s)
    /\ IsDisk(x.d) /\ Keeps(d, x.d)
    /\ IsSeq(x.replies) /\ Honest(x.replies, x.d)

\* A function on the peers.
OnPeers(f) == f = [p \in Peer |-> f[p]]

\* The inductive invariant: acknowledgments under way and those received
\* name only objects that are durable at their sender.
ShapeInv ==
    /\ OnPeers(disk) /\ OnPeers(session) /\ OnPeers(net) /\ OnPeers(acknowledged)
    /\ \A p \in Peer : IsDisk(disk[p]) /\ IsSession(session[p]) /\ IsSeq(net[p])

AckInv ==
    \A p \in Peer :
      /\ Honest(net[p], disk[other(p)])
      /\ \A o \in acknowledged[p] : Durable(disk[other(p)], o)

Inv == ShapeInv /\ AckInv
-----------------------------------------------------------------------------
(* Sequences of messages.                                                  *)

\* A sequence over some set is a sequence of its own elements.
LEMMA SeqIsSeq ==
    ASSUME NEW S, NEW s \in Seq(S)
    PROVE  IsSeq(s) /\ DOMAIN s = 1 .. Len(s) /\ Len(s) \in Nat
  BY SMT DEF IsSeq

\* The parts of a sequence.
LEMMA SeqParts ==
    ASSUME NEW s, IsSeq(s)
    PROVE  /\ DOMAIN s = 1 .. Len(s) /\ Len(s) \in Nat
           /\ s # << >> => /\ IsSeq(Tail(s)) /\ Head(s) = s[1] /\ Len(s) \in Nat \ {0}
                           /\ Len(Tail(s)) = Len(s) - 1
                           /\ \A i \in 1 .. Len(s) - 1 : Tail(s)[i] = s[i + 1]
  <1> DEFINE S == {s[i] : i \in DOMAIN s}
  <1>1. s \in Seq(S)
    BY DEF IsSeq
  <1> HIDE DEF S
  <1>2. s # << >> => Tail(s) \in Seq(S)
    BY <1>1, SMT
  <1>3. s # << >> => IsSeq(Tail(s))
    BY <1>2, SeqIsSeq
  <1> QED BY <1>1, <1>3, SMT

\* Two sequences make one.
LEMMA SeqConcat ==
    ASSUME NEW s, NEW t, IsSeq(s), IsSeq(t)
    PROVE  /\ IsSeq(s \o t)
           /\ Len(s \o t) = Len(s) + Len(t)
           /\ \A i \in 1 .. Len(s) + Len(t) :
                (s \o t)[i] = IF i <= Len(s) THEN s[i] ELSE t[i - Len(s)]
  <1> DEFINE S == {s[i] : i \in DOMAIN s} \cup {t[i] : i \in DOMAIN t}
  <1>1. s \in Seq(S)
    <2>1. s \in Seq({s[i] : i \in DOMAIN s})
      BY DEF IsSeq
    <2> QED BY <2>1, SMT
  <1>2. t \in Seq(S)
    <2>1. t \in Seq({t[i] : i \in DOMAIN t})
      BY DEF IsSeq
    <2> QED BY <2>1, SMT
  <1> HIDE DEF S
  <1>3. s \o t \in Seq(S)
    BY <1>1, <1>2, SMT
  <1>4. IsSeq(s \o t)
    BY <1>3, SeqIsSeq
  <1> QED BY <1>1, <1>2, <1>4, SMT

\* Places of a sequence.
LEMMA LaterPlace ==
    ASSUME NEW n \in Nat, NEW i \in 1 .. n, NEW j \in 1 .. n
    PROVE  /\ i # 1 => i - 1 \in 1 .. (n - 1)
           /\ i < j => i # j /\ j # 1 /\ i - 1 < j - 1
           /\ i <= j /\ i # j => i < j
           /\ i < j \/ j < i \/ i = j
  BY SMT

\* The place after the last one.
LEMMA LastPlace ==
    ASSUME NEW n \in Nat, NEW i \in 1 .. n + 1, NEW j \in 1 .. n + 1, i < j
    PROVE  i \in 1 .. n /\ (j \in 1 .. n \/ j = n + 1)
  BY SMT

\* Numbers up to a bound.
LEMMA WithinBound ==
    ASSUME NEW a \in Nat, NEW b \in Nat, NEW n \in Nat, a <= b
    PROVE  ~(a > b) /\ (b <= n - 1 => a \in 0 .. (n - 1))
  BY SMT

\* A sequence as a function, and what it holds.
LEMMA SequenceIs ==
    ASSUME NEW S, NEW s \in Seq(S)
    PROVE  /\ DOMAIN s = 1 .. Len(s) /\ Len(s) \in Nat
           /\ Range(s) = {s[i] : i \in 1 .. Len(s)} /\ Range(s) \subseteq S
  <1>1. DOMAIN s = 1 .. Len(s) /\ Len(s) \in Nat /\ \A i \in 1 .. Len(s) : s[i] \in S
    BY SMT
  <1> QED BY <1>1 DEF Range

\* A function on 1 .. n is a sequence.
LEMMA FunctionIs ==
    ASSUME NEW S, NEW n \in Nat, NEW s \in [1 .. n -> S]
    PROVE  s \in Seq(S) /\ Len(s) = n
  BY SMT

\* The first of different keys and the others.
LEMMA InjectiveTail ==
    ASSUME NEW S, NEW s \in Seq(S), IsInjective(s), s # << >>
    PROVE  /\ Tail(s) \in Seq(S) /\ IsInjective(Tail(s)) /\ Head(s) \in S
           /\ Range(s) = Range(Tail(s)) \cup {Head(s)} /\ Head(s) \notin Range(Tail(s))
  <1> DEFINE tl == Tail(s)
             hd == Head(s)
  <1>1. /\ tl \in Seq(S) /\ hd \in S /\ hd = s[1] /\ Len(s) \in Nat \ {0} /\ Len(tl) = Len(s) - 1
        /\ \A i \in 1 .. Len(tl) : tl[i] = s[i + 1]
    BY SMT
  <1> HIDE DEF tl, hd
  <1>2. DOMAIN s = 1 .. Len(s) /\ DOMAIN tl = 1 .. Len(tl)
    BY <1>1, SMT
  <1>3. \A i \in 1 .. Len(tl) : i + 1 \in 1 .. Len(s) /\ i + 1 # 1
    BY <1>1, SMT
  <1>4. \A i \in 1 .. Len(s) : i # 1 => i - 1 \in 1 .. Len(tl) /\ tl[i - 1] = s[i]
    BY <1>1, SMT
  <1>5. ASSUME NEW i \in 1 .. Len(tl), NEW j \in 1 .. Len(tl), tl[i] = tl[j]
        PROVE  i = j
    <2>1. s[i + 1] = s[j + 1] /\ i + 1 \in 1 .. Len(s) /\ j + 1 \in 1 .. Len(s)
      BY <1>1, <1>3, <1>5
    <2>2. i + 1 = j + 1
      BY <1>2, <2>1 DEF IsInjective
    <2> QED BY <1>1, <2>2, SMT
  <1>6. IsInjective(tl)
    BY <1>2, <1>5 DEF IsInjective
  <1>7. hd \notin Range(tl)
    <2>1. ASSUME NEW i \in 1 .. Len(tl)
          PROVE  tl[i] # hd
      <3>1. i + 1 \in DOMAIN s /\ 1 \in DOMAIN s /\ i + 1 # 1 /\ tl[i] = s[i + 1]
        BY <1>1, <1>2, <1>3, SMT
      <3> QED BY <1>1, <3>1 DEF IsInjective
    <2> QED BY <1>2, <2>1 DEF Range
  <1>8. Range(s) = Range(tl) \cup {hd}
    <2>1. Range(s) = {s[i] : i \in 1 .. Len(s)} /\ Range(tl) = {tl[i] : i \in 1 .. Len(tl)}
      BY <1>2 DEF Range
    <2>2. 1 \in 1 .. Len(s)
      BY <1>1, SMT
    <2> QED BY <1>1, <1>3, <1>4, <2>1, <2>2, SMT
  <1> QED BY <1>1, <1>6, <1>7, <1>8 DEF tl, hd

\* A part of a sequence of different keys.
LEMMA InjectivePart ==
    ASSUME NEW S, NEW s \in Seq(S), IsInjective(s), NEW n \in 0 .. Len(s), NEW o \in 0 .. n
    PROVE  LET t == SubSeq(s, o + 1, n)
           IN  /\ t \in Seq(S) /\ IsInjective(t) /\ Len(t) = n - o
               /\ \A i \in 1 .. n : i <= o \/ s[i] \in Range(t)
  <1> DEFINE t == SubSeq(s, o + 1, n)
  <1>1. Len(s) \in Nat /\ n \in Nat /\ o \in Nat /\ o <= n /\ n <= Len(s)
    BY SMT
  <1>2. Len(t) = n - o
    BY <1>1, SMT
  <1>3. \A i \in 1 .. (n - o) : t[i] = s[o + i]
    BY <1>1, SMT
  <1>4. t \in Seq(S)
    BY <1>1, <1>2, <1>3, SMT
  <1> HIDE DEF t
  <1>5. DOMAIN t = 1 .. (n - o) /\ DOMAIN s = 1 .. Len(s)
    BY <1>2, <1>4, SMT
  <1>6. \A i \in 1 .. (n - o) : o + i \in 1 .. Len(s)
    BY <1>1, SMT
  <1>7. ASSUME NEW i \in 1 .. (n - o), NEW j \in 1 .. (n - o), t[i] = t[j]
        PROVE  i = j
    <2>1. o + i = o + j
      BY <1>3, <1>5, <1>6, <1>7 DEF IsInjective
    <2> QED BY <1>1, <2>1, SMT
  <1>8. IsInjective(t)
    BY <1>5, <1>7 DEF IsInjective
  <1>9. ASSUME NEW i \in 1 .. n, ~(i <= o)
        PROVE  s[i] \in Range(t)
    <2>1. i - o \in 1 .. (n - o) /\ o + (i - o) = i
      BY <1>1, <1>9, SMT
    <2>2. t[i - o] = s[i]
      BY <1>3, <2>1
    <2> QED BY <1>5, <2>1, <2>2 DEF Range
  <1> QED BY <1>2, <1>4, <1>8, <1>9 DEF t

\* Below the least of some numbers there is none of them.
LEMMA BelowLeast ==
    ASSUME NEW B \in SUBSET Nat, NEW n \in B, \A m \in B : n <= m
    PROVE  n \in Nat /\ (n - 1 \in Nat => n - 1 \notin B)
  BY SMT

\* One more element.
LEMMA SeqAppend ==
    ASSUME NEW s, NEW e, IsSeq(s)
    PROVE  /\ IsSeq(Append(s, e))
           /\ Len(Append(s, e)) = Len(s) + 1
           /\ \A i \in 1 .. Len(s) : Append(s, e)[i] = s[i]
           /\ Append(s, e)[Len(s) + 1] = e
  <1> DEFINE S == {s[i] : i \in DOMAIN s} \cup {e}
  <1>1. s \in Seq(S)
    <2>1. s \in Seq({s[i] : i \in DOMAIN s})
      BY DEF IsSeq
    <2> QED BY <2>1, SMT
  <1>2. e \in S
    OBVIOUS
  <1> HIDE DEF S
  <1>3. Append(s, e) \in Seq(S)
    BY <1>1, <1>2, SMT
  <1>4. IsSeq(Append(s, e))
    BY <1>3, SeqIsSeq
  <1> QED BY <1>1, <1>2, <1>4, SMT

\* Messages behind messages: together they are honest if each part is.
LEMMA HonestConcat ==
    ASSUME NEW s, NEW t, NEW d, IsSeq(s), IsSeq(t), Honest(s, d), Honest(t, d)
    PROVE  IsSeq(s \o t) /\ Honest(s \o t, d)
  <1>1. Len(s) \in Nat /\ Len(t) \in Nat
    BY SeqParts
  <1>2. /\ IsSeq(s \o t) /\ Len(s \o t) = Len(s) + Len(t)
        /\ \A i \in 1 .. Len(s) + Len(t) :
             (s \o t)[i] = IF i <= Len(s) THEN s[i] ELSE t[i - Len(s)]
    BY SeqConcat
  <1>3. ASSUME NEW i \in 1 .. Len(s) + Len(t)
        PROVE  /\ (s \o t)[i].type \in MessageType
               /\ (s \o t)[i].type = "Ack" => Durable(d, (s \o t)[i].object)
    <2>1. CASE i <= Len(s)
      BY <1>1, <1>2, <2>1, SMT DEF Honest
    <2>2. CASE ~(i <= Len(s))
      <3>1. i - Len(s) \in 1 .. Len(t)
        BY <1>1, <2>2, SMT
      <3>2. (s \o t)[i] = t[i - Len(s)]
        BY <1>2, <2>2
      <3> QED BY <3>1, <3>2 DEF Honest
    <2> QED BY <2>1, <2>2
  <1> QED BY <1>2, <1>3 DEF Honest

\* One more message.
LEMMA HonestAppend ==
    ASSUME NEW s, NEW m, NEW d, IsSeq(s), Honest(s, d), m.type \in MessageType,
           m.type = "Ack" => Durable(d, m.object)
    PROVE  IsSeq(Append(s, m)) /\ Honest(Append(s, m), d)
  <1>1. Len(s) \in Nat
    BY SeqParts
  <1>2. /\ IsSeq(Append(s, m))
        /\ Len(Append(s, m)) = Len(s) + 1
        /\ \A i \in 1 .. Len(s) : Append(s, m)[i] = s[i]
        /\ Append(s, m)[Len(s) + 1] = m
    BY SeqAppend
  <1> QED BY <1>1, <1>2, SMT DEF Honest

\* What was honest stays so while the disk keeps what is durable.
LEMMA HonestKept ==
    ASSUME NEW s, NEW d, NEW e, Honest(s, d), Keeps(d, e)
    PROVE  Honest(s, e)
  BY DEF Honest, Keeps, Durable
-----------------------------------------------------------------------------
(* The pulling side.                                                       *)

\* The parts of an outcome.
LEMMA OutcomeSound ==
    ASSUME NEW d, NEW s, NEW e, NEW ms, IsSession(s), IsDisk(e), Keeps(d, e),
           IsSeq(ms), Honest(ms, e)
    PROVE  Sound(d, Outcome(s, e, ms))
  BY DEF Sound, Outcome

\* An empty answer.
LEMMA NoReplies ==
    ASSUME NEW d
    PROVE  IsSeq(<< >>) /\ Honest(<< >>, d)
  <1>1. << >> \in Seq({})
    BY SMT
  <1>2. IsSeq(<< >>)
    BY <1>1, SeqIsSeq
  <1>3. Honest(<< >>, d)
    BY SMT DEF Honest
  <1> QED BY <1>2, <1>3

\* An answer of one message that is no acknowledgment.
LEMMA OneReply ==
    ASSUME NEW m, NEW d, m.type \in MessageType \ {"Ack"}
    PROVE  IsSeq(<<m>>) /\ Honest(<<m>>, d)
  <1> DEFINE ms == <<m>>
  <1>1. ms \in Seq({m}) /\ Len(ms) = 1 /\ ms[1] = m
    BY SMT
  <1> HIDE DEF ms
  <1>2. IsSeq(ms)
    BY <1>1, SeqIsSeq
  <1>3. Honest(ms, d)
    BY <1>1, SMT DEF Honest
  <1> QED BY <1>2, <1>3 DEF ms

\* A rejected message changes nothing but the session's state.
LEMMA RejectsSound ==
    ASSUME NEW s, NEW d, IsSession(s), IsDisk(d)
    PROVE  Sound(d, Rejects(s, d))
  <1> DEFINE s1 == [s EXCEPT !.failed = "protocol"]
  <1>1. IsSession(s1)
    BY DEF IsSession, SessionShape
  <1>2. Rejects(s, d) = Outcome(s1, d, << >>)
    BY DEF Rejects
  <1>3. Keeps(d, d)
    BY DEF Keeps
  <1> HIDE DEF s1
  <1> QED BY <1>1, <1>2, <1>3, OutcomeSound, NoReplies

\* Flushing acknowledges the staged records once they are durable.
LEMMA FlushSound ==
    ASSUME NEW d, NEW x, Sound(d, x)
    PROVE  Sound(d, flush(x))
  <1> DEFINE staged == x.s.pull.staged
             keys == Range(staged)
             s1 == [x.s EXCEPT !.local = @ \cup keys, !.pull.staged = << >>]
             e == ingest_records(x.d, keys)
             acks == [i \in DOMAIN staged |-> Ack(RecordObject(staged[i]))]
  <1>1. CASE staged = << >>
    BY <1>1 DEF flush
  <1>2. CASE staged # << >>
    <2>1. IsSeq(staged) /\ DOMAIN staged = 1 .. Len(staged) /\ Len(staged) \in Nat
      BY SeqParts DEF Sound, IsSession, IsPull
    <2>2. IsSession(s1)
      <3> HIDE DEF keys
      <3> QED BY NoReplies, ZenonT(30) DEF Sound, IsSession, SessionShape, IsPull, PullShape
    <2>3. /\ IsDisk(e) /\ Keeps(d, e) /\ Keeps(x.d, e)
          /\ keys \subseteq e.safe
      <3> HIDE DEF keys
      <3> QED BY DEF Sound, IsDisk, Keeps, ingest_records
    <2>4. \A i \in 1 .. Len(staged) : staged[i] \in keys
      BY <2>1 DEF Range
    <2> HIDE DEF e, keys, staged
    <2>5. acks \in Seq({acks[i] : i \in DOMAIN acks})
      BY <2>1, SMT
    <2>6. IsSeq(acks) /\ Len(acks) = Len(staged)
      BY <2>1, <2>5, SMT DEF IsSeq
    <2>7. Honest(acks, e)
      BY <2>1, <2>3, <2>4, <2>6 DEF Honest, Ack, RecordObject, Durable, MessageType
    <2> HIDE DEF acks, s1
    <2>8. Honest(x.replies, e) /\ IsSeq(x.replies)
      BY <2>3, HonestKept DEF Sound
    <2>9. IsSeq(x.replies \o acks) /\ Honest(x.replies \o acks, e)
      BY <2>6, <2>7, <2>8, HonestConcat
    <2>10. flush(x) = Outcome(s1, e, x.replies \o acks)
      BY <1>2 DEF flush, e, acks, s1, keys, staged
    <2> QED BY <2>2, <2>3, <2>9, <2>10, OutcomeSound
  <1> QED BY <1>1, <1>2

\* Asking for an object acknowledges nothing.
LEMMA DownloadSound ==
    ASSUME NEW d, NEW x, NEW o, Sound(d, x)
    PROVE  Sound(d, download(x, o))
  <1> DEFINE v == Some([object |-> o, received |-> 0, total |-> None])
             s1 == [x.s EXCEPT !.pull.download = v]
             ms == Append(x.replies, Need(o, 0))
  <1>1. IsSession(s1)
    <2> HIDE DEF v
    <2> QED BY SMT DEF Sound, IsSession, SessionShape, IsPull, PullShape
  <1>2. Need(o, 0).type = "Need"
    BY DEF Need
  <1>3. IsSeq(ms) /\ Honest(ms, x.d)
    BY <1>2, HonestAppend DEF Sound, MessageType
  <1>4. download(x, o) = Outcome(s1, x.d, ms)
    BY DEF download
  <1> HIDE DEF s1, ms
  <1> QED BY <1>1, <1>3, <1>4, OutcomeSound, SMT DEF Sound

\* Looking for content acknowledges nothing and makes durable what is here.
LEMMA FindBlobsSound ==
    ASSUME NEW d, NEW x, Sound(d, x)
    PROVE  Sound(d, find_blobs(x))
  <1> DEFINE pull == x.s.pull
             wanted == UNION {{BlobObject(k, h) : h \in HashesOf[k]} : k \in Range(pull.keys)}
                         \ pull.tried
             here == {o.blob[1] : o \in wanted} \cap x.d.blobs
             lacked == Listing({o \in wanted : o.blob[1] \notin here})
             s1 == [x.s EXCEPT !.pull.tried = @ \cup wanted, !.pull.blobs = lacked]
             e == [x.d EXCEPT !.safeBlobs = @ \cup here]
  <1>1. find_blobs(x) = Outcome(s1, e, x.replies)
    BY DEF find_blobs
  <1> HIDE DEF wanted, here, lacked
  <1>2. IsSession(s1)
    BY ZenonT(30) DEF Sound, IsSession, SessionShape, IsPull, PullShape
  <1>3. IsDisk(e) /\ Keeps(d, e) /\ Keeps(x.d, e)
    BY DEF Sound, IsDisk, Keeps
  <1> HIDE DEF s1, e
  <1>4. Honest(x.replies, e) /\ IsSeq(x.replies)
    BY <1>3, HonestKept DEF Sound
  <1> QED BY <1>1, <1>2, <1>3, <1>4, OutcomeSound

\* The end of a page acknowledges nothing.
LEMMA FinishPageSound ==
    ASSUME NEW d, NEW x, Sound(d, x)
    PROVE  Sound(d, finish_page(x))
  <1> DEFINE pull == x.s.pull
             end == Append(x.replies, Checked(pull.position))
             s1 == [x.s EXCEPT !.pull.waiting_page = TRUE]
             s2 == [x.s EXCEPT !.synchronizing = FALSE]
  <1>1. IsSession(s1) /\ IsSession(s2)
    BY ZenonT(30) DEF Sound, IsSession, SessionShape, IsPull, PullShape
  <1>2. Checked(pull.position).type = "Checked" /\ Inventory(pull.after).type = "Inventory"
    BY DEF Checked, Inventory
  <1>3. IsSeq(end) /\ Honest(end, x.d)
    BY <1>2, HonestAppend DEF Sound, MessageType
  <1>4. finish_page(x) = IF pull.more
                         THEN Outcome(s1, x.d, Append(end, Inventory(pull.after)))
                         ELSE Outcome(s2, x.d, end)
    BY DEF finish_page
  <1> HIDE DEF end, s1, s2
  <1>5. LET ms == Append(end, Inventory(pull.after)) IN IsSeq(ms) /\ Honest(ms, x.d)
    BY <1>2, <1>3, HonestAppend DEF MessageType
  <1>6. IsDisk(x.d) /\ Keeps(d, x.d)
    BY DEF Sound
  <1> QED BY <1>1, <1>3, <1>4, <1>5, <1>6, OutcomeSound

\* The next object, or the end of the page.
LEMMA AdvanceSound ==
    ASSUME NEW d, NEW x, Sound(d, x)
    PROVE  Sound(d, advance(x))
  <1> DEFINE pull == x.s.pull
             flushed == flush(x)
             found == IF pull.blobs = << >> THEN find_blobs(flushed) ELSE flushed
             blobs == found.s.pull.blobs
             x1 == [x EXCEPT !.s.pull.records = Tail(@)]
             x2 == [found EXCEPT !.s.pull.blobs = Tail(@)]
  <1>1. Sound(d, found)
    BY FlushSound, FindBlobsSound
  <1>2. advance(x) = IF pull.records # << >> THEN download(x1, RecordObject(Head(pull.records)))
                     ELSE IF blobs # << >> THEN download(x2, Head(blobs))
                     ELSE finish_page(found)
    BY DEF advance
  <1> HIDE DEF found
  <1>3. Sound(d, x1)
    BY ZenonT(30) DEF Sound, IsSession, SessionShape, IsPull, PullShape
  <1>4. Sound(d, x2)
    BY <1>1, ZenonT(30) DEF Sound, IsSession, SessionShape, IsPull, PullShape
  <1> HIDE DEF x1, x2
  <1> QED BY <1>1, <1>2, <1>3, <1>4, DownloadSound, FinishPageSound

\* A complete object: content is acknowledged once ingested, a record is
\* staged and acknowledged by the flush that makes it durable.
LEMMA CompleteSound ==
    ASSUME NEW d, NEW x, Sound(d, x)
    PROVE  Sound(d, complete(x))
  <1> DEFINE o == x.s.pull.download[1].object
             taken == [x EXCEPT !.s.pull.download = None]
             full == StagedLength(taken.s.pull.staged) + Length(o) > MaxStaged
             room == IF full THEN flush(taken) ELSE taken
             kept == [room EXCEPT !.s.pull.staged = Append(@, o.record)]
             e == ingest_blob(taken.d, o.blob[1])
             ms == Append(taken.replies, Ack(o))
             batch == StagedLength(kept.s.pull.staged) >= BatchLength
  <1>1. complete(x) = IF o.blob # None THEN Outcome(taken.s, e, ms)
                      ELSE IF batch THEN flush(kept) ELSE kept
    BY DEF complete
  <1> HIDE DEF o, batch
  <1>2. Sound(d, taken)
    <2> USE DEF taken
    <2> QED BY SMT DEF Sound, IsSession, SessionShape, IsPull, PullShape
  <1> HIDE DEF taken, full
  <1>3. Sound(d, room)
    BY <1>2, FlushSound
  <1> HIDE DEF room
  <1>4. Sound(d, kept)
    <2> DEFINE st == Append(room.s.pull.staged, o.record)
    <2>1. IsSeq(room.s.pull.staged)
      BY <1>3 DEF Sound, IsSession, IsPull
    <2>2. IsSeq(st)
      BY <2>1, SeqAppend
    <2>3. kept = [room EXCEPT !.s.pull.staged = st]
      OBVIOUS
    <2> HIDE DEF st, kept
    <2> QED BY <1>3, <2>2, <2>3, SMT DEF Sound, IsSession, SessionShape, IsPull, PullShape
  <1> HIDE DEF kept
  <1>5. CASE o.blob # None
    <2>1. IsDisk(e) /\ Keeps(d, e) /\ Keeps(taken.d, e) /\ o.blob[1] \in e.safeBlobs
      BY <1>2 DEF Sound, IsDisk, Keeps, ingest_blob
    <2> HIDE DEF e
    <2>2. Ack(o).type = "Ack" /\ Ack(o).object = o
      BY DEF Ack
    <2>3. Durable(e, o)
      BY <1>5, <2>1 DEF Durable
    <2>4. Honest(taken.replies, e) /\ IsSeq(taken.replies)
      BY <1>2, <2>1, HonestKept DEF Sound
    <2>5. IsSeq(ms) /\ Honest(ms, e)
      BY <2>2, <2>3, <2>4, HonestAppend DEF MessageType
    <2>6. IsSession(taken.s)
      BY <1>2 DEF Sound
    <2> HIDE DEF ms
    <2> QED BY <1>1, <1>5, <2>1, <2>5, <2>6, OutcomeSound
  <1>6. CASE o.blob = None
    BY <1>1, <1>4, <1>6, FlushSound
  <1> QED BY <1>5, <1>6

\* A page starts the downloads of what is lacking.
LEMMA PageSound ==
    ASSUME NEW s, NEW d, NEW m, IsSession(s), IsDisk(d)
    PROVE  Sound(d, page(s, d, m))
  <1> DEFINE rest == Kept(m.records, Range(m.records) \ s.local)
             last == IF m.records = << >> THEN None ELSE Some(m.records[Len(m.records)])
             end == m.offset + Len(m.records)
             total == Some(m.total)
             pl == [s.pull EXCEPT !.total = total, !.position = end, !.after = last,
                      !.waiting_page = FALSE, !.more = m.more, !.records = rest,
                      !.keys = m.records, !.tried = {}]
             s1 == [s EXCEPT !.pull = pl]
             x == Outcome(s1, d, << >>)
  <1>1. page(s, d, m) \in {Rejects(s, d), advance(x)}
    BY DEF page
  <1> HIDE DEF rest, last, end, total
  <1>2. IsPull(pl)
    BY DEF IsSession, IsPull, PullShape
  <1> HIDE DEF pl
  <1>3. IsSession(s1)
    BY <1>2 DEF IsSession, SessionShape
  <1>4. Keeps(d, d)
    BY DEF Keeps
  <1> HIDE DEF s1
  <1>5. Sound(d, x)
    BY <1>3, <1>4, OutcomeSound, NoReplies
  <1> HIDE DEF x
  <1> QED BY <1>1, <1>5, AdvanceSound, RejectsSound

\* A chunk, and the next object behind the last one.
LEMMA ChunkSound ==
    ASSUME NEW s, NEW d, NEW m, IsSession(s), IsDisk(d)
    PROVE  Sound(d, chunk(s, d, m))
  <1> DEFINE got == s.pull.download[1]
             end == m.offset + m.length
             v == Some([object |-> got.object, received |-> end, total |-> Some(m.total)])
             kept == [s EXCEPT !.pull.download = v]
             x == Outcome(kept, d, << >>)
             y == Outcome(kept, d, <<Need(got.object, end)>>)
  <1>1. chunk(s, d, m) \in {Rejects(s, d), advance(complete(x)), y}
    BY DEF chunk
  <1>2. IsSession(kept)
    <2> HIDE DEF v
    <2> QED BY DEF IsSession, SessionShape, IsPull, PullShape
  <1>3. Keeps(d, d)
    BY DEF Keeps
  <1> HIDE DEF kept, end, got
  <1>4. Sound(d, x)
    BY <1>2, <1>3, OutcomeSound, NoReplies
  <1>5. Sound(d, y)
    <2> DEFINE n == Need(got.object, end)
    <2>1. n.type \in MessageType \ {"Ack"}
      BY DEF Need, MessageType
    <2> HIDE DEF n
    <2>2. IsSeq(<<n>>) /\ Honest(<<n>>, d)
      BY <2>1, OneReply
    <2>3. Sound(d, Outcome(kept, d, <<n>>))
      BY <1>2, <1>3, <2>2, OutcomeSound
    <2> QED BY <2>3 DEF n
  <1> HIDE DEF x, y
  <1> QED BY <1>1, <1>4, <1>5, CompleteSound, AdvanceSound, RejectsSound

\* Content that the source lacks is passed over.
LEMMA MissingSound ==
    ASSUME NEW s, NEW d, NEW o, IsSession(s), IsDisk(d)
    PROVE  Sound(d, missing(s, d, o))
  <1> DEFINE s1 == [s EXCEPT !.pull.download = None]
             x == Outcome(s1, d, << >>)
  <1>1. missing(s, d, o) \in {Rejects(s, d), advance(x)}
    BY DEF missing
  <1>2. IsSession(s1)
    BY DEF IsSession, SessionShape, IsPull, PullShape
  <1>3. Keeps(d, d)
    BY DEF Keeps
  <1> HIDE DEF s1
  <1>4. Sound(d, x)
    BY <1>2, <1>3, OutcomeSound, NoReplies
  <1> HIDE DEF x
  <1> QED BY <1>1, <1>4, AdvanceSound, RejectsSound

\* A snapshot makes durable what is readable.
LEMMA SyncedKeeps ==
    ASSUME NEW d, IsDisk(d)
    PROVE  IsDisk(synced(d)) /\ Keeps(d, synced(d)) /\ Keeps(d, d)
  BY DEF IsDisk, Keeps, synced

\* A round starts with a snapshot of the own store.
LEMMA StartRoundSound ==
    ASSUME NEW s, NEW d, IsSession(s), IsDisk(d)
    PROVE  Sound(d, start_round(s, d))
  <1> DEFINE pl == [NoPull EXCEPT !.waiting_page = TRUE]
             s1 == [s EXCEPT !.local = d.recs, !.pull = pl, !.synchronizing = TRUE]
             ms == <<Inventory(None)>>
  <1>1. start_round(s, d) \in {Outcome(s, d, << >>), Outcome(s1, synced(d), ms)}
    BY DEF start_round
  <1>2. IsPull(pl)
    BY NoReplies DEF NoPull, IsPull, PullShape
  <1> HIDE DEF pl
  <1>3. IsSession(s1)
    BY <1>2 DEF IsSession, SessionShape
  <1>4. IsSeq(ms) /\ Honest(ms, synced(d))
    <2>1. Inventory(None).type \in MessageType \ {"Ack"}
      BY DEF Inventory, MessageType
    <2> QED BY <2>1, OneReply
  <1> HIDE DEF s1, ms
  <1>5. Sound(d, Outcome(s, d, << >>))
    BY SyncedKeeps, NoReplies, OutcomeSound
  <1>6. Sound(d, Outcome(s1, synced(d), ms))
    BY <1>3, <1>4, SyncedKeeps, OutcomeSound
  <1> QED BY <1>1, <1>5, <1>6
-----------------------------------------------------------------------------
(* The serving side.                                                       *)

\* A page of the inventory.
LEMMA InventorySound ==
    ASSUME NEW s, NEW d, NEW after, IsSession(s), IsDisk(d)
    PROVE  Sound(d, inventory(s, d, after))
  <1> DEFINE frozen == IF after = None THEN freeze(s.source, d) ELSE s.source
             end == IF frozen.next + PageLimit < Len(frozen.order)
                    THEN frozen.next + PageLimit ELSE Len(frozen.order)
             part == SubSeq(frozen.order, frozen.next + 1, end)
             more == end < Len(frozen.order)
             last == IF part = << >> THEN None ELSE Some(part[Len(part)])
             src == [frozen EXCEPT !.next = end, !.more = more, !.awaiting_check = TRUE,
                       !.cursor = last]
             s1 == [s EXCEPT !.source = src]
             m == Page(frozen.next, Len(frozen.order), part, more)
             e == IF after = None THEN synced(d) ELSE d
  <1>1. inventory(s, d, after) \in {Rejects(s, d), Outcome(s1, e, <<m>>)}
    BY DEF inventory
  <1>2. IsSession(s1)
    <2> HIDE DEF src
    <2> QED BY DEF IsSession, SessionShape
  <1>3. m.type \in MessageType \ {"Ack"}
    BY DEF Page, MessageType
  <1>4. IsDisk(e) /\ Keeps(d, e)
    BY SyncedKeeps
  <1> HIDE DEF s1, m, e
  <1>5. Sound(d, Outcome(s1, e, <<m>>))
    BY <1>2, <1>3, <1>4, OneReply, OutcomeSound
  <1> QED BY <1>1, <1>5, RejectsSound

\* A chunk, or the message that the content is not here.
LEMMA NeedSound ==
    ASSUME NEW s, NEW d, NEW o, NEW offset, IsSession(s), IsDisk(d)
    PROVE  Sound(d, need(s, d, o, offset))
  <1> DEFINE length == IF offset < Length(o) THEN 1 ELSE 0
             end == offset + length
             s2 == [s EXCEPT !.source.active = IF end = Length(o) THEN None
                                               ELSE Some([object |-> o, next |-> end]),
                             !.source.unacked = IF end = Length(o) THEN @ \cup {o} ELSE @]
             m1 == Missing(o)
             m2 == Chunk(o, offset, length)
  <1>1. need(s, d, o, offset) \in {Rejects(s, d), Outcome(s, d, <<m1>>), Outcome(s2, d, <<m2>>)}
    BY DEF need
  <1>2. IsSession(s2)
    <2> HIDE DEF end
    <2> QED BY DEF IsSession, SessionShape
  <1>3. m1.type \in MessageType \ {"Ack"} /\ m2.type \in MessageType \ {"Ack"}
    BY DEF Missing, Chunk, MessageType
  <1> HIDE DEF s2, m1, m2
  <1>4. Sound(d, Outcome(s, d, <<m1>>)) /\ Sound(d, Outcome(s2, d, <<m2>>))
    BY <1>2, <1>3, OneReply, OutcomeSound, SyncedKeeps
  <1> QED BY <1>1, <1>4, RejectsSound

\* What the source forgets when it is acknowledged or checked.
LEMMA AckSound ==
    ASSUME NEW s, NEW d, NEW o, IsSession(s), IsDisk(d)
    PROVE  Sound(d, ack(s, d, o))
  <1> DEFINE s1 == [s EXCEPT !.source.unacked = @ \ {o}]
  <1>1. ack(s, d, o) \in {Rejects(s, d), Outcome(s1, d, << >>)}
    BY DEF ack
  <1>2. IsSession(s1)
    BY DEF IsSession, SessionShape
  <1> HIDE DEF s1
  <1> QED BY <1>1, <1>2, RejectsSound, NoReplies, OutcomeSound, SyncedKeeps

\* The end of a page at the source.
LEMMA CheckedSound ==
    ASSUME NEW s, NEW d, NEW end, IsSession(s), IsDisk(d)
    PROVE  Sound(d, checked(s, d, end))
  <1> DEFINE s1 == [s EXCEPT !.source.awaiting_check = FALSE]
  <1>1. checked(s, d, end) \in {Rejects(s, d), Outcome(s1, d, << >>)}
    BY DEF checked
  <1>2. IsSession(s1)
    BY DEF IsSession, SessionShape
  <1> HIDE DEF s1
  <1> QED BY <1>1, <1>2, RejectsSound, NoReplies, OutcomeSound, SyncedKeeps

\* Whatever message arrives, the disk keeps what is durable and every
\* acknowledgment sent is for a durable object.
LEMMA ProcessSound ==
    ASSUME NEW s, NEW d, NEW m, IsSession(s), IsDisk(d), m.type \in MessageType
    PROVE  Sound(d, process(s, d, m))
  <1> DEFINE s1 == [s EXCEPT !.accepted = TRUE]
  <1>1. IsSession(s1)
    BY DEF IsSession, SessionShape
  <1>2. CASE ~s.accepted
    <2>1. process(s, d, m) \in {Rejects(s, d), start_round(s1, d)}
      BY <1>2 DEF process
    <2> HIDE DEF s1
    <2> QED BY <1>1, <2>1, RejectsSound, StartRoundSound
  <1>3. CASE s.accepted
    <2>1. CASE m.type = "Hello"
      BY <1>3, <2>1, RejectsSound DEF process
    <2>2. CASE m.type = "Inventory"
      BY <1>3, <2>2, InventorySound DEF process
    <2>3. CASE m.type = "Need"
      BY <1>3, <2>3, NeedSound DEF process
    <2>4. CASE m.type = "Ack"
      BY <1>3, <2>4, AckSound DEF process
    <2>5. CASE m.type = "Checked"
      BY <1>3, <2>5, CheckedSound DEF process
    <2>6. CASE m.type = "Page"
      BY <1>3, <2>6, PageSound DEF process
    <2>7. CASE m.type = "Chunk"
      BY <1>3, <2>7, ChunkSound DEF process
    <2>8. CASE m.type = "Missing"
      BY <1>3, <2>8, MissingSound DEF process
    <2> QED BY <2>1, <2>2, <2>3, <2>4, <2>5, <2>6, <2>7, <2>8 DEF MessageType
  <1> QED BY <1>2, <1>3
-----------------------------------------------------------------------------
(* The steps of the system.                                                *)

\* Each peer has one other peer.
LEMMA OtherPeer ==
    ASSUME NEW p \in Peer
    PROVE  /\ other(p) \in Peer /\ other(p) # p /\ other(other(p)) = p
           /\ \A q \in Peer : q = p \/ q = other(p)
  <1>1. PICK a \in Peer, b \in Peer : a # b /\ Peer = {a, b}
    BY SessionAssumption
  <1>2. other(a) = b /\ other(b) = a
    BY <1>1 DEF other
  <1> QED BY <1>1, <1>2

\* A step in which each disk keeps what is durable and no message is added.
LEMMA QuietStep ==
    ASSUME NEW p \in Peer, Inv, Keeps(disk[other(p)], disk'[other(p)])
    PROVE  /\ Honest(net[p], disk'[other(p)])
           /\ \A o \in acknowledged[p] : Durable(disk'[other(p)], o)
  BY OtherPeer, HonestKept DEF Inv, AckInv, Durable, Keeps

\* The sessions of a new and of no connection.
LEMMA FreshSessions == IsSession(NewSession) /\ IsSession(NoSession)
  <1>1. IsPull(NoPull)
    BY NoReplies DEF IsPull, PullShape, NoPull
  <1>2. IsSession(NewSession)
    BY <1>1 DEF IsSession, SessionShape, NewSession
  <1>3. NoSession = [NewSession EXCEPT !.failed = "closed"]
    BY DEF NoSession
  <1>4. IsSession(NoSession)
    BY <1>2, <1>3 DEF IsSession, SessionShape
  <1> QED BY <1>2, <1>4

\* The first state.
LEMMA InitInv == SyncInit => Inv
  <1> SUFFICES ASSUME SyncInit
               PROVE  Inv
    OBVIOUS
  <1>1. IsDisk(EmptyDisk)
    BY DEF IsDisk, EmptyDisk
  <1>2. ShapeInv
    BY <1>1, FreshSessions, NoReplies DEF ShapeInv, OnPeers, SyncInit
  <1>3. AckInv
    BY NoReplies, OtherPeer DEF AckInv, SyncInit
  <1> QED BY <1>2, <1>3 DEF Inv

\* A new connection starts with a greeting each way.
LEMMA ConnectInv == Inv /\ Connect => Inv'
  <1> SUFFICES ASSUME Inv, Connect
               PROVE  Inv'
    OBVIOUS
  <1>1. Hello.type \in MessageType \ {"Ack"}
    BY DEF Hello, MessageType
  <1> HIDE DEF Hello
  <1>2. \A p \in Peer : IsSeq(net'[p]) /\ Honest(net'[p], disk[other(p)])
    BY <1>1, OneReply DEF Connect
  <1>3. ShapeInv'
    BY <1>2, FreshSessions DEF Inv, ShapeInv, OnPeers, Connect
  <1>4. AckInv'
    BY <1>2 DEF Inv, AckInv, Connect
  <1> QED BY <1>3, <1>4 DEF Inv

\* The end of a connection loses messages only.
LEMMA DisconnectInv == Inv /\ Disconnect => Inv'
  <1> SUFFICES ASSUME Inv, Disconnect
               PROVE  Inv'
    OBVIOUS
  <1>1. ShapeInv'
    BY FreshSessions, NoReplies DEF Inv, ShapeInv, OnPeers, Disconnect
  <1>2. AckInv'
    BY NoReplies DEF Inv, AckInv, Disconnect
  <1> QED BY <1>1, <1>2 DEF Inv

\* A step that replaces p's disk by one that keeps what is durable there.
LEMMA DiskReplaced ==
    ASSUME NEW p \in Peer, NEW e, Inv, IsDisk(e), Keeps(disk[p], e),
           disk' = [disk EXCEPT ![p] = e]
    PROVE  /\ OnPeers(disk)' /\ disk'[p] = e
           /\ \A q \in Peer : IsDisk(disk'[q]) /\ Keeps(disk[q], disk'[q])
  <1>1. OnPeers(disk') /\ disk'[p] = e /\ \A q \in Peer : q # p => disk'[q] = disk[q]
    BY DEF OnPeers, Inv, ShapeInv
  <1>2. ASSUME NEW q \in Peer
        PROVE  IsDisk(disk'[q]) /\ Keeps(disk[q], disk'[q])
    <2>1. CASE q = p
      BY <1>1, <2>1
    <2>2. CASE q # p
      BY <1>1, <2>2 DEF Inv, ShapeInv, Keeps
    <2> QED BY <2>1, <2>2
  <1> QED BY <1>1, <1>2 DEF OnPeers

\* A user's own write is durable when it returns.
LEMMA WriteInv ==
    ASSUME NEW p \in Peer, Inv,
           (\E k \in Key : WriteRecord(p, k)) \/ (\E h \in Hash : WriteBlob(p, h))
    PROVE  Inv'
  <1>1. PICK e : /\ IsDisk(e) /\ Keeps(disk[p], e) /\ disk' = [disk EXCEPT ![p] = e]
                 /\ UNCHANGED <<session, net, acknowledged>>
    <2> DEFINE d == disk[p]
    <2>1. IsDisk(d) /\ OnPeers(disk)
      BY DEF Inv, ShapeInv
    <2>2. CASE \E k \in Key : WriteRecord(p, k)
      <3>1. PICK k \in Key : WriteRecord(p, k)
        BY <2>2
      <3> DEFINE e == ingest_records(d, {k})
      <3>2. disk' = [disk EXCEPT ![p] = e] /\ UNCHANGED <<session, net, acknowledged>>
        BY <2>1, <3>1 DEF WriteRecord
      <3>3. IsDisk(e) /\ Keeps(d, e)
        <4> HIDE DEF d
        <4> QED BY <2>1 DEF IsDisk, Keeps, ingest_records
      <3> HIDE DEF e
      <3> QED BY <3>2, <3>3
    <2>3. CASE \E h \in Hash : WriteBlob(p, h)
      <3>1. PICK h \in Hash : WriteBlob(p, h)
        BY <2>3
      <3> DEFINE e == ingest_blob(d, h)
      <3>2. disk' = [disk EXCEPT ![p] = e] /\ UNCHANGED <<session, net, acknowledged>>
        BY <2>1, <3>1 DEF WriteBlob
      <3>3. IsDisk(e) /\ Keeps(d, e)
        <4> HIDE DEF d
        <4> QED BY <2>1 DEF IsDisk, Keeps, ingest_blob
      <3> HIDE DEF e
      <3> QED BY <3>2, <3>3
    <2> QED BY <2>2, <2>3
  <1>2. /\ OnPeers(disk)'
        /\ \A q \in Peer : IsDisk(disk'[q]) /\ Keeps(disk[q], disk'[q])
    BY <1>1, DiskReplaced
  <1>3. ShapeInv'
    BY <1>1, <1>2 DEF Inv, ShapeInv, OnPeers
  <1>4. AckInv'
    BY <1>1, <1>2, QuietStep, OtherPeer DEF AckInv
  <1> QED BY <1>3, <1>4 DEF Inv

\* The host's timer starts a round.
LEMMA TickInv ==
    ASSUME NEW p \in Peer, Inv, Tick(p)
    PROVE  Inv'
  <1> DEFINE x == start_round(session[p], disk[p])
             q == other(p)
  <1>1. q \in Peer /\ q # p /\ other(q) = p /\ \A r \in Peer : r = p \/ r = q
    BY OtherPeer
  <1>2. Sound(disk[p], x)
    BY StartRoundSound DEF Inv, ShapeInv
  <1>3. /\ disk' = [disk EXCEPT ![p] = x.d]
        /\ session' = [session EXCEPT ![p] = x.s]
        /\ net' = [net EXCEPT ![q] = net[q] \o x.replies]
        /\ UNCHANGED acknowledged
    BY DEF Tick
  <1> HIDE DEF x, q
  <1>4. /\ OnPeers(disk)' /\ disk'[p] = x.d
        /\ \A r \in Peer : IsDisk(disk'[r]) /\ Keeps(disk[r], disk'[r])
    BY <1>2, <1>3, DiskReplaced DEF Sound
  <1>5. OnPeers(session') /\ session'[p] = x.s /\ \A r \in Peer : r # p => session'[r] = session[r]
    BY <1>3 DEF OnPeers, Inv, ShapeInv
  <1>6. /\ OnPeers(net') /\ net'[q] = net[q] \o x.replies
        /\ \A r \in Peer : r # q => net'[r] = net[r]
    BY <1>1, <1>3 DEF OnPeers, Inv, ShapeInv
  <1>7. \A r \in Peer : IsSession(session'[r])
    BY <1>2, <1>5 DEF Inv, ShapeInv, Sound
  <1>8. ASSUME NEW r \in Peer
        PROVE  IsSeq(net'[r]) /\ Honest(net'[r], disk'[other(r)])
    <2>1. Honest(net[r], disk'[other(r)]) /\ IsSeq(net[r])
      BY <1>4, OtherPeer, QuietStep DEF Inv, ShapeInv
    <2>2. CASE r = q
      <3>1. Honest(x.replies, disk'[other(r)]) /\ IsSeq(x.replies)
        BY <1>1, <1>2, <1>4, <2>2 DEF Sound
      <3> QED BY <1>6, <2>1, <2>2, <3>1, HonestConcat
    <2>3. CASE r # q
      BY <1>6, <2>1, <2>3
    <2> QED BY <2>2, <2>3
  <1>9. ShapeInv'
    BY <1>3, <1>4, <1>5, <1>6, <1>7, <1>8 DEF Inv, ShapeInv, OnPeers
  <1>10. AckInv'
    BY <1>3, <1>4, <1>8, QuietStep, OtherPeer DEF AckInv
  <1> QED BY <1>9, <1>10 DEF Inv

\* The message a peer takes next, and what is left of its queue.
LEMMA TakenMessage ==
    ASSUME NEW ms, NEW d, IsSeq(ms), Honest(ms, d), ms # << >>
    PROVE  /\ Head(ms).type \in MessageType
           /\ Head(ms).type = "Ack" => Durable(d, Head(ms).object)
           /\ IsSeq(Tail(ms)) /\ Honest(Tail(ms), d)
  <1>1. /\ IsSeq(Tail(ms)) /\ Head(ms) = ms[1] /\ Len(ms) \in Nat \ {0}
        /\ Len(Tail(ms)) = Len(ms) - 1
        /\ \A i \in 1 .. Len(ms) - 1 : Tail(ms)[i] = ms[i + 1]
    BY SeqParts
  <1>2. 1 \in 1 .. Len(ms) /\ \A i \in 1 .. Len(ms) - 1 : i + 1 \in 1 .. Len(ms)
    BY <1>1, SMT
  <1> QED BY <1>1, <1>2 DEF Honest

\* A message is handled: its sender learns of durable objects only.
LEMMA ReceiveInv ==
    ASSUME NEW p \in Peer, Inv, Receive(p)
    PROVE  Inv'
  <1> DEFINE m == Head(net[p])
             x == process(session[p], disk[p], m)
             q == other(p)
             n1 == [net EXCEPT ![p] = Tail(net[p])]
             acks == IF m.type = "Ack" THEN acknowledged[p] \cup {m.object} ELSE acknowledged[p]
  <1>1. q \in Peer /\ q # p /\ other(q) = p /\ \A r \in Peer : r = p \/ r = q
    BY OtherPeer
  <1>2. /\ m.type \in MessageType
        /\ m.type = "Ack" => Durable(disk[q], m.object)
        /\ IsSeq(Tail(net[p])) /\ Honest(Tail(net[p]), disk[q])
    BY TakenMessage DEF Inv, ShapeInv, AckInv, Receive
  <1>3. Sound(disk[p], x)
    <2> HIDE DEF m
    <2> QED BY <1>2, ProcessSound DEF Inv, ShapeInv
  <1>4. /\ disk' = [disk EXCEPT ![p] = x.d]
        /\ session' = [session EXCEPT ![p] = x.s]
        /\ acknowledged' = [acknowledged EXCEPT ![p] = acks]
    BY DEF Receive
  <1>5. net' = [n1 EXCEPT ![q] = net[q] \o x.replies]
    BY <1>1 DEF Receive
  <1> HIDE DEF x, q, m
  <1>6. /\ OnPeers(disk)' /\ disk'[p] = x.d
        /\ \A r \in Peer : IsDisk(disk'[r]) /\ Keeps(disk[r], disk'[r])
    BY <1>3, <1>4, DiskReplaced DEF Sound
  <1>7. OnPeers(session') /\ session'[p] = x.s /\ \A r \in Peer : r # p => session'[r] = session[r]
    BY <1>4 DEF OnPeers, Inv, ShapeInv
  <1>8. /\ OnPeers(net') /\ net'[q] = net[q] \o x.replies /\ net'[p] = Tail(net[p])
    <2>1. OnPeers(n1) /\ n1[p] = Tail(net[p])
      BY DEF OnPeers, Inv, ShapeInv
    <2> HIDE DEF n1
    <2> QED BY <1>1, <1>5, <2>1 DEF OnPeers
  <1>9. /\ OnPeers(acknowledged') /\ acknowledged'[p] = acks
        /\ \A r \in Peer : r # p => acknowledged'[r] = acknowledged[r]
    <2> HIDE DEF acks
    <2> QED BY <1>4 DEF OnPeers, Inv, ShapeInv
  <1>10. \A r \in Peer : IsSession(session'[r])
    BY <1>3, <1>7 DEF Inv, ShapeInv, Sound
  <1>11. ASSUME NEW r \in Peer
         PROVE  IsSeq(net'[r]) /\ Honest(net'[r], disk'[other(r)])
    <2>1. Honest(net[r], disk'[other(r)]) /\ IsSeq(net[r])
      BY <1>6, OtherPeer, QuietStep DEF Inv, ShapeInv
    <2>2. CASE r = q
      <3>1. Honest(x.replies, disk'[other(r)]) /\ IsSeq(x.replies)
        BY <1>1, <1>3, <1>6, <2>2 DEF Sound
      <3> QED BY <1>8, <2>1, <2>2, <3>1, HonestConcat
    <2>3. CASE r = p
      BY <1>1, <1>2, <1>6, <1>8, <2>3, HonestKept DEF q
    <2> QED BY <1>1, <2>2, <2>3
  <1>12. ASSUME NEW r \in Peer, NEW o \in acknowledged'[r]
         PROVE  Durable(disk'[other(r)], o)
    <2>1. CASE o \in acknowledged[r]
      BY <1>6, <2>1, OtherPeer, QuietStep
    <2>2. CASE o \notin acknowledged[r]
      <3>1. r = p /\ m.type = "Ack" /\ o = m.object
        BY <1>9, <2>2
      <3>2. Keeps(disk[q], disk'[q])
        BY <1>1, <1>6
      <3> QED BY <1>2, <3>1, <3>2 DEF Durable, Keeps, q
    <2> QED BY <2>1, <2>2
  <1>13. ShapeInv'
    BY <1>6, <1>7, <1>8, <1>9, <1>10, <1>11 DEF ShapeInv, OnPeers
  <1>14. AckInv'
    BY <1>11, <1>12 DEF AckInv
  <1> QED BY <1>13, <1>14 DEF Inv

\* A storage error may leave more readable, and takes nothing.
LEMMA ReceiveFailsInv ==
    ASSUME NEW p \in Peer, Inv, ReceiveFails(p)
    PROVE  Inv'
  <1> DEFINE d == disk[p]
  <1>1. PICK recs, blobs : disk' = [disk EXCEPT ![p].recs = @ \cup recs, ![p].blobs = @ \cup blobs]
    BY DEF ReceiveFails
  <1> DEFINE e == [d EXCEPT !.recs = @ \cup recs, !.blobs = @ \cup blobs]
  <1>2. disk' = [disk EXCEPT ![p] = e]
    BY <1>1 DEF Inv, ShapeInv, OnPeers
  <1>3. IsDisk(d)
    BY DEF Inv, ShapeInv
  <1>4. IsDisk(e) /\ Keeps(d, e)
    <2> HIDE DEF d
    <2> QED BY <1>3 DEF IsDisk, Keeps
  <1> HIDE DEF e
  <1>5. /\ OnPeers(disk)'
        /\ \A r \in Peer : IsDisk(disk'[r]) /\ Keeps(disk[r], disk'[r])
    BY <1>2, <1>4, DiskReplaced
  <1>6. IsSeq(Tail(net[p])) /\ Honest(Tail(net[p]), disk[other(p)])
    BY TakenMessage DEF Inv, ShapeInv, AckInv, ReceiveFails
  <1>7. OnPeers(net') /\ \A r \in Peer : net'[r] = IF r = p THEN Tail(net[p]) ELSE net[r]
    BY DEF ReceiveFails, Inv, ShapeInv, OnPeers
  <1>8. ASSUME NEW r \in Peer
        PROVE  IsSeq(net'[r]) /\ Honest(net'[r], disk'[other(r)])
    <2>1. CASE r = p
      BY <1>5, <1>6, <1>7, <2>1, HonestKept, OtherPeer, SMT
    <2>2. CASE r # p
      BY <1>5, <1>7, <2>2, QuietStep, OtherPeer DEF Inv, ShapeInv
    <2> QED BY <2>1, <2>2
  <1>9. OnPeers(session') /\ \A r \in Peer : IsSession(session'[r])
    <2> DEFINE s1 == [session[p] EXCEPT !.failed = "storage"]
    <2>1. IsSession(session[p])
      BY DEF Inv, ShapeInv
    <2>2. IsSession(s1)
      BY <2>1 DEF IsSession, SessionShape
    <2>3. session' = [session EXCEPT ![p] = s1]
      BY DEF ReceiveFails
    <2> HIDE DEF s1
    <2> QED BY <2>2, <2>3 DEF Inv, ShapeInv, OnPeers
  <1>10. acknowledged' = acknowledged
    BY DEF ReceiveFails
  <1>11. ShapeInv'
    BY <1>5, <1>7, <1>8, <1>9, <1>10 DEF Inv, ShapeInv, OnPeers
  <1>12. AckInv'
    BY <1>5, <1>8, <1>10, QuietStep, OtherPeer DEF AckInv
  <1> QED BY <1>11, <1>12 DEF Inv

\* A power loss takes nothing that is durable.
LEMMA PowerLossInv ==
    ASSUME NEW p \in Peer, Inv, PowerLoss(p)
    PROVE  Inv'
  <1> DEFINE d == disk[p]
  <1>1. PICK recs \in SUBSET (d.recs \ d.safe), blobs \in SUBSET (d.blobs \ d.safeBlobs) :
          disk' = [disk EXCEPT ![p].recs = @ \ recs, ![p].blobs = @ \ blobs]
    BY DEF PowerLoss
  <1> DEFINE e == [d EXCEPT !.recs = @ \ recs, !.blobs = @ \ blobs]
  <1>2. disk' = [disk EXCEPT ![p] = e]
    BY <1>1 DEF Inv, ShapeInv, OnPeers
  <1>3. IsDisk(d)
    BY DEF Inv, ShapeInv
  <1>4. IsDisk(e) /\ Keeps(d, e)
    <2> HIDE DEF d
    <2> QED BY <1>3 DEF IsDisk, Keeps
  <1> HIDE DEF e
  <1>5. /\ OnPeers(disk)'
        /\ \A r \in Peer : IsDisk(disk'[r]) /\ Keeps(disk[r], disk'[r])
    BY <1>2, <1>4, DiskReplaced
  <1>6. /\ session' = [r \in Peer |-> NoSession] /\ net' = [r \in Peer |-> << >>]
        /\ acknowledged' = acknowledged
    BY DEF PowerLoss
  <1>7. ShapeInv'
    BY <1>5, <1>6, FreshSessions, NoReplies DEF Inv, ShapeInv, OnPeers
  <1>8. AckInv'
    BY <1>5, <1>6, NoReplies, QuietStep, OtherPeer DEF AckInv
  <1> QED BY <1>7, <1>8 DEF Inv

\* Every step keeps the invariant.
LEMMA NextInv == Inv /\ [SyncNext]_syncVars => Inv'
  <1> SUFFICES ASSUME Inv, [SyncNext]_syncVars
               PROVE  Inv'
    OBVIOUS
  <1>1. CASE Connect
    BY <1>1, ConnectInv
  <1>2. CASE Disconnect
    BY <1>2, DisconnectInv
  <1>3. ASSUME NEW p \in Peer, Receive(p)
        PROVE  Inv'
    BY <1>3, ReceiveInv
  <1>4. ASSUME NEW p \in Peer, ReceiveFails(p)
        PROVE  Inv'
    BY <1>4, ReceiveFailsInv
  <1>5. ASSUME NEW p \in Peer, Tick(p)
        PROVE  Inv'
    BY <1>5, TickInv
  <1>6. ASSUME NEW p \in Peer, PowerLoss(p)
        PROVE  Inv'
    BY <1>6, PowerLossInv
  <1>7. ASSUME NEW p \in Peer,
               (\E k \in Key : WriteRecord(p, k)) \/ (\E h \in Hash : WriteBlob(p, h))
        PROVE  Inv'
    BY <1>7, WriteInv
  <1>8. CASE UNCHANGED syncVars
    BY <1>8 DEF Inv, ShapeInv, AckInv, OnPeers, syncVars
  <1> QED BY <1>1, <1>2, <1>3, <1>4, <1>5, <1>6, <1>7, <1>8 DEF SyncNext

\* Acknowledgments under way and received are for durable objects, in every
\* reachable state of two peers (Session::flush, complete, receive).
THEOREM SessionInvariant == SyncSpec => []Inv
  BY InitInv, NextInv, PTL DEF SyncSpec

\* What a peer was told to be safe is durable at the other, through storage
\* errors, lost connections and power losses (Session::flush and complete
\* acknowledge only after ingest has returned).
THEOREM AcknowledgedIsDurable == SyncSpec => []AcknowledgedDurable
  <1>1. Inv => AcknowledgedDurable
    BY DEF Inv, AckInv, AcknowledgedDurable, Durable
  <1> QED BY <1>1, SessionInvariant, PTL
-----------------------------------------------------------------------------
(* The two sides of a connection: what holds between a session that pulls, *)
(* the source of the other, and the messages under way between them.       *)

\* The messages of ms that are of one of the types T.
Of(ms, T) == {ms[i] : i \in {j \in 1 .. Len(ms) : ms[j].type \in T}}

Request == {"Inventory", "Need", "Ack", "Checked"}
Response == {"Page", "Chunk", "Missing"}

Acked(ms) == {m.object : m \in Of(ms, {"Ack"})}
Objects(keys) == {RecordObject(keys[i]) : i \in 1 .. Len(keys)}

\* Requests come as acknowledgments, then what asks for more or ends a page.
Ordered(ms) ==
    \A i, j \in 1 .. Len(ms) :
      i < j /\ ms[i].type \in Request /\ ms[j].type \in Request =>
        /\ ms[i].type \in {"Ack", "Checked"}
        /\ ms[i].type = "Checked" => ms[j].type = "Inventory"
        /\ ms[i].type = "Ack" /\ ms[j].type = "Ack" => ms[i].object # ms[j].object

Lone(ms) ==
    \A i, j \in 1 .. Len(ms) : i < j => ms[i].type \notin Response \/ ms[j].type \notin Response

Quiet(src) == src.active = None /\ src.unacked = {} /\ ~src.awaiting_check

IsListing(s, S) ==
    /\ s \in Seq(S) /\ IsInjective(s)
    /\ \A e \in S : \E i \in 1 .. Len(s) : s[i] = e

SourceShape(src) ==
    src \in [snapshot : {src.snapshot}, order : {src.order}, next : {src.next},
             cursor : {src.cursor}, more : {src.more}, active : {src.active},
             unacked : {src.unacked}, awaiting_check : {src.awaiting_check}]

SourceOK(src) ==
    /\ SourceShape(src)
    /\ IsListing(src.order, src.snapshot)
    /\ src.snapshot \subseteq Key
    /\ src.next \in 0 .. Len(src.order)

\* The puller stands where the source has sent it.
Abreast(s, src) ==
    /\ s.synchronizing
    /\ s.pull.position = src.next
    /\ s.pull.total = Some(Len(src.order))
    /\ s.pull.more = src.more /\ src.more = (src.next < Len(src.order))
    /\ s.pull.after = src.cursor /\ (src.more => src.cursor # None)

Contents(keys) == {BlobObject(k, h) : k \in Range(keys), h \in Hash}

\* The records of a page are here, to be downloaded, staged, or in K.
InPage(s, src, K) ==
    LET pl == s.pull
    IN  /\ Abreast(s, src) /\ src.awaiting_check /\ ~pl.waiting_page
        /\ pl.keys \in Seq(src.snapshot) /\ Len(pl.keys) <= PageLimit
        /\ pl.records \in Seq(Range(pl.keys)) /\ IsInjective(pl.records)
        /\ pl.staged \in Seq(Range(pl.keys)) /\ IsInjective(pl.staged)
        /\ Range(pl.records) \cap Range(pl.staged) = {}
        /\ K \subseteq Range(pl.keys)
        /\ K \cap Range(pl.records) = {} /\ K \cap Range(pl.staged) = {}
        /\ pl.blobs \in Seq(Contents(pl.keys))
        /\ \A i \in 1 .. src.next :
             src.order[i] \in s.local \cup Range(pl.records) \cup Range(pl.staged) \cup K

Wanted(s, src, o) ==
    \E k \in Range(s.pull.keys) :
      \/ o = RecordObject(k) /\ InPage(s, src, {k})
      \/ /\ \E h \in Hash : o = BlobObject(k, h)
         /\ InPage(s, src, {}) /\ s.pull.records = << >> /\ s.pull.staged = << >>

Downloads(s, o, received) ==
    \E total \in {None, Some(Length(o))} :
      s.pull.download = Some([object |-> o, received |-> received, total |-> total])

PageSent(s, src, m) ==
    LET pl == s.pull
    IN  /\ s.synchronizing /\ pl.waiting_page /\ pl.staged = << >> /\ pl.blobs = << >>
        /\ src.awaiting_check /\ src.active = None /\ src.unacked = {}
        /\ m.offset = pl.position /\ m.offset \in 0 .. src.next /\ src.next <= m.offset + PageLimit
        /\ m.records = SubSeq(src.order, m.offset + 1, src.next)
        /\ m.total = Len(src.order) /\ m.more = src.more
        /\ src.more = (src.next < Len(src.order)) /\ (src.more => m.offset < src.next)
        /\ src.cursor = IF m.records = << >> THEN None ELSE Some(m.records[Len(m.records)])
        /\ pl.total \in {None, Some(Len(src.order))}
        /\ \A i \in 1 .. m.offset : src.order[i] \in s.local

ChunkSent(s, src, m) ==
    LET o   == m.object
        end == m.offset + m.length
    IN  /\ Wanted(s, src, o) /\ Downloads(s, o, m.offset)
        /\ m.total = Length(o) /\ m.offset \in 0 .. Length(o)
        /\ m.length = IF m.offset < Length(o) THEN 1 ELSE 0
        /\ IF end = Length(o)
           THEN src.active = None /\ src.unacked = Objects(s.pull.staged) \cup {o}
           ELSE src.active = Some([object |-> o, next |-> end]) /\ src.unacked = Objects(s.pull.staged)

MissingSent(s, src, m) ==
    /\ Wanted(s, src, m.object) /\ m.object.blob # None /\ Downloads(s, m.object, 0)
    /\ src.active = None /\ src.unacked = Objects(s.pull.staged)

NeedSent(s, src, m, acked) ==
    LET o == m.object
    IN  /\ Wanted(s, src, o) /\ Downloads(s, o, m.offset)
        /\ m.offset \in Nat /\ (m.offset # 0 => m.offset < Length(o))
        /\ src.active = IF m.offset = 0 THEN None ELSE Some([object |-> o, next |-> m.offset])
        /\ src.unacked = acked \cup Objects(s.pull.staged) /\ acked \cap Objects(s.pull.staged) = {}

CheckedSent(src, m, acked) ==
    /\ m.end = src.next /\ src.awaiting_check /\ src.active = None /\ src.unacked = acked

InventorySent(s, src, m) ==
    LET pl == s.pull
    IN  /\ s.synchronizing /\ pl.waiting_page /\ pl.staged = << >> /\ pl.blobs = << >>
        /\ m.after = None => pl.position = 0 /\ pl.total = None
        /\ m.after # None => /\ Abreast(s, src) /\ m.after = src.cursor /\ src.more
                             /\ \A i \in 1 .. src.next : src.order[i] \in s.local

Requests(s, src, req) ==
    /\ Ordered(req)
    /\ \A m \in Of(req, {"Need"}) : NeedSent(s, src, m, Acked(req))
    /\ \A m \in Of(req, {"Checked"}) : CheckedSent(src, m, Acked(req))
    /\ \A m \in Of(req, {"Inventory"}) : InventorySent(s, src, m)
    /\ Acked(req) # {} => Of(req, {"Need", "Checked"}) # {}
    /\ Of(req, {"Checked"}) # {} /\ s.synchronizing => Of(req, {"Inventory"}) # {}
    /\ Of(req, {"Checked"}) = {} /\ (~s.synchronizing \/ Of(req, {"Inventory"}) # {}) => Quiet(src)

Responses(s, src, req, rsp) ==
    /\ Lone(rsp)
    /\ \A m \in Of(rsp, Response) :
         /\ Of(req, Request) = {}
         /\ m.type = "Page" => PageSent(s, src, m)
         /\ m.type = "Chunk" => ChunkSent(s, src, m)
         /\ m.type = "Missing" => MissingSent(s, src, m)

Greeted(s, ms) ==
    /\ \A i \in 1 .. Len(ms) : ms[i].type = "Hello" => ms[i] = Hello /\ ~s.accepted /\ i = 1
    /\ ~s.accepted => ms # << >> /\ ms[1].type = "Hello"
    /\ ~s.accepted => ~s.synchronizing

\* The pull of the session s from t, with the queues ns to s and nt to t.
PullOK(s, t, ns, nt) ==
    /\ Responses(s, t.source, nt, ns)
    /\ t.failed = "no" => Requests(s, t.source, nt)

PeerOK(s, d, ns) ==
    /\ s.failed \in {"no", "storage", "closed"}
    /\ s.failed = "closed" => ~s.synchronizing
    /\ s.failed = "no" => Greeted(s, ns)
    /\ d.recs \subseteq Key
    /\ s.local \subseteq d.safe
    /\ SourceOK(s.source)

PullInv(p) == PullOK(session[p], session[other(p)], net[p], net[other(p)])
PeerInv(p) == PeerOK(session[p], disk[p], net[p])

ProtocolInv == \A p \in Peer : PeerInv(p) /\ PullInv(p)
-----------------------------------------------------------------------------
(* Requests and responses in a queue.                                      *)

\* The messages of some types, by their places.
LEMMA OfPlaces ==
    ASSUME NEW ms, NEW T
    PROVE  /\ \A i \in 1 .. Len(ms) : ms[i].type \in T => ms[i] \in Of(ms, T)
           /\ \A m \in Of(ms, T) : m.type \in T /\ \E i \in 1 .. Len(ms) : ms[i] = m
  BY DEF Of

\* The types of interest may be split.
LEMMA OfFewer ==
    ASSUME NEW ms, NEW T, NEW U \in SUBSET T
    PROVE  /\ Of(ms, U) \subseteq Of(ms, T)
           /\ \A m \in Of(ms, T) : m.type \in U => m \in Of(ms, U)
  BY DEF Of

\* Messages of two queues in one.
LEMMA OfConcat ==
    ASSUME NEW s, NEW t, NEW T, IsSeq(s), IsSeq(t)
    PROVE  Of(s \o t, T) = Of(s, T) \cup Of(t, T)
  <1>1. Len(s) \in Nat /\ Len(t) \in Nat
    BY SeqParts
  <1>2. /\ Len(s \o t) = Len(s) + Len(t)
        /\ \A i \in 1 .. Len(s) + Len(t) :
             (s \o t)[i] = IF i <= Len(s) THEN s[i] ELSE t[i - Len(s)]
    BY SeqConcat
  <1> DEFINE st == s \o t
  <1> HIDE DEF st
  <1>3. ASSUME NEW m \in Of(st, T)
        PROVE  m \in Of(s, T) \cup Of(t, T)
    <2>1. PICK i \in 1 .. Len(st) : st[i] = m /\ m.type \in T
      BY OfPlaces
    <2>2. CASE i <= Len(s)
      <3>1. i \in 1 .. Len(s) /\ s[i] = m
        BY <1>1, <1>2, <2>1, <2>2, SMT DEF st
      <3> QED BY <2>1, <3>1, OfPlaces, SMT
    <2>3. CASE ~(i <= Len(s))
      <3>1. i - Len(s) \in 1 .. Len(t) /\ t[i - Len(s)] = m
        BY <1>1, <1>2, <2>1, <2>3, SMT DEF st
      <3> QED BY <2>1, <3>1, OfPlaces, SMT
    <2> QED BY <2>2, <2>3
  <1>4. ASSUME NEW m \in Of(s, T)
        PROVE  m \in Of(st, T)
    <2>1. PICK i \in 1 .. Len(s) : s[i] = m /\ m.type \in T
      BY OfPlaces
    <2>2. i \in 1 .. Len(st) /\ st[i] = m
      BY <1>1, <1>2, <2>1, SMT DEF st
    <2> QED BY <2>1, <2>2, OfPlaces, SMT
  <1>5. ASSUME NEW m \in Of(t, T)
        PROVE  m \in Of(st, T)
    <2>1. PICK i \in 1 .. Len(t) : t[i] = m /\ m.type \in T
      BY OfPlaces
    <2>2. i + Len(s) \in 1 .. Len(st) /\ st[i + Len(s)] = m
      BY <1>1, <1>2, <2>1, SMT DEF st
    <2> QED BY <2>1, <2>2, OfPlaces, SMT
  <1> QED BY <1>3, <1>4, <1>5 DEF st

\* The first message and the rest.
LEMMA OfTail ==
    ASSUME NEW ms, NEW T, IsSeq(ms), ms # << >>
    PROVE  /\ Head(ms).type \in T => Of(ms, T) = Of(Tail(ms), T) \cup {Head(ms)}
           /\ Head(ms).type \notin T => Of(ms, T) = Of(Tail(ms), T)
  <1> DEFINE tl == Tail(ms)
             hd == Head(ms)
  <1>1. /\ hd = ms[1] /\ Len(ms) \in Nat \ {0} /\ Len(tl) = Len(ms) - 1
        /\ \A i \in 1 .. Len(ms) - 1 : tl[i] = ms[i + 1]
    BY SeqParts
  <1> HIDE DEF tl, hd
  <1>2. ASSUME NEW m \in Of(ms, T)
        PROVE  m \in Of(tl, T) \cup (IF hd.type \in T THEN {hd} ELSE {})
    <2>1. PICK i \in 1 .. Len(ms) : ms[i] = m /\ m.type \in T
      BY OfPlaces
    <2>2. CASE i = 1
      BY <1>1, <2>1, <2>2
    <2>3. CASE i # 1
      <3>1. i - 1 \in 1 .. Len(tl) /\ tl[i - 1] = m
        BY <1>1, <2>1, <2>3, SMT
      <3> QED BY <2>1, <3>1, OfPlaces, SMT
    <2> QED BY <2>2, <2>3
  <1>3. ASSUME NEW m \in Of(tl, T)
        PROVE  m \in Of(ms, T)
    <2>1. PICK i \in 1 .. Len(tl) : tl[i] = m /\ m.type \in T
      BY OfPlaces
    <2>2. i + 1 \in 1 .. Len(ms) /\ ms[i + 1] = m
      BY <1>1, <2>1, SMT
    <2> QED BY <2>1, <2>2, OfPlaces, SMT
  <1>4. hd.type \in T => hd \in Of(ms, T)
    BY <1>1, OfPlaces, SMT
  <1>5. hd.type \in T => Of(ms, T) = Of(tl, T) \cup {hd}
    BY <1>2, <1>3, <1>4
  <1>6. hd.type \notin T => Of(ms, T) = Of(tl, T)
    BY <1>2, <1>3
  <1> QED BY <1>5, <1>6 DEF tl, hd

\* The order of the requests outlives the first message.
LEMMA OrderTail ==
    ASSUME NEW ms, IsSeq(ms), ms # << >>
    PROVE  /\ Ordered(ms) => Ordered(Tail(ms))
           /\ Lone(ms) => Lone(Tail(ms))
  <1> DEFINE tl == Tail(ms)
  <1>1. /\ Len(ms) \in Nat \ {0} /\ Len(tl) = Len(ms) - 1
        /\ \A i \in 1 .. Len(ms) - 1 : tl[i] = ms[i + 1]
    BY SeqParts
  <1> HIDE DEF tl
  <1>2. \A i \in 1 .. Len(tl) : i + 1 \in 1 .. Len(ms) /\ tl[i] = ms[i + 1]
    BY <1>1, SMT
  <1>3. ASSUME NEW i \in 1 .. Len(tl), NEW j \in 1 .. Len(tl), i < j
        PROVE  i + 1 < j + 1
    BY <1>1, <1>3, SMT
  <1>4. Lone(ms) => Lone(tl)
    BY <1>2, <1>3 DEF Lone
  <1>5. ASSUME Ordered(ms)
        PROVE  Ordered(tl)
    <2>1. ASSUME NEW i \in 1 .. Len(tl), NEW j \in 1 .. Len(tl), i < j,
                 tl[i].type \in Request, tl[j].type \in Request
          PROVE  /\ tl[i].type \in {"Ack", "Checked"}
                 /\ tl[i].type = "Checked" => tl[j].type = "Inventory"
                 /\ tl[i].type = "Ack" /\ tl[j].type = "Ack" => tl[i].object # tl[j].object
      <3> DEFINE a == i + 1
                 b == j + 1
      <3>1. /\ a \in 1 .. Len(ms) /\ tl[i] = ms[a] /\ b \in 1 .. Len(ms) /\ tl[j] = ms[b]
            /\ a < b
        BY <1>2, <1>3, <2>1
      <3> HIDE DEF a, b
      <3> QED BY <1>5, <2>1, <3>1, SMT DEF Ordered
    <2> QED BY <2>1 DEF Ordered
  <1> QED BY <1>4, <1>5 DEF tl

\* What follows the request taken next.
LEMMA OrderHead ==
    ASSUME NEW ms, IsSeq(ms), ms # << >>, Ordered(ms), Head(ms).type \in Request
    PROVE  /\ Head(ms).type = "Ack" => Head(ms).object \notin Acked(Tail(ms))
           /\ Head(ms).type \in {"Need", "Inventory"} => Of(Tail(ms), Request) = {}
           /\ Head(ms).type = "Checked" => \A m \in Of(Tail(ms), Request) : m.type = "Inventory"
  <1> DEFINE tl == Tail(ms)
             hd == Head(ms)
  <1>1. /\ hd = ms[1] /\ Len(ms) \in Nat \ {0} /\ Len(tl) = Len(ms) - 1
        /\ \A i \in 1 .. Len(ms) - 1 : tl[i] = ms[i + 1]
    BY SeqParts
  <1> HIDE DEF tl, hd
  <1>2. ASSUME NEW m \in Of(tl, Request)
        PROVE  /\ hd.type \in {"Ack", "Checked"}
               /\ hd.type = "Checked" => m.type = "Inventory"
               /\ hd.type = "Ack" /\ m.type = "Ack" => hd.object # m.object
    <2>1. PICK i \in 1 .. Len(tl) : tl[i] = m /\ m.type \in Request
      BY OfPlaces
    <2>2. i + 1 \in 1 .. Len(ms) /\ ms[i + 1] = m /\ 1 \in 1 .. Len(ms) /\ 1 < i + 1
      BY <1>1, <2>1, SMT
    <2>3. ms[1].type \in Request
      BY <1>1 DEF hd
    <2> QED BY <1>1, <2>1, <2>2, <2>3, SMT DEF Ordered
  <1>3. Of(tl, {"Ack"}) \subseteq Of(tl, Request) /\ \A m \in Of(tl, {"Ack"}) : m.type = "Ack"
    BY OfFewer, OfPlaces, SMT DEF Request
  <1>4. hd.type = "Ack" => hd.object \notin Acked(tl)
    BY <1>2, <1>3 DEF Acked
  <1> QED BY <1>2, <1>4 DEF tl, hd

\* What may be asked first and what after it.
InTurn(m, n) ==
    /\ m.type \in {"Ack", "Checked"}
    /\ m.type = "Checked" => n.type = "Inventory"
    /\ m.type = "Ack" /\ n.type = "Ack" => m.object # n.object

\* In an ordered queue any two requests are in turn.
LEMMA OrderedIs ==
    ASSUME NEW ms
    PROVE  Ordered(ms) <=> \A i, j \in 1 .. Len(ms) :
             i < j /\ ms[i].type \in Request /\ ms[j].type \in Request => InTurn(ms[i], ms[j])
  BY DEF Ordered, InTurn

\* Requests and responses of two queues, one of which has none.
LEMMA OrderConcat ==
    ASSUME NEW s, NEW t, IsSeq(s), IsSeq(t)
    PROVE  /\ Ordered(s) /\ Of(t, Request) = {} => Ordered(s \o t)
           /\ Ordered(t) /\ Of(s, Request) = {} => Ordered(s \o t)
           /\ Lone(s) /\ Of(t, Response) = {} => Lone(s \o t)
           /\ Lone(t) /\ Of(s, Response) = {} => Lone(s \o t)
  <1>1. Len(s) \in Nat /\ Len(t) \in Nat
    BY SeqParts
  <1>2. /\ Len(s \o t) = Len(s) + Len(t)
        /\ \A i \in 1 .. Len(s) + Len(t) :
             (s \o t)[i] = IF i <= Len(s) THEN s[i] ELSE t[i - Len(s)]
    BY SeqConcat
  <1> DEFINE st == s \o t
  <1> HIDE DEF st
  <1>3. ASSUME NEW i \in 1 .. Len(st)
        PROVE  \/ i \in 1 .. Len(s) /\ st[i] = s[i]
               \/ i - Len(s) \in 1 .. Len(t) /\ st[i] = t[i - Len(s)]
    BY <1>1, <1>2, SMT DEF st
  <1>4. ASSUME NEW T, Of(t, T) = {}, NEW i \in 1 .. Len(st), st[i].type \in T
        PROVE  i \in 1 .. Len(s) /\ st[i] = s[i]
    BY <1>3, <1>4, OfPlaces
  <1>5. ASSUME NEW T, Of(s, T) = {}, NEW i \in 1 .. Len(st), st[i].type \in T
        PROVE  i - Len(s) \in 1 .. Len(t) /\ st[i] = t[i - Len(s)]
    BY <1>3, <1>5, OfPlaces
  <1>6. \A i, j \in 1 .. Len(st) : i < j => i - Len(s) < j - Len(s)
    BY <1>1, <1>2, SMT DEF st
  <1>7. ASSUME Ordered(s), Of(t, Request) = {}
        PROVE  Ordered(st)
    <2>1. ASSUME NEW i \in 1 .. Len(st), NEW j \in 1 .. Len(st), i < j,
                 st[i].type \in Request, st[j].type \in Request
          PROVE  InTurn(st[i], st[j])
      <3>1. i \in 1 .. Len(s) /\ st[i] = s[i] /\ j \in 1 .. Len(s) /\ st[j] = s[j]
        BY <1>4, <1>7, <2>1
      <3> QED BY <1>7, <2>1, <3>1, OrderedIs
    <2> QED BY <2>1, OrderedIs
  <1>8. ASSUME Ordered(t), Of(s, Request) = {}
        PROVE  Ordered(st)
    <2>1. ASSUME NEW i \in 1 .. Len(st), NEW j \in 1 .. Len(st), i < j,
                 st[i].type \in Request, st[j].type \in Request
          PROVE  InTurn(st[i], st[j])
      <3> DEFINE a == i - Len(s)
                 b == j - Len(s)
      <3>1. a \in 1 .. Len(t) /\ st[i] = t[a]
        BY <1>5, <1>8, <2>1
      <3>2. b \in 1 .. Len(t) /\ st[j] = t[b]
        BY <1>5, <1>8, <2>1
      <3>3. a < b
        BY <1>6, <2>1
      <3> HIDE DEF a, b
      <3> QED BY <1>8, <2>1, <3>1, <3>2, <3>3, OrderedIs
    <2> QED BY <2>1, OrderedIs
  <1>9. Lone(s) /\ Of(t, Response) = {} => Lone(st)
    BY <1>4 DEF Lone
  <1>10. Lone(t) /\ Of(s, Response) = {} => Lone(st)
    BY <1>5, <1>6 DEF Lone
  <1> QED BY <1>7, <1>8, <1>9, <1>10 DEF st

\* A single message.
LEMMA OfOne ==
    ASSUME NEW m, NEW T
    PROVE  /\ IsSeq(<<m>>) /\ Lone(<<m>>) /\ Ordered(<<m>>)
           /\ m.type \in T => Of(<<m>>, T) = {m}
           /\ m.type \notin T => Of(<<m>>, T) = {}
  <1> DEFINE ms == <<m>>
  <1>1. ms \in Seq({m}) /\ Len(ms) = 1 /\ ms[1] = m
    BY SMT
  <1> HIDE DEF ms
  <1>2. IsSeq(ms)
    BY <1>1, SeqIsSeq
  <1>3. \A i \in 1 .. Len(ms) : i = 1 /\ ms[i] = m
    BY <1>1, SMT
  <1>4. m.type \in T => Of(ms, T) = {m}
    BY <1>1, <1>3, OfPlaces, SMT
  <1>5. m.type \notin T => Of(ms, T) = {}
    BY <1>1, <1>3, OfPlaces, SMT
  <1>6. Lone(ms) /\ Ordered(ms)
    BY <1>3, SMT DEF Lone, Ordered
  <1> QED BY <1>2, <1>4, <1>5, <1>6 DEF ms

\* Acknowledgments of different objects and nothing else.
OnlyAcks(ms) == IsSeq(ms) /\ Ordered(ms) /\ \A i \in 1 .. Len(ms) : ms[i].type = "Ack"

\* They hold no message of another type.
LEMMA OnlyAcksOf ==
    ASSUME NEW ms, NEW T, OnlyAcks(ms), "Ack" \notin T
    PROVE  Of(ms, T) = {}
  BY DEF OnlyAcks, Of

\* Acknowledgments behind acknowledgments of other objects.
LEMMA AcksConcat ==
    ASSUME NEW s, NEW t, OnlyAcks(s), OnlyAcks(t), Acked(s) \cap Acked(t) = {}
    PROVE  OnlyAcks(s \o t) /\ Acked(s \o t) = Acked(s) \cup Acked(t)
  <1>1. Len(s) \in Nat /\ Len(t) \in Nat /\ IsSeq(s) /\ IsSeq(t)
    BY SeqParts DEF OnlyAcks
  <1>2. /\ Len(s \o t) = Len(s) + Len(t) /\ IsSeq(s \o t)
        /\ \A i \in 1 .. Len(s) + Len(t) :
             (s \o t)[i] = IF i <= Len(s) THEN s[i] ELSE t[i - Len(s)]
    BY <1>1, SeqConcat
  <1>3. Of(s \o t, {"Ack"}) = Of(s, {"Ack"}) \cup Of(t, {"Ack"})
    BY ONLY <1>1, OfConcat, SMT
  <1>4. Acked(s \o t) = Acked(s) \cup Acked(t)
    BY ONLY <1>3 DEF Acked
  <1> DEFINE st == s \o t
  <1> HIDE DEF st
  <1>5. ASSUME NEW i \in 1 .. Len(st)
        PROVE  \/ i \in 1 .. Len(s) /\ st[i] = s[i]
               \/ i - Len(s) \in 1 .. Len(t) /\ st[i] = t[i - Len(s)] /\ i > Len(s)
    BY <1>1, <1>2, SMT DEF st
  <1>6. /\ \A i \in 1 .. Len(s) : s[i].type = "Ack" /\ s[i].object \in Acked(s)
        /\ \A i \in 1 .. Len(t) : t[i].type = "Ack" /\ t[i].object \in Acked(t)
    BY DEF OnlyAcks, Acked, Of
  <1>7. \A i \in 1 .. Len(st) : st[i].type = "Ack"
    BY <1>5, <1>6
  <1>8. ASSUME NEW i \in 1 .. Len(st), NEW j \in 1 .. Len(st), i < j
        PROVE  st[i].object # st[j].object
    <2>1. CASE i \in 1 .. Len(s) /\ st[i] = s[i] /\ j \in 1 .. Len(s) /\ st[j] = s[j]
      BY <1>6, <1>8, <2>1, ZenonT(30) DEF OnlyAcks, Ordered, Request
    <2>2. CASE i \in 1 .. Len(s) /\ st[i] = s[i] /\ j - Len(s) \in 1 .. Len(t) /\ st[j] = t[j - Len(s)]
      BY <1>6, <2>2
    <2>3. CASE /\ i - Len(s) \in 1 .. Len(t) /\ st[i] = t[i - Len(s)]
               /\ j - Len(s) \in 1 .. Len(t) /\ st[j] = t[j - Len(s)]
      <3> DEFINE a == i - Len(s)
                 b == j - Len(s)
      <3>1. a \in 1 .. Len(t) /\ b \in 1 .. Len(t) /\ a < b /\ st[i] = t[a] /\ st[j] = t[b]
        BY <1>1, <1>8, <2>3, SMT
      <3> HIDE DEF a, b
      <3> QED BY <1>6, <3>1, ZenonT(30) DEF OnlyAcks, Ordered, Request
    <2> QED BY <1>1, <1>5, <1>8, <2>1, <2>2, <2>3, SMT
  <1>9. Ordered(st)
    BY <1>7, <1>8 DEF Ordered
  <1> QED BY <1>2, <1>4, <1>7, <1>9 DEF OnlyAcks, st

\* The acknowledgments of staged records.
LEMMA StagedAcks ==
    ASSUME NEW K, NEW keys \in Seq(K), IsInjective(keys)
    PROVE  LET acks == [i \in DOMAIN keys |-> Ack(RecordObject(keys[i]))]
           IN  OnlyAcks(acks) /\ Acked(acks) = Objects(keys)
  <1> DEFINE acks == [i \in DOMAIN keys |-> Ack(RecordObject(keys[i]))]
             S == {Ack(RecordObject(k)) : k \in K}
  <1>1. DOMAIN keys = 1 .. Len(keys) /\ Len(keys) \in Nat
    BY SMT
  <1>2. acks \in Seq(S) /\ Len(acks) = Len(keys)
    BY <1>1, SMT
  <1>3. IsSeq(acks)
    <2> HIDE DEF acks, S
    <2> QED BY <1>2, SeqIsSeq
  <1>4. \A i \in 1 .. Len(keys) :
          acks[i].type = "Ack" /\ acks[i].object = RecordObject(keys[i])
    BY <1>1 DEF Ack
  <1> HIDE DEF acks
  <1>5. \A i, j \in 1 .. Len(keys) : i # j => RecordObject(keys[i]) # RecordObject(keys[j])
    BY <1>1 DEF IsInjective, RecordObject
  <1>6. OnlyAcks(acks)
    BY <1>1, <1>2, <1>3, <1>4, <1>5, SMT DEF OnlyAcks, Ordered
  <1>7. Acked(acks) = Objects(keys)
    <2>1. \A m \in Of(acks, {"Ack"}) : \E i \in 1 .. Len(keys) : m = acks[i]
      BY <1>2 DEF Of
    <2>2. \A i \in 1 .. Len(keys) : acks[i] \in Of(acks, {"Ack"})
      BY <1>2, <1>4 DEF Of
    <2> QED BY <1>4, <2>1, <2>2, SMT DEF Acked, Objects
  <1> QED BY <1>6, <1>7 DEF acks

\* One more acknowledgment.
LEMMA OneAck ==
    ASSUME NEW ms, NEW o, OnlyAcks(ms), o \notin Acked(ms)
    PROVE  /\ OnlyAcks(Append(ms, Ack(o))) /\ Acked(Append(ms, Ack(o))) = Acked(ms) \cup {o}
  <1> DEFINE m == Ack(o)
             one == <<m>>
  <1>1. m.type = "Ack" /\ m.object = o
    BY DEF Ack
  <1> HIDE DEF m
  <1>2. IsSeq(one) /\ Ordered(one) /\ Len(one) = 1 /\ one[1] = m
    BY OfOne
  <1> HIDE DEF one
  <1>3. OnlyAcks(one)
    BY <1>1, <1>2, SMT DEF OnlyAcks
  <1>4. Of(one, {"Ack"}) = {m}
    BY ONLY <1>1, OfOne DEF one
  <1>5. Acked(one) = {o}
    BY <1>1, <1>4 DEF Acked
  <1>6. OnlyAcks(ms \o one) /\ Acked(ms \o one) = Acked(ms) \cup {o}
    BY <1>3, <1>5, AcksConcat, SMT
  <1>7. Append(ms, m) = ms \o one
    <2> DEFINE S == {ms[i] : i \in DOMAIN ms} \cup {m}
    <2>1. ms \in Seq(S) /\ m \in S
      BY SMT DEF OnlyAcks, IsSeq
    <2> HIDE DEF S
    <2> QED BY <2>1, SMT DEF one
  <1> QED BY <1>6, <1>7 DEF m

\* One request behind acknowledgments.
LEMMA AcksThen ==
    ASSUME NEW ms, NEW m, OnlyAcks(ms), m.type \in {"Need", "Checked"}
    PROVE  LET ns == Append(ms, m)
           IN  /\ IsSeq(ns) /\ Ordered(ns) /\ Acked(ns) = Acked(ms)
               /\ \A T : "Ack" \notin T => Of(ns, T) = {n \in {m} : n.type \in T}
  <1> DEFINE ns == Append(ms, m)
  <1>1. IsSeq(ms) /\ Len(ms) \in Nat
    BY SeqParts DEF OnlyAcks
  <1>2. /\ IsSeq(ns) /\ Len(ns) = Len(ms) + 1 /\ ns[Len(ms) + 1] = m
        /\ \A i \in 1 .. Len(ms) : ns[i] = ms[i]
    BY <1>1, SeqAppend, ZenonT(30)
  <1> HIDE DEF ns
  <1>3. \A i \in 1 .. Len(ns) : (i \in 1 .. Len(ms) /\ ns[i] = ms[i]) \/ i = Len(ms) + 1
    BY <1>1, <1>2, SMT
  <1>4. \A i \in 1 .. Len(ms) : i \in 1 .. Len(ns)
    BY <1>1, <1>2, SMT
  <1>5. Len(ms) + 1 \in 1 .. Len(ns)
    BY <1>1, <1>2, SMT
  <1>6. Of(ns, {"Ack"}) = Of(ms, {"Ack"})
    BY <1>2, <1>3, <1>4 DEF Of
  <1>7. Acked(ns) = Acked(ms)
    BY <1>6 DEF Acked
  <1>8. ASSUME NEW T, "Ack" \notin T
        PROVE  Of(ns, T) = {n \in {m} : n.type \in T}
    BY <1>2, <1>3, <1>5, <1>8 DEF Of, OnlyAcks
  <1>9. Ordered(ns)
    <2>1. ASSUME NEW i \in 1 .. Len(ns), NEW j \in 1 .. Len(ns), i < j
          PROVE  i \in 1 .. Len(ms) /\ ns[i] = ms[i]
      BY <1>1, <1>2, <2>1, SMT
    <2> QED BY <1>2, <1>3, <2>1, SMT DEF OnlyAcks, Ordered
  <1> QED BY <1>2, <1>7, <1>8, <1>9 DEF ns

\* The end of a page and the request for the next one.
LEMMA AcksThenTwo ==
    ASSUME NEW ms, NEW m, NEW n, OnlyAcks(ms), m.type = "Checked", n.type = "Inventory"
    PROVE  LET ns == Append(Append(ms, m), n)
           IN  /\ IsSeq(ns) /\ Ordered(ns) /\ Acked(ns) = Acked(ms)
               /\ \A T : "Ack" \notin T => Of(ns, T) = {c \in {m, n} : c.type \in T}
  <1> DEFINE ls == Append(ms, m)
             ns == Append(ls, n)
  <1>1. IsSeq(ms) /\ Len(ms) \in Nat
    BY SeqParts DEF OnlyAcks
  <1>2. /\ IsSeq(ls) /\ Len(ls) = Len(ms) + 1 /\ ls[Len(ms) + 1] = m
        /\ \A i \in 1 .. Len(ms) : ls[i] = ms[i]
    BY <1>1, SeqAppend, SMT
  <1> HIDE DEF ls
  <1>3. /\ IsSeq(ns) /\ Len(ns) = Len(ls) + 1 /\ ns[Len(ls) + 1] = n
        /\ \A i \in 1 .. Len(ls) : ns[i] = ls[i]
    BY <1>2, SeqAppend, SMT
  <1> HIDE DEF ns
  <1>4. \A i \in 1 .. Len(ns) : \/ i \in 1 .. Len(ms) /\ ns[i] = ms[i]
                                \/ i = Len(ms) + 1 /\ ns[i] = m
                                \/ i = Len(ms) + 2 /\ ns[i] = n
    BY <1>1, <1>2, <1>3, SMT
  <1>5. /\ \A i \in 1 .. Len(ms) : i \in 1 .. Len(ns) /\ ns[i] = ms[i]
        /\ Len(ms) + 1 \in 1 .. Len(ns) /\ ns[Len(ms) + 1] = m
        /\ Len(ms) + 2 \in 1 .. Len(ns) /\ ns[Len(ms) + 2] = n
    BY <1>1, <1>2, <1>3, SMT
  <1>6. Of(ns, {"Ack"}) = Of(ms, {"Ack"})
    BY <1>4, <1>5, SMT DEF Of
  <1>7. Acked(ns) = Acked(ms)
    BY <1>6 DEF Acked
  <1>8. ASSUME NEW T, "Ack" \notin T
        PROVE  Of(ns, T) = {c \in {m, n} : c.type \in T}
    BY <1>4, <1>5, <1>8, SMT DEF Of, OnlyAcks
  <1>9. Ordered(ns)
    <2>1. ASSUME NEW i \in 1 .. Len(ns), NEW j \in 1 .. Len(ns), i < j
          PROVE  \/ i \in 1 .. Len(ms) /\ ns[i] = ms[i]
                 \/ ns[i] = m /\ ns[j] = n
      BY <1>1, <1>4, <2>1, SMT
    <2> QED BY <1>4, <2>1, SMT DEF OnlyAcks, Ordered
  <1> QED BY <1>3, <1>7, <1>8, <1>9 DEF ns, ls

\* One more key, different from the others.
LEMMA InjectiveAppend ==
    ASSUME NEW S, NEW s \in Seq(S), IsInjective(s), NEW e \in S, e \notin Range(s)
    PROVE  /\ Append(s, e) \in Seq(S) /\ IsInjective(Append(s, e))
           /\ Range(Append(s, e)) = Range(s) \cup {e}
           /\ Objects(Append(s, e)) = Objects(s) \cup {RecordObject(e)}
  <1> DEFINE t == Append(s, e)
  <1>1. /\ t \in Seq(S) /\ Len(s) \in Nat /\ Len(t) = Len(s) + 1
        /\ \A i \in 1 .. Len(s) : t[i] = s[i]
        /\ t[Len(s) + 1] = e
    BY SMT
  <1> HIDE DEF t
  <1>2. DOMAIN s = 1 .. Len(s) /\ DOMAIN t = 1 .. Len(t)
    BY <1>1, SMT
  <1>3. \A i \in 1 .. Len(t) : i \in 1 .. Len(s) \/ i = Len(s) + 1
    BY <1>1, SMT
  <1>4. \A i \in 1 .. Len(s) : i \in 1 .. Len(t) /\ t[i] = s[i] /\ s[i] # e
    BY <1>1, <1>2, SMT DEF Range
  <1>5. Len(s) + 1 \in 1 .. Len(t)
    BY <1>1, SMT
  <1>6. ASSUME NEW i \in 1 .. Len(t), NEW j \in 1 .. Len(t), t[i] = t[j]
        PROVE  i = j
    BY <1>1, <1>2, <1>3, <1>4, <1>6 DEF IsInjective
  <1>7. IsInjective(t)
    BY <1>2, <1>6 DEF IsInjective
  <1>8. Range(t) = Range(s) \cup {e}
    <2>1. Range(s) = {s[i] : i \in 1 .. Len(s)} /\ Range(t) = {t[i] : i \in 1 .. Len(t)}
      BY <1>2 DEF Range
    <2> QED BY <1>1, <1>3, <1>4, <1>5, <2>1
  <1>9. Objects(t) = Objects(s) \cup {RecordObject(e)}
    <2>1. ASSUME NEW o \in Objects(t)
          PROVE  o \in Objects(s) \cup {RecordObject(e)}
      <3>1. PICK i \in 1 .. Len(t) : o = RecordObject(t[i])
        BY <2>1 DEF Objects
      <3> QED BY <1>1, <1>3, <3>1 DEF Objects
    <2>2. ASSUME NEW o \in Objects(s)
          PROVE  o \in Objects(t)
      <3>1. PICK i \in 1 .. Len(s) : o = RecordObject(s[i])
        BY <2>2 DEF Objects
      <3>2. i \in 1 .. Len(t) /\ t[i] = s[i]
        BY <1>4
      <3> QED BY <3>1, <3>2 DEF Objects
    <2>3. RecordObject(e) \in Objects(t)
      BY <1>1, <1>5 DEF Objects
    <2> QED BY <2>1, <2>2, <2>3
  <1> QED BY <1>1, <1>7, <1>8, <1>9 DEF t
-----------------------------------------------------------------------------
(* What one side of a connection does not change of the other.             *)

\* What a pull says of its session: not the side that serves.
SamePull(s, t) == s.pull = t.pull /\ s.local = t.local /\ s.synchronizing = t.synchronizing

\* What is wanted of a page and what is being downloaded is read off the pull alone.
LEMMA WantedSame ==
    ASSUME NEW s, NEW t, NEW src, SamePull(s, t)
    PROVE  /\ Abreast(s, src) => Abreast(t, src)
           /\ \A o : Wanted(s, src, o) => Wanted(t, src, o)
           /\ \A o, n : Downloads(s, o, n) => Downloads(t, o, n)
  <1>1. Abreast(s, src) => Abreast(t, src)
    BY DEF SamePull, Abreast
  <1>2. ASSUME NEW K, InPage(s, src, K)
        PROVE  InPage(t, src, K)
    BY <1>1, <1>2 DEF SamePull, InPage
  <1>3. ASSUME NEW o, Wanted(s, src, o)
        PROVE  Wanted(t, src, o)
    BY <1>2, <1>3 DEF SamePull, Wanted
  <1>4. ASSUME NEW o, NEW n, Downloads(s, o, n)
        PROVE  Downloads(t, o, n)
    BY <1>4 DEF SamePull, Downloads
  <1> QED BY <1>1, <1>3, <1>4

\* Requests are told apart by their messages and their order only.
LEMMA RequestsSame ==
    ASSUME NEW s, NEW t, NEW src, NEW req, NEW ms, Requests(s, src, req), SamePull(s, t),
           Ordered(ms), \A T \in SUBSET Request : Of(ms, T) = Of(req, T)
    PROVE  Requests(t, src, ms)
  <1>1. /\ Of(ms, {"Need"}) = Of(req, {"Need"}) /\ Of(ms, {"Ack"}) = Of(req, {"Ack"})
        /\ Of(ms, {"Checked"}) = Of(req, {"Checked"})
        /\ Of(ms, {"Inventory"}) = Of(req, {"Inventory"})
        /\ Of(ms, {"Need", "Checked"}) = Of(req, {"Need", "Checked"})
    BY DEF Request
  <1>2. Acked(ms) = Acked(req)
    BY <1>1 DEF Acked
  <1>3. ASSUME NEW m, NEW acked
        PROVE  /\ NeedSent(s, src, m, acked) => NeedSent(t, src, m, acked)
               /\ InventorySent(s, src, m) => InventorySent(t, src, m)
    <2>1. NeedSent(s, src, m, acked) => NeedSent(t, src, m, acked)
      BY WantedSame DEF SamePull, NeedSent
    <2>2. InventorySent(s, src, m) => InventorySent(t, src, m)
      BY WantedSame DEF SamePull, InventorySent
    <2> QED BY <2>1, <2>2
  <1> QED BY <1>1, <1>2, <1>3 DEF Requests, SamePull

\* So are responses.
LEMMA ResponsesSame ==
    ASSUME NEW s, NEW t, NEW src, NEW req, NEW rsp, NEW ms, NEW ns,
           Responses(s, src, req, rsp), SamePull(s, t),
           Lone(ns), Of(ns, Response) \subseteq Of(rsp, Response),
           Of(ms, Request) \subseteq Of(req, Request)
    PROVE  Responses(t, src, ms, ns)
  <1>1. ASSUME NEW m
        PROVE  /\ PageSent(s, src, m) => PageSent(t, src, m)
               /\ ChunkSent(s, src, m) => ChunkSent(t, src, m)
               /\ MissingSent(s, src, m) => MissingSent(t, src, m)
    <2>1. PageSent(s, src, m) => PageSent(t, src, m)
      BY DEF SamePull, PageSent
    <2>2. ChunkSent(s, src, m) => ChunkSent(t, src, m)
      BY WantedSame DEF SamePull, ChunkSent
    <2>3. MissingSent(s, src, m) => MissingSent(t, src, m)
      BY WantedSame DEF SamePull, MissingSent
    <2> QED BY <2>1, <2>2, <2>3
  <1> QED BY <1>1 DEF Responses

\* A response is handled or a new round asked for at the other side.
LEMMA PullFrame ==
    ASSUME NEW s, NEW t, NEW src, NEW req, NEW rsp, NEW b, IsSeq(req), IsSeq(rsp), IsSeq(b),
           SamePull(s, t), req # << >>, Head(req).type \notin Request, Of(b, Response) = {}
    PROVE  /\ Requests(s, src, req) => Requests(t, src, Tail(req))
           /\ Responses(s, src, req, rsp) => Responses(t, src, Tail(req), rsp \o b)
  <1>1. ASSUME NEW T \in SUBSET Request
        PROVE  Of(Tail(req), T) = Of(req, T)
    BY OfTail
  <1>2. Of(rsp \o b, Response) = Of(rsp, Response)
    BY OfConcat, SMT
  <1>3. Lone(rsp) => Lone(rsp \o b)
    BY OrderConcat
  <1>4. Ordered(req) => Ordered(Tail(req))
    BY OrderTail
  <1>5. Of(Tail(req), Request) = Of(req, Request)
    BY <1>1
  <1>6. Requests(s, src, req) => Requests(t, src, Tail(req))
    BY <1>1, <1>4, RequestsSame DEF Requests
  <1>7. Responses(s, src, req, rsp) => Responses(t, src, Tail(req), rsp \o b)
    BY <1>2, <1>3, <1>5, ResponsesSame, ZenonT(30) DEF Responses
  <1> QED BY <1>6, <1>7

\* A request is handled at the other side.
LEMMA ServeFrame ==
    ASSUME NEW s, NEW t, NEW src, NEW req, NEW rsp, NEW b, IsSeq(req), IsSeq(rsp), IsSeq(b),
           SamePull(s, t), rsp # << >>, Head(rsp).type \notin Response, Of(b, Request) = {}
    PROVE  /\ Requests(s, src, req) => Requests(t, src, req \o b)
           /\ Responses(s, src, req, rsp) => Responses(t, src, req \o b, Tail(rsp))
  <1>1. ASSUME NEW T \in SUBSET Request
        PROVE  Of(req \o b, T) = Of(req, T)
    <2>1. Of(b, T) \subseteq Of(b, Request)
      BY OfFewer
    <2>2. Of(req \o b, T) = Of(req, T) \cup Of(b, T)
      BY OfConcat, SMT
    <2> QED BY <2>1, <2>2
  <1>2. Of(Tail(rsp), Response) = Of(rsp, Response)
    BY OfTail
  <1>3. Lone(rsp) => Lone(Tail(rsp))
    BY OrderTail
  <1>4. Ordered(req) => Ordered(req \o b)
    BY OrderConcat
  <1>5. Of(req \o b, Request) = Of(req, Request)
    BY <1>1
  <1>6. Requests(s, src, req) => Requests(t, src, req \o b)
    BY <1>1, <1>4, RequestsSame DEF Requests
  <1>7. Responses(s, src, req, rsp) => Responses(t, src, req \o b, Tail(rsp))
    BY <1>2, <1>3, <1>5, ResponsesSame DEF Responses
  <1> QED BY <1>6, <1>7

\* A message is lost with the session that was to handle it.
LEMMA LossFrame ==
    ASSUME NEW s, NEW t, NEW src, NEW req, NEW rsp, IsSeq(req), IsSeq(rsp), SamePull(s, t),
           Responses(s, src, req, rsp)
    PROVE  /\ req # << >> => Responses(t, src, Tail(req), rsp)
           /\ rsp # << >> => Responses(t, src, req, Tail(rsp))
  <1>1. req # << >> => Of(Tail(req), Request) \subseteq Of(req, Request)
    BY OfTail
  <1>2. rsp # << >> => Of(Tail(rsp), Response) \subseteq Of(rsp, Response) /\ Lone(Tail(rsp))
    BY OfTail, OrderTail, ZenonT(30) DEF Responses
  <1> QED BY <1>1, <1>2, ResponsesSame DEF Responses

-----------------------------------------------------------------------------
(* What is counted and listed.                                             *)

BlobObjects == {BlobObject(k, h) : k \in Key, h \in Hash}

\* The objects of content are the pairs of a record and a hash.
LEMMA BlobPairs ==
    /\ \A c \in Key \X Hash : BlobObject(c[1], c[2]) \in BlobObjects
    /\ \A o \in BlobObjects : \E c \in Key \X Hash : BlobObject(c[1], c[2]) = o
  <1>1. \A c \in Key \X Hash : BlobObject(c[1], c[2]) \in BlobObjects
    BY SMT DEF BlobObjects
  <1>2. ASSUME NEW k \in Key, NEW h \in Hash
        PROVE  \E c \in Key \X Hash : BlobObject(c[1], c[2]) = BlobObject(k, h)
    <2>1. <<k, h>> \in Key \X Hash /\ <<k, h>>[1] = k /\ <<k, h>>[2] = h
      OBVIOUS
    <2> QED BY <2>1
  <1>3. \A o \in BlobObjects : \E c \in Key \X Hash : BlobObject(c[1], c[2]) = o
    BY <1>2, SMT DEF BlobObjects
  <1> QED BY <1>1, <1>3

\* A snapshot and the content its records refer to can be listed, a part of
\* a page keeps its order, and the records staged beside one of their page
\* are fewer than the page.
Counting ==
    /\ \A S \in SUBSET Key : IsListing(Listing(S), S)
    /\ \A W \in SUBSET BlobObjects : Listing(W) \in Seq(W)
    /\ \A keys \in Seq(Key) : \A K \in SUBSET Range(keys) :
         IsInjective(keys) => IsListing(Kept(keys, K), K)
    /\ \A keys \in Seq(Key) : \A k \in Range(keys) : \A staged \in Seq(Range(keys) \ {k}) :
         Cardinality(Objects(staged)) \in 0 .. (Len(keys) - 1)
    /\ Cardinality({}) = 0
-----------------------------------------------------------------------------
(* The side that serves.                                                   *)

\* While a request is under way no response is.
LEMMA NoResponse ==
    ASSUME NEW s, NEW src, NEW req, NEW rsp, IsSeq(req), Responses(s, src, req, rsp),
           req # << >>, Head(req).type \in Request
    PROVE  Of(rsp, Response) = {} /\ Head(req) \in Of(req, Request)
  BY OfTail, ZenonT(30) DEF Responses

\* After the last request there is nothing to serve.
LEMMA Served ==
    ASSUME NEW s, NEW src, NEW ms, s.synchronizing, Ordered(ms), Of(ms, Request) = {}
    PROVE  Requests(s, src, ms)
  <1>1. \A T \in SUBSET Request : Of(ms, T) = {}
    BY OfFewer
  <1>2. /\ Of(ms, {"Need"}) = {} /\ Of(ms, {"Ack"}) = {} /\ Of(ms, {"Checked"}) = {}
        /\ Of(ms, {"Inventory"}) = {}
    BY <1>1 DEF Request
  <1>3. Acked(ms) = {}
    BY <1>2 DEF Acked
  <1> QED BY <1>2, <1>3 DEF Requests

\* The response to the last request.
LEMMA Answered ==
    ASSUME NEW s, NEW src, NEW ms, NEW rsp, NEW a, IsSeq(rsp), Lone(rsp), Of(rsp, Response) = {},
           Of(ms, Request) = {}, a.type \in Response,
           a.type = "Page" => PageSent(s, src, a),
           a.type = "Chunk" => ChunkSent(s, src, a),
           a.type = "Missing" => MissingSent(s, src, a)
    PROVE  Responses(s, src, ms, rsp \o <<a>>)
  <1> DEFINE one == <<a>>
  <1>1. IsSeq(one) /\ Lone(one) /\ Of(one, Response) = {a}
    BY OfOne
  <1> HIDE DEF one
  <1>2. Lone(rsp \o one)
    BY <1>1, OrderConcat
  <1>3. Of(rsp \o one, Response) = {a}
    <2>1. IsSeq(one)
      BY <1>1
    <2>2. Of(rsp \o one, Response) = Of(rsp, Response) \cup Of(one, Response)
      BY ONLY <2>1, IsSeq(rsp), OfConcat, SMT
    <2> QED BY <1>1, <2>2
  <1>4. Responses(s, src, ms, rsp \o one)
    BY <1>1, <1>2, <1>3 DEF Responses
  <1> QED BY <1>4 DEF one

\* What a handler of a request may change of its session.
Serves(t, x) ==
    /\ x.s.failed = t.failed /\ x.s.accepted = t.accepted /\ SamePull(t, x.s)
    /\ SourceOK(x.s.source)

\* An inventory is answered with the page the puller stands before.
LEMMA InventoryServed ==
    ASSUME Counting,
           NEW s, NEW t, NEW d, NEW m, IsSession(t), IsDisk(d), d.recs \subseteq Key,
           SourceOK(t.source), Quiet(t.source), InventorySent(s, t.source, m)
    PROVE  LET x == inventory(t, d, m.after)
           IN  /\ Serves(t, x)
               /\ \E a : /\ x.replies = <<a>> /\ a.type = "Page"
                         /\ PageSent(s, x.s.source, a)
               /\ x.d \in {d, synced(d)}
  <1> DEFINE src == t.source
             after == m.after
             frozen == IF after = None THEN freeze(src, d) ELSE src
             end == IF frozen.next + PageLimit < Len(frozen.order)
                    THEN frozen.next + PageLimit ELSE Len(frozen.order)
             part == SubSeq(frozen.order, frozen.next + 1, end)
             more == end < Len(frozen.order)
             last == IF part = << >> THEN None ELSE Some(part[Len(part)])
             new == [frozen EXCEPT !.next = end, !.more = more, !.awaiting_check = TRUE,
                       !.cursor = last]
             t1 == [t EXCEPT !.source = new]
             a == Page(frozen.next, Len(frozen.order), part, more)
             e == IF after = None THEN synced(d) ELSE d
             pl == s.pull
  <1>1. inventory(t, d, after) = Outcome(t1, e, <<a>>)
    BY DEF inventory, Quiet, InventorySent
  <1>2. SourceShape(frozen) /\ Quiet(frozen)
    BY DEF SourceOK, SourceShape, Quiet, freeze
  <1>3. /\ IsListing(frozen.order, frozen.snapshot) /\ frozen.snapshot \subseteq Key
        /\ frozen.next \in 0 .. Len(frozen.order) /\ Len(frozen.order) \in Nat
        /\ pl.position = frozen.next /\ pl.total \in {None, Some(Len(frozen.order))}
        /\ \A i \in 1 .. frozen.next : frozen.order[i] \in s.local
    <2>1. CASE after = None
      <3>2. IsListing(ordered_keys(d.recs), d.recs)
        BY DEF Counting, ordered_keys
      <3>3. /\ frozen.order = ordered_keys(d.recs) /\ frozen.snapshot = d.recs /\ frozen.next = 0
        BY <2>1 DEF freeze, SourceOK, SourceShape
      <3>4. Len(frozen.order) \in Nat
        BY <3>2, <3>3, SMT DEF IsListing
      <3> HIDE DEF frozen
      <3>5. pl.position = 0 /\ pl.total = None
        BY <2>1 DEF InventorySent
      <3> QED BY <3>2, <3>3, <3>4, <3>5, SMT
    <2>2. CASE after # None
      <3>1. frozen = src
        BY <2>2
      <3> HIDE DEF frozen
      <3>2. Len(src.order) \in Nat
        BY SMT DEF SourceOK, IsListing
      <3> QED BY <2>2, <3>1, <3>2 DEF SourceOK, InventorySent, Abreast
    <2> QED BY <2>1, <2>2
  <1> HIDE DEF frozen
  <1>4. /\ end \in 0 .. Len(frozen.order) /\ frozen.next \in 0 .. end
        /\ end <= frozen.next + PageLimit
        /\ more => frozen.next < end
    BY <1>3, SessionAssumption, SMT
  <1> HIDE DEF end, more, last
  <1>5. /\ SourceShape(new)
        /\ new.next = end /\ new.more = more /\ new.awaiting_check /\ new.cursor = last
        /\ new.order = frozen.order /\ new.snapshot = frozen.snapshot
        /\ new.active = None /\ new.unacked = {}
    BY <1>2 DEF SourceShape, Quiet
  <1> HIDE DEF new
  <1>6. SourceOK(new)
    BY <1>3, <1>4, <1>5 DEF SourceOK
  <1>7. t1.source = new /\ t1.failed = t.failed /\ t1.accepted = t.accepted /\ SamePull(t, t1)
    BY DEF IsSession, SessionShape, SamePull
  <1> HIDE DEF t1
  <1>8. /\ s.synchronizing /\ pl.waiting_page /\ pl.staged = << >> /\ pl.blobs = << >>
    BY DEF InventorySent
  <1>9. /\ a.type = "Page" /\ a.offset = frozen.next /\ a.total = Len(frozen.order)
        /\ a.records = part /\ a.more = more
    BY DEF Page
  <1>10. PageSent(s, new, a)
    <2> HIDE DEF a, part, pl
    <2>1. last = IF part = << >> THEN None ELSE Some(part[Len(part)])
      BY DEF last
    <2>2. more = (end < Len(frozen.order))
      BY DEF more
    <2>3. part = SubSeq(frozen.order, frozen.next + 1, end)
      BY DEF part
    <2> QED BY <1>3, <1>4, <1>5, <1>8, <1>9, <2>1, <2>2, <2>3 DEF PageSent, pl
  <1> HIDE DEF a, e
  <1>11. LET x == Outcome(t1, e, <<a>>)
         IN  x.s = t1 /\ x.d = e /\ x.replies = <<a>>
    BY DEF Outcome
  <1>12. e \in {d, synced(d)}
    BY DEF e
  <1> QED BY <1>1, <1>6, <1>7, <1>9, <1>10, <1>11, <1>12 DEF Serves

\* The records staged in a page leave room for one more unacknowledged object.
LEMMA StagedRoom ==
    ASSUME Counting, NEW s, NEW src, NEW k, SourceOK(src), InPage(s, src, {k})
    PROVE  ~(Cardinality(Objects(s.pull.staged)) >= PageLimit)
  <1> DEFINE keys == s.pull.keys
             staged == s.pull.staged
  <1>1. /\ keys \in Seq(src.snapshot) /\ Len(keys) <= PageLimit /\ src.snapshot \subseteq Key
        /\ staged \in Seq(Range(keys)) /\ k \in Range(keys) /\ k \notin Range(staged)
    BY DEF InPage, SourceOK
  <1> HIDE DEF keys, staged
  <1>2. keys \in Seq(Key) /\ Len(keys) \in Nat /\ PageLimit \in Nat
    BY <1>1, SessionAssumption, SMT
  <1>3. staged \in Seq(Range(keys) \ {k})
    BY <1>1, SMT DEF Range
  <1>4. Cardinality(Objects(staged)) \in 0 .. (Len(keys) - 1)
    BY <1>1, <1>2, <1>3, SMT DEF Counting
  <1>5. ~(Cardinality(Objects(staged)) >= PageLimit)
    BY <1>1, <1>2, <1>4, SMT
  <1> QED BY <1>5 DEF staged

\* What is wanted: an object of the page's snapshot, of known length.
LEMMA WantedObject ==
    ASSUME Counting,
           NEW s, NEW src, NEW o, SourceOK(src), Wanted(s, src, o)
    PROVE  /\ o.record \in src.snapshot /\ Length(o) \in Nat /\ src.awaiting_check
           /\ s.synchronizing
           /\ o \notin Objects(s.pull.staged)
           /\ ~(Cardinality(Objects(s.pull.staged)) >= PageLimit)
  <1>1. PICK k \in Range(s.pull.keys) :
          \/ o = RecordObject(k) /\ InPage(s, src, {k})
          \/ /\ \E h \in Hash : o = BlobObject(k, h)
             /\ InPage(s, src, {}) /\ s.pull.records = << >> /\ s.pull.staged = << >>
    BY DEF Wanted
  <1>2. s.pull.keys \in Seq(src.snapshot) /\ src.awaiting_check /\ s.synchronizing
    BY <1>1 DEF InPage, Abreast
  <1>3. k \in src.snapshot
    BY <1>2, SMT DEF Range
  <1>4. k \in Key
    BY <1>3 DEF SourceOK
  <1>5. CASE o = RecordObject(k) /\ InPage(s, src, {k})
    <2>1. ~(Cardinality(Objects(s.pull.staged)) >= PageLimit)
      BY <1>5, StagedRoom
    <2>2. k \notin Range(s.pull.staged) /\ s.pull.staged \in Seq(Range(s.pull.keys))
      BY <1>5 DEF InPage
    <2>3. o.record = k /\ o.blob = None
      BY <1>5 DEF RecordObject
    <2>4. \A i \in 1 .. Len(s.pull.staged) : s.pull.staged[i] \in Range(s.pull.staged)
      BY <2>2, SMT DEF Range
    <2>5. o \notin Objects(s.pull.staged)
      BY <2>2, <2>3, <2>4, SMT DEF Objects, RecordObject
    <2>6. Length(o) \in Nat
      BY <1>4, <2>3, SessionAssumption DEF Length
    <2> QED BY <1>2, <1>3, <2>1, <2>3, <2>5, <2>6
  <1>6. CASE (\E h \in Hash : o = BlobObject(k, h)) /\ s.pull.staged = << >>
    <2>1. PICK h \in Hash : o = BlobObject(k, h)
      BY <1>6
    <2>2. o.record = k /\ o.blob # None /\ o.blob[1] = h
      BY <2>1 DEF BlobObject, Some, None
    <2>3. Length(o) \in Nat
      BY <2>2, SessionAssumption DEF Length
    <2>4. Objects(s.pull.staged) = {}
      BY <1>6, SMT DEF Objects
    <2>5. ~(Cardinality({}) >= PageLimit)
      BY SessionAssumption, SMT DEF Counting
    <2> QED BY <1>2, <1>3, <2>2, <2>3, <2>4, <2>5
  <1> QED BY <1>1, <1>5, <1>6

\* A need is answered with a chunk, or with the message that the content is
\* not here.
LEMMA NeedServed ==
    ASSUME Counting,
           NEW s, NEW t, NEW d, NEW m, IsSession(t), SourceOK(t.source),
           NeedSent(s, t.source, m, {})
    PROVE  LET x == need(t, d, m.object, m.offset)
           IN  /\ Serves(t, x) /\ x.d = d
               /\ \E a : /\ x.replies = <<a>> /\ a.type \in {"Chunk", "Missing"}
                         /\ a.type = "Chunk" => ChunkSent(s, x.s.source, a)
                         /\ a.type = "Missing" => MissingSent(s, x.s.source, a)
  <1> DEFINE src == t.source
             o == m.object
             offset == m.offset
             staged == Objects(s.pull.staged)
             absent == offset = 0 /\ o.blob # None
                         /\ o.blob[1] \notin d.blobs \cap HashesOf[o.record]
             length == IF offset < Length(o) THEN 1 ELSE 0
             end == offset + length
             act == IF end = Length(o) THEN None ELSE Some([object |-> o, next |-> end])
             una == IF end = Length(o) THEN src.unacked \cup {o} ELSE src.unacked
             new == [src EXCEPT !.active = act, !.unacked = una]
             t1 == [t EXCEPT !.source = new]
             m1 == Missing(o)
             m2 == Chunk(o, offset, length)
  <1>1. /\ Wanted(s, src, o) /\ Downloads(s, o, offset)
        /\ offset \in Nat /\ (offset # 0 => offset < Length(o))
        /\ src.active = IF offset = 0 THEN None ELSE Some([object |-> o, next |-> offset])
        /\ src.unacked = staged
    BY DEF NeedSent
  <1>2. /\ o.record \in src.snapshot /\ Length(o) \in Nat /\ src.awaiting_check
        /\ o \notin staged /\ ~(Cardinality(staged) >= PageLimit)
    BY <1>1, WantedObject
  <1>3. ~(Cardinality(src.unacked) >= PageLimit)
    BY <1>1, <1>2
  <1> HIDE DEF staged
  <1>4. t1 = [t EXCEPT !.source.active = act,
                       !.source.unacked = IF end = Length(o) THEN @ \cup {o} ELSE @]
    <2> HIDE DEF act, end
    <2> QED BY DEF IsSession, SessionShape
  <1>5. need(t, d, o, offset) = IF absent THEN Outcome(t, d, <<m1>>) ELSE Outcome(t1, d, <<m2>>)
    <2> HIDE DEF t1, m1, m2
    <2>1. need(t, d, o, offset) = IF absent THEN Outcome(t, d, <<Missing(o)>>)
            ELSE Outcome([t EXCEPT !.source.active = act,
                            !.source.unacked = IF end = Length(o) THEN @ \cup {o} ELSE @],
                         d, <<Chunk(o, offset, length)>>)
      <3> HIDE DEF o, offset
      <3> QED BY <1>1, <1>2, <1>3 DEF need
    <2> QED BY <1>4, <2>1 DEF m1, m2
  <1>6. /\ m1.type = "Missing" /\ m1.object = o
        /\ m2.type = "Chunk" /\ m2.object = o /\ m2.offset = offset /\ m2.total = Length(o)
        /\ m2.length = length
    BY DEF Missing, Chunk
  <1> HIDE DEF m1, m2
  <1>7. CASE absent
    <2>1. src.active = None /\ offset = 0 /\ o.blob # None
      BY <1>1, <1>7
    <2>2. MissingSent(s, src, m1)
      BY <1>1, <1>6, <2>1 DEF MissingSent, staged
    <2>3. Serves(t, Outcome(t, d, <<m1>>))
      BY DEF Serves, Outcome, SamePull
    <2>4. LET x == Outcome(t, d, <<m1>>) IN x.s.source = src /\ x.d = d /\ x.replies = <<m1>>
      BY DEF Outcome
    <2> QED BY <1>5, <1>6, <1>7, <2>2, <2>3, <2>4
  <1>8. CASE ~absent
    <2>1. /\ SourceShape(new) /\ new.active = act /\ new.unacked = una
          /\ new.order = src.order /\ new.snapshot = src.snapshot /\ new.next = src.next
          /\ new.more = src.more /\ new.cursor = src.cursor
          /\ new.awaiting_check = src.awaiting_check
      <3> HIDE DEF act, una
      <3> QED BY DEF SourceOK, SourceShape
    <2> HIDE DEF new
    <2>2. SourceOK(new)
      BY <2>1 DEF SourceOK
    <2>3. /\ t1.source = new /\ t1.failed = t.failed /\ t1.accepted = t.accepted /\ SamePull(t, t1)
      BY DEF IsSession, SessionShape, SamePull
    <2> HIDE DEF t1
    <2>4. Wanted(s, new, o)
      BY <1>1, <2>1, ZenonT(30) DEF Wanted, InPage, Abreast
    <2>5. /\ end \in 0 .. Length(o) /\ offset \in 0 .. Length(o)
      BY <1>1, <1>2, SMT
    <2>6. ChunkSent(s, new, m2)
      <3>1. IF end = Length(o) THEN new.active = None /\ new.unacked = staged \cup {o}
            ELSE new.active = Some([object |-> o, next |-> end]) /\ new.unacked = staged
        BY <1>1, <2>1
      <3> HIDE DEF o, offset
      <3> QED BY <1>1, <1>6, <2>4, <2>5, <3>1 DEF ChunkSent, staged
    <2>7. LET x == Outcome(t1, d, <<m2>>) IN x.s = t1 /\ x.d = d /\ x.replies = <<m2>>
      BY DEF Outcome
    <2> QED BY <1>5, <1>6, <1>8, <2>2, <2>3, <2>6, <2>7 DEF Serves
  <1> QED BY <1>7, <1>8

\* An acknowledgment is of an object that waits for it.
LEMMA AckServed ==
    ASSUME NEW s, NEW t, NEW d, NEW req, IsSession(t), SourceOK(t.source), IsSeq(req),
           req # << >>, Head(req).type = "Ack", Requests(s, t.source, req)
    PROVE  LET x == ack(t, d, Head(req).object)
           IN  /\ Serves(t, x) /\ x.d = d /\ x.replies = << >>
               /\ Requests(s, x.s.source, Tail(req))
  <1> DEFINE src == t.source
             o == Head(req).object
             tl == Tail(req)
             A == Acked(req)
             new == [src EXCEPT !.unacked = @ \ {o}]
             t1 == [t EXCEPT !.source = new]
             staged == Objects(s.pull.staged)
  <1>1. /\ Ordered(tl) /\ Ordered(req)
    BY OrderTail DEF Requests
  <1>2. o \notin Acked(tl)
    BY <1>1, OrderHead DEF Request
  <1>3. /\ Of(req, {"Need"}) = Of(tl, {"Need"}) /\ Of(req, {"Checked"}) = Of(tl, {"Checked"})
        /\ Of(req, {"Inventory"}) = Of(tl, {"Inventory"})
        /\ Of(req, {"Need", "Checked"}) = Of(tl, {"Need", "Checked"})
    BY OfTail
  <1>4. Of(req, {"Ack"}) = Of(tl, {"Ack"}) \cup {Head(req)}
    BY OfTail
  <1>5. A = Acked(tl) \cup {o}
    BY <1>4 DEF Acked
  <1>6. Acked(tl) = A \ {o}
    BY <1>2, <1>5
  <1>7. Of(req, {"Need", "Checked"}) # {}
    BY <1>5 DEF Requests
  <1>8. /\ \A m \in Of(req, {"Need", "Checked"}) : m \in Of(req, {"Need"}) \/ m \in Of(req, {"Checked"})
    <2>1. \A m \in Of(req, {"Need", "Checked"}) : m.type \in {"Need", "Checked"}
      BY OfPlaces
    <2>2. \A m \in Of(req, {"Need", "Checked"}) : m.type \in {"Need"} => m \in Of(req, {"Need"})
      BY OfFewer
    <2>3. \A m \in Of(req, {"Need", "Checked"}) : m.type \in {"Checked"} => m \in Of(req, {"Checked"})
      BY OfFewer
    <2> QED BY <2>1, <2>2, <2>3
  <1> HIDE DEF A, tl, o
  <1>9. o \in src.unacked
    BY <1>5, <1>7, <1>8 DEF Requests, NeedSent, CheckedSent, A
  <1>10. /\ SourceShape(new) /\ new.unacked = src.unacked \ {o}
         /\ new.order = src.order /\ new.snapshot = src.snapshot /\ new.next = src.next
         /\ new.more = src.more /\ new.cursor = src.cursor /\ new.active = src.active
         /\ new.awaiting_check = src.awaiting_check
    BY DEF SourceOK, SourceShape
  <1>11. /\ t1.source = new /\ t1.failed = t.failed /\ t1.accepted = t.accepted /\ SamePull(t, t1)
    <2> HIDE DEF new
    <2> QED BY DEF IsSession, SessionShape, SamePull
  <1>12. ack(t, d, o) = Outcome(t1, d, << >>)
    BY <1>9 DEF ack, IsSession, SessionShape
  <1> HIDE DEF new, t1
  <1>13. SourceOK(new)
    BY <1>10 DEF SourceOK
  <1>14. ASSUME NEW m \in Of(tl, {"Need"})
         PROVE  NeedSent(s, new, m, Acked(tl))
    <2>1. NeedSent(s, src, m, A)
      BY <1>3, <1>14 DEF Requests, A
    <2>2. Wanted(s, new, m.object)
      BY <1>10, <2>1, ZenonT(30) DEF NeedSent, Wanted, InPage, Abreast
    <2>3. src.unacked = A \cup staged /\ A \cap staged = {}
      BY <2>1 DEF NeedSent
    <2>4. new.unacked = Acked(tl) \cup staged /\ Acked(tl) \cap staged = {}
      BY <1>5, <1>6, <1>10, <2>3
    <2> QED BY <1>10, <2>1, <2>2, <2>4 DEF NeedSent
  <1>15. ASSUME NEW m \in Of(tl, {"Checked"})
         PROVE  CheckedSent(new, m, Acked(tl))
    BY <1>3, <1>6, <1>10, <1>15 DEF Requests, CheckedSent, A
  <1>16. ASSUME NEW m \in Of(tl, {"Inventory"})
         PROVE  InventorySent(s, new, m)
    BY <1>3, <1>10, <1>16 DEF Requests, InventorySent, Abreast
  <1>17. ~Quiet(src)
    BY <1>9 DEF Quiet
  <1>18. Requests(s, new, tl)
    BY <1>1, <1>3, <1>7, <1>14, <1>15, <1>16, <1>17 DEF Requests
  <1>19. LET x == Outcome(t1, d, << >>) IN x.s = t1 /\ x.d = d /\ x.replies = << >>
    BY DEF Outcome
  <1> QED BY <1>11, <1>12, <1>13, <1>18, <1>19 DEF Serves, o, tl

\* The end of a page is where the source stands.
LEMMA CheckedServed ==
    ASSUME NEW s, NEW t, NEW d, NEW req, IsSession(t), SourceOK(t.source), IsSeq(req),
           req # << >>, Head(req).type = "Checked", Requests(s, t.source, req)
    PROVE  LET x == checked(t, d, Head(req).end)
           IN  /\ Serves(t, x) /\ x.d = d /\ x.replies = << >>
               /\ Requests(s, x.s.source, Tail(req))
  <1> DEFINE src == t.source
             m == Head(req)
             tl == Tail(req)
             new == [src EXCEPT !.awaiting_check = FALSE]
             t1 == [t EXCEPT !.source = new]
  <1>1. /\ Ordered(tl) /\ Ordered(req)
    BY OrderTail DEF Requests
  <1>2. \A n \in Of(tl, Request) : n.type = "Inventory"
    BY <1>1, OrderHead DEF Request
  <1>3. /\ Of(tl, {"Need"}) = {} /\ Of(tl, {"Checked"}) = {} /\ Of(tl, {"Ack"}) = {}
    <2>1. \A T \in SUBSET (Request \ {"Inventory"}) :
            \A n \in Of(tl, T) : n \in Of(tl, Request) /\ n.type \in T
      BY OfFewer, OfPlaces
    <2> QED BY <1>2, <2>1 DEF Request
  <1>4. /\ Of(req, {"Ack"}) = Of(tl, {"Ack"}) /\ Of(req, {"Inventory"}) = Of(tl, {"Inventory"})
    BY OfTail
  <1>5. m \in Of(req, {"Checked"})
    BY OfTail
  <1>6. Acked(req) = {} /\ Acked(tl) = {}
    BY <1>3, <1>4 DEF Acked
  <1>7. CheckedSent(src, m, {})
    BY <1>5, <1>6 DEF Requests
  <1> HIDE DEF m, tl
  <1>8. /\ SourceShape(new) /\ ~new.awaiting_check
        /\ new.order = src.order /\ new.snapshot = src.snapshot /\ new.next = src.next
        /\ new.more = src.more /\ new.cursor = src.cursor /\ new.active = src.active
        /\ new.unacked = src.unacked
    BY DEF SourceOK, SourceShape
  <1>9. /\ t1.source = new /\ t1.failed = t.failed /\ t1.accepted = t.accepted /\ SamePull(t, t1)
    <2> HIDE DEF new
    <2> QED BY DEF IsSession, SessionShape, SamePull
  <1>10. checked(t, d, m.end) = Outcome(t1, d, << >>)
    BY <1>7 DEF checked, CheckedSent, IsSession, SessionShape
  <1> HIDE DEF new, t1
  <1>11. SourceOK(new)
    BY <1>8 DEF SourceOK
  <1>12. Quiet(new)
    BY <1>7, <1>8 DEF Quiet, CheckedSent
  <1>13. ASSUME NEW n \in Of(tl, {"Inventory"})
         PROVE  InventorySent(s, new, n)
    BY <1>4, <1>8, <1>13 DEF Requests, InventorySent, Abreast
  <1>14. Requests(s, new, tl)
    BY <1>1, <1>3, <1>6, <1>12, <1>13 DEF Requests
  <1>15. LET x == Outcome(t1, d, << >>) IN x.s = t1 /\ x.d = d /\ x.replies = << >>
    BY DEF Outcome
  <1> QED BY <1>9, <1>10, <1>11, <1>14, <1>15 DEF Serves, m, tl

\* No message to greet with or to ask for: what a source sends.
FromSource(ms) == IsSeq(ms) /\ Of(ms, Request \cup {"Hello"}) = {}

\* A request of a peer that follows the protocol is served, and leaves the two
\* sides as the invariant has them.
LEMMA ServeStep ==
    ASSUME Counting,
           NEW s, NEW t, NEW d, NEW req, NEW rsp, IsSession(t), IsDisk(d), d.recs \subseteq Key,
           SourceOK(t.source), t.accepted, IsSeq(req), IsSeq(rsp), req # << >>,
           Head(req).type \in Request, Requests(s, t.source, req), Responses(s, t.source, req, rsp)
    PROVE  LET x == process(t, d, Head(req))
           IN  /\ Serves(t, x) /\ x.d \in {d, synced(d)} /\ FromSource(x.replies)
               /\ Requests(s, x.s.source, Tail(req))
               /\ Responses(s, x.s.source, Tail(req), rsp \o x.replies)
  <1> DEFINE m == Head(req)
             tl == Tail(req)
             src == t.source
             x == process(t, d, m)
  <1>1. Of(rsp, Response) = {} /\ Lone(rsp)
    BY NoResponse DEF Responses
  <1>2. Ordered(tl) /\ Ordered(req)
    BY OrderTail DEF Requests
  <1>3. ASSUME NEW a, a.type \in Response
        PROVE  FromSource(<<a>>)
    <2>1. a.type \notin Request \cup {"Hello"}
      BY <1>3 DEF Request, Response
    <2> QED BY ONLY <2>1, OfOne DEF FromSource
  <1>4. ASSUME m.type \in {"Need", "Inventory"}
        PROVE  /\ Of(tl, Request) = {} /\ Of(req, {"Ack"}) = {} /\ Of(req, {"Checked"}) = {}
               /\ Acked(req) = {}
    <2>1. Of(tl, Request) = {}
      BY <1>2, <1>4, OrderHead
    <2>2. Of(tl, {"Ack"}) = {} /\ Of(tl, {"Checked"}) = {}
      <3>1. /\ Of(tl, {"Ack"}) \subseteq Of(tl, Request)
            /\ Of(tl, {"Checked"}) \subseteq Of(tl, Request)
        BY ONLY OfFewer DEF Request
      <3> QED BY <2>1, <3>1
    <2>3. Of(req, {"Ack"}) = Of(tl, {"Ack"}) /\ Of(req, {"Checked"}) = Of(tl, {"Checked"})
      BY <1>4, OfTail
    <2> QED BY <2>1, <2>2, <2>3 DEF Acked
  <1>5. m.type \in Request
    OBVIOUS
  <1> HIDE DEF m, tl
  <1>6. ASSUME x.replies = << >>, Requests(s, x.s.source, tl)
        PROVE  /\ FromSource(x.replies)
               /\ Responses(s, x.s.source, tl, rsp \o x.replies)
    <2>1. rsp \o << >> = rsp
      <3>1. rsp \in Seq({rsp[i] : i \in DOMAIN rsp})
        BY DEF IsSeq
      <3> QED BY <3>1, SMT
    <2>2. FromSource(<< >>)
      BY NoReplies, SMT DEF FromSource, Of
    <2>3. Responses(s, x.s.source, tl, rsp)
      BY <1>1 DEF Responses
    <2> QED BY <1>6, <2>1, <2>2, <2>3
  <1>7. CASE m.type = "Inventory"
    <2>1. m \in Of(req, {"Inventory"})
      BY <1>7, OfTail, ZenonT(30) DEF m
    <2>2. InventorySent(s, src, m) /\ Quiet(src) /\ s.synchronizing
      BY <1>4, <1>7, <2>1 DEF Requests, InventorySent
    <2>3. x = inventory(t, d, m.after)
      BY <1>7 DEF process
    <2> HIDE DEF x
    <2>4. PICK a : x.replies = <<a>> /\ a.type = "Page" /\ PageSent(s, x.s.source, a)
      BY <2>2, <2>3, InventoryServed
    <2>5. Serves(t, x) /\ x.d \in {d, synced(d)}
      BY <2>2, <2>3, InventoryServed
    <2>6. Requests(s, x.s.source, tl)
      BY <1>2, <1>4, <1>7, <2>2, Served
    <2>7. a.type \in Response /\ a.type \notin {"Chunk", "Missing"}
      BY <2>4 DEF Response
    <2>8. Responses(s, x.s.source, tl, rsp \o <<a>>)
      BY <1>1, <1>4, <1>7, <2>4, <2>7, Answered
    <2> QED BY <1>3, <2>4, <2>5, <2>6, <2>7, <2>8 DEF x, m, tl
  <1>8. CASE m.type = "Need"
    <2>1. m \in Of(req, {"Need"})
      BY <1>8, OfTail, ZenonT(30) DEF m
    <2>2. NeedSent(s, src, m, {})
      BY <1>4, <1>8, <2>1 DEF Requests
    <2>3. s.synchronizing
      BY <2>2, WantedObject DEF NeedSent
    <2>4. x = need(t, d, m.object, m.offset)
      BY <1>8 DEF process
    <2> HIDE DEF x
    <2>5. PICK a : /\ x.replies = <<a>> /\ a.type \in {"Chunk", "Missing"}
                   /\ a.type = "Chunk" => ChunkSent(s, x.s.source, a)
                   /\ a.type = "Missing" => MissingSent(s, x.s.source, a)
                   /\ Serves(t, x) /\ x.d = d
      <3> DEFINE y == need(t, d, m.object, m.offset)
      <3>1. /\ Serves(t, y) /\ y.d = d
            /\ \E a : /\ y.replies = <<a>> /\ a.type \in {"Chunk", "Missing"}
                      /\ a.type = "Chunk" => ChunkSent(s, y.s.source, a)
                      /\ a.type = "Missing" => MissingSent(s, y.s.source, a)
        BY <2>2, NeedServed
      <3> HIDE DEF y
      <3> QED BY <2>4, <3>1 DEF y
    <2>7. Requests(s, x.s.source, tl)
      BY <1>2, <1>4, <1>8, <2>3, Served
    <2>8. a.type \in Response /\ a.type # "Page"
      BY <2>5 DEF Response
    <2>9. Responses(s, x.s.source, tl, rsp \o <<a>>)
      BY <1>1, <1>4, <1>8, <2>5, <2>8, Answered
    <2> QED BY <1>3, <2>5, <2>7, <2>8, <2>9 DEF x, m, tl
  <1>9. CASE m.type = "Ack"
    <2>1. x = ack(t, d, m.object)
      BY <1>9 DEF process
    <2> HIDE DEF x
    <2>2. Serves(t, x) /\ x.d = d /\ x.replies = << >> /\ Requests(s, x.s.source, tl)
      BY <1>9, <2>1, AckServed, SMT DEF m, tl
    <2> QED BY <1>6, <2>2 DEF x, m, tl
  <1>10. CASE m.type = "Checked"
    <2>1. x = checked(t, d, m.end)
      BY <1>10 DEF process
    <2> HIDE DEF x
    <2>2. Serves(t, x) /\ x.d = d /\ x.replies = << >> /\ Requests(s, x.s.source, tl)
      BY <1>10, <2>1, CheckedServed, SMT DEF m, tl
    <2> QED BY <1>6, <2>2 DEF x, m, tl
  <1> QED BY <1>5, <1>7, <1>8, <1>9, <1>10 DEF Request
-----------------------------------------------------------------------------
(* What the side that pulls asks for next.                                 *)

\* What a handler of a response or of a timer may leave.
Asks(s, src, y) ==
    /\ y.s.failed = s.failed /\ y.s.accepted = s.accepted /\ y.s.source = s.source
    /\ y.s.local \subseteq y.d.safe /\ y.d.recs \subseteq Key
    /\ IsSeq(y.replies) /\ Of(y.replies, Response \cup {"Hello"}) = {}
    /\ Requests(y.s, src, y.replies)
    /\ ~y.s.synchronizing => src.snapshot \subseteq y.d.safe

\* Between two objects of a page, once the records K have arrived.
RecordsOf(K) == {RecordObject(k) : k \in K}

Between(s, src, x, K) ==
    /\ x.s.failed = s.failed /\ x.s.accepted = s.accepted /\ x.s.source = s.source
    /\ x.s.local \subseteq x.d.safe /\ x.d.recs \subseteq Key
    /\ OnlyAcks(x.replies)
    /\ InPage(x.s, src, K) /\ src.active = None
    /\ src.unacked = Acked(x.replies) \cup Objects(x.s.pull.staged) \cup RecordsOf(K)
    /\ Acked(x.replies) \cap Objects(x.s.pull.staged) = {} /\ Acked(x.replies) \cap RecordsOf(K) = {}

\* Two sessions that differ in the pull's download and not in its page.
SamePage(s, t) ==
    /\ s.local = t.local /\ s.synchronizing = t.synchronizing
    /\ \A f \in {"waiting_page", "position", "after", "more", "keys", "records", "blobs",
                "staged", "total"} : s.pull[f] = t.pull[f]

\* They want the same.
LEMMA SameWanted ==
    ASSUME NEW s, NEW t, NEW src, SamePage(s, t)
    PROVE  /\ \A K : InPage(s, src, K) => InPage(t, src, K)
           /\ \A o : Wanted(s, src, o) => Wanted(t, src, o)
  <1>1. /\ s.local = t.local /\ s.synchronizing = t.synchronizing
        /\ s.pull.waiting_page = t.pull.waiting_page /\ s.pull.position = t.pull.position
        /\ s.pull.after = t.pull.after /\ s.pull.more = t.pull.more
        /\ s.pull.keys = t.pull.keys /\ s.pull.records = t.pull.records
        /\ s.pull.blobs = t.pull.blobs /\ s.pull.staged = t.pull.staged
        /\ s.pull.total = t.pull.total
    BY DEF SamePage
  <1>2. ASSUME NEW K, InPage(s, src, K)
        PROVE  InPage(t, src, K)
    BY <1>1, <1>2 DEF InPage, Abreast
  <1>3. ASSUME NEW o, Wanted(s, src, o)
        PROVE  Wanted(t, src, o)
    BY <1>1, <1>2, <1>3 DEF Wanted
  <1> QED BY <1>2, <1>3

\* The object asked for next.
LEMMA DownloadAsks ==
    ASSUME Counting,
           NEW s, NEW src, NEW d, NEW x, NEW o, Sound(d, x),
           x.s.failed = s.failed, x.s.accepted = s.accepted, x.s.source = s.source,
           x.s.local \subseteq x.d.safe, x.d.recs \subseteq Key,
           OnlyAcks(x.replies), SourceOK(src), Wanted(x.s, src, o), src.active = None,
           src.unacked = Acked(x.replies) \cup Objects(x.s.pull.staged),
           Acked(x.replies) \cap Objects(x.s.pull.staged) = {}
    PROVE  Asks(s, src, download(x, o))
  <1> DEFINE dl == [object |-> o, received |-> 0, total |-> None]
             s1 == [x.s EXCEPT !.pull.download = Some(dl)]
             m == Need(o, 0)
             ns == Append(x.replies, m)
             y == download(x, o)
  <1>1. m.type = "Need" /\ m.object = o /\ m.offset = 0
    BY DEF Need
  <1>2. y = Outcome(s1, x.d, ns)
    BY DEF download
  <1> HIDE DEF m
  <1>3. /\ IsSeq(ns) /\ Ordered(ns) /\ Acked(ns) = Acked(x.replies)
        /\ \A T : "Ack" \notin T => Of(ns, T) = {n \in {m} : n.type \in T}
    BY <1>1, AcksThen, SMT
  <1> HIDE DEF ns, y
  <1>4. /\ s1.failed = x.s.failed /\ s1.accepted = x.s.accepted /\ s1.source = x.s.source
        /\ s1.local = x.s.local /\ s1.synchronizing = x.s.synchronizing
        /\ s1.pull.download = Some(dl) /\ s1.pull.staged = x.s.pull.staged
        /\ SamePage(x.s, s1)
    <2> HIDE DEF dl
    <2> QED BY DEF Sound, IsSession, SessionShape, IsPull, PullShape, SamePage
  <1> HIDE DEF s1
  <1>5. Wanted(s1, src, o)
    BY <1>4, SameWanted
  <1>6. Downloads(s1, o, 0)
    BY <1>4 DEF Downloads
  <1>7. s1.synchronizing
    BY <1>5, WantedObject
  <1>8. NeedSent(s1, src, m, Acked(ns))
    BY <1>1, <1>3, <1>4, <1>5, <1>6, SMT DEF NeedSent
  <1>9. /\ Of(ns, {"Need"}) = {m} /\ Of(ns, {"Checked"}) = {} /\ Of(ns, {"Inventory"}) = {}
        /\ m \in Of(ns, {"Need", "Checked"}) /\ Of(ns, Response \cup {"Hello"}) = {}
    BY <1>1, <1>3, SMT DEF Response
  <1>10. Requests(s1, src, ns)
    BY <1>3, <1>7, <1>8, <1>9 DEF Requests
  <1>11. y.s = s1 /\ y.d = x.d /\ y.replies = ns
    BY <1>2 DEF Outcome
  <1> QED BY <1>3, <1>4, <1>7, <1>9, <1>10, <1>11 DEF Asks, y

\* The end of a page: all of it is here, and the source stands where the
\* puller does.
LEMMA FinishAsks ==
    ASSUME NEW s, NEW src, NEW d, NEW x, Sound(d, x), SourceOK(src), Between(s, src, x, {}),
           x.s.pull.records = << >>, x.s.pull.staged = << >>, x.s.pull.blobs = << >>
    PROVE  Asks(s, src, finish_page(x))
  <1> DEFINE pull == x.s.pull
             m == Checked(pull.position)
             n == Inventory(pull.after)
             end == Append(x.replies, m)
             both == Append(end, n)
             s1 == [x.s EXCEPT !.pull.waiting_page = TRUE]
             s2 == [x.s EXCEPT !.synchronizing = FALSE]
             y == finish_page(x)
  <1>1. /\ m.type = "Checked" /\ m.end = pull.position
        /\ n.type = "Inventory" /\ n.after = pull.after
    BY DEF Checked, Inventory
  <1>2. y = IF pull.more THEN Outcome(s1, x.d, both) ELSE Outcome(s2, x.d, end)
    BY DEF finish_page
  <1> HIDE DEF m, n
  <1>3. Abreast(x.s, src) /\ src.awaiting_check
    BY DEF Between, InPage
  <1>4. \A i \in 1 .. src.next : src.order[i] \in x.s.local
    <2>1. \A i \in 1 .. src.next : src.order[i] \in x.s.local \cup Range(<< >>) \cup Range(<< >>) \cup {}
      BY DEF Between, InPage
    <2>2. Range(<< >>) = {}
      BY SMT DEF Range
    <2> QED BY <2>1, <2>2
  <1>5. src.unacked = Acked(x.replies) /\ src.active = None
    <2>1. Objects(<< >>) = {} /\ RecordsOf({}) = {}
      BY SMT DEF Objects, RecordsOf
    <2> QED BY <2>1 DEF Between
  <1>6. CheckedSent(src, m, Acked(x.replies))
    BY <1>1, <1>3, <1>5 DEF CheckedSent, Abreast
  <1>7. /\ x.s.failed = s.failed /\ x.s.accepted = s.accepted /\ x.s.source = s.source
        /\ x.s.local \subseteq x.d.safe /\ x.d.recs \subseteq Key /\ OnlyAcks(x.replies)
    BY DEF Between
  <1>8. CASE pull.more
    <2>1. /\ IsSeq(both) /\ Ordered(both) /\ Acked(both) = Acked(x.replies)
          /\ \A T : "Ack" \notin T => Of(both, T) = {c \in {m, n} : c.type \in T}
      BY <1>1, <1>7, AcksThenTwo, SMT
    <2> HIDE DEF both, end, y
    <2>2. /\ s1.failed = x.s.failed /\ s1.accepted = x.s.accepted /\ s1.source = x.s.source
          /\ s1.local = x.s.local /\ s1.synchronizing = x.s.synchronizing
          /\ s1.pull.waiting_page /\ s1.pull.staged = pull.staged /\ s1.pull.blobs = pull.blobs
          /\ s1.pull.position = pull.position /\ s1.pull.total = pull.total
          /\ s1.pull.more = pull.more /\ s1.pull.after = pull.after
      BY DEF Sound, IsSession, SessionShape, IsPull, PullShape
    <2> HIDE DEF s1
    <2>3. Abreast(s1, src) /\ s1.synchronizing
      BY <1>3, <2>2 DEF Abreast
    <2>4. InventorySent(s1, src, n)
      BY <1>1, <1>3, <1>4, <1>8, <2>2, <2>3 DEF InventorySent, Abreast
    <2>5. /\ Of(both, {"Need"}) = {} /\ Of(both, {"Checked"}) = {m} /\ Of(both, {"Inventory"}) = {n}
          /\ m \in Of(both, {"Need", "Checked"}) /\ Of(both, Response \cup {"Hello"}) = {}
      BY <1>1, <2>1, SMT DEF Response
    <2>6. Requests(s1, src, both)
      BY <1>6, <2>1, <2>4, <2>5 DEF Requests
    <2>7. y.s = s1 /\ y.d = x.d /\ y.replies = both
      BY <1>2, <1>8 DEF Outcome
    <2> QED BY <1>7, <2>1, <2>2, <2>3, <2>5, <2>6, <2>7 DEF Asks, y
  <1>9. CASE ~pull.more
    <2>1. /\ IsSeq(end) /\ Ordered(end) /\ Acked(end) = Acked(x.replies)
          /\ \A T : "Ack" \notin T => Of(end, T) = {c \in {m} : c.type \in T}
      BY <1>1, <1>7, AcksThen, SMT
    <2> HIDE DEF both, end, y
    <2>2. /\ s2.failed = x.s.failed /\ s2.accepted = x.s.accepted /\ s2.source = x.s.source
          /\ s2.local = x.s.local /\ ~s2.synchronizing
      BY DEF Sound, IsSession, SessionShape
    <2> HIDE DEF s2
    <2>3. /\ Of(end, {"Need"}) = {} /\ Of(end, {"Checked"}) = {m} /\ Of(end, {"Inventory"}) = {}
          /\ m \in Of(end, {"Need", "Checked"}) /\ Of(end, Response \cup {"Hello"}) = {}
      BY <1>1, <2>1, SMT DEF Response
    <2>4. Requests(s2, src, end)
      BY <1>6, <2>1, <2>2, <2>3 DEF Requests
    <2>5. src.snapshot \subseteq x.d.safe
      <3>1. src.next = Len(src.order)
        <4>1. src.next \in 0 .. Len(src.order) /\ Len(src.order) \in Nat
          BY SMT DEF SourceOK, IsListing
        <4>2. ~(src.next < Len(src.order))
          BY <1>3, <1>9 DEF Abreast
        <4> QED BY <4>1, <4>2, SMT
      <3> QED BY <1>4, <1>7, <3>1 DEF SourceOK, IsListing
    <2>6. y.s = s2 /\ y.d = x.d /\ y.replies = end
      BY <1>2, <1>9 DEF Outcome
    <2> QED BY <1>7, <2>1, <2>2, <2>3, <2>4, <2>5, <2>6, ZenonT(30) DEF Asks, y
  <1> QED BY <1>8, <1>9

\* A flush turns staged records into durable and acknowledged ones.
LEMMA FlushBetween ==
    ASSUME NEW s, NEW src, NEW d, NEW x, NEW K, Sound(d, x), SourceOK(src), Between(s, src, x, K)
    PROVE  LET y == flush(x)
           IN  /\ Between(s, src, y, K) /\ y.s.pull.staged = << >>
               /\ \A f \in {"waiting_page", "position", "after", "more", "keys", "records",
                            "blobs", "tried", "download", "total"} : y.s.pull[f] = x.s.pull[f]
  <1> DEFINE staged == x.s.pull.staged
             keys == Range(staged)
             s1 == [x.s EXCEPT !.local = @ \cup keys, !.pull.staged = << >>]
             e == ingest_records(x.d, keys)
             acks == [i \in DOMAIN staged |-> Ack(RecordObject(staged[i]))]
             ms == x.replies \o acks
             y == flush(x)
  <1>1. CASE staged = << >>
    BY <1>1 DEF flush
  <1>2. CASE staged # << >>
    <2>1. y = Outcome(s1, e, ms)
      BY <1>2 DEF flush
    <2>2. /\ staged \in Seq(Range(x.s.pull.keys)) /\ IsInjective(staged)
          /\ x.s.pull.keys \in Seq(src.snapshot)
          /\ OnlyAcks(x.replies) /\ Acked(x.replies) \cap Objects(staged) = {}
          /\ src.unacked = Acked(x.replies) \cup Objects(staged) \cup RecordsOf(K)
          /\ src.active = None /\ Acked(x.replies) \cap RecordsOf(K) = {}
          /\ K \cap Range(staged) = {}
      BY DEF Between, InPage
    <2>3. keys \subseteq Key
      BY <2>2, SMT DEF Range, SourceOK
    <2>4. OnlyAcks(acks) /\ Acked(acks) = Objects(staged)
      <3> HIDE DEF staged
      <3> QED BY <2>2, StagedAcks
    <2> HIDE DEF acks
    <2>5. /\ OnlyAcks(ms) /\ Acked(ms) \cup RecordsOf(K) = src.unacked
          /\ Acked(ms) \cap RecordsOf(K) = {}
      <3>1. OnlyAcks(ms) /\ Acked(ms) = Acked(x.replies) \cup Objects(staged)
        BY <2>2, <2>4, AcksConcat
      <3>2. Objects(staged) \cap RecordsOf(K) = {}
        BY <2>2, SMT DEF Objects, RecordsOf, RecordObject, Range
      <3> QED BY <2>2, <3>1, <3>2
    <2> HIDE DEF ms, y, keys
    <2>6. x.d.safe \cup keys \subseteq e.safe /\ e.recs = x.d.recs \cup keys
      BY DEF Sound, IsDisk, ingest_records
    <2> HIDE DEF e
    <2>7. /\ s1.failed = x.s.failed /\ s1.accepted = x.s.accepted /\ s1.source = x.s.source
          /\ s1.local = x.s.local \cup keys /\ s1.synchronizing = x.s.synchronizing
          /\ s1.pull.staged = << >>
      BY DEF Sound, IsSession, SessionShape, IsPull, PullShape
    <2>8. \A f \in {"waiting_page", "position", "after", "more", "keys", "records",
                    "blobs", "tried", "download", "total"} : s1.pull[f] = x.s.pull[f]
      BY DEF Sound, IsSession, SessionShape, IsPull, PullShape
    <2> HIDE DEF s1
    <2>9. /\ s1.pull.waiting_page = x.s.pull.waiting_page /\ s1.pull.position = x.s.pull.position
          /\ s1.pull.after = x.s.pull.after /\ s1.pull.more = x.s.pull.more
          /\ s1.pull.keys = x.s.pull.keys /\ s1.pull.records = x.s.pull.records
          /\ s1.pull.blobs = x.s.pull.blobs /\ s1.pull.total = x.s.pull.total
      BY <2>8
    <2>10. Range(<< >>) = {} /\ Objects(<< >>) = {} /\ IsInjective(<< >>)
      BY SMT DEF Range, Objects, IsInjective
    <2>11. InPage(s1, src, K)
      <3>1. InPage(x.s, src, K)
        BY DEF Between
      <3>2. Abreast(s1, src)
        BY <2>7, <2>9, <3>1 DEF InPage, Abreast
      <3>3. \A i \in 1 .. src.next :
              src.order[i] \in s1.local \cup Range(s1.pull.records) \cup Range(s1.pull.staged) \cup K
        <4>1. \A i \in 1 .. src.next :
                src.order[i] \in x.s.local \cup Range(x.s.pull.records) \cup keys \cup K
          BY <3>1 DEF InPage, keys
        <4> QED BY <2>7, <2>9, <4>1
      <3>4. /\ src.awaiting_check /\ ~s1.pull.waiting_page
            /\ s1.pull.keys \in Seq(src.snapshot) /\ Len(s1.pull.keys) <= PageLimit
            /\ s1.pull.records \in Seq(Range(s1.pull.keys)) /\ IsInjective(s1.pull.records)
            /\ K \subseteq Range(s1.pull.keys) /\ K \cap Range(s1.pull.records) = {}
            /\ s1.pull.blobs \in Seq(Contents(s1.pull.keys))
        BY <2>9, <3>1 DEF InPage
      <3>5. /\ s1.pull.staged \in Seq(Range(s1.pull.keys)) /\ IsInjective(s1.pull.staged)
            /\ Range(s1.pull.records) \cap Range(s1.pull.staged) = {}
            /\ K \cap Range(s1.pull.staged) = {}
        <4>1. << >> \in Seq(Range(s1.pull.keys))
          BY SMT
        <4> QED BY <2>7, <2>10, <4>1
      <3> QED BY <3>2, <3>3, <3>4, <3>5 DEF InPage
    <2>12. y.s = s1 /\ y.d = e /\ y.replies = ms
      BY <2>1 DEF Outcome
    <2>13. /\ x.s.failed = s.failed /\ x.s.accepted = s.accepted /\ x.s.source = s.source
           /\ x.s.local \subseteq x.d.safe /\ x.d.recs \subseteq Key
      BY DEF Between
    <2>14. s1.local \subseteq e.safe /\ e.recs \subseteq Key
      BY <2>3, <2>6, <2>7, <2>13
    <2>15. Between(s, src, y, K)
      BY <2>2, <2>5, <2>7, <2>10, <2>11, <2>12, <2>13, <2>14 DEF Between
    <2> QED BY <2>7, <2>8, <2>12, <2>15 DEF y
  <1> QED BY <1>1, <1>2

\* The content looked for is content of the page's records.
LEMMA FindBlobsBetween ==
    ASSUME Counting,
           NEW s, NEW src, NEW d, NEW x, Sound(d, x), SourceOK(src), Between(s, src, x, {})
    PROVE  LET y == find_blobs(x)
           IN  /\ Between(s, src, y, {})
               /\ y.s.pull.records = x.s.pull.records /\ y.s.pull.staged = x.s.pull.staged
  <1> DEFINE pull == x.s.pull
             all == UNION {{BlobObject(k, h) : h \in HashesOf[k]} : k \in Range(pull.keys)}
             wanted == UNION {{BlobObject(k, h) : h \in HashesOf[k]} : k \in Range(pull.keys)}
                         \ pull.tried
             here == {o.blob[1] : o \in wanted} \cap x.d.blobs
             W == {o \in wanted : o.blob[1] \notin here}
             lacked == Listing({o \in wanted : o.blob[1] \notin here})
             s1 == [x.s EXCEPT !.pull.tried = @ \cup wanted, !.pull.blobs = lacked]
             e == [x.d EXCEPT !.safeBlobs = @ \cup here]
             y == find_blobs(x)
  <1>1. find_blobs(x) = Outcome(s1, e, x.replies)
    BY DEF find_blobs
  <1>2. InPage(x.s, src, {}) /\ pull.keys \in Seq(src.snapshot)
    BY DEF Between, InPage
  <1>3. Range(pull.keys) \subseteq Key
    BY <1>2, SMT DEF Range, SourceOK
  <1> HIDE DEF here
  <1>4. W \subseteq all
    BY ZenonT(30)
  <1>5. /\ all \subseteq {BlobObject(k, h) : k \in Key, h \in Hash}
        /\ all \subseteq Contents(pull.keys)
    BY <1>3, SessionAssumption, SMT DEF Contents
  <1> HIDE DEF all, W, wanted
  <1>6. W \in SUBSET {BlobObject(k, h) : k \in Key, h \in Hash}
    BY <1>4, <1>5, SMT
  <1>7. lacked \in Seq(W)
    <2>1. lacked = Listing(W)
      BY DEF W
    <2> HIDE DEF lacked
    <2> QED BY <1>6, <2>1, SMT DEF Counting, BlobObjects
  <1>8. lacked \in Seq(Contents(pull.keys))
    BY <1>4, <1>5, <1>7, SMT
  <1> HIDE DEF lacked
  <1>9. /\ s1.failed = x.s.failed /\ s1.accepted = x.s.accepted /\ s1.source = x.s.source
        /\ s1.local = x.s.local /\ s1.synchronizing = x.s.synchronizing
        /\ s1.pull.blobs = lacked
        /\ s1.pull.waiting_page = pull.waiting_page /\ s1.pull.position = pull.position
        /\ s1.pull.after = pull.after /\ s1.pull.more = pull.more
        /\ s1.pull.keys = pull.keys /\ s1.pull.records = pull.records
        /\ s1.pull.staged = pull.staged /\ s1.pull.total = pull.total
    BY DEF Sound, IsSession, SessionShape, IsPull, PullShape
  <1>10. e.safe = x.d.safe /\ e.recs = x.d.recs
    BY DEF Sound, IsDisk
  <1> HIDE DEF s1, e, y
  <1>11. InPage(s1, src, {})
    BY <1>2, <1>8, <1>9 DEF InPage, Abreast
  <1>12. y.s = s1 /\ y.d = e /\ y.replies = x.replies
    BY <1>1, SMT DEF Outcome, y
  <1>13. Between(s, src, y, {})
    BY <1>9, <1>10, <1>11, <1>12 DEF Between
  <1> QED BY <1>9, <1>12, <1>13 DEF y

\* The next object is asked for, or the page ends.
LEMMA AdvanceAsks ==
    ASSUME Counting,
           NEW s, NEW src, NEW d, NEW x, Sound(d, x), SourceOK(src), Between(s, src, x, {})
    PROVE  Asks(s, src, advance(x))
  <1> DEFINE pull == x.s.pull
             flushed == flush(x)
             found == IF pull.blobs = << >> THEN find_blobs(flushed) ELSE flushed
             blobs == found.s.pull.blobs
             x1 == [x EXCEPT !.s.pull.records = Tail(@)]
             x2 == [found EXCEPT !.s.pull.blobs = Tail(@)]
  <1>1. RecordsOf({}) = {}
    BY DEF RecordsOf
  <1>2. advance(x) = IF pull.records # << >> THEN download(x1, RecordObject(Head(pull.records)))
                     ELSE IF blobs # << >> THEN download(x2, Head(blobs))
                     ELSE finish_page(found)
    BY DEF advance
  <1>3. CASE pull.records # << >>
    <2> DEFINE k == Head(pull.records)
               rest == Tail(pull.records)
               o == RecordObject(k)
    <2>1. InPage(x.s, src, {})
      BY DEF Between
    <2>2. pull.records \in Seq(Range(pull.keys)) /\ IsInjective(pull.records)
      BY <2>1 DEF InPage
    <2>3. /\ rest \in Seq(Range(pull.keys)) /\ IsInjective(rest) /\ k \in Range(pull.keys)
          /\ Range(pull.records) = Range(rest) \cup {k} /\ k \notin Range(rest)
      BY <1>3, <2>2, InjectiveTail, ZenonT(30)
    <2>4. Sound(d, x1)
      BY ZenonT(30) DEF Sound, IsSession, SessionShape, IsPull, PullShape
    <2>5. /\ x1.s.failed = x.s.failed /\ x1.s.accepted = x.s.accepted /\ x1.s.source = x.s.source
          /\ x1.s.local = x.s.local /\ x1.s.synchronizing = x.s.synchronizing
          /\ x1.s.pull.records = rest /\ x1.d = x.d /\ x1.replies = x.replies
          /\ x1.s.pull.waiting_page = pull.waiting_page /\ x1.s.pull.position = pull.position
          /\ x1.s.pull.after = pull.after /\ x1.s.pull.more = pull.more
          /\ x1.s.pull.keys = pull.keys /\ x1.s.pull.blobs = pull.blobs
          /\ x1.s.pull.staged = pull.staged /\ x1.s.pull.total = pull.total
      BY DEF Sound, IsSession, SessionShape, IsPull, PullShape
    <2> HIDE DEF x1, k, rest
    <2>6. InPage(x1.s, src, {k})
      <3>1. Abreast(x1.s, src)
        BY <2>1, <2>5 DEF InPage, Abreast
      <3>2. Range(pull.records) \cap Range(pull.staged) = {}
        BY <2>1 DEF InPage
      <3>3. \A i \in 1 .. src.next :
              src.order[i] \in x1.s.local \cup Range(rest) \cup Range(pull.staged) \cup {k}
        <4>1. \A i \in 1 .. src.next :
                src.order[i] \in x.s.local \cup Range(pull.records) \cup Range(pull.staged) \cup {}
          BY <2>1 DEF InPage
        <4> QED BY <2>3, <2>5, <4>1
      <3> QED BY <2>1, <2>3, <2>5, <3>1, <3>2, <3>3, ZenonT(30) DEF InPage
    <2>7. Wanted(x1.s, src, o)
      BY <2>3, <2>5, <2>6 DEF Wanted
    <2>8. Asks(s, src, download(x1, o))
      <3>1. /\ src.unacked = Acked(x1.replies) \cup Objects(x1.s.pull.staged)
            /\ Acked(x1.replies) \cap Objects(x1.s.pull.staged) = {}
            /\ src.active = None /\ OnlyAcks(x1.replies)
            /\ x1.s.failed = s.failed /\ x1.s.accepted = s.accepted /\ x1.s.source = s.source
            /\ x1.s.local \subseteq x1.d.safe /\ x1.d.recs \subseteq Key
        BY <1>1, <2>5 DEF Between
      <3> HIDE DEF o
      <3> QED BY <2>4, <2>7, <3>1, DownloadAsks
    <2> QED BY <1>2, <1>3, <2>8 DEF k
  <1>4. CASE pull.records = << >>
    <2>1. /\ Between(s, src, flushed, {}) /\ flushed.s.pull.staged = << >>
          /\ flushed.s.pull.records = << >>
      <3>1. /\ Between(s, src, flushed, {}) /\ flushed.s.pull.staged = << >>
            /\ \A f \in {"waiting_page", "position", "after", "more", "keys", "records",
                         "blobs", "tried", "download", "total"} : flushed.s.pull[f] = x.s.pull[f]
        BY FlushBetween, SMT
      <3> HIDE DEF flushed
      <3> QED BY <1>4, <3>1
    <2>2. Sound(d, flushed)
      BY FlushSound
    <2> HIDE DEF flushed
    <2>3. Sound(d, found)
      BY <2>2, FindBlobsSound
    <2>4. /\ Between(s, src, found, {}) /\ found.s.pull.staged = << >>
          /\ found.s.pull.records = << >>
      BY <2>1, <2>2, FindBlobsBetween, ZenonT(30)
    <2> HIDE DEF found
    <2>5. CASE blobs = << >>
      BY <1>2, <1>4, <2>3, <2>4, <2>5, FinishAsks, ZenonT(30)
    <2>6. CASE blobs # << >>
      <3> DEFINE o == Head(blobs)
                 keys == found.s.pull.keys
                 rest == Tail(blobs)
      <3>1. InPage(found.s, src, {}) /\ blobs \in Seq(Contents(keys))
        BY <2>4 DEF Between, InPage
      <3>2. o \in Contents(keys) /\ rest \in Seq(Contents(keys))
        <4> HIDE DEF blobs, keys
        <4> QED BY <2>6, <3>1, SMT
      <3>3. Sound(d, x2)
        BY <2>3, ZenonT(30) DEF Sound, IsSession, SessionShape, IsPull, PullShape
      <3>4. /\ x2.s.failed = found.s.failed /\ x2.s.accepted = found.s.accepted
            /\ x2.s.source = found.s.source
            /\ x2.s.local = found.s.local /\ x2.s.synchronizing = found.s.synchronizing
            /\ x2.s.pull.blobs = rest /\ x2.d = found.d /\ x2.replies = found.replies
            /\ x2.s.pull.waiting_page = found.s.pull.waiting_page
            /\ x2.s.pull.position = found.s.pull.position
            /\ x2.s.pull.after = found.s.pull.after /\ x2.s.pull.more = found.s.pull.more
            /\ x2.s.pull.keys = keys /\ x2.s.pull.records = found.s.pull.records
            /\ x2.s.pull.staged = found.s.pull.staged /\ x2.s.pull.total = found.s.pull.total
        BY <2>3 DEF Sound, IsSession, SessionShape, IsPull, PullShape
      <3> HIDE DEF x2, o, rest
      <3>5. InPage(x2.s, src, {})
        BY <3>1, <3>2, <3>4 DEF InPage, Abreast
      <3>6. PICK k \in Range(keys), h \in Hash : o = BlobObject(k, h)
        BY <3>2, SMT DEF Contents
      <3>7. Wanted(x2.s, src, o)
        BY <2>4, <3>4, <3>5, <3>6 DEF Wanted
      <3>8. /\ src.unacked = Acked(x2.replies) \cup Objects(x2.s.pull.staged)
            /\ Acked(x2.replies) \cap Objects(x2.s.pull.staged) = {}
            /\ src.active = None /\ OnlyAcks(x2.replies)
            /\ x2.s.failed = s.failed /\ x2.s.accepted = s.accepted /\ x2.s.source = s.source
            /\ x2.s.local \subseteq x2.d.safe /\ x2.d.recs \subseteq Key
        BY <1>1, <2>4, <3>4 DEF Between
      <3>9. Asks(s, src, download(x2, o))
        BY <3>3, <3>7, <3>8, DownloadAsks
      <3> QED BY <1>2, <1>4, <2>6, <3>9 DEF o
    <2> QED BY <2>5, <2>6
  <1> QED BY <1>3, <1>4

=============================================================================
