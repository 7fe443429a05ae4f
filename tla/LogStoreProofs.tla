--------------------------- MODULE LogStoreProofs ---------------------------
(***************************************************************************)
(* Proofs about SegmentStore and about LogStore, which is built on it.     *)
(* First the segment files: the inductive invariant SegInv and, from it,   *)
(* what a step may never do to sealed segments, durable pages, incomplete  *)
(* tails and the segments of an older layout, and that they implement      *)
(* ChainFiles.  Then the log store: its inductive invariant IInv, the      *)
(* safety of its answers, and that it implements AdmissionContract.        *)
(***************************************************************************)
EXTENDS LogStore, WellFoundedInduction, TLAPS

\* Zenon proves most leaves; those that need arithmetic, records or
\* sequences cite SMT.
USE Zenon

-----------------------------------------------------------------------------

\* A sequence is a function from 1 .. its length.
LEMMA LenDomain ==
    ASSUME NEW S, NEW s \in Seq(S)
    PROVE  s \in [1 .. Len(s) -> S]
  BY SMT

\* A sequence with more places is longer.
LEMMA LongerDomain ==
    ASSUME NEW S, NEW s \in Seq(S), NEW t \in Seq(S), DOMAIN s \subseteq DOMAIN t
    PROVE  Len(t) >= Len(s)
  <1>1. /\ DOMAIN s = 1 .. Len(s) /\ Len(s) \in Nat
        /\ DOMAIN t = 1 .. Len(t) /\ Len(t) \in Nat
    BY SMT
  <1>2. Len(s) = 0 \/ Len(s) \in 1 .. Len(t)
    BY <1>1, SMT
  <1> QED BY <1>1, <1>2, SMT

\* A prefix of a sequence.
LEMMA PrefixFacts ==
    ASSUME NEW S, NEW s \in Seq(S), NEW n \in 0 .. Len(s)
    PROVE  /\ SubSeq(s, 1, n) \in Seq(S)
           /\ Len(SubSeq(s, 1, n)) = n
           /\ \A i \in 1 .. n : SubSeq(s, 1, n)[i] = s[i]
  BY SMT

\* What is left of a sequence behind a prefix.
LEMMA SuffixFacts ==
    ASSUME NEW S, NEW s \in Seq(S), NEW n \in 0 .. Len(s)
    PROVE  /\ SubSeq(s, n + 1, Len(s)) \in Seq(S)
           /\ Len(SubSeq(s, n + 1, Len(s))) = Len(s) - n
           /\ \A i \in 1 .. (Len(s) - n) : SubSeq(s, n + 1, Len(s))[i] = s[n + i]
  <1>1. Len(s) \in Nat /\ n \in Nat /\ n + 1 \in Nat
    BY SMT
  <1>2. Len(SubSeq(s, n + 1, Len(s))) = Len(s) - n
    BY <1>1, SMT
  <1>3. \A i \in 1 .. (Len(s) - n) : SubSeq(s, n + 1, Len(s))[i] = s[n + i]
    BY <1>1, SMT
  <1>4. SubSeq(s, n + 1, Len(s)) \in Seq(S)
    <2>1. \A i \in (n + 1) .. Len(s) : s[i] \in S
      BY <1>1, SMT
    <2> QED BY <1>1, <2>1, SMT
  <1> QED BY <1>2, <1>3, <1>4

\* A function on 1 .. n is a sequence of length n.
LEMMA FunctionIsSeq ==
    ASSUME NEW S, NEW n \in Nat, NEW f \in [1 .. n -> S]
    PROVE  f \in Seq(S) /\ Len(f) = n
  BY SMT

\* The size of an encoded page is a natural number.
LEMMA EncodedLenNat ==
    ASSUME NEW page \in Page
    PROVE  EncodedLen(page) \in Nat
  BY SegmentAssumption, SMT DEF EncodedLen, Page

\* So is the size of a segment file.
LEMMA FileLenNat ==
    ASSUME NEW seg \in Segment
    PROVE  FileLen(seg) \in Nat
  <1>1. seg.pages \in Seq(Stored)
    BY DEF Segment
  <1>2. CASE seg.pages = << >>
    BY <1>2, SMT DEF FileLen, Frontier
  <1>3. CASE seg.pages # << >>
    <2>1. Len(seg.pages) \in Nat /\ Len(seg.pages) # 0
      BY <1>1, <1>3, SMT
    <2>2. seg.pages[Len(seg.pages)] \in Stored
      BY <1>1, <2>1, SMT
    <2>3. seg.pages[Len(seg.pages)].end \in Nat
      BY <2>2 DEF Stored
    <2> QED BY <2>3, <1>3, SMT DEF FileLen, Frontier
  <1> QED BY <1>2, <1>3

\* Where a writer may be: at the newest segment or one past it.
AtFrontier(w) == w \in Writer /\ w.seq \in {Len(segs), Len(segs) + 1} \ {0}

\* rotate moves one past the newest segment and changes nothing else.
LEMMA RotateFacts ==
    ASSUME segs \in Seq(Segment), NEW w, AtFrontier(w)
    PROVE  /\ AtFrontier(rotate(w))
           /\ rotate(w).seq >= w.seq
           /\ rotate(w).seq = Len(segs) + 1
           /\ rotate(w).phase = w.phase
           /\ rotate(w).needs_recovery = w.needs_recovery
           /\ rotate(w).initialize_layout = w.initialize_layout
  <1>0. w \in Writer /\ w.seq \in Nat /\ Len(segs) \in Nat /\ DOMAIN segs = 1 .. Len(segs)
    BY SMT DEF AtFrontier, Writer
  <1>1. CASE w.seq \in DOMAIN segs
    <2>1. rotate(w) = [w EXCEPT !.seq = @ + 1, !.length = 0]
      BY <1>1 DEF rotate, Exists
    <2>2. w.seq = Len(segs)
      BY <1>0, <1>1, SMT DEF AtFrontier
    <2>3. rotate(w) = [phase |-> w.phase, seq |-> w.seq + 1, length |-> 0,
                       needs_recovery |-> w.needs_recovery,
                       initialize_layout |-> w.initialize_layout]
      BY <2>1, <1>0 DEF Writer
    <2> QED BY <1>0, <2>3, <2>2, SMT DEF AtFrontier, Writer
  <1>2. CASE w.seq \notin DOMAIN segs
    BY <1>2, <1>0, SMT DEF AtFrontier, rotate, Exists
  <1> QED BY <1>1, <1>2

\* recover_frontier leaves the writer where no incomplete tail lies.
LEMMA RecoverFacts ==
    ASSUME segs \in Seq(Segment), NEW w, AtFrontier(w)
    PROVE  /\ AtFrontier(recover_frontier(w))
           /\ recover_frontier(w).seq >= w.seq
           /\ recover_frontier(w).phase = w.phase
           /\ ~recover_frontier(w).needs_recovery
           /\ recover_frontier(w).initialize_layout = w.initialize_layout
           /\ recover_frontier(w).seq \in DOMAIN segs =>
                ~segs[recover_frontier(w).seq].torn
  <1> DEFINE len == IF Exists(w.seq) THEN FileLen(segs[w.seq]) ELSE 0
             seen == [w EXCEPT !.length = len]
             full == Exists(w.seq) /\ (segs[w.seq].torn \/ seen.length >= MaxSegmentBytes)
             at == IF full THEN rotate(seen) ELSE seen
  <1>0. w \in Writer /\ w.seq \in Nat /\ Len(segs) \in Nat
    BY SMT DEF AtFrontier, Writer
  <1>1. len \in Nat
    BY FileLenNat, SMT DEF Exists
  <1>2. seen = [phase |-> w.phase, seq |-> w.seq, length |-> len,
                needs_recovery |-> w.needs_recovery,
                initialize_layout |-> w.initialize_layout]
    BY <1>0, SMT DEF Writer
  <1>3. recover_frontier(w) = [at EXCEPT !.needs_recovery = FALSE]
    BY DEF recover_frontier, FrontierLength
  <1> HIDE DEF len
  <1>4. AtFrontier(seen) /\ seen.seq = w.seq /\ seen.phase = w.phase
          /\ seen.initialize_layout = w.initialize_layout
    BY <1>0, <1>1, <1>2 DEF AtFrontier, Writer
  <1> HIDE DEF seen
  <1>5. /\ AtFrontier(at) /\ at.seq >= w.seq /\ at.phase = w.phase
        /\ at.initialize_layout = w.initialize_layout
        /\ at.seq \in DOMAIN segs => ~segs[at.seq].torn
    <2>1. CASE full
      <3>1. AtFrontier(rotate(seen)) /\ rotate(seen).seq = Len(segs) + 1
              /\ rotate(seen).seq >= seen.seq
              /\ rotate(seen).phase = seen.phase
              /\ rotate(seen).initialize_layout = seen.initialize_layout
        BY <1>4, RotateFacts
      <3>2. rotate(seen).seq \notin DOMAIN segs
        BY <3>1, <1>0, SMT
      <3> QED BY <1>4, <2>1, <3>1, <3>2
    <2>2. CASE ~full
      <3>1. w.seq \in DOMAIN segs => ~segs[w.seq].torn
        BY <2>2 DEF Exists
      <3> QED BY <1>0, <1>4, <2>2, <3>1, SMT
    <2> QED BY <2>1, <2>2
  <1> HIDE DEF at
  <1>6. recover_frontier(w) = [phase |-> at.phase, seq |-> at.seq, length |-> at.length,
                               needs_recovery |-> FALSE,
                               initialize_layout |-> at.initialize_layout]
    BY <1>3, <1>5 DEF AtFrontier, Writer
  <1> QED BY <1>5, <1>6, SMT DEF AtFrontier, Writer

\* The segment append_with chooses is at the frontier and has no tail.
LEMMA PlacedFacts ==
    ASSUME SegInv, writer.phase = "idle", NEW page
    PROVE  /\ AtFrontier(Placed(page))
           /\ Placed(page).seq >= writer.seq
           /\ Placed(page).phase = "idle"
           /\ Placed(page).seq \in DOMAIN segs => ~segs[Placed(page).seq].torn
  <1> DEFINE w == IF writer.needs_recovery THEN recover_frontier(writer) ELSE writer
  <1>1. segs \in Seq(Segment) /\ AtFrontier(writer) /\ Len(segs) \in Nat /\ writer.seq \in Nat
    BY SMT DEF SegInv, SegTypeOK, WriterInv, AtFrontier, Writer
  <1>2. AtFrontier(w) /\ w.seq >= writer.seq /\ w.phase = "idle"
          /\ (w.seq \in DOMAIN segs => ~segs[w.seq].torn)
    <2>1. CASE writer.needs_recovery
      BY <1>1, <2>1, RecoverFacts
    <2>2. CASE ~writer.needs_recovery
      BY <1>1, <2>2, SMT DEF SegInv, WriterInv
    <2> QED BY <2>1, <2>2
  <1>3. Placed(page) = w \/ Placed(page) = rotate(w)
    BY DEF Placed
  <1> HIDE DEF w
  <1>4. AtFrontier(rotate(w)) /\ rotate(w).seq >= w.seq /\ rotate(w).seq = Len(segs) + 1
          /\ rotate(w).phase = "idle"
    BY <1>1, <1>2, RotateFacts
  <1>5. rotate(w).seq \notin DOMAIN segs
    BY <1>1, <1>4, SMT
  <1>6. w.seq \in Nat /\ rotate(w).seq \in Nat
    BY <1>2, <1>4 DEF AtFrontier, Writer
  <1> QED BY <1>1, <1>2, <1>3, <1>4, <1>5, <1>6, SMT

\* Creating the writer's segment file appends an empty segment if it is new.
LEMMA CreatedFacts ==
    ASSUME SegTypeOK, NEW w, AtFrontier(w)
    PROVE  /\ Created(w) \in Seq(Segment)
           /\ Len(Created(w)) = w.seq
           /\ w.seq \in DOMAIN Created(w)
           /\ DOMAIN segs \subseteq DOMAIN Created(w)
           /\ \A k \in DOMAIN segs : Created(w)[k] = segs[k]
           /\ \A k \in DOMAIN Created(w) : k \in DOMAIN segs \/ k = w.seq
           /\ w.seq \notin DOMAIN segs => Created(w)[w.seq] = EmptySegment
           /\ CreatedSynced(w) \in [DOMAIN Created(w) -> Nat]
           /\ \A k \in DOMAIN segs : CreatedSynced(w)[k] = synced[k]
           /\ w.seq \notin DOMAIN segs => CreatedSynced(w)[w.seq] = 0
  <1>0. /\ segs \in Seq(Segment) /\ Len(segs) \in Nat /\ DOMAIN segs = 1 .. Len(segs)
        /\ synced \in [1 .. Len(segs) -> Nat] /\ w.seq \in Nat
    BY SMT DEF SegTypeOK, AtFrontier, Writer
  <1>1. CASE w.seq \in DOMAIN segs
    <2>1. Created(w) = segs /\ CreatedSynced(w) = synced
      BY <1>1 DEF Created, CreatedSynced, Exists
    <2> QED BY <1>0, <1>1, <2>1, SMT DEF AtFrontier
  <1>2. CASE w.seq \notin DOMAIN segs
    <2>1. Created(w) = Append(segs, EmptySegment) /\ CreatedSynced(w) = Append(synced, 0)
      BY <1>2 DEF Created, CreatedSynced, Exists
    <2>2. w.seq = Len(segs) + 1
      BY <1>0, <1>2, SMT DEF AtFrontier
    <2>3. EmptySegment \in Segment
      BY SMT DEF EmptySegment, Segment
    <2>4. /\ Created(w) \in Seq(Segment) /\ Len(Created(w)) = Len(segs) + 1
          /\ Created(w)[Len(segs) + 1] = EmptySegment
          /\ \A k \in DOMAIN segs : Created(w)[k] = segs[k]
      BY <1>0, <2>1, <2>3, SMT
    <2>5. synced \in Seq(Nat) /\ Len(synced) = Len(segs)
      BY <1>0, SMT
    <2>6. /\ CreatedSynced(w) \in [1 .. (Len(segs) + 1) -> Nat]
          /\ CreatedSynced(w)[Len(segs) + 1] = 0
          /\ \A k \in DOMAIN segs : CreatedSynced(w)[k] = synced[k]
      <3>1. /\ Append(synced, 0) \in Seq(Nat) /\ Len(Append(synced, 0)) = Len(segs) + 1
            /\ Append(synced, 0)[Len(segs) + 1] = 0
            /\ \A k \in 1 .. Len(segs) : Append(synced, 0)[k] = synced[k]
        BY <1>0, <2>5, SMT
      <3>2. Append(synced, 0) \in [1 .. (Len(segs) + 1) -> Nat]
        BY <1>0, <3>1, LenDomain
      <3> QED BY <1>0, <2>1, <3>1, <3>2
    <2> QED BY <1>0, <2>2, <2>4, <2>6, SMT
  <1> QED BY <1>1, <1>2

\* What WritePage does to the disk: one page more at the end of the writer's
\* segment, everything else as it was.
LEMMA WritePageFacts ==
    ASSUME SegInv, NEW page \in Page, WritePage(page)
    PROVE  LET w == Placed(page) IN
           /\ segs' \in Seq(Segment)
           /\ Len(segs') = w.seq
           /\ Len(segs') >= Len(segs)
           /\ w.seq \in DOMAIN segs'
           /\ \A k \in DOMAIN segs : k # w.seq => segs'[k] = segs[k]
           /\ w.seq \in DOMAIN segs =>
                segs'[w.seq].pages = Append(segs[w.seq].pages, segs'[w.seq].pages[Len(segs'[w.seq].pages)])
           /\ w.seq \notin DOMAIN segs => Len(segs'[w.seq].pages) = 1
           /\ segs'[w.seq].pages # << >>
           /\ segs'[w.seq].pages[Len(segs'[w.seq].pages)].recs = page
           /\ ~segs'[w.seq].torn
           /\ synced' \in [DOMAIN segs' -> Nat]
           /\ \A k \in DOMAIN segs : synced'[k] = synced[k]
           /\ w.seq \notin DOMAIN segs => synced'[w.seq] = 0
  <1> DEFINE w == Placed(page)
             seg == Created(w)[w.seq]
             new == [recs |-> page, end |-> FileLen(seg) + EncodedLen(page)]
  <1>1. AtFrontier(w) /\ (w.seq \in DOMAIN segs => ~segs[w.seq].torn)
    BY PlacedFacts DEF WritePage
  <1>2. SegTypeOK
    BY DEF SegInv
  <1>3. segs' = [Created(w) EXCEPT ![w.seq].pages = Append(@, new)] /\ synced' = CreatedSynced(w)
    BY DEF WritePage
  <1> HIDE DEF w
  <1>4. /\ Created(w) \in Seq(Segment)
        /\ Len(Created(w)) = w.seq
        /\ w.seq \in DOMAIN Created(w)
        /\ DOMAIN segs \subseteq DOMAIN Created(w)
        /\ \A k \in DOMAIN segs : Created(w)[k] = segs[k]
        /\ w.seq \notin DOMAIN segs => seg = EmptySegment
    BY <1>1, <1>2, CreatedFacts
  <1>5. /\ CreatedSynced(w) \in [DOMAIN Created(w) -> Nat]
        /\ \A k \in DOMAIN segs : CreatedSynced(w)[k] = synced[k]
        /\ w.seq \notin DOMAIN segs => CreatedSynced(w)[w.seq] = 0
    BY <1>1, <1>2, CreatedFacts
  <1>6. seg \in Segment /\ seg.pages \in Seq(Stored) /\ seg.torn \in BOOLEAN
    <2>1. seg \in Segment
      BY <1>4, SMT
    <2> QED BY <2>1 DEF Segment
  <1>7. new \in Stored
    BY <1>6, FileLenNat, EncodedLenNat, SMT DEF Stored
  <1> HIDE DEF new, seg
  <1>8. [seg EXCEPT !.pages = Append(@, new)] = [pages |-> Append(seg.pages, new), torn |-> seg.torn]
    BY <1>6, SMT DEF Segment
  <1>9. Append(seg.pages, new) \in Seq(Stored) /\ Len(Append(seg.pages, new)) = Len(seg.pages) + 1
          /\ Append(seg.pages, new)[Len(seg.pages) + 1] = new /\ Append(seg.pages, new) # << >>
    BY <1>6, <1>7, SMT
  <1>10. segs' = [Created(w) EXCEPT ![w.seq] = [pages |-> Append(seg.pages, new), torn |-> seg.torn]]
    BY <1>3, <1>8 DEF seg
  <1>11. [pages |-> Append(seg.pages, new), torn |-> seg.torn] \in Segment
    BY <1>6, <1>9 DEF Segment
  <1>12. /\ segs' \in Seq(Segment) /\ Len(segs') = w.seq /\ w.seq \in DOMAIN segs'
         /\ DOMAIN segs' = DOMAIN Created(w)
         /\ \A k \in DOMAIN segs : k # w.seq => segs'[k] = segs[k]
         /\ segs'[w.seq] = [pages |-> Append(seg.pages, new), torn |-> seg.torn]
    BY <1>4, <1>10, <1>11, SMT
  <1>13. ~seg.torn
    BY <1>1, <1>4, SMT DEF EmptySegment, seg
  <1>14. new.recs = page
    BY DEF new
  <1>15. segs'[w.seq].pages = Append(seg.pages, new) /\ ~segs'[w.seq].torn
           /\ segs'[w.seq].pages[Len(segs'[w.seq].pages)] = new
    BY <1>9, <1>12, <1>13, SMT
  <1>16. w.seq \in DOMAIN segs => segs[w.seq] = seg
    BY <1>4 DEF seg
  <1>17. w.seq \notin DOMAIN segs => Len(segs'[w.seq].pages) = 1
    BY <1>4, <1>9, <1>15, SMT DEF EmptySegment
  <1>18. Len(segs') >= Len(segs)
    BY <1>2, <1>4, <1>12, SMT DEF SegTypeOK
  <1> QED BY <1>3, <1>5, <1>9, <1>12, <1>14, <1>15, <1>16, <1>17, <1>18 DEF w

\* Writing a page keeps the invariant.
LEMMA WritePageInv ==
    ASSUME SegInv, NEW page \in Page, WritePage(page)
    PROVE  SegInv'
  <1> DEFINE w == Placed(page)
  <1>1. /\ AtFrontier(w) /\ w.seq >= writer.seq
        /\ writer' = [w EXCEPT !.phase = "written", !.needs_recovery = TRUE]
        /\ UNCHANGED <<entries, marker, legacy>> /\ writer.phase = "idle"
    BY PlacedFacts DEF WritePage
  <1>2. /\ segs' \in Seq(Segment)
        /\ Len(segs') = w.seq /\ Len(segs') >= Len(segs) /\ w.seq \in DOMAIN segs'
        /\ \A k \in DOMAIN segs : k # w.seq => segs'[k] = segs[k]
        /\ segs'[w.seq].pages # << >> /\ ~segs'[w.seq].torn
        /\ synced' \in [DOMAIN segs' -> Nat]
        /\ \A k \in DOMAIN segs : synced'[k] = synced[k]
    BY WritePageFacts
  <1>3. /\ w.seq \notin DOMAIN segs => synced'[w.seq] = 0
        /\ w.seq \in DOMAIN segs =>
                segs'[w.seq].pages = Append(segs[w.seq].pages, segs'[w.seq].pages[Len(segs'[w.seq].pages)])
    BY WritePageFacts
  <1> HIDE DEF w
  <1>4. /\ segs \in Seq(Segment) /\ Len(segs) \in Nat /\ DOMAIN segs = 1 .. Len(segs)
        /\ DOMAIN segs' = 1 .. Len(segs') /\ w \in Writer /\ w.seq \in Nat
        /\ entries \in 0 .. Len(segs) /\ legacy \in Seq(Segment)
    BY <1>1, <1>2, SMT DEF SegInv, SegTypeOK, AtFrontier, Writer
  <1>5. writer' = [phase |-> "written", seq |-> w.seq, length |-> w.length,
                   needs_recovery |-> TRUE, initialize_layout |-> w.initialize_layout]
    BY <1>1, <1>4 DEF Writer
  <1>6. SegTypeOK'
    <2>1. \A k \in DOMAIN segs' : synced'[k] <= Len(segs'[k].pages)
      <3> SUFFICES ASSUME NEW k \in DOMAIN segs'
                   PROVE  synced'[k] <= Len(segs'[k].pages)
        OBVIOUS
      <3>1. segs'[k] \in Segment
        BY <1>2, SMT
      <3>2. segs'[k].pages \in Seq(Stored) /\ Len(segs'[k].pages) \in Nat
        BY <3>1, SMT DEF Segment
      <3>3. CASE k # w.seq
        <4>1. w.seq <= Len(segs) + 1
          BY <1>1, <1>4, SMT DEF AtFrontier
        <4>2. k \in DOMAIN segs
          BY <1>2, <1>4, <3>3, <4>1, SMT
        <4> QED BY <1>2, <3>3, <4>2 DEF SegInv, SegTypeOK
      <3>4. CASE k = w.seq /\ w.seq \notin DOMAIN segs
        BY <1>3, <3>2, <3>4, SMT
      <3>5. CASE k = w.seq /\ w.seq \in DOMAIN segs
        <4>1. segs[w.seq] \in Segment
          BY <1>4, <3>5, SMT
        <4>2. segs[w.seq].pages \in Seq(Stored)
          BY <4>1 DEF Segment
        <4>3. Len(segs'[w.seq].pages) = Len(segs[w.seq].pages) + 1
          BY <1>3, <3>5, <4>2, SMT
        <4>4. synced'[w.seq] = synced[w.seq] /\ synced[w.seq] <= Len(segs[w.seq].pages)
                /\ synced[w.seq] \in Nat
          BY <1>2, <3>5 DEF SegInv, SegTypeOK
        <4> QED BY <3>5, <4>2, <4>3, <4>4, SMT
      <3> QED BY <3>3, <3>4, <3>5
    <2>2. writer' \in Writer
      BY <1>4, <1>5 DEF Writer
    <2> QED BY <1>1, <1>2, <1>4, <2>1, <2>2, SMT DEF SegInv, SegTypeOK
  <1>7. WriterInv'
    BY <1>2, <1>4, <1>5, <1>1 DEF WriterInv, AtFrontier
  <1>8. LegacyInv'
    <2>1. Len(legacy) \in Nat /\ DOMAIN legacy = 1 .. Len(legacy) /\ entries >= Len(legacy)
      BY <1>4, SMT DEF SegInv, LegacyInv
    <2>2. legacy # << >> => w.seq > Len(legacy)
      BY <1>1, <1>4, <2>1, SMT DEF SegInv, LegacyInv, SegTypeOK, Writer
    <2>3. \A k \in DOMAIN legacy : k \in DOMAIN segs /\ k # w.seq
      BY <1>4, <2>1, <2>2, SMT
    <2> QED BY <1>1, <1>2, <1>5, <2>1, <2>2, <2>3, SMT DEF SegInv, LegacyInv
  <1> QED BY <1>6, <1>7, <1>8 DEF SegInv

\* So does a failed write, whatever it left in the file.
LEMMA WriteFailsInv ==
    ASSUME SegInv, NEW page \in Page, WriteFails(page)
    PROVE  SegInv'
  <1> DEFINE w == Placed(page)
  <1>1. /\ AtFrontier(w) /\ w.seq >= writer.seq /\ w.phase = "idle"
        /\ writer' = [w EXCEPT !.needs_recovery = TRUE]
        /\ UNCHANGED <<entries, marker, legacy>> /\ writer.phase = "idle"
    BY PlacedFacts DEF WriteFails
  <1>2. \/ UNCHANGED <<segs, synced>>
        \/ \E torn \in BOOLEAN :
                /\ segs' = [Created(w) EXCEPT ![w.seq].torn = @ \/ torn]
                /\ synced' = CreatedSynced(w)
    BY DEF WriteFails
  <1> HIDE DEF w
  <1>3. /\ SegTypeOK /\ segs \in Seq(Segment) /\ Len(segs) \in Nat /\ DOMAIN segs = 1 .. Len(segs)
        /\ w \in Writer /\ w.seq \in Nat /\ entries \in 0 .. Len(segs) /\ legacy \in Seq(Segment)
    BY <1>1, SMT DEF SegInv, SegTypeOK, AtFrontier, Writer
  <1>4. writer' = [phase |-> "idle", seq |-> w.seq, length |-> w.length,
                   needs_recovery |-> TRUE, initialize_layout |-> w.initialize_layout]
    BY <1>1, <1>3 DEF Writer
  <1>5. writer' \in Writer
    BY <1>3, <1>4 DEF Writer
  <1>6. Len(legacy) \in Nat /\ DOMAIN legacy = 1 .. Len(legacy) /\ entries >= Len(legacy)
          /\ (legacy # << >> => w.seq > Len(legacy))
    BY <1>1, <1>3, SMT DEF SegInv, LegacyInv, SegTypeOK, Writer
  <1>7. CASE UNCHANGED <<segs, synced>>
    <2>1. SegTypeOK'
      BY <1>1, <1>3, <1>5, <1>7 DEF SegTypeOK
    <2>2. WriterInv'
      BY <1>1, <1>4, <1>7 DEF WriterInv, AtFrontier
    <2>3. LegacyInv'
      BY <1>1, <1>4, <1>6, <1>7 DEF SegInv, LegacyInv
    <2> QED BY <2>1, <2>2, <2>3 DEF SegInv
  <1>8. CASE \E torn \in BOOLEAN :
                /\ segs' = [Created(w) EXCEPT ![w.seq].torn = @ \/ torn]
                /\ synced' = CreatedSynced(w)
    <2> PICK torn \in BOOLEAN :
                /\ segs' = [Created(w) EXCEPT ![w.seq].torn = @ \/ torn]
                /\ synced' = CreatedSynced(w)
      BY <1>8
    <2> DEFINE seg == Created(w)[w.seq]
               mark == seg.torn \/ torn
    <2>1. /\ Created(w) \in Seq(Segment) /\ Len(Created(w)) = w.seq /\ w.seq \in DOMAIN Created(w)
          /\ DOMAIN segs \subseteq DOMAIN Created(w)
          /\ \A k \in DOMAIN segs : Created(w)[k] = segs[k]
          /\ \A k \in DOMAIN Created(w) : k \in DOMAIN segs \/ k = w.seq
      BY <1>1, <1>3, CreatedFacts
    <2>2. /\ CreatedSynced(w) \in [DOMAIN Created(w) -> Nat]
          /\ \A k \in DOMAIN segs : CreatedSynced(w)[k] = synced[k]
          /\ w.seq \notin DOMAIN segs => CreatedSynced(w)[w.seq] = 0
      BY <1>1, <1>3, CreatedFacts
    <2>3. seg \in Segment
      BY <2>1, SMT
    <2>4. seg.pages \in Seq(Stored) /\ seg.torn \in BOOLEAN
      BY <2>3 DEF Segment
    <2>5. mark \in BOOLEAN
      OBVIOUS
    <2> HIDE DEF seg, mark
    <2>6. [seg EXCEPT !.torn = mark] = [pages |-> seg.pages, torn |-> mark]
      BY <2>3, SMT DEF Segment
    <2>7. [pages |-> seg.pages, torn |-> mark] \in Segment
      BY <2>4, <2>5 DEF Segment
    <2>8. segs' = [Created(w) EXCEPT ![w.seq] = [pages |-> seg.pages, torn |-> mark]]
      BY <2>6 DEF seg, mark
    <2>9. /\ segs' \in Seq(Segment) /\ Len(segs') = w.seq /\ DOMAIN segs' = DOMAIN Created(w)
          /\ \A k \in DOMAIN segs' : segs'[k].pages = Created(w)[k].pages
          /\ synced' = CreatedSynced(w)
      BY <2>1, <2>7, <2>8, SMT DEF seg
    <2>10. \A k \in DOMAIN segs' : synced'[k] <= Len(segs'[k].pages)
      <3> SUFFICES ASSUME NEW k \in DOMAIN segs'
                   PROVE  synced'[k] <= Len(segs'[k].pages)
        OBVIOUS
      <3>1. CASE k \in DOMAIN segs
        BY <1>3, <2>1, <2>2, <2>9, <3>1, SMT DEF SegTypeOK
      <3>2. CASE k \notin DOMAIN segs
        <4>1. k = w.seq /\ synced'[k] = 0
          BY <2>1, <2>2, <2>9, <3>2
        <4>2. segs'[k].pages = seg.pages
          BY <2>9, <4>1 DEF seg
        <4> QED BY <2>4, <4>1, <4>2, SMT
      <3> QED BY <3>1, <3>2
    <2>11. Len(segs') >= Len(segs)
      BY <1>3, <2>1, <2>9, LongerDomain
    <2>12. SegTypeOK'
      BY <1>1, <1>3, <1>5, <2>2, <2>9, <2>10, <2>11, SMT DEF SegTypeOK
    <2>13. WriterInv'
      BY <1>1, <1>3, <1>4, <2>9 DEF WriterInv, AtFrontier
    <2>14. LegacyInv'
      <3>1. \A k \in DOMAIN legacy : k \in DOMAIN segs
        BY <1>3, <1>6, SMT
      <3>2. \A k \in DOMAIN legacy : segs'[k].pages = segs[k].pages /\ synced'[k] = synced[k]
        BY <2>1, <2>2, <2>9, <3>1, SMT
      <3> QED BY <1>1, <1>4, <1>6, <3>2, SMT DEF SegInv, LegacyInv
    <2> QED BY <2>12, <2>13, <2>14 DEF SegInv
  <1> QED BY <1>2, <1>7, <1>8

\* Opening the store keeps the invariant: the boundary of the older layout is
\* stepped over while its marker is missing.
LEMMA OpenInv ==
    ASSUME SegInv, Open
    PROVE  SegInv'
  <1> DEFINE init == (marker = "absent")
             w0 == [phase |-> "idle", seq |-> IF segs = << >> THEN 1 ELSE Len(segs),
                    length |-> 0, needs_recovery |-> TRUE, initialize_layout |-> init]
             w1 == recover_frontier(w0)
  <1>1. /\ segs \in Seq(Segment) /\ Len(segs) \in Nat /\ DOMAIN segs = 1 .. Len(segs)
        /\ legacy \in Seq(Segment) /\ Len(legacy) \in Nat /\ entries \in 0 .. Len(segs)
    BY SMT DEF SegInv, SegTypeOK
  <1>2. writer' = (IF init THEN rotate(w1) ELSE w1) /\ UNCHANGED disk
    BY DEF Open, OpenWith
  <1>3. AtFrontier(w0) /\ w0.phase = "idle"
    <2>1. init \in BOOLEAN
      OBVIOUS
    <2> HIDE DEF init
    <2>2. w0 \in Writer
      BY <1>1, <2>1 DEF Writer
    <2> QED BY <1>1, <2>2, SMT DEF AtFrontier
  <1>4. w0.seq >= Len(segs)
    BY <1>1, SMT
  <1> HIDE DEF w0
  <1>5. /\ AtFrontier(w1) /\ w1.phase = "idle" /\ w1.seq >= w0.seq
        /\ w1.seq \in DOMAIN segs => ~segs[w1.seq].torn
    BY <1>1, <1>3, RecoverFacts
  <1> HIDE DEF w1
  <1>6. AtFrontier(rotate(w1)) /\ rotate(w1).phase = "idle" /\ rotate(w1).seq = Len(segs) + 1
    BY <1>1, <1>5, RotateFacts
  <1>7. /\ AtFrontier(writer') /\ writer'.phase = "idle"
        /\ writer'.seq \in DOMAIN segs => ~segs[writer'.seq].torn
    BY <1>1, <1>2, <1>5, <1>6, SMT
  <1>8. SegTypeOK'
    BY <1>2, <1>7 DEF SegInv, SegTypeOK, disk, AtFrontier
  <1>9. WriterInv'
    BY <1>1, <1>2, <1>7 DEF WriterInv, disk, AtFrontier
  <1>10. LegacyInv'
    <2>1. legacy # << >> => writer'.seq > Len(legacy)
      <3>1. CASE init
        BY <1>1, <1>2, <1>6, <3>1, SMT DEF SegInv, LegacyInv
      <3>2. CASE ~init
        <4>1. w1.seq \in Nat /\ w0.seq \in Nat
          BY <1>3, <1>5 DEF AtFrontier, Writer
        <4> QED BY <1>1, <1>2, <1>4, <1>5, <3>2, <4>1, SMT DEF SegInv, LegacyInv
      <3> QED BY <3>1, <3>2
    <2> QED BY <1>2, <2>1 DEF SegInv, LegacyInv, disk
  <1> QED BY <1>8, <1>9, <1>10 DEF SegInv

\* Making some pages of the current segments durable keeps the invariant.
LEMMA MoreSynced ==
    ASSUME SegInv, UNCHANGED <<segs, legacy>>,
           synced' \in [DOMAIN segs -> Nat],
           \A k \in DOMAIN segs : synced'[k] \in {synced[k], Len(segs[k].pages)},
           entries' \in {entries, Len(segs)}
    PROVE  /\ \A k \in DOMAIN segs : synced'[k] <= Len(segs'[k].pages)
           /\ entries' \in 0 .. Len(segs) /\ entries' >= entries
           /\ \A k \in DOMAIN legacy :
                segs'[k].pages = legacy[k].pages /\ synced'[k] = Len(legacy[k].pages)
  <1>1. /\ segs \in Seq(Segment) /\ Len(segs) \in Nat /\ DOMAIN segs = 1 .. Len(segs)
        /\ legacy \in Seq(Segment) /\ entries \in 0 .. Len(segs)
    BY SMT DEF SegInv, SegTypeOK
  <1>2. \A k \in DOMAIN segs : segs[k].pages \in Seq(Stored) /\ Len(segs[k].pages) \in Nat
    <2> TAKE k \in DOMAIN segs
    <2>1. segs[k] \in Segment
      BY <1>1, SMT
    <2> QED BY <2>1, SMT DEF Segment
  <1>3. \A k \in DOMAIN segs : synced'[k] <= Len(segs'[k].pages)
    BY <1>2, SMT DEF SegInv, SegTypeOK
  <1>4. \A k \in DOMAIN legacy : k \in DOMAIN segs
    BY <1>1, SMT DEF SegInv, LegacyInv
  <1> QED BY <1>1, <1>3, <1>4, SMT DEF SegInv, LegacyInv

\* The fsyncs behind a page keep the invariant, completed or failed.
LEMMA PersistInv ==
    ASSUME SegInv, Persist \/ PersistFails
    PROVE  SegInv'
  <1>1. /\ segs \in Seq(Segment) /\ Len(segs) \in Nat /\ DOMAIN segs = 1 .. Len(segs)
        /\ synced \in [DOMAIN segs -> Nat] /\ writer \in Writer /\ legacy \in Seq(Segment)
        /\ Len(legacy) \in Nat
    BY SMT DEF SegInv, SegTypeOK
  <1>2. /\ writer.phase = "written" /\ writer.seq = Len(segs) /\ writer.seq \in DOMAIN segs
        /\ UNCHANGED <<segs, legacy>> /\ ~segs[writer.seq].torn
    <2>1. writer.phase = "written" /\ UNCHANGED <<segs, legacy>>
      BY DEF Persist, PersistFails
    <2>2. writer.seq = Len(segs) /\ writer.seq # 0
      BY <1>1, <2>1 DEF SegInv, WriterInv
    <2>3. writer.seq \in DOMAIN segs
      BY <1>1, <2>2, SMT
    <2> QED BY <2>1, <2>2, <2>3 DEF SegInv, WriterInv
  <1>3. segs[writer.seq] \in Segment
    BY <1>1, <1>2, SMT
  <1>4. Len(segs[writer.seq].pages) \in Nat /\ FileLen(segs[writer.seq]) \in Nat
    BY <1>3, FileLenNat, SMT DEF Segment
  <1>5. \/ synced' = synced
        \/ synced' = [synced EXCEPT ![writer.seq] = Len(segs[writer.seq].pages)]
    BY DEF Persist, PersistFails
  <1>6. /\ synced' \in [DOMAIN segs -> Nat]
        /\ \A k \in DOMAIN segs : synced'[k] \in {synced[k], Len(segs[k].pages)}
    BY <1>1, <1>2, <1>4, <1>5
  <1>7. entries' \in {entries, Len(segs)}
    BY DEF Persist, PersistFails
  <1>8. /\ \A k \in DOMAIN segs : synced'[k] <= Len(segs'[k].pages)
        /\ entries' \in 0 .. Len(segs) /\ entries' >= entries
        /\ \A k \in DOMAIN legacy :
                segs'[k].pages = legacy[k].pages /\ synced'[k] = Len(legacy[k].pages)
    BY <1>2, <1>6, <1>7, MoreSynced
  <1>9. marker' = marker \/ (marker' \in {"visible", "durable"} /\ entries' = Len(segs))
    BY DEF Persist, PersistFails
  <1>10. writer' \in Writer /\ writer'.phase = "idle" /\ writer'.seq = writer.seq
    <2>1. CASE Persist
      <3>1. writer' = [phase |-> "idle", seq |-> writer.seq, length |-> FileLen(segs[writer.seq]),
                       needs_recovery |-> FALSE, initialize_layout |-> FALSE]
        BY <1>1, <2>1 DEF Persist, Writer
      <3> QED BY <1>1, <1>4, <3>1 DEF Writer
    <2>2. CASE PersistFails
      <3> PICK known \in BOOLEAN :
             writer' = [writer EXCEPT !.phase = "idle", !.initialize_layout = @ /\ ~known]
        BY <2>2 DEF PersistFails
      <3> DEFINE init == writer.initialize_layout /\ ~known
      <3>1. init \in BOOLEAN
        OBVIOUS
      <3>2. writer' = [phase |-> "idle", seq |-> writer.seq, length |-> writer.length,
                       needs_recovery |-> writer.needs_recovery, initialize_layout |-> init]
        BY <1>1 DEF Writer
      <3> HIDE DEF init
      <3> QED BY <1>1, <3>1, <3>2 DEF Writer
    <2> QED BY <2>1, <2>2
  <1>11. SegTypeOK'
    BY <1>2, <1>6, <1>8, <1>9, <1>10 DEF SegInv, SegTypeOK
  <1>12. WriterInv'
    BY <1>1, <1>2, <1>10, SMT DEF WriterInv
  <1>13. LegacyInv'
    <2>1. legacy # << >> => writer.seq > Len(legacy)
      BY <1>2 DEF SegInv, LegacyInv
    <2>2. entries \in Nat /\ entries' \in Nat /\ entries >= Len(legacy)
      BY <1>8, SMT DEF SegInv, LegacyInv, SegTypeOK
    <2>3. legacy # << >> /\ marker' # "absent" => entries' > Len(legacy)
      <3>1. CASE marker' = marker
        BY <1>1, <1>8, <2>2, <3>1, SMT DEF SegInv, LegacyInv
      <3>2. CASE entries' = Len(segs)
        BY <1>1, <1>2, <2>1, <3>2
      <3> QED BY <1>9, <3>1, <3>2
    <2> QED BY <1>1, <1>2, <1>8, <1>10, <2>1, <2>2, <2>3, SMT DEF LegacyInv
  <1> QED BY <1>11, <1>12, <1>13 DEF SegInv

\* So does sync_all.
LEMMA SyncInv ==
    ASSUME SegInv, sync_all \/ SyncAllFails
    PROVE  SegInv'
  <1>1. /\ segs \in Seq(Segment) /\ Len(segs) \in Nat /\ DOMAIN segs = 1 .. Len(segs)
        /\ synced \in [DOMAIN segs -> Nat]
    BY SMT DEF SegInv, SegTypeOK
  <1>2. UNCHANGED <<segs, marker, writer, legacy>> /\ entries' \in {entries, Len(segs)}
    BY DEF sync_all, SyncAllFails
  <1>3. \A k \in DOMAIN segs : Len(segs[k].pages) \in Nat
    <2> TAKE k \in DOMAIN segs
    <2>1. segs[k] \in Segment
      BY <1>1, SMT
    <2> QED BY <2>1, SMT DEF Segment
  <1>4. /\ synced' \in [DOMAIN segs -> Nat]
        /\ \A k \in DOMAIN segs : synced'[k] \in {synced[k], Len(segs[k].pages)}
    <2>1. CASE sync_all
      BY <1>3, <2>1 DEF sync_all
    <2>2. CASE SyncAllFails
      BY <1>1, <1>3, <2>2 DEF SyncAllFails
    <2> QED BY <2>1, <2>2
  <1>5. /\ \A k \in DOMAIN segs : synced'[k] <= Len(segs'[k].pages)
        /\ entries' \in 0 .. Len(segs) /\ entries' >= entries
        /\ \A k \in DOMAIN legacy :
                segs'[k].pages = legacy[k].pages /\ synced'[k] = Len(legacy[k].pages)
    BY <1>2, <1>4, MoreSynced
  <1>6. SegTypeOK'
    BY <1>2, <1>4, <1>5 DEF SegInv, SegTypeOK
  <1>7. WriterInv'
    BY <1>2 DEF SegInv, WriterInv
  <1>8. LegacyInv'
    <2>1. entries \in Nat /\ entries' \in Nat /\ Len(legacy) \in Nat
      BY <1>5, SMT DEF SegInv, SegTypeOK
    <2> QED BY <1>2, <1>5, <2>1, SMT DEF SegInv, LegacyInv
  <1> QED BY <1>6, <1>7, <1>8 DEF SegInv

\* An explicit rotation keeps the invariant.
LEMMA RotateInv ==
    ASSUME SegInv, Rotate
    PROVE  SegInv'
  <1>1. /\ segs \in Seq(Segment) /\ Len(segs) \in Nat /\ DOMAIN segs = 1 .. Len(segs)
        /\ legacy \in Seq(Segment) /\ Len(legacy) \in Nat /\ entries \in 0 .. Len(segs)
        /\ entries >= Len(legacy)
    BY SMT DEF SegInv, SegTypeOK, LegacyInv
  <1>2. AtFrontier(writer) /\ writer.phase = "idle" /\ writer' = rotate(writer) /\ UNCHANGED disk
    BY DEF SegInv, SegTypeOK, WriterInv, AtFrontier, Rotate
  <1>3. AtFrontier(writer') /\ writer'.phase = "idle" /\ writer'.seq = Len(segs) + 1
    BY <1>1, <1>2, RotateFacts
  <1>4. SegTypeOK'
    BY <1>2, <1>3 DEF SegInv, SegTypeOK, disk, AtFrontier
  <1>5. WriterInv'
    BY <1>1, <1>2, <1>3, SMT DEF WriterInv, disk, AtFrontier
  <1>6. LegacyInv'
    BY <1>1, <1>2, <1>3, SMT DEF SegInv, LegacyInv, disk
  <1> QED BY <1>4, <1>5, <1>6 DEF SegInv

\* A closed or killed writer leaves the disk as it was.
LEMMA StopInv ==
    ASSUME SegInv, Close \/ Kill
    PROVE  SegInv'
  <1>1. writer' = Closed /\ UNCHANGED disk
    BY DEF Close, Kill
  <1>2. Closed \in Writer /\ Closed.phase = "closed" /\ Closed.needs_recovery = TRUE
    BY DEF Closed, Writer
  <1>3. SegTypeOK'
    BY <1>1, <1>2 DEF SegInv, SegTypeOK, disk
  <1>4. WriterInv' /\ LegacyInv'
    BY <1>1, <1>2 DEF SegInv, WriterInv, LegacyInv, disk
  <1> QED BY <1>3, <1>4 DEF SegInv

\* The pages of a segment are a sequence.
LEMMA SegmentPages ==
    ASSUME NEW ss \in Seq(Segment), NEW k \in DOMAIN ss
    PROVE  ss[k].pages \in Seq(Stored) /\ Len(ss[k].pages) \in Nat
  <1>1. ss[k] \in Segment
    BY SMT
  <1> QED BY <1>1, SMT DEF Segment

\* What a power loss may leave of one segment.
LEMMA RemainsFacts ==
    ASSUME SegTypeOK, NEW k \in DOMAIN segs, NEW seg \in Remains(k)
    PROVE  /\ seg \in Segment
           /\ Len(seg.pages) >= synced[k] /\ Len(seg.pages) <= Len(segs[k].pages)
           /\ \A i \in 1 .. Len(seg.pages) : seg.pages[i] = segs[k].pages[i]
  <1>1. segs[k].pages \in Seq(Stored) /\ Len(segs[k].pages) \in Nat /\ synced[k] \in Nat
    BY SegmentPages DEF SegTypeOK
  <1>2. PICK m \in synced[k] .. Len(segs[k].pages), t \in BOOLEAN :
          seg = [pages |-> SubSeq(segs[k].pages, 1, m), torn |-> t]
    BY SMT DEF Remains
  <1> DEFINE sub == SubSeq(segs[k].pages, 1, m)
  <1>3. m \in 0 .. Len(segs[k].pages) /\ m >= synced[k]
    BY <1>1, SMT
  <1>4. sub \in Seq(Stored) /\ Len(sub) = m /\ \A i \in 1 .. m : sub[i] = segs[k].pages[i]
    BY <1>1, <1>3, PrefixFacts
  <1>5. seg = [pages |-> sub, torn |-> t]
    BY <1>2
  <1> HIDE DEF sub
  <1>6. seg \in Segment
    BY <1>4, <1>5 DEF Segment
  <1> QED BY <1>1, <1>3, <1>4, <1>5, <1>6, SMT

\* What a power loss leaves: a prefix of the segments, at least the durable
\* ones, each cut to a prefix that keeps the durable pages.
LEMMA PowerLossFacts ==
    ASSUME SegTypeOK, PowerLoss
    PROVE  /\ segs' \in Seq(Segment)
           /\ Len(segs') >= entries /\ Len(segs') <= Len(segs)
           /\ entries' = Len(segs')
           /\ synced' \in [DOMAIN segs' -> Nat]
           /\ \A k \in DOMAIN segs' :
                /\ k \in DOMAIN segs
                /\ synced'[k] >= synced[k] /\ synced'[k] <= Len(segs[k].pages)
                /\ synced'[k] = Len(segs'[k].pages)
                /\ \A i \in 1 .. synced'[k] : segs'[k].pages[i] = segs[k].pages[i]
  <1>1. /\ segs \in Seq(Segment) /\ Len(segs) \in Nat /\ DOMAIN segs = 1 .. Len(segs)
        /\ entries \in 0 .. Len(segs)
    BY SMT DEF SegTypeOK
  <1>2. PICK n \in entries .. Len(segs) :
          /\ segs' \in [1 .. n -> UNION {Remains(k) : k \in 1 .. n}]
          /\ \A k \in 1 .. n : segs'[k] \in Remains(k)
          /\ synced' = [k \in 1 .. n |-> Len(segs'[k].pages)]
          /\ entries' = n
    BY DEF PowerLoss, Lose
  <1>3. n \in Nat /\ n <= Len(segs) /\ n >= entries /\ \A k \in 1 .. n : k \in DOMAIN segs
    BY <1>1, SMT
  <1>4. \A k \in 1 .. n :
          /\ segs'[k] \in Segment
          /\ Len(segs'[k].pages) >= synced[k] /\ Len(segs'[k].pages) <= Len(segs[k].pages)
          /\ \A i \in 1 .. Len(segs'[k].pages) : segs'[k].pages[i] = segs[k].pages[i]
    BY <1>2, <1>3, RemainsFacts
  <1>5. DOMAIN segs' = 1 .. n /\ segs' \in [1 .. n -> Segment]
    BY <1>2, <1>4
  <1>6. segs' \in Seq(Segment) /\ Len(segs') = n
    BY <1>3, <1>5, FunctionIsSeq
  <1>7. \A k \in 1 .. n : Len(segs'[k].pages) \in Nat /\ synced'[k] = Len(segs'[k].pages)
    BY <1>2, <1>5, <1>6, SegmentPages
  <1>8. synced' \in [DOMAIN segs' -> Nat]
    BY <1>2, <1>5, <1>7
  <1>9. \A k \in DOMAIN segs' :
          /\ k \in DOMAIN segs
          /\ synced'[k] >= synced[k] /\ synced'[k] <= Len(segs[k].pages)
          /\ synced'[k] = Len(segs'[k].pages)
          /\ \A i \in 1 .. synced'[k] : segs'[k].pages[i] = segs[k].pages[i]
    BY <1>3, <1>4, <1>5, <1>7
  <1> QED BY <1>2, <1>3, <1>6, <1>8, <1>9

\* A power loss keeps the invariant.
LEMMA PowerLossInv ==
    ASSUME SegInv, PowerLoss
    PROVE  SegInv'
  <1>1. SegTypeOK /\ entries \in Nat /\ legacy \in Seq(Segment) /\ Len(legacy) \in Nat
          /\ DOMAIN legacy = 1 .. Len(legacy)
    BY SMT DEF SegInv, SegTypeOK
  <1>2. /\ segs' \in Seq(Segment)
        /\ Len(segs') >= entries /\ Len(segs') <= Len(segs)
        /\ entries' = Len(segs')
        /\ synced' \in [DOMAIN segs' -> Nat]
    BY <1>1, PowerLossFacts
  <1>3. \A k \in DOMAIN segs' :
                /\ k \in DOMAIN segs
                /\ synced'[k] >= synced[k] /\ synced'[k] <= Len(segs[k].pages)
                /\ synced'[k] = Len(segs'[k].pages)
                /\ \A i \in 1 .. synced'[k] : segs'[k].pages[i] = segs[k].pages[i]
    BY <1>1, PowerLossFacts
  <1>4. writer' = Closed /\ legacy' = legacy /\ (marker' = marker \/ marker = "visible")
          /\ (marker \in {"absent", "visible", "durable"} => marker' \in {"absent", "durable"} \/ marker' = marker)
    BY DEF PowerLoss
  <1>5. Closed \in Writer /\ Closed.phase = "closed" /\ Closed.needs_recovery = TRUE
    BY DEF Closed, Writer
  <1>6. SegTypeOK'
    <2>1. \A k \in DOMAIN segs' : synced'[k] <= Len(segs'[k].pages)
      BY <1>2, <1>3, SMT
    <2>2. entries' \in 0 .. Len(segs')
      BY <1>2, SMT
    <2>3. marker' \in {"absent", "visible", "durable"}
      BY <1>1, <1>4 DEF SegTypeOK
    <2> QED BY <1>1, <1>2, <1>4, <1>5, <2>1, <2>2, <2>3 DEF SegTypeOK
  <1>7. WriterInv'
    BY <1>4, <1>5 DEF WriterInv
  <1>8. LegacyInv'
    <2>1. entries >= Len(legacy) /\ Len(segs') \in Nat /\ entries' >= Len(legacy)
      BY <1>1, <1>2, SMT DEF SegInv, LegacyInv
    <2>2. ASSUME NEW k \in DOMAIN legacy
          PROVE  segs'[k].pages = legacy[k].pages /\ synced'[k] = Len(legacy[k].pages)
      <3>1. k \in DOMAIN segs'
        BY <1>1, <1>2, <2>1, SMT
      <3>2. legacy[k] \in Segment /\ segs'[k] \in Segment
        BY <1>1, <1>2, <3>1, SMT
      <3>3. legacy[k].pages \in Seq(Stored) /\ segs'[k].pages \in Seq(Stored)
        BY <3>2 DEF Segment
      <3>4. segs[k].pages = legacy[k].pages /\ synced[k] = Len(legacy[k].pages)
        BY DEF SegInv, LegacyInv
      <3>5. synced'[k] \in Nat
        BY <1>2, <3>1
      <3>6. synced'[k] = Len(legacy[k].pages)
        BY <1>3, <3>1, <3>3, <3>4, <3>5, SMT
      <3>7. Len(segs'[k].pages) = Len(legacy[k].pages)
              /\ \A i \in 1 .. Len(legacy[k].pages) : segs'[k].pages[i] = legacy[k].pages[i]
        BY <1>3, <3>1, <3>4, <3>6
      <3>8. segs'[k].pages = legacy[k].pages
        BY <3>3, <3>7, SMT
      <3> QED BY <3>6, <3>8
    <2>3. legacy # << >> /\ marker' # "absent" => entries' > Len(legacy)
      <3>1. marker' # "absent" => marker # "absent"
        BY <1>4
      <3> QED BY <1>1, <1>2, <2>1, <3>1, SMT DEF SegInv, LegacyInv
    <2> QED BY <1>4, <1>5, <2>1, <2>2, <2>3 DEF LegacyInv
  <1> QED BY <1>6, <1>7, <1>8 DEF SegInv

\* The invariant holds initially.
LEMMA InitInv == SegInit => SegInv
  <1> SUFFICES ASSUME SegInit PROVE SegInv
    OBVIOUS
  <1>1. segs \in Seq(Segment)
    <2>1. CASE segs = << >>
      BY <2>1, SMT
    <2>2. ASSUME NEW r \in Record, NEW t \in BOOLEAN,
                 segs = <<[pages |-> <<[recs |-> <<r>>, end |-> EncodedLen(<<r>>)]>>, torn |-> t]>>
          PROVE  segs \in Seq(Segment)
      <3>1. <<r>> \in Page
        BY SMT DEF Page
      <3>2. [recs |-> <<r>>, end |-> EncodedLen(<<r>>)] \in Stored
        BY <3>1, EncodedLenNat DEF Stored
      <3> DEFINE page == [recs |-> <<r>>, end |-> EncodedLen(<<r>>)]
      <3> HIDE DEF page
      <3>3. [pages |-> <<page>>, torn |-> t] \in Segment
        BY <3>2, SMT DEF Segment, page
      <3> QED BY <2>2, <3>3, SMT DEF page
    <2>3. \/ segs = << >>
          \/ \E r \in Record, t \in BOOLEAN :
               segs = <<[pages |-> <<[recs |-> <<r>>, end |-> EncodedLen(<<r>>)]>>, torn |-> t]>>
      BY DEF SegInit, FilesInit
    <2> QED BY <2>1, <2>2, <2>3
  <1>2. \A k \in DOMAIN segs : Len(segs[k].pages) \in Nat
    BY <1>1, SegmentPages
  <1>3. Closed \in Writer /\ Closed.phase = "closed" /\ Closed.needs_recovery = TRUE
    BY DEF Closed, Writer
  <1>4. SegTypeOK
    BY <1>1, <1>2, <1>3, SMT DEF SegInit, FilesInit, SegTypeOK
  <1>5. WriterInv
    BY <1>3 DEF SegInit, FilesInit, WriterInv
  <1>6. LegacyInv
    BY <1>1, <1>2, <1>3, SMT DEF SegInit, FilesInit, LegacyInv
  <1> QED BY <1>4, <1>5, <1>6 DEF SegInv

\* The pages a writer appends are sequences of records.
LEMMA BoundedPages == BoundedPage \subseteq Page
  <1> SUFFICES ASSUME NEW n \in 0 .. PageLimit, NEW page \in [1 .. n -> Record]
               PROVE  page \in Page
    BY DEF BoundedPage
  <1>1. n \in Nat
    BY SMT
  <1>2. page \in Seq(Record)
    BY <1>1, FunctionIsSeq
  <1> QED BY <1>2 DEF Page

\* An append refused before it reached the file changes at most what the
\* writer knows about its frontier.
LEMMA AppendRefusedFacts ==
    ASSUME SegInv, NEW page, AppendRefused(page)
    PROVE  SegInv' /\ UNCHANGED disk /\ writer'.phase = "idle"
  <1> DEFINE w == IF writer.needs_recovery THEN recover_frontier(writer) ELSE writer
  <1>1. /\ segs \in Seq(Segment) /\ Len(segs) \in Nat /\ writer \in Writer /\ writer.phase = "idle"
        /\ AtFrontier(writer) /\ UNCHANGED disk
    BY SMT DEF AppendRefused, SegInv, SegTypeOK, WriterInv, AtFrontier
  <1>2. writer' = writer \/ writer' = w
          \/ writer' = [writer EXCEPT !.length = FrontierLength(writer)]
    BY DEF AppendRefused
  <1>3. /\ AtFrontier(w) /\ w.seq >= writer.seq /\ w.phase = "idle"
        /\ w.seq \in DOMAIN segs => ~segs[w.seq].torn
    <2>1. CASE writer.needs_recovery
      BY <1>1, <2>1, RecoverFacts
    <2>2. CASE ~writer.needs_recovery
      BY <1>1, <2>2, SMT DEF SegInv, WriterInv, AtFrontier, Writer
    <2> QED BY <2>1, <2>2
  <1> HIDE DEF w
  <1>4. CASE writer' = writer
    <2>1. SegTypeOK' /\ WriterInv' /\ LegacyInv'
      BY <1>1, <1>4 DEF SegInv, SegTypeOK, WriterInv, LegacyInv, disk
    <2> QED BY <1>1, <1>4, <2>1 DEF SegInv
  <1>5. CASE writer' = w
    <2>1. SegTypeOK'
      BY <1>1, <1>3, <1>5 DEF SegInv, SegTypeOK, disk, AtFrontier
    <2>2. WriterInv'
      BY <1>1, <1>3, <1>5 DEF WriterInv, disk, AtFrontier
    <2>3. writer.seq \in Nat /\ w.seq \in Nat /\ Len(legacy) \in Nat
      BY <1>1, <1>3, SMT DEF AtFrontier, Writer, SegInv, SegTypeOK
    <2>4. LegacyInv'
      BY <1>1, <1>3, <1>5, <2>3, SMT DEF SegInv, LegacyInv, disk
    <2> QED BY <1>1, <1>3, <1>5, <2>1, <2>2, <2>4 DEF SegInv
  <1>6. CASE writer' = [writer EXCEPT !.length = FrontierLength(writer)]
    <2>1. FrontierLength(writer) \in Nat
      BY <1>1, FileLenNat, SMT DEF FrontierLength, Exists
    <2>2. /\ writer' \in Writer /\ writer'.seq = writer.seq /\ writer'.phase = writer.phase
          /\ writer'.needs_recovery = writer.needs_recovery
      BY <1>1, <1>6, <2>1 DEF Writer
    <2>3. SegTypeOK' /\ WriterInv' /\ LegacyInv'
      BY <1>1, <2>2 DEF SegInv, SegTypeOK, WriterInv, LegacyInv, disk
    <2> QED BY <1>1, <2>2, <2>3 DEF SegInv
  <1> QED BY <1>2, <1>4, <1>5, <1>6

\* Every step of the store keeps its invariant.
LEMMA NextInv == SegInv /\ [SegNext]_segVars => SegInv'
  <1> SUFFICES ASSUME SegInv, [SegNext]_segVars PROVE SegInv'
    OBVIOUS
  <1>1. CASE Open
    BY <1>1, OpenInv
  <1>2. ASSUME NEW page \in BoundedPage, WritePage(page) \/ WriteFails(page)
        PROVE  SegInv'
    BY <1>2, BoundedPages, WritePageInv, WriteFailsInv
  <1>3. CASE Persist \/ PersistFails
    BY <1>3, PersistInv
  <1>4. CASE sync_all \/ SyncAllFails
    BY <1>4, SyncInv
  <1>5. CASE Rotate
    BY <1>5, RotateInv
  <1>6. CASE Close \/ Kill
    BY <1>6, StopInv
  <1>7. CASE PowerLoss
    BY <1>7, PowerLossInv
  <1>8. CASE UNCHANGED segVars
    BY <1>8 DEF segVars, SegInv, SegTypeOK, WriterInv, LegacyInv
  <1>9. ASSUME NEW page \in BoundedPage, AppendRefused(page)
        PROVE  SegInv'
    BY <1>9, AppendRefusedFacts
  <1> QED BY <1>1, <1>2, <1>3, <1>4, <1>5, <1>6, <1>7, <1>8, <1>9 DEF SegNext

\* The inductive invariant holds in every reachable state.
THEOREM SegInvariant == SegSpec => []SegInv
  <1> QED BY InitInv, NextInv, PTL DEF SegSpec

\* No page is ever added to a segment of the older layout, for every chain
\* size and through every interruption.
THEOREM LegacyBoundaryInvariant == SegSpec => []LegacyBoundary
  <1>1. SegInv => LegacyBoundary
    <2> SUFFICES ASSUME SegInv, NEW k \in DOMAIN legacy
                 PROVE  k \in DOMAIN segs /\ segs[k].pages = legacy[k].pages
      BY DEF LegacyBoundary
    <2>1. legacy \in Seq(Segment) /\ segs \in Seq(Segment) /\ entries \in 0 .. Len(segs)
      BY DEF SegInv, SegTypeOK
    <2>2. entries >= Len(legacy) /\ segs[k].pages = legacy[k].pages
      BY DEF SegInv, LegacyInv
    <2> QED BY <2>1, <2>2, SMT
  <1> QED BY <1>1, SegInvariant, PTL

\* A failed write leaves every complete page as it was.
LEMMA WriteFailsFacts ==
    ASSUME SegInv, NEW page \in Page, WriteFails(page)
    PROVE  /\ DOMAIN segs \subseteq DOMAIN segs'
           /\ \A k \in DOMAIN segs : segs'[k].pages = segs[k].pages /\ synced'[k] = synced[k]
           /\ \A k \in DOMAIN segs' : k \notin DOMAIN segs => segs'[k].pages = << >>
  <1> DEFINE w == Placed(page)
  <1>1. AtFrontier(w) /\ SegTypeOK /\ segs \in Seq(Segment)
    BY PlacedFacts DEF WriteFails, SegInv, SegTypeOK
  <1>2. \/ UNCHANGED <<segs, synced>>
        \/ \E torn \in BOOLEAN :
                /\ segs' = [Created(w) EXCEPT ![w.seq].torn = @ \/ torn]
                /\ synced' = CreatedSynced(w)
    BY DEF WriteFails
  <1> HIDE DEF w
  <1>3. CASE UNCHANGED <<segs, synced>>
    BY <1>3
  <1>4. CASE \E torn \in BOOLEAN :
                /\ segs' = [Created(w) EXCEPT ![w.seq].torn = @ \/ torn]
                /\ synced' = CreatedSynced(w)
    <2> PICK torn \in BOOLEAN :
                /\ segs' = [Created(w) EXCEPT ![w.seq].torn = @ \/ torn]
                /\ synced' = CreatedSynced(w)
      BY <1>4
    <2> DEFINE seg == Created(w)[w.seq]
               mark == seg.torn \/ torn
    <2>1. /\ Created(w) \in Seq(Segment) /\ w.seq \in DOMAIN Created(w)
          /\ DOMAIN segs \subseteq DOMAIN Created(w)
          /\ \A k \in DOMAIN segs : Created(w)[k] = segs[k]
          /\ \A k \in DOMAIN Created(w) : k \in DOMAIN segs \/ k = w.seq
          /\ w.seq \notin DOMAIN segs => seg = EmptySegment
          /\ \A k \in DOMAIN segs : CreatedSynced(w)[k] = synced[k]
      BY <1>1, CreatedFacts
    <2>2. seg \in Segment
      BY <2>1, SMT
    <2> HIDE DEF mark
    <2>3. [seg EXCEPT !.torn = mark] = [pages |-> seg.pages, torn |-> mark]
      <3> HIDE DEF seg
      <3> QED BY <2>2, SMT DEF Segment
    <2>4. segs' = [Created(w) EXCEPT ![w.seq] = [pages |-> seg.pages, torn |-> mark]]
      BY <2>3 DEF mark
    <2>5. DOMAIN segs' = DOMAIN Created(w)
            /\ \A k \in DOMAIN segs' : segs'[k].pages = Created(w)[k].pages
      BY <2>1, <2>4, SMT
    <2>6. w.seq \notin DOMAIN segs => Created(w)[w.seq].pages = << >>
      BY <2>1, SMT DEF EmptySegment
    <2> QED BY <2>1, <2>5, <2>6, SMT
  <1> QED BY <1>2, <1>3, <1>4

\* A step that only makes pages durable seals nothing away.
LEMMA SyncStep ==
    ASSUME SegInv, Persist \/ PersistFails \/ sync_all \/ SyncAllFails
    PROVE  /\ segs' = segs
           /\ \A k \in DOMAIN segs : synced'[k] \in {synced[k], Len(segs[k].pages)}
           /\ entries' \in {entries, Len(segs)}
  <1>1. synced \in [DOMAIN segs -> Nat]
    BY DEF SegInv, SegTypeOK
  <1>2. CASE Persist \/ PersistFails
    BY <1>1, <1>2 DEF Persist, PersistFails
  <1>3. CASE sync_all
    BY <1>1, <1>3 DEF sync_all
  <1>4. CASE SyncAllFails
    BY <1>1, <1>4 DEF SyncAllFails
  <1> QED BY <1>2, <1>3, <1>4

\* Every step keeps sealed segments and durable pages.
LEMMA NextSealed == SegInv /\ SegNext => SealedStep
  <1> SUFFICES ASSUME SegInv, SegNext PROVE SealedStep
    OBVIOUS
  <1>1. /\ segs \in Seq(Segment) /\ Len(segs) \in Nat /\ DOMAIN segs = 1 .. Len(segs)
        /\ synced \in [DOMAIN segs -> Nat] /\ entries \in 0 .. Len(segs)
        /\ \A k \in DOMAIN segs : synced[k] <= Len(segs[k].pages)
    BY SMT DEF SegInv, SegTypeOK
  <1>2. \A k \in DOMAIN segs : segs[k].pages \in Seq(Stored) /\ Len(segs[k].pages) \in Nat
    BY <1>1, SegmentPages
  <1>3. \A k \in DOMAIN segs : \A i \in 1 .. synced[k] : i \in DOMAIN segs[k].pages
    BY <1>1, <1>2, SMT
  <1>4. \A k \in 1 .. entries : k \in DOMAIN segs
    BY <1>1, SMT
  <1>5. ASSUME NEW page \in BoundedPage, WritePage(page)
        PROVE  SealedStep
    <2> DEFINE w == Placed(page)
    <2>1. page \in Page
      BY BoundedPages
    <2>2. /\ segs' \in Seq(Segment) /\ Len(segs') = w.seq /\ Len(segs') >= Len(segs)
          /\ \A k \in DOMAIN segs : k # w.seq => segs'[k] = segs[k]
          /\ w.seq \in DOMAIN segs =>
                segs'[w.seq].pages = Append(segs[w.seq].pages, segs'[w.seq].pages[Len(segs'[w.seq].pages)])
          /\ \A k \in DOMAIN segs : synced'[k] = synced[k]
      BY <1>5, <2>1, WritePageFacts
    <2>3. entries' = entries
      BY <1>5 DEF WritePage
    <2> HIDE DEF w
    <2>4. \A k \in DOMAIN segs : k < Len(segs) => segs'[k] = segs[k]
      BY <1>1, <2>2, SMT
    <2>5. ASSUME NEW k \in DOMAIN segs, NEW i \in 1 .. synced[k]
          PROVE  i \in DOMAIN segs'[k].pages /\ segs'[k].pages[i] = segs[k].pages[i]
      <3>1. i \in DOMAIN segs[k].pages
        BY <1>3
      <3>2. CASE k # w.seq
        BY <2>2, <3>1, <3>2
      <3>3. CASE k = w.seq
        <4> DEFINE new == segs'[w.seq].pages[Len(segs'[w.seq].pages)]
        <4>1. segs'[k].pages = Append(segs[k].pages, new)
          BY <2>2, <3>3
        <4> HIDE DEF new
        <4> QED BY <1>2, <3>1, <4>1, SMT
      <3> QED BY <3>2, <3>3
    <2> QED BY <1>1, <1>4, <2>2, <2>3, <2>4, <2>5 DEF SealedStep
  <1>6. ASSUME NEW page \in BoundedPage, WriteFails(page)
        PROVE  SealedStep
    <2>1. page \in Page
      BY BoundedPages
    <2>2. \A k \in DOMAIN segs : segs'[k].pages = segs[k].pages /\ synced'[k] = synced[k]
      BY <1>6, <2>1, WriteFailsFacts
    <2>3. entries' = entries
      BY <1>6 DEF WriteFails
    <2> QED BY <1>1, <1>3, <1>4, <2>2, <2>3 DEF SealedStep
  <1>7. CASE Persist \/ PersistFails \/ sync_all \/ SyncAllFails
    <2>1. /\ segs' = segs /\ entries' \in {entries, Len(segs)}
          /\ \A k \in DOMAIN segs : synced'[k] \in {synced[k], Len(segs[k].pages)}
      BY <1>7, SyncStep
    <2>2. ASSUME NEW k \in 1 .. entries, NEW i \in 1 .. synced[k]
          PROVE  k \in 1 .. entries' /\ i \in 1 .. synced'[k]
      <3>1. k \in DOMAIN segs
        BY <1>1, SMT
      <3>2. synced[k] \in Nat /\ synced[k] <= Len(segs[k].pages) /\ Len(segs[k].pages) \in Nat
        BY <1>1, <1>2, <3>1
      <3>3. synced'[k] >= synced[k] /\ synced'[k] \in Nat
        BY <2>1, <3>1, <3>2, SMT
      <3>4. i \in 1 .. synced'[k]
        BY <3>2, <3>3, SMT
      <3>5. entries' >= entries /\ entries' \in Nat /\ entries \in Nat
        BY <1>1, <2>1, SMT
      <3>6. k \in 1 .. entries'
        BY <3>5, SMT
      <3> QED BY <3>4, <3>6
    <2> QED BY <1>3, <1>4, <2>1, <2>2 DEF SealedStep
  <1>8. CASE PowerLoss
    <2>1. SegTypeOK
      BY DEF SegInv
    <2>2. /\ segs' \in Seq(Segment) /\ Len(segs') >= entries /\ entries' = Len(segs')
          /\ synced' \in [DOMAIN segs' -> Nat]
      BY <1>8, <2>1, PowerLossFacts
    <2>3. \A k \in DOMAIN segs' :
                /\ k \in DOMAIN segs
                /\ synced'[k] >= synced[k] /\ synced'[k] <= Len(segs[k].pages)
                /\ synced'[k] = Len(segs'[k].pages)
                /\ \A i \in 1 .. synced'[k] : segs'[k].pages[i] = segs[k].pages[i]
      BY <1>8, <2>1, PowerLossFacts
    <2>4. \A k \in DOMAIN segs' : segs'[k].pages \in Seq(Stored)
                                    /\ DOMAIN segs'[k].pages = 1 .. synced'[k]
      BY <2>2, <2>3, SegmentPages, SMT
    <2>5. ASSUME NEW k \in DOMAIN segs', NEW i \in DOMAIN segs'[k].pages
          PROVE  i \in DOMAIN segs[k].pages /\ segs'[k].pages[i] = segs[k].pages[i]
      <3>1. i \in 1 .. synced'[k] /\ k \in DOMAIN segs
        BY <2>3, <2>4
      <3>2. synced'[k] \in Nat /\ synced'[k] <= Len(segs[k].pages)
        BY <2>2, <2>3
      <3>3. segs[k].pages \in Seq(Stored) /\ Len(segs[k].pages) \in Nat
        BY <1>2, <3>1
      <3>4. i \in DOMAIN segs[k].pages
        BY <3>1, <3>2, <3>3, SMT
      <3> QED BY <2>3, <3>1, <3>4
    <2>6. ASSUME NEW k \in 1 .. entries, NEW i \in 1 .. synced[k]
          PROVE  /\ k \in 1 .. entries' /\ i \in 1 .. synced'[k] /\ i \in DOMAIN segs'[k].pages
                 /\ segs'[k].pages[i] = segs[k].pages[i]
      <3>1. k \in DOMAIN segs'
        BY <1>1, <2>2, SMT
      <3>2. synced'[k] \in Nat /\ synced[k] \in Nat /\ synced'[k] >= synced[k]
        BY <1>1, <2>2, <2>3, <3>1
      <3>3. i \in 1 .. synced'[k]
        BY <3>2, SMT
      <3>4. i \in DOMAIN segs'[k].pages
        BY <2>4, <3>1, <3>3
      <3>5. k \in 1 .. entries'
        BY <2>2, <3>1, SMT
      <3>6. segs'[k].pages[i] = segs[k].pages[i]
        BY <2>3, <3>1, <3>3
      <3> QED BY <3>3, <3>4, <3>5, <3>6
    <2> QED BY <2>5, <2>6 DEF SealedStep
  <1>9. ASSUME UNCHANGED disk PROVE SealedStep
    BY <1>1, <1>9, <1>3, <1>4 DEF SealedStep, disk
  <1>10. CASE Open \/ Rotate \/ Close \/ Kill \/ \E page \in BoundedPage : AppendRefused(page)
    BY <1>9, <1>10 DEF Open, Rotate, Close, Kill, AppendRefused, segVars, disk
  <1> QED BY <1>5, <1>6, <1>7, <1>8, <1>10 DEF SegNext

\* SegmentStore never alters a sealed segment nor loses a durable page.
THEOREM SealedImmutableHolds == SegSpec => SealedImmutable
  <1> QED BY SegInvariant, NextSealed, PTL DEF SegSpec, SealedImmutable

\* Every step leaves a segment with an incomplete tail alone.
LEMMA NextTail == SegInv /\ SegNext => TailStep
  <1> SUFFICES ASSUME SegInv, SegNext, NEW k \in DOMAIN segs, segs[k].torn, k \in DOMAIN segs'
               PROVE  Len(segs'[k].pages) <= Len(segs[k].pages)
    BY DEF TailStep
  <1>1. segs \in Seq(Segment) /\ SegTypeOK
    BY DEF SegInv, SegTypeOK
  <1>2. segs[k].pages \in Seq(Stored) /\ Len(segs[k].pages) \in Nat
    BY <1>1, SegmentPages
  <1>3. ASSUME NEW page \in BoundedPage, WritePage(page)
        PROVE  segs'[k].pages = segs[k].pages
    <2>1. page \in Page
      BY BoundedPages
    <2>2. k # Placed(page).seq
      BY <1>3, PlacedFacts DEF WritePage
    <2> QED BY <1>3, <2>1, <2>2, WritePageFacts, SMT
  <1>4. ASSUME NEW page \in BoundedPage, WriteFails(page)
        PROVE  segs'[k].pages = segs[k].pages
    BY <1>4, BoundedPages, WriteFailsFacts
  <1>5. CASE Persist \/ PersistFails \/ sync_all \/ SyncAllFails
    BY <1>2, <1>5, SyncStep, SMT
  <1>6. CASE PowerLoss
    <2>1. synced'[k] <= Len(segs[k].pages) /\ synced'[k] = Len(segs'[k].pages)
      BY <1>1, <1>6, PowerLossFacts
    <2> QED BY <2>1
  <1>7. CASE Open \/ Rotate \/ Close \/ Kill \/ \E page \in BoundedPage : AppendRefused(page)
    <2>1. segs' = segs
      BY <1>7 DEF Open, Rotate, Close, Kill, AppendRefused, segVars, disk
    <2> QED BY <1>2, <2>1, SMT
  <1> QED BY <1>2, <1>3, <1>4, <1>5, <1>6, <1>7, SMT DEF SegNext

\* No page is ever added behind an incomplete tail.
THEOREM TailNeverExtendedHolds == SegSpec => TailNeverExtended
  <1> QED BY SegInvariant, NextTail, PTL DEF SegSpec, TailNeverExtended
-----------------------------------------------------------------------------
(* The segment store implements ChainFiles: readers who look at the files  *)
(* without the writer's lock see only the steps ChainFiles allows,         *)
(* whatever fails and whenever a process or the machine stops.             *)
(*                                                                         *)
(* SegInv says where the writer is; the size limit also needs what it      *)
(* believes about the segment there.                                       *)

\* A writer that does not look again before its next append knows the length
\* of its segment; while a page is being synced it is going to look again.
LengthInv ==
    /\ writer.phase = "idle" /\ ~writer.needs_recovery => writer.length = FrontierLength(writer)
    /\ writer.phase = "written" => writer.needs_recovery

\* No page is empty in the file, so a file of length 0 has no page.
PageEnds == \A k \in DOMAIN segs : \A i \in DOMAIN segs[k].pages : segs[k].pages[i].end > 0

FilesInv == SegInv /\ LengthInv /\ PageEnds

\* A page takes at least the bytes of its frame.
LEMMA EncodedLenPositive ==
    ASSUME NEW page \in Page
    PROVE  EncodedLen(page) \in Nat /\ EncodedLen(page) > 0
  <1>1. Len(page) \in Nat
    BY SMT DEF Page
  <1>2. RecordBytes \in Nat /\ FrameOverhead \in Nat /\ FrameOverhead > 0
    BY SegmentAssumption, SMT
  <1>3. RecordBytes * Len(page) \in Nat
    BY <1>1, <1>2, SMT
  <1> HIDE DEF Page
  <1> QED BY <1>2, <1>3, SMT DEF EncodedLen

\* recover_frontier measures the segment it ends up at.
LEMMA RecoverLength ==
    ASSUME segs \in Seq(Segment), NEW w, AtFrontier(w)
    PROVE  recover_frontier(w).length = FrontierLength(recover_frontier(w))
  <1> DEFINE len == FrontierLength(w)
             seen == [w EXCEPT !.length = len]
             full == Exists(w.seq) /\ (segs[w.seq].torn \/ seen.length >= MaxSegmentBytes)
             at == IF full THEN rotate(seen) ELSE seen
  <1>1. w \in Writer /\ w.seq \in Nat /\ Len(segs) \in Nat /\ DOMAIN segs = 1 .. Len(segs)
    BY SMT DEF AtFrontier, Writer
  <1>2. len \in Nat
    BY FileLenNat, SMT DEF Exists, FrontierLength
  <1>3. recover_frontier(w) = [at EXCEPT !.needs_recovery = FALSE]
    BY DEF recover_frontier
  <1> HIDE DEF len
  <1>4. seen = [phase |-> w.phase, seq |-> w.seq, length |-> len,
                needs_recovery |-> w.needs_recovery,
                initialize_layout |-> w.initialize_layout]
    BY <1>1, SMT DEF Writer
  <1>5. AtFrontier(seen) /\ seen.seq = w.seq /\ seen.length = len
    BY <1>1, <1>2, <1>4 DEF AtFrontier, Writer
  <1> HIDE DEF seen
  <1>6. AtFrontier(at) /\ at.length = FrontierLength(at)
    <2>1. CASE full
      <3>1. AtFrontier(rotate(seen)) /\ rotate(seen).seq = Len(segs) + 1
        BY <1>5, RotateFacts
      <3>2. rotate(seen).length = 0
        BY <1>5, <2>1 DEF rotate, AtFrontier, Writer
      <3>3. FrontierLength(rotate(seen)) = 0
        BY <1>1, <3>1, SMT DEF FrontierLength, Exists
      <3> QED BY <2>1, <3>1, <3>2, <3>3
    <2>2. CASE ~full
      BY <1>5, <2>2 DEF FrontierLength, len
    <2> QED BY <2>1, <2>2
  <1> HIDE DEF at
  <1>7. recover_frontier(w) = [phase |-> at.phase, seq |-> at.seq, length |-> at.length,
                               needs_recovery |-> FALSE,
                               initialize_layout |-> at.initialize_layout]
    BY <1>3, <1>6 DEF AtFrontier, Writer
  <1>8. recover_frontier(w).length = at.length /\ recover_frontier(w).seq = at.seq
    BY <1>7, SMT
  <1> QED BY <1>6, <1>8 DEF FrontierLength

\* rotate keeps a known length known.
LEMMA RotateLength ==
    ASSUME segs \in Seq(Segment), NEW w, AtFrontier(w), w.length = FrontierLength(w)
    PROVE  rotate(w).length = FrontierLength(rotate(w))
  <1>1. w \in Writer /\ w.seq \in Nat /\ Len(segs) \in Nat /\ DOMAIN segs = 1 .. Len(segs)
    BY SMT DEF AtFrontier, Writer
  <1>2. CASE Exists(w.seq)
    <2>1. rotate(w).length = 0
      BY <1>1, <1>2 DEF rotate, Writer
    <2>2. rotate(w).seq = Len(segs) + 1
      BY RotateFacts
    <2> QED BY <1>1, <2>1, <2>2, SMT DEF FrontierLength, Exists
  <1>3. CASE ~Exists(w.seq)
    BY <1>3 DEF rotate
  <1> QED BY <1>2, <1>3

\* append_with places a page where it fits, or where no page is yet.
LEMMA PlacedLength ==
    ASSUME FilesInv, writer.phase = "idle", NEW page \in Page
    PROVE  LET w == Placed(page) IN
           /\ w.length = FrontierLength(w)
           /\ w.length = 0 \/ w.length + EncodedLen(page) <= MaxSegmentBytes
  <1> DEFINE w == IF writer.needs_recovery THEN recover_frontier(writer) ELSE writer
  <1>1. segs \in Seq(Segment) /\ AtFrontier(writer) /\ Len(segs) \in Nat /\ DOMAIN segs = 1 .. Len(segs)
    BY SMT DEF FilesInv, SegInv, SegTypeOK, WriterInv, AtFrontier
  <1>2. AtFrontier(w) /\ w.length = FrontierLength(w)
    <2>1. CASE writer.needs_recovery
      BY <1>1, <2>1, RecoverFacts, RecoverLength
    <2>2. CASE ~writer.needs_recovery
      BY <1>1, <2>2 DEF FilesInv, LengthInv
    <2> QED BY <2>1, <2>2
  <1>3. Placed(page) = IF w.length > 0 /\ w.length + EncodedLen(page) > MaxSegmentBytes
                       THEN rotate(w) ELSE w
    BY DEF Placed
  <1> HIDE DEF w
  <1>4. CASE w.length > 0 /\ w.length + EncodedLen(page) > MaxSegmentBytes
    <2>1. Placed(page) = rotate(w)
      BY <1>3, <1>4
    <2>2. rotate(w).length = FrontierLength(rotate(w)) /\ rotate(w).seq = Len(segs) + 1
      BY <1>1, <1>2, RotateFacts, RotateLength
    <2>3. rotate(w).length = 0
      BY <1>1, <2>2, SMT DEF FrontierLength, Exists
    <2> QED BY <2>1, <2>2, <2>3
  <1>5. CASE ~(w.length > 0 /\ w.length + EncodedLen(page) > MaxSegmentBytes)
    <2>1. w.length \in Nat /\ EncodedLen(page) \in Nat /\ MaxSegmentBytes \in Nat
      BY <1>2, EncodedLenPositive, SegmentAssumption DEF AtFrontier, Writer
    <2>2. w.length = 0 \/ w.length + EncodedLen(page) <= MaxSegmentBytes
      BY <1>5, <2>1, SMT
    <2>3. Placed(page) = w
      BY <1>3, <1>5
    <2> QED BY <1>2, <2>2, <2>3
  <1> QED BY <1>4, <1>5

\* Writing a page is a step of the files: the page goes to the end of the
\* newest segment, or of a fresh one, within the size limit.
LEMMA WritePageGrows ==
    ASSUME FilesInv, NEW page \in BoundedPage, WritePage(page)
    PROVE  /\ Extend
           /\ PageEnds'
           /\ LengthInv'
  <1> DEFINE w == Placed(page)
             seg == Created(w)[w.seq]
             new == [recs |-> page, end |-> FileLen(seg) + EncodedLen(page)]
  <1>1. /\ page \in Page /\ SegInv /\ SegTypeOK /\ segs \in Seq(Segment) /\ Len(segs) \in Nat
        /\ writer.phase = "idle" /\ PageEnds /\ DOMAIN segs = 1 .. Len(segs)
    BY BoundedPages, SMT DEF FilesInv, SegInv, SegTypeOK, WritePage
  <1>2. AtFrontier(w) /\ (w.seq \in DOMAIN segs => ~segs[w.seq].torn)
    BY <1>1, PlacedFacts
  <1>3. w.length = FrontierLength(w) /\ (w.length = 0 \/ w.length + EncodedLen(page) <= MaxSegmentBytes)
    BY <1>1, PlacedLength
  <1>4. /\ segs' = [Created(w) EXCEPT ![w.seq].pages = Append(@, new)]
        /\ synced' = CreatedSynced(w)
        /\ writer' = [w EXCEPT !.phase = "written", !.needs_recovery = TRUE]
        /\ entries' = entries /\ ~Exhausted(w)
    BY DEF WritePage
  <1> HIDE DEF w
  <1>5. /\ Created(w) \in Seq(Segment) /\ w.seq \in DOMAIN Created(w)
        /\ DOMAIN segs \subseteq DOMAIN Created(w)
        /\ \A k \in DOMAIN segs : Created(w)[k] = segs[k]
        /\ \A k \in DOMAIN Created(w) : k \in DOMAIN segs \/ k = w.seq
        /\ w.seq \notin DOMAIN segs => seg = EmptySegment
    BY <1>1, <1>2, CreatedFacts
  <1>6. seg \in Segment /\ seg.pages \in Seq(Stored) /\ ~seg.torn
    <2>1. seg \in Segment
      BY <1>5, SMT
    <2>2. ~seg.torn
      BY <1>2, <1>5, SMT DEF EmptySegment
    <2> QED BY <2>1, <2>2 DEF Segment
  <1>7. /\ EncodedLen(page) \in Nat /\ EncodedLen(page) > 0
        /\ FileLen(seg) \in Nat /\ FileLen(seg) = Frontier(seg)
    <2>1. FileLen(seg) \in Nat
      BY <1>6, FileLenNat
    <2>2. CASE seg.pages = << >>
      <3>1. Frontier(seg) = 0
        BY <2>2 DEF Frontier
      <3> QED BY <1>1, <1>6, <2>1, <3>1, EncodedLenPositive, SMT DEF FileLen
    <2>3. CASE seg.pages # << >>
      <3>1. seg.pages[Len(seg.pages)] \in Stored
        BY <1>6, <2>3, SMT
      <3>2. Frontier(seg) \in Nat
        BY <3>1, <2>3 DEF Frontier, Stored
      <3> QED BY <1>1, <1>6, <2>1, <3>2, EncodedLenPositive, SMT DEF FileLen
    <2> QED BY <1>1, <2>1, <2>2, <2>3, EncodedLenPositive
  <1>8. \A i \in DOMAIN seg.pages : seg.pages[i].end > 0
    BY <1>1, <1>5, SMT DEF PageEnds, EmptySegment
  <1>9. w.length = FileLen(seg)
    <2>1. CASE w.seq \in DOMAIN segs
      BY <1>3, <1>5, <2>1 DEF FrontierLength, Exists
    <2>2. CASE w.seq \notin DOMAIN segs
      BY <1>3, <1>5, <2>2, SMT DEF FrontierLength, Exists, FileLen, Frontier, EmptySegment
    <2> QED BY <2>1, <2>2
  <1>10. seg.pages = << >> \/ new.end <= MaxSegmentBytes
    <2>1. CASE w.length = 0
      <3>1. ASSUME seg.pages # << >> PROVE FALSE
        <4>1. Len(seg.pages) \in DOMAIN seg.pages
          BY <1>6, <3>1, SMT
        <4>2. Frontier(seg) > 0
          BY <1>8, <3>1, <4>1 DEF Frontier
        <4> QED BY <1>7, <1>9, <2>1, <4>2, SMT
      <3> QED BY <3>1
    <2>2. CASE w.length + EncodedLen(page) <= MaxSegmentBytes
      BY <1>9, <2>2
    <2> QED BY <1>3, <2>1, <2>2
  <1>11. WithFile(w.seq) = Created(w)
         /\ CreatedSynced(w) = IF Exists(w.seq) THEN synced ELSE Append(synced, 0)
    BY DEF WithFile, Created, CreatedSynced
  <1>12. w.seq \in 1 .. MaxSegments /\ w.seq \in {Len(segs), Len(segs) + 1}
    BY <1>1, <1>2, <1>4, SegmentAssumption, SMT DEF AtFrontier, Writer, Exhausted
  <1>13. Writable(w.seq)
    BY <1>6, <1>11, <1>12 DEF Writable
  <1>14. new = [recs |-> page, end |-> Frontier(seg) + EncodedLen(page)] /\ new.end > 0
    BY <1>7, SMT
  <1>15. GrowAt(w.seq, page)
    BY <1>4, <1>10, <1>11, <1>13, <1>14 DEF GrowAt
  <1>16. Extend
    BY <1>12, <1>15 DEF Extend
  <1>17. LengthInv'
    <2>1. writer'.phase = "written" /\ writer'.needs_recovery
      <3>1. w \in Writer
        BY <1>2 DEF AtFrontier
      <3> QED BY <1>4, <3>1 DEF Writer
    <2> QED BY <2>1 DEF LengthInv
  <1>18. PageEnds'
    <2> HIDE DEF seg, new
    <2>1. [seg EXCEPT !.pages = Append(@, new)] = [pages |-> Append(seg.pages, new), torn |-> seg.torn]
      BY <1>6, SMT DEF Segment
    <2>2. segs' = [Created(w) EXCEPT ![w.seq] = [pages |-> Append(seg.pages, new), torn |-> seg.torn]]
      BY <1>4, <2>1 DEF seg
    <2>3. new \in Stored
      BY <1>1, <1>7, SMT DEF new, Stored
    <2>4. \A i \in DOMAIN Append(seg.pages, new) : Append(seg.pages, new)[i].end > 0
      <3> SUFFICES ASSUME NEW i \in DOMAIN Append(seg.pages, new)
                   PROVE  Append(seg.pages, new)[i].end > 0
        OBVIOUS
      <3>1. i \in DOMAIN seg.pages \/ i = Len(seg.pages) + 1
        BY <1>6, <2>3, SMT
      <3>2. CASE i \in DOMAIN seg.pages
        <4>1. Append(seg.pages, new)[i] = seg.pages[i]
          BY <1>6, <2>3, <3>2, SMT
        <4> QED BY <1>8, <3>2, <4>1
      <3>3. CASE i = Len(seg.pages) + 1
        <4>1. Append(seg.pages, new)[i] = new
          BY <1>6, <2>3, <3>3, SMT
        <4> QED BY <1>14, <4>1
      <3> QED BY <3>1, <3>2, <3>3
    <2>5. \A k \in DOMAIN segs' : k = w.seq \/ (k \in DOMAIN segs /\ segs'[k] = segs[k])
      BY <1>5, <2>2
    <2>6. segs'[w.seq].pages = Append(seg.pages, new)
      BY <1>5, <2>2
    <2>7. ASSUME NEW k \in DOMAIN segs', NEW i \in DOMAIN segs'[k].pages
          PROVE  segs'[k].pages[i].end > 0
      BY <1>1, <2>4, <2>5, <2>6 DEF PageEnds
    <2> QED BY <2>7 DEF PageEnds
  <1> QED BY <1>16, <1>17, <1>18

\* A failed write leaves at most a new file and part of a page.
LEMMA WriteFailsTears ==
    ASSUME FilesInv, NEW page \in BoundedPage, WriteFails(page)
    PROVE  /\ Extend \/ UNCHANGED files
           /\ PageEnds'
           /\ LengthInv'
  <1> DEFINE w == Placed(page)
  <1>1. /\ page \in Page /\ SegInv /\ SegTypeOK /\ segs \in Seq(Segment) /\ Len(segs) \in Nat
        /\ writer.phase = "idle" /\ PageEnds
    BY BoundedPages, SMT DEF FilesInv, SegInv, SegTypeOK, WriteFails
  <1>2. /\ AtFrontier(w) /\ w.phase = "idle"
        /\ w.seq \in DOMAIN segs => ~segs[w.seq].torn
    BY <1>1, PlacedFacts
  <1>3. /\ \/ UNCHANGED <<segs, synced>>
           \/ \E torn \in BOOLEAN :
                /\ segs' = [Created(w) EXCEPT ![w.seq].torn = @ \/ torn]
                /\ synced' = CreatedSynced(w)
        /\ writer' = [w EXCEPT !.needs_recovery = TRUE]
        /\ entries' = entries /\ ~Exhausted(w)
    BY DEF WriteFails
  <1>4. PageEnds'
    <2>1. /\ \A k \in DOMAIN segs : segs'[k].pages = segs[k].pages
          /\ \A k \in DOMAIN segs' : k \notin DOMAIN segs => segs'[k].pages = << >>
      BY <1>1, WriteFailsFacts
    <2> QED BY <1>1, <2>1, SMT DEF PageEnds
  <1> HIDE DEF w
  <1>5. LengthInv'
    <2>1. writer'.phase = "idle" /\ writer'.needs_recovery
      BY <1>2, <1>3 DEF AtFrontier, Writer
    <2> QED BY <2>1 DEF LengthInv
  <1>6. ASSUME NEW torn \in BOOLEAN,
               segs' = [Created(w) EXCEPT ![w.seq].torn = @ \/ torn],
               synced' = CreatedSynced(w)
        PROVE  Extend
    <2> DEFINE seg == Created(w)[w.seq]
    <2>1. /\ \A k \in DOMAIN segs : Created(w)[k] = segs[k]
          /\ w.seq \notin DOMAIN segs => seg = EmptySegment
      BY <1>1, <1>2, CreatedFacts
    <2>2. ~seg.torn
      BY <1>2, <2>1, SMT DEF EmptySegment
    <2>3. (seg.torn \/ torn) = torn
      BY <2>2
    <2>4. segs' = [Created(w) EXCEPT ![w.seq].torn = torn]
      BY <1>6, <2>3
    <2>5. WithFile(w.seq) = Created(w)
          /\ CreatedSynced(w) = IF Exists(w.seq) THEN synced ELSE Append(synced, 0)
      BY DEF WithFile, Created, CreatedSynced
    <2>6. w.seq \in 1 .. MaxSegments /\ w.seq \in {Len(segs), Len(segs) + 1}
      BY <1>1, <1>2, <1>3, SegmentAssumption, SMT DEF AtFrontier, Writer, Exhausted
    <2>7. Writable(w.seq)
      BY <2>2, <2>5, <2>6 DEF Writable
    <2>8. TearAt(w.seq, torn)
      BY <1>3, <1>6, <2>4, <2>5, <2>7 DEF TearAt
    <2> QED BY <2>6, <2>8 DEF Extend
  <1>7. Extend \/ UNCHANGED files
    BY <1>3, <1>6 DEF files
  <1> QED BY <1>4, <1>5, <1>7

\* Every fsync, complete or failed, makes some files durable and nothing else.
LEMMA SyncSettles ==
    ASSUME FilesInv, Persist \/ PersistFails \/ sync_all \/ SyncAllFails
    PROVE  \E some \in SUBSET DOMAIN segs, dir \in BOOLEAN : Settle(some, dir)
  <1>1. /\ synced \in [DOMAIN segs -> Nat] /\ segs \in Seq(Segment) /\ DOMAIN segs = 1 .. Len(segs)
        /\ Len(segs) \in Nat
    BY SMT DEF FilesInv, SegInv, SegTypeOK
  <1>2. synced = [k \in DOMAIN segs |-> IF k \in {} THEN Len(segs[k].pages) ELSE synced[k]]
    BY <1>1
  <1>3. ASSUME writer.phase = "written"
        PROVE  /\ writer.seq \in DOMAIN segs
               /\ [synced EXCEPT ![writer.seq] = Len(segs[writer.seq].pages)]
                    = [k \in DOMAIN segs |-> IF k \in {writer.seq} THEN Len(segs[k].pages) ELSE synced[k]]
    <2>1. writer.seq \in DOMAIN segs
      BY <1>1, <1>3, SMT DEF FilesInv, SegInv, WriterInv
    <2> QED BY <1>1, <2>1
  <1>4. CASE Persist
    <2>1. Settle({writer.seq}, TRUE)
      BY <1>3, <1>4 DEF Persist, Settle
    <2> QED BY <1>3, <1>4, <2>1 DEF Persist
  <1>5. CASE PersistFails
    <2>1. writer.phase = "written" /\ segs' = segs
      BY <1>5 DEF PersistFails
    <2> PICK file, dir \in BOOLEAN :
           /\ synced' = IF file
                        THEN [synced EXCEPT ![writer.seq] = Len(segs[writer.seq].pages)]
                        ELSE synced
           /\ entries' = IF dir THEN Len(segs) ELSE entries
      BY <1>5 DEF PersistFails
    <2>2. Settle(IF file THEN {writer.seq} ELSE {}, dir)
      <3>1. CASE file
        BY <1>3, <2>1, <3>1 DEF Settle
      <3>2. CASE ~file
        BY <1>2, <2>1, <3>2 DEF Settle
      <3> QED BY <3>1, <3>2
    <2>3. (IF file THEN {writer.seq} ELSE {}) \in SUBSET DOMAIN segs
      BY <1>3, <2>1
    <2> QED BY <2>2, <2>3
  <1>6. CASE sync_all
    <2>1. Settle(DOMAIN segs, TRUE)
      BY <1>1, <1>6 DEF sync_all, Settle
    <2> QED BY <2>1
  <1>7. CASE SyncAllFails
    <2> PICK n \in 0 .. Len(segs) :
          synced' = [k \in DOMAIN segs |-> IF k <= n THEN Len(segs[k].pages) ELSE synced[k]]
      BY <1>7 DEF SyncAllFails
    <2>1. \A k \in DOMAIN segs : (k <= n) <=> (k \in 1 .. n)
      BY <1>1, SMT
    <2>2. synced' = [k \in DOMAIN segs |-> IF k \in 1 .. n THEN Len(segs[k].pages) ELSE synced[k]]
      BY <2>1
    <2>3. Settle(1 .. n, FALSE)
      BY <1>7, <2>2 DEF SyncAllFails, Settle
    <2>4. 1 .. n \in SUBSET DOMAIN segs
      BY <1>1, SMT
    <2> QED BY <2>3, <2>4
  <1> QED BY <1>4, <1>5, <1>6, <1>7

\* After an fsync the writer knows the length of its segment, or looks again.
LEMMA SyncLength ==
    ASSUME FilesInv, Persist \/ PersistFails \/ sync_all \/ SyncAllFails
    PROVE  LengthInv' /\ PageEnds'
  <1>1. segs' = segs
    BY SyncStep DEF FilesInv
  <1>2. PageEnds'
    BY <1>1 DEF FilesInv, PageEnds
  <1>3. writer \in Writer /\ LengthInv
    BY DEF FilesInv, SegInv, SegTypeOK
  <1>4. CASE Persist
    <2>1. writer.seq \in DOMAIN segs
      BY <1>4, SMT DEF Persist, FilesInv, SegInv, SegTypeOK, WriterInv
    <2> DEFINE len == FileLen(segs[writer.seq])
    <2>2. writer' = [writer EXCEPT !.phase = "idle", !.needs_recovery = FALSE,
                                   !.initialize_layout = FALSE, !.length = len]
      BY <1>4 DEF Persist
    <2> HIDE DEF len
    <2>3. writer' = [phase |-> "idle", seq |-> writer.seq, length |-> len,
                     needs_recovery |-> FALSE, initialize_layout |-> FALSE]
      BY <1>3, <2>2 DEF Writer
    <2>4. writer'.phase = "idle" /\ writer'.length = len /\ writer'.seq = writer.seq
      BY <2>3
    <2>5. FrontierLength(writer)' = len
      BY <1>1, <2>1, <2>4 DEF FrontierLength, Exists, len
    <2>6. LengthInv'
      BY <2>4, <2>5 DEF LengthInv
    <2> QED BY <1>2, <2>6
  <1>5. CASE PersistFails
    <2> PICK known \in BOOLEAN :
           writer' = [writer EXCEPT !.phase = "idle", !.initialize_layout = @ /\ ~known]
      BY <1>5 DEF PersistFails
    <2> DEFINE init == writer.initialize_layout /\ ~known
    <2>1. writer' = [writer EXCEPT !.phase = "idle", !.initialize_layout = init]
      OBVIOUS
    <2> HIDE DEF init
    <2>2. writer' = [phase |-> "idle", seq |-> writer.seq, length |-> writer.length,
                     needs_recovery |-> writer.needs_recovery, initialize_layout |-> init]
      BY <1>3, <2>1 DEF Writer
    <2>3. writer'.phase = "idle" /\ writer'.needs_recovery = writer.needs_recovery
      BY <2>2
    <2>4. writer.needs_recovery
      BY <1>3, <1>5 DEF LengthInv, PersistFails
    <2>5. LengthInv'
      BY <2>3, <2>4 DEF LengthInv
    <2> QED BY <1>2, <2>5
  <1>6. CASE sync_all \/ SyncAllFails
    <2>1. writer' = writer
      BY <1>6 DEF sync_all, SyncAllFails
    <2>2. LengthInv'
      BY <1>1, <1>3, <2>1 DEF LengthInv, FrontierLength, Exists
    <2> QED BY <1>2, <2>2
  <1> QED BY <1>4, <1>5, <1>6

\* Opening, rotating and a refused append leave a writer that knows its
\* length, or looks again.
LEMMA MovesKeepLength ==
    ASSUME FilesInv, Open \/ Rotate \/ \E page \in BoundedPage : AppendRefused(page)
    PROVE  LengthInv' /\ PageEnds' /\ UNCHANGED files
  <1>1. UNCHANGED disk /\ segs \in Seq(Segment) /\ Len(segs) \in Nat /\ writer \in Writer
          /\ LengthInv /\ segs' = segs
    BY SMT DEF Open, Rotate, AppendRefused, disk, FilesInv, SegInv, SegTypeOK
  <1>2. PageEnds' /\ UNCHANGED files
    BY <1>1 DEF FilesInv, PageEnds, disk, files
  <1>3. ASSUME NEW w, AtFrontier(w), writer' = w, w.phase = "idle",
               w.needs_recovery \/ w.length = FrontierLength(w)
        PROVE  LengthInv'
    BY <1>1, <1>3 DEF LengthInv, FrontierLength, Exists
  <1>4. CASE Open
    <2> DEFINE init == (marker = "absent")
               w0 == [phase |-> "idle", seq |-> IF segs = << >> THEN 1 ELSE Len(segs),
                      length |-> 0, needs_recovery |-> TRUE, initialize_layout |-> init]
               w1 == recover_frontier(w0)
    <2>1. writer' = (IF init THEN rotate(w1) ELSE w1)
      BY <1>4 DEF Open, OpenWith
    <2>2. AtFrontier(w0) /\ w0.phase = "idle"
      BY <1>1, SMT DEF AtFrontier, Writer
    <2> HIDE DEF w0
    <2>3. AtFrontier(w1) /\ w1.phase = "idle" /\ w1.length = FrontierLength(w1)
      BY <1>1, <2>2, RecoverFacts, RecoverLength
    <2> HIDE DEF w1, init
    <2>4. AtFrontier(rotate(w1)) /\ rotate(w1).phase = "idle"
            /\ rotate(w1).length = FrontierLength(rotate(w1))
      BY <1>1, <2>3, RotateFacts, RotateLength
    <2>5. LengthInv'
      BY <1>3, <2>1, <2>3, <2>4
    <2> QED BY <1>2, <2>5
  <1>5. CASE Rotate
    <2>1. AtFrontier(writer) /\ writer.phase = "idle" /\ writer' = rotate(writer)
      BY <1>1, <1>5 DEF Rotate, AtFrontier, FilesInv, SegInv, WriterInv
    <2>2. AtFrontier(rotate(writer)) /\ rotate(writer).phase = "idle"
            /\ rotate(writer).needs_recovery = writer.needs_recovery
      BY <1>1, <2>1, RotateFacts
    <2>3. rotate(writer).needs_recovery \/ rotate(writer).length = FrontierLength(rotate(writer))
      BY <1>1, <2>1, <2>2, RotateLength DEF LengthInv
    <2>4. LengthInv'
      BY <1>3, <2>1, <2>2, <2>3
    <2> QED BY <1>2, <2>4
  <1>6. ASSUME NEW page \in BoundedPage, AppendRefused(page) PROVE LengthInv'
    <2> DEFINE w == IF writer.needs_recovery THEN recover_frontier(writer) ELSE writer
               len == FrontierLength(writer)
    <2>1. /\ writer.phase = "idle" /\ AtFrontier(writer)
          /\ writer' = writer \/ writer' = w \/ writer' = [writer EXCEPT !.length = len]
      BY <1>1, <1>6 DEF AppendRefused, AtFrontier, FilesInv, SegInv, WriterInv
    <2>2. CASE writer' = writer
      BY <1>1, <2>2 DEF LengthInv, FrontierLength, Exists
    <2>3. CASE writer' = w
      <3>1. CASE writer.needs_recovery
        BY <1>1, <1>3, <2>1, <2>3, <3>1, RecoverFacts, RecoverLength
      <3>2. CASE ~writer.needs_recovery
        BY <1>1, <2>3, <3>2 DEF LengthInv, FrontierLength, Exists
      <3> QED BY <3>1, <3>2
    <2>4. CASE writer' = [writer EXCEPT !.length = len]
      <3>1. len \in Nat
        BY <1>1, FileLenNat, SMT DEF FrontierLength, Exists
      <3> HIDE DEF len
      <3>2. writer' = [phase |-> writer.phase, seq |-> writer.seq, length |-> len,
                       needs_recovery |-> writer.needs_recovery,
                       initialize_layout |-> writer.initialize_layout]
        BY <1>1, <2>4 DEF Writer
      <3>3. writer'.seq = writer.seq /\ writer'.length = len /\ writer'.phase = "idle"
        BY <2>1, <3>2
      <3>4. FrontierLength(writer)' = len
        BY <1>1, <3>3 DEF FrontierLength, Exists, len
      <3> QED BY <3>3, <3>4 DEF LengthInv
    <2> QED BY <2>1, <2>2, <2>3, <2>4
  <1> QED BY <1>2, <1>4, <1>5, <1>6

\* A stopped writer knows nothing, and what a power loss leaves was there.
LEMMA StopsKeepLength ==
    ASSUME FilesInv, Close \/ Kill \/ PowerLoss
    PROVE  LengthInv' /\ PageEnds' /\ (Lose \/ UNCHANGED files)
  <1>1. writer' = Closed
    BY DEF Close, Kill, PowerLoss
  <1>2. LengthInv'
    BY <1>1 DEF LengthInv, Closed
  <1>3. CASE Close \/ Kill
    BY <1>2, <1>3 DEF Close, Kill, disk, files, FilesInv, PageEnds
  <1>4. CASE PowerLoss
    <2>1. SegTypeOK /\ segs \in Seq(Segment) /\ PageEnds
      BY DEF FilesInv, SegInv, SegTypeOK
    <2>2. Lose
      BY <1>4 DEF PowerLoss
    <2>3. ASSUME NEW k \in DOMAIN segs', NEW i \in DOMAIN segs'[k].pages
          PROVE  segs'[k].pages[i].end > 0
      <3>1. /\ segs' \in Seq(Segment) /\ k \in DOMAIN segs
            /\ synced'[k] = Len(segs'[k].pages) /\ synced'[k] <= Len(segs[k].pages)
            /\ \A j \in 1 .. synced'[k] : segs'[k].pages[j] = segs[k].pages[j]
        BY <1>4, <2>1, PowerLossFacts
      <3>2. segs[k].pages \in Seq(Stored) /\ segs'[k].pages \in Seq(Stored)
        BY <2>1, <3>1, SegmentPages
      <3>3. i \in 1 .. synced'[k] /\ i \in DOMAIN segs[k].pages
        BY <3>1, <3>2, SMT
      <3> QED BY <2>1, <3>1, <3>3 DEF PageEnds
    <2>4. PageEnds'
      BY <2>3 DEF PageEnds
    <2> QED BY <1>2, <2>2, <2>4
  <1> QED BY <1>3, <1>4
-----------------------------------------------------------------------------
\* Every step of the store is a step of the files and keeps the invariant.
LEMMA StepKeepsFiles ==
    ASSUME FilesInv, [SegNext]_segVars
    PROVE  FilesInv' /\ [FilesNext]_files
  <1>1. SegInv'
    BY NextInv DEF FilesInv
  <1>2. LengthInv' /\ PageEnds' /\ [FilesNext]_files
    <2>1. CASE Open \/ Rotate \/ \E page \in BoundedPage : AppendRefused(page)
      BY <2>1, MovesKeepLength
    <2>2. CASE \E page \in BoundedPage : WritePage(page)
      BY <2>2, WritePageGrows DEF FilesNext
    <2>3. CASE \E page \in BoundedPage : WriteFails(page)
      BY <2>3, WriteFailsTears DEF FilesNext
    <2>4. CASE Persist \/ PersistFails \/ sync_all \/ SyncAllFails
      <3>1. LengthInv' /\ PageEnds'
        BY <2>4, SyncLength
      <3>2. FilesNext
        BY <2>4, SyncSettles DEF FilesNext
      <3> QED BY <3>1, <3>2
    <2>5. CASE Close \/ Kill \/ PowerLoss
      BY <2>5, StopsKeepLength DEF FilesNext
    <2>6. CASE UNCHANGED segVars
      <3>1. UNCHANGED <<segs, synced, entries, writer>>
        BY <2>6 DEF segVars
      <3>2. LengthInv' /\ PageEnds'
        BY <3>1 DEF FilesInv, LengthInv, PageEnds, FrontierLength, Exists
      <3> QED BY <3>1, <3>2 DEF files
    <2> QED BY <2>1, <2>2, <2>3, <2>4, <2>5, <2>6 DEF SegNext
  <1> QED BY <1>1, <1>2 DEF FilesInv

\* The invariant holds in a chain directory as it is found.
LEMMA FilesInvInit == SegInit => FilesInv
  <1> SUFFICES ASSUME SegInit PROVE FilesInv
    OBVIOUS
  <1>1. SegInv
    BY InitInv
  <1>2. LengthInv
    BY DEF SegInit, LengthInv, Closed
  <1>3. PageEnds
    <2>1. CASE segs = << >>
      BY <2>1, SMT DEF PageEnds
    <2>2. ASSUME NEW r \in Record, NEW t \in BOOLEAN,
                 segs = <<[pages |-> <<[recs |-> <<r>>, end |-> EncodedLen(<<r>>)]>>, torn |-> t]>>
          PROVE  PageEnds
      <3>1. EncodedLen(<<r>>) > 0
        <4>1. <<r>> \in Page
          BY SMT DEF Page
        <4> QED BY <4>1, EncodedLenPositive
      <3> QED BY <2>2, <3>1, SMT DEF PageEnds
    <2> QED BY <2>1, <2>2 DEF SegInit, FilesInit
  <1> QED BY <1>1, <1>2, <1>3 DEF FilesInv

\* The segment store implements ChainFiles: whatever fails and wherever it
\* stops, its writer only ever adds a page that fits, tears the end of the
\* newest segment, makes pages durable, or loses pages that were not.
THEOREM SegmentStoreKeepsFiles == SegSpec => KeepsFiles
  <1>1. SegInit => FilesInit
    BY DEF SegInit
  <1> QED BY <1>1, FilesInvInit, StepKeepsFiles, PTL DEF SegSpec, KeepsFiles, FilesSpec

-----------------------------------------------------------------------------

\* A nonempty set of natural numbers has a least element.
LEMMA LeastNat ==
    ASSUME NEW T, T \subseteq Nat, T # {}
    PROVE  \E x \in T : \A y \in T : x <= y
  <1>1. PICK R : IsWellFoundedOn(R, Nat) /\ (\A x, y \in Nat : y < x => <<y, x>> \in R)
    <2>1. IsWellFoundedOn(OpToRel(<, Nat), Nat)
      BY NatLessThanWellFounded
    <2>2. \A x, y \in Nat : y < x => (<<y, x>> \in OpToRel(<, Nat))
      BY DEF OpToRel
    <2> QED BY <2>1, <2>2
  <1>2. PICK x \in T : \A y \in T : ~(<<y, x>> \in R)
    BY <1>1, WFMin
  <1>3. ASSUME NEW y \in T
        PROVE  x <= y
    <2>1. x \in Nat /\ y \in Nat
      OBVIOUS
    <2>2. ~(y < x)
      BY <1>1, <1>2, <2>1
    <2> QED BY <2>1, <2>2, SMT
  <1> QED BY <1>3

Elements(s) == {s[i] : i \in DOMAIN s}

\* append_records always takes at least one record.
LEMMA PageLimitPositive == PageLimit \in Nat \ {0}
  BY SegmentAssumption, SMT DEF PageLimit

\* append_records splits what is pending into the next page and the rest.
LEMMA NextPageFacts ==
    ASSUME NEW pending \in Seq(Record), pending # << >>
    PROVE  /\ NextPage(pending) \in BoundedPage
           /\ AfterPage(pending) \in Seq(Record)
           /\ Elements(pending) = Elements(NextPage(pending)) \cup Elements(AfterPage(pending))
  <1> DEFINE n == TakeLen(pending)
             len == Len(pending)
  <1>1. len \in Nat /\ len >= 1 /\ DOMAIN pending = 1 .. len
    BY SMT
  <1>2. n \in 0 .. PageLimit /\ n \in 0 .. len /\ n \in Nat
    BY <1>1, PageLimitPositive, SMT DEF TakeLen
  <1> HIDE DEF n
  <1>3. /\ NextPage(pending) \in Seq(Record) /\ Len(NextPage(pending)) = n
        /\ \A i \in 1 .. n : NextPage(pending)[i] = pending[i]
    BY <1>2, PrefixFacts DEF NextPage, n
  <1>4. NextPage(pending) \in [1 .. n -> Record]
    BY <1>3, LenDomain
  <1>5. NextPage(pending) \in BoundedPage
    BY <1>2, <1>4 DEF BoundedPage
  <1>6. AfterPage(pending) = SubSeq(pending, n + 1, len)
    BY DEF AfterPage, n
  <1>7. /\ AfterPage(pending) \in Seq(Record) /\ Len(AfterPage(pending)) = len - n
        /\ \A i \in 1 .. (len - n) : AfterPage(pending)[i] = pending[n + i]
    BY <1>1, <1>2, <1>6, SuffixFacts, ZenonT(30)
  <1>8. DOMAIN NextPage(pending) = 1 .. n /\ DOMAIN AfterPage(pending) = 1 .. (len - n)
    BY <1>3, <1>7, <1>2, SMT
  <1>9. Elements(pending) \subseteq Elements(NextPage(pending)) \cup Elements(AfterPage(pending))
    <2> SUFFICES ASSUME NEW i \in 1 .. len
                 PROVE  pending[i] \in Elements(NextPage(pending)) \cup Elements(AfterPage(pending))
      BY <1>1 DEF Elements
    <2>1. CASE i <= n
      BY <1>2, <1>3, <1>8, <2>1, SMT DEF Elements
    <2>2. CASE i > n
      <3>1. (i - n) \in 1 .. (len - n) /\ n + (i - n) = i
        BY <1>1, <1>2, <2>2, SMT
      <3> QED BY <1>7, <1>8, <3>1 DEF Elements
    <2> QED BY <1>2, <2>1, <2>2, SMT
  <1>10. Elements(NextPage(pending)) \subseteq Elements(pending)
    BY <1>1, <1>2, <1>3, <1>8, SMT DEF Elements
  <1>11. Elements(AfterPage(pending)) \subseteq Elements(pending)
    <2> SUFFICES ASSUME NEW i \in 1 .. (len - n)
                 PROVE  AfterPage(pending)[i] \in Elements(pending)
      BY <1>8 DEF Elements
    <2>1. n + i \in 1 .. len
      BY <1>1, <1>2, SMT
    <2> QED BY <1>1, <1>7, <2>1 DEF Elements
  <1> QED BY <1>5, <1>7, <1>9, <1>10, <1>11

\* Durable records are readable.
LEMMA DurableReadable ==
    ASSUME SegInv
    PROVE  Durable \subseteq Readable
  <1>1. /\ segs \in Seq(Segment) /\ DOMAIN segs = 1 .. Len(segs) /\ entries \in 0 .. Len(segs)
        /\ Len(segs) \in Nat /\ synced \in [DOMAIN segs -> Nat]
        /\ \A k \in DOMAIN segs : synced[k] <= Len(segs[k].pages)
    BY SMT DEF SegInv, SegTypeOK
  <1>2. ASSUME NEW k \in 1 .. entries, NEW i \in 1 .. synced[k]
        PROVE  k \in DOMAIN segs /\ i \in DOMAIN segs[k].pages
    <2>1. k \in DOMAIN segs
      BY <1>1, SMT
    <2>2. segs[k].pages \in Seq(Stored) /\ Len(segs[k].pages) \in Nat
      BY <1>1, <2>1, SegmentPages
    <2> QED BY <1>1, <2>1, <2>2, SMT
  <1> QED BY <1>2 DEF Durable, Readable

\* Durable records stay durable.
LEMMA DurableGrows ==
    ASSUME SegInv, [SegNext]_segVars
    PROVE  Durable \subseteq Durable'
  <1>1. CASE SegNext
    <2>1. \A k \in 1 .. entries : \A i \in 1 .. synced[k] :
            /\ k \in 1 .. entries' /\ i \in 1 .. synced'[k]
            /\ segs'[k].pages[i] = segs[k].pages[i]
      BY <1>1, NextSealed DEF SealedStep
    <2>2. ASSUME NEW r \in Record, NEW k \in 1 .. entries, NEW i \in 1 .. synced[k],
                 Holds(segs[k].pages[i], r)
          PROVE  r \in Durable'
      <3>1. Holds(segs'[k].pages[i], r)
        BY <2>1, <2>2
      <3> QED BY <2>1, <3>1 DEF Durable
    <2> QED BY <2>2 DEF Durable
  <1>2. CASE UNCHANGED segVars
    BY <1>2 DEF segVars, Durable
  <1> QED BY <1>1, <1>2

\* A written page adds exactly its records to what is readable.
LEMMA WriteReadable ==
    ASSUME SegInv, NEW page \in Page, WritePage(page)
    PROVE  Readable' = Readable \cup Elements(page)
  <1> DEFINE w == Placed(page)
             last == Len(segs'[w.seq].pages)
  <1>1. /\ segs' \in Seq(Segment) /\ Len(segs') = w.seq /\ Len(segs') >= Len(segs)
        /\ w.seq \in DOMAIN segs'
        /\ \A k \in DOMAIN segs : k # w.seq => segs'[k] = segs[k]
        /\ w.seq \in DOMAIN segs =>
             segs'[w.seq].pages = Append(segs[w.seq].pages, segs'[w.seq].pages[last])
        /\ w.seq \notin DOMAIN segs => last = 1
        /\ segs'[w.seq].pages # << >>
        /\ segs'[w.seq].pages[last].recs = page
    BY WritePageFacts
  <1>2. /\ segs \in Seq(Segment) /\ Len(segs) \in Nat /\ DOMAIN segs = 1 .. Len(segs)
        /\ AtFrontier(w) /\ w.seq \in Nat
    BY PlacedFacts, SMT DEF WritePage, SegInv, SegTypeOK, AtFrontier, Writer
  <1> HIDE DEF w
  <1>3. segs'[w.seq].pages \in Seq(Stored) /\ last \in DOMAIN segs'[w.seq].pages /\ last \in Nat
    <2>1. segs'[w.seq].pages \in Seq(Stored)
      BY <1>1, SegmentPages
    <2> QED BY <1>1, <2>1, SMT
  <1>4. \A k \in DOMAIN segs' : k \in DOMAIN segs \/ k = w.seq
    BY <1>1, <1>2, SMT DEF AtFrontier
  <1>5. DOMAIN segs \subseteq DOMAIN segs'
    BY <1>1, <1>2, SMT
  <1>6. \A r : Holds(segs'[w.seq].pages[last], r) <=> r \in Elements(page)
    BY <1>1 DEF Holds, Elements
  <1>7. page \in Seq(Record) /\ Elements(page) \subseteq Record
    BY SMT DEF Page, Elements
  <1>8. ASSUME NEW r \in Record
        PROVE  r \in Readable' <=> r \in Readable \/ r \in Elements(page)
    <2>1. ASSUME NEW k \in DOMAIN segs', NEW i \in DOMAIN segs'[k].pages,
                 Holds(segs'[k].pages[i], r)
          PROVE  r \in Readable \/ r \in Elements(page)
      <3>1. CASE k # w.seq
        <4>1. k \in DOMAIN segs /\ segs'[k] = segs[k]
          BY <1>1, <1>4, <3>1
        <4> QED BY <2>1, <4>1 DEF Readable
      <3>2. CASE k = w.seq /\ i = last
        BY <1>6, <2>1, <3>2
      <3>3. CASE k = w.seq /\ i # last
        <4>1. i \in 1 .. last
          BY <1>3, <3>3, SMT
        <4>2. w.seq \in DOMAIN segs
          BY <1>1, <3>3, <4>1, SMT
        <4>3. segs[w.seq].pages \in Seq(Stored)
          BY <1>2, <4>2, SegmentPages
        <4> DEFINE new == segs'[w.seq].pages[last]
        <4>4. segs'[w.seq].pages = Append(segs[w.seq].pages, new)
          BY <1>1, <4>2
        <4> HIDE DEF new
        <4>5. last = Len(segs[w.seq].pages) + 1
          BY <4>3, <4>4, SMT
        <4>6. i \in DOMAIN segs[w.seq].pages /\ segs'[w.seq].pages[i] = segs[w.seq].pages[i]
          BY <3>3, <4>1, <4>3, <4>4, <4>5, SMT
        <4> QED BY <2>1, <3>3, <4>2, <4>6 DEF Readable
      <3> QED BY <3>1, <3>2, <3>3
    <2>2. ASSUME NEW k \in DOMAIN segs, NEW i \in DOMAIN segs[k].pages, Holds(segs[k].pages[i], r)
          PROVE  r \in Readable'
      <3>1. CASE k # w.seq
        <4>1. k \in DOMAIN segs' /\ segs'[k] = segs[k]
          BY <1>1, <1>5, <3>1
        <4> QED BY <2>2, <4>1 DEF Readable
      <3>2. CASE k = w.seq
        <4>1. segs[w.seq].pages \in Seq(Stored)
          BY <1>2, <3>2, SegmentPages
        <4> DEFINE new == segs'[w.seq].pages[last]
        <4>2. segs'[w.seq].pages = Append(segs[w.seq].pages, new)
          BY <1>1, <3>2
        <4> HIDE DEF new
        <4>3. i \in DOMAIN segs'[w.seq].pages /\ segs'[w.seq].pages[i] = segs[w.seq].pages[i]
          BY <3>2, <4>1, <4>2, SMT
        <4> QED BY <1>1, <2>2, <3>2, <4>3 DEF Readable
      <3> QED BY <3>1, <3>2
    <2>3. r \in Elements(page) => r \in Readable'
      BY <1>1, <1>3, <1>6 DEF Readable
    <2> QED BY <2>1, <2>2, <2>3 DEF Readable
  <1>9. Readable \subseteq Record /\ Readable' \subseteq Record
    BY DEF Readable
  <1> QED BY <1>7, <1>8, <1>9

\* Once persisted, the newest page is durable; nothing else becomes readable.
LEMMA PersistDurable ==
    ASSUME SegInv, Persist
    PROVE  LET pages == segs[writer.seq].pages IN
           /\ Readable' = Readable
           /\ Elements(pages[Len(pages)].recs) \subseteq Durable'
  <1> DEFINE pages == segs[writer.seq].pages
             last == Len(pages)
  <1>1. /\ segs \in Seq(Segment) /\ Len(segs) \in Nat /\ DOMAIN segs = 1 .. Len(segs)
        /\ synced \in [DOMAIN segs -> Nat]
    BY SMT DEF SegInv, SegTypeOK
  <1>2. /\ writer.seq = Len(segs) /\ pages # << >> /\ writer.seq # 0
    BY DEF Persist, SegInv, WriterInv
  <1>3. writer.seq \in DOMAIN segs
    BY <1>1, <1>2, SMT
  <1>4. pages \in Seq(Stored) /\ last \in Nat /\ last \in 1 .. last /\ last \in DOMAIN pages
    BY <1>1, <1>2, <1>3, SegmentPages, SMT
  <1>5. segs' = segs /\ entries' = Len(segs) /\ synced'[writer.seq] = last
    BY <1>1, <1>3 DEF Persist
  <1>6. pages[last].recs \in Seq(Record)
    <2>1. pages[last] \in Stored
      BY <1>4, SMT
    <2> QED BY <2>1 DEF Stored, Page
  <1> HIDE DEF pages, last
  <1>7. ASSUME NEW r \in Elements(pages[last].recs)
        PROVE  r \in Durable'
    <2>1. r \in Record /\ Holds(pages[last], r)
      BY <1>6, SMT DEF Elements, Holds
    <2>2. writer.seq \in 1 .. entries' /\ last \in 1 .. synced'[writer.seq]
      BY <1>1, <1>3, <1>4, <1>5
    <2>3. Holds(segs'[writer.seq].pages[last], r)
      BY <1>5, <2>1 DEF pages
    <2> QED BY <2>1, <2>2, <2>3 DEF Durable
  <1>8. Readable' = Readable
    BY <1>5 DEF Readable
  <1> QED BY <1>7, <1>8 DEF pages, last

\* sync_all makes everything readable durable.
LEMMA SyncDurable ==
    ASSUME SegInv, sync_all
    PROVE  Readable' = Readable /\ Readable \subseteq Durable'
  <1>1. /\ segs \in Seq(Segment) /\ Len(segs) \in Nat /\ DOMAIN segs = 1 .. Len(segs)
    BY SMT DEF SegInv, SegTypeOK
  <1>2. segs' = segs /\ entries' = Len(segs)
          /\ \A k \in DOMAIN segs : synced'[k] = Len(segs[k].pages)
    BY DEF sync_all
  <1>3. ASSUME NEW r \in Record, NEW k \in DOMAIN segs, NEW i \in DOMAIN segs[k].pages,
               Holds(segs[k].pages[i], r)
        PROVE  r \in Durable'
    <2>1. segs[k].pages \in Seq(Stored)
      BY <1>1, SegmentPages
    <2>2. i \in 1 .. synced'[k] /\ k \in 1 .. entries'
      BY <1>1, <1>2, <2>1, SMT
    <2> QED BY <1>2, <1>3, <2>2 DEF Durable
  <1> QED BY <1>2, <1>3 DEF Readable

\* The positions Begin picks cover its batch: what they leave out is retained
\* already, or repeats a position they do contain.
LEMMA PendingFacts ==
    ASSUME NEW before \in SUBSET Record, NEW batch \in Batch, NEW index \in Positions,
           NEW adm, adm = Admissions(before, batch), IsPending(index, adm),
           NEW pending, pending = [k \in DOMAIN index |-> batch[index[k]]]
    PROVE  /\ pending \in Seq(Record)
           /\ Elements(pending) \subseteq Elements(batch)
           /\ Elements(batch) \subseteq before \cup Elements(pending)
           /\ ~NeedsFence(adm) => Elements(batch) \subseteq Elements(pending)
  <1>1. PICK n \in 1 .. MaxBatch : batch \in [1 .. n -> Record]
    BY DEF Batch
  <1>2. PICK m \in 0 .. MaxBatch : index \in [1 .. m -> 1 .. MaxBatch]
    BY DEF Positions
  <1>3. n \in Nat /\ m \in Nat /\ DOMAIN batch = 1 .. n /\ DOMAIN index = 1 .. m
    BY <1>1, <1>2, MaxBatchAssumption, SMT
  <1>4. DOMAIN adm = DOMAIN batch
          /\ \A i \in DOMAIN batch : adm[i] = classify(InsertedBefore(before, batch, i), batch[i])
    BY DEF Admissions
  <1>5. {index[k] : k \in DOMAIN index} = {i \in DOMAIN batch : adm[i] # "Duplicate"}
    BY <1>4 DEF IsPending
  <1>6. \A k \in DOMAIN index : index[k] \in DOMAIN batch
    BY <1>5
  <1>7. pending \in Seq(Record)
    <2>1. pending \in [1 .. m -> Record]
      BY <1>1, <1>3, <1>6
    <2> QED BY <1>3, <2>1, FunctionIsSeq
  <1>8. ASSUME NEW i \in DOMAIN batch, adm[i] # "Duplicate"
        PROVE  batch[i] \in Elements(pending)
    <2>1. PICK k \in DOMAIN index : index[k] = i
      BY <1>5, <1>8, SMT
    <2>2. pending[k] = batch[i] /\ k \in DOMAIN pending
      BY <2>1
    <2> QED BY <2>2 DEF Elements
  <1>9. Elements(pending) \subseteq Elements(batch)
    BY <1>6 DEF Elements
  <1>10. ASSUME NEW i \in DOMAIN batch
         PROVE  batch[i] \in before \cup Elements(pending)
    <2> DEFINE T == {j \in DOMAIN batch : batch[j] = batch[i]}
    <2>1. T \subseteq Nat /\ T # {}
      BY <1>3, SMT
    <2>2. PICK j \in T : \A k \in T : j <= k
      BY <2>1, LeastNat
    <2>3. j \in DOMAIN batch /\ batch[j] = batch[i]
      BY <2>2
    <2>4. CASE adm[j] # "Duplicate"
      BY <1>8, <2>3, <2>4
    <2>5. CASE adm[j] = "Duplicate"
      <3>1. batch[j] \in InsertedBefore(before, batch, j)
        BY <1>4, <2>3, <2>5 DEF classify
      <3>2. batch[j] \in before \/ \E k \in 1 .. (j - 1) : batch[k] = batch[j]
        BY <3>1 DEF InsertedBefore
      <3>3. \A k \in 1 .. (j - 1) : k \in DOMAIN batch /\ k < j /\ ~(j <= k)
        BY <1>3, <2>3, SMT
      <3>4. \A k \in 1 .. (j - 1) : batch[k] # batch[j]
        BY <2>2, <2>3, <3>3
      <3> QED BY <2>3, <3>2, <3>4
    <2> QED BY <2>4, <2>5
  <1>11. Elements(batch) \subseteq before \cup Elements(pending)
    BY <1>10 DEF Elements
  <1>12. ~NeedsFence(adm) => Elements(batch) \subseteq Elements(pending)
    <2>1. ASSUME ~NeedsFence(adm), NEW i \in DOMAIN batch
          PROVE  batch[i] \in Elements(pending)
      <3>1. adm[i] # "Duplicate"
        BY <1>4, <2>1 DEF NeedsFence
      <3> QED BY <1>8, <3>1
    <2> QED BY <2>1 DEF Elements
  <1> QED BY <1>7, <1>9, <1>11, <1>12
-----------------------------------------------------------------------------
\* Every step of the log store is a step of the segment store below it.
LEMMA NextIsSegNext ==
    ASSUME IInv, [Next]_vars
    PROVE  [SegNext]_segVars
  <1>1. call.pending \in Seq(Record)
    BY DEF IInv, TypeOK, Call
  <1>2. call.pending # << >> => NextPage(call.pending) \in BoundedPage
    BY <1>1, NextPageFacts
  <1>3. CASE AppendPage \/ PageFails
    BY <1>2, <1>3 DEF AppendPage, PageFails, SegNext
  <1>4. CASE OpenLog \/ CloseLog \/ Fence \/ FenceFails \/ PageDurable \/ PageUncertain \/ Interrupted
    BY <1>4 DEF OpenLog, CloseLog, Fence, FenceFails, PageDurable, PageUncertain, Interrupted, SegNext
  <1>5. CASE Answer \/ UNCHANGED vars \/ \E batch \in Batch : Begin(batch)
    BY <1>5 DEF Answer, Begin, vars
  <1> QED BY <1>3, <1>4, <1>5 DEF Next

\* A quarantined identity stays quarantined when evidence is added.
LEMMA ConflictsGrow ==
    ASSUME NEW S, NEW T, S \subseteq T
    PROVE  conflicts(S) \subseteq conflicts(T)
  BY DEF conflicts

\* What was answered stays true as long as durable evidence only grows.
LEMMA AnswersKept ==
    ASSUME IInv, Durable \subseteq Durable', answered' = answered
    PROVE  AnsweredDurable' /\ QuarantineDurable' /\ AcceptedOnce'
  <1>1. AnsweredDurable'
    BY DEF IInv, AnsweredDurable
  <1>2. QuarantineDurable'
    <2>1. conflicts(Durable) \subseteq conflicts(Durable')
      BY ConflictsGrow
    <2> QED BY <2>1 DEF IInv, QuarantineDurable
  <1>3. AcceptedOnce'
    BY DEF IInv, AcceptedOnce
  <1> QED BY <1>1, <1>2, <1>3

\* A step that ends the call without an answer and forgets the cached evidence
\* keeps the invariant, whatever it did to the disk.
LEMMA AbandonInv ==
    ASSUME IInv, SegInv', Durable \subseteq Durable', answered' = answered,
           call'.pc = "idle", call' \in Call, cached' = FALSE, evidence' \in SUBSET Record,
           writer'.phase # "written"
    PROVE  IInv'
  <1>1. AnsweredDurable' /\ QuarantineDurable' /\ AcceptedOnce'
    BY AnswersKept
  <1>2. TypeOK'
    BY DEF IInv, TypeOK, SegInv
  <1>3. WrittenInv' /\ CallInv' /\ AppendInv' /\ EvidenceExact'
    BY DEF WrittenInv, CallInv, AppendInv, EvidenceExact
  <1> QED BY <1>1, <1>2, <1>3 DEF IInv

\* Failures, closing and interruptions keep the invariant.
LEMMA FailureInv ==
    ASSUME IInv, SegInv', Durable \subseteq Durable',
           FenceFails \/ PageFails \/ PageUncertain \/ CloseLog \/ Interrupted
    PROVE  IInv'
  <1>1. NoCall \in Call /\ NoCall.pc = "idle"
    BY SMT DEF NoCall, Call
  <1>2. call.pc # "idle" => cached = FALSE
    BY DEF IInv, TypeOK
  <1>3. evidence \in SUBSET Record /\ call \in Call /\ writer \in Writer
    BY DEF IInv, TypeOK, SegTypeOK
  <1>4. CASE FenceFails
    <2>1. writer'.phase # "written"
      BY <1>4 DEF FenceFails, SyncAllFails
    <2> QED BY <1>1, <1>2, <1>3, <1>4, <2>1, AbandonInv DEF FenceFails
  <1>5. CASE PageFails
    <2> DEFINE page == NextPage(call.pending)
    <2>1. WriteFails(page) \/ AppendRefused(page)
      BY <1>5 DEF PageFails
    <2> HIDE DEF page
    <2>2. writer'.phase # "written"
      <3>1. CASE WriteFails(page)
        <4>1. AtFrontier(Placed(page)) /\ Placed(page).phase = "idle"
          BY <3>1, PlacedFacts DEF WriteFails, IInv
        <4>2. writer' = [Placed(page) EXCEPT !.needs_recovery = TRUE]
          BY <3>1 DEF WriteFails
        <4> QED BY <4>1, <4>2 DEF AtFrontier, Writer
      <3>2. CASE AppendRefused(page)
        BY <3>2, AppendRefusedFacts DEF IInv
      <3> QED BY <2>1, <3>1, <3>2
    <2> QED BY <1>1, <1>2, <1>3, <1>5, <2>2, AbandonInv DEF PageFails
  <1>6. CASE PageUncertain
    <2>1. PICK known \in BOOLEAN :
             writer' = [writer EXCEPT !.phase = "idle", !.initialize_layout = @ /\ ~known]
      BY <1>6 DEF PageUncertain, PersistFails
    <2>2. writer'.phase = "idle"
      BY <1>3, <2>1 DEF Writer
    <2> QED BY <1>1, <1>2, <1>3, <1>6, <2>2, AbandonInv DEF PageUncertain
  <1>7. CASE CloseLog
    <2>1. writer'.phase # "written"
      BY <1>7 DEF CloseLog, Close, Closed
    <2> QED BY <1>3, <1>7, <2>1, AbandonInv DEF CloseLog
  <1>8. CASE Interrupted
    <2>1. writer'.phase # "written"
      BY <1>8, SMT DEF Interrupted, Kill, PowerLoss, Closed
    <2> QED BY <1>1, <1>8, <2>1, AbandonInv DEF Interrupted
  <1> QED BY <1>4, <1>5, <1>6, <1>7, <1>8

\* Opening changes nothing but the writer.
LEMMA OpenLogInv ==
    ASSUME IInv, SegInv', Durable \subseteq Durable', OpenLog
    PROVE  IInv'
  <1>1. UNCHANGED disk /\ UNCHANGED logVars
    BY DEF OpenLog, Open
  <1>2. writer'.phase = "idle"
    <2>1. segs \in Seq(Segment) /\ writer' = OpenWith(marker = "absent")
      BY DEF OpenLog, Open, IInv, SegInv, SegTypeOK
    <2> DEFINE init == (marker = "absent")
               w0 == [phase |-> "idle", seq |-> IF segs = << >> THEN 1 ELSE Len(segs),
                      length |-> 0, needs_recovery |-> TRUE, initialize_layout |-> init]
    <2>2. AtFrontier(w0) /\ w0.phase = "idle"
      <3>1. init \in BOOLEAN
        OBVIOUS
      <3> HIDE DEF init
      <3>2. w0 \in Writer
        BY <2>1, <3>1, SMT DEF Writer
      <3> QED BY <2>1, <3>2, SMT DEF AtFrontier
    <2>3. writer' = (IF init THEN rotate(recover_frontier(w0)) ELSE recover_frontier(w0))
      BY <2>1 DEF OpenWith
    <2> HIDE DEF init, w0
    <2>4. AtFrontier(recover_frontier(w0)) /\ recover_frontier(w0).phase = "idle"
      BY <2>1, <2>2, RecoverFacts
    <2>5. rotate(recover_frontier(w0)).phase = "idle"
      BY <2>1, <2>4, RotateFacts
    <2> QED BY <2>3, <2>4, <2>5
  <1>3. Readable' = Readable /\ Durable' = Durable
    BY <1>1 DEF disk, Readable, Durable
  <1>4. AnsweredDurable' /\ QuarantineDurable' /\ AcceptedOnce'
    BY <1>1, AnswersKept DEF logVars
  <1>5. TypeOK' /\ WrittenInv' /\ EvidenceExact'
    BY <1>1, <1>2, <1>3 DEF IInv, TypeOK, SegInv, WrittenInv, EvidenceExact, logVars
  <1>6. CallInv' /\ AppendInv'
    BY <1>1, <1>3 DEF IInv, CallInv, AppendInv, logVars
  <1>7. cached' => call'.pc = "idle"
    BY <1>1 DEF IInv, logVars
  <1> QED BY <1>4, <1>5, <1>6, <1>7 DEF IInv

\* The outcomes of a batch are admissions, one for each of its records.
LEMMA AdmissionsType ==
    ASSUME NEW set, NEW batch \in Seq(Record)
    PROVE  /\ Admissions(set, batch) \in Seq(Admission)
           /\ DOMAIN Admissions(set, batch) = DOMAIN batch
           /\ Admissions(set, batch) \in [DOMAIN batch -> Admission]
  <1>1. Admissions(set, batch) \in [DOMAIN batch -> Admission]
    BY DEF Admissions, Admission, classify
  <1>2. Len(batch) \in Nat /\ DOMAIN batch = 1 .. Len(batch)
    BY SMT
  <1>3. Admissions(set, batch) \in Seq(Admission)
    BY <1>1, <1>2, FunctionIsSeq
  <1> QED BY <1>1, <1>3

\* A batch is a nonempty sequence of records.
LEMMA BatchFacts ==
    ASSUME NEW batch \in Batch
    PROVE  batch \in Seq(Record) /\ batch # << >>
  <1>1. PICK n \in 1 .. MaxBatch : batch \in [1 .. n -> Record]
    BY DEF Batch
  <1>2. n \in Nat /\ n >= 1
    BY <1>1, MaxBatchAssumption, SMT
  <1>3. batch \in Seq(Record) /\ Len(batch) = n
    BY <1>1, <1>2, FunctionIsSeq
  <1> QED BY <1>2, <1>3, SMT

\* A new call starts from exactly the readable evidence.
LEMMA BeginInv ==
    ASSUME IInv, SegInv', NEW batch \in Batch, Begin(batch)
    PROVE  IInv'
  <1> DEFINE before == IF cached THEN evidence ELSE read_evidence
             adm == Admissions(before, batch)
  <1>1. /\ UNCHANGED segVars /\ answered' = answered /\ writer.phase = "idle"
        /\ cached' = FALSE /\ evidence' = {}
    BY DEF Begin
  <1>2. before = Readable /\ Readable \subseteq Record
    BY DEF IInv, EvidenceExact, read_evidence, Readable
  <1>3. PICK index \in Positions :
          /\ IsPending(index, adm)
          /\ call' = [pc |-> IF NeedsFence(adm) THEN "fence" ELSE "append",
                      before |-> before, batch |-> batch, admissions |-> adm,
                      pending |-> [k \in DOMAIN index |-> batch[index[k]]]]
    BY DEF Begin
  <1> HIDE DEF before
  <1> DEFINE pending == [k \in DOMAIN index |-> batch[index[k]]]
  <1>4. /\ pending \in Seq(Record)
        /\ Elements(pending) \subseteq Elements(batch)
        /\ Elements(batch) \subseteq before \cup Elements(pending)
        /\ ~NeedsFence(adm) => Elements(batch) \subseteq Elements(pending)
    <2>1. before \in SUBSET Record /\ adm = Admissions(before, batch) /\ IsPending(index, adm)
            /\ pending = [k \in DOMAIN index |-> batch[index[k]]]
      BY <1>2, <1>3
    <2> HIDE DEF adm, pending
    <2>2. pending \in Seq(Record) /\ Elements(pending) \subseteq Elements(batch)
      BY <2>1, PendingFacts, ZenonT(30)
    <2>3. Elements(batch) \subseteq before \cup Elements(pending)
      BY <2>1, PendingFacts, SMT
    <2>4. ~NeedsFence(adm) => Elements(batch) \subseteq Elements(pending)
      BY <2>1, PendingFacts, SMT
    <2> QED BY <2>2, <2>3, <2>4
  <1>5. batch \in Seq(Record) /\ batch # << >> /\ adm \in Seq(Admission)
    BY BatchFacts, AdmissionsType
  <1> HIDE DEF pending, adm
  <1>6. call' = [pc |-> IF NeedsFence(adm) THEN "fence" ELSE "append",
                 before |-> before, batch |-> batch, admissions |-> adm, pending |-> pending]
    BY <1>3 DEF pending
  <1>7. call' \in Call
    BY <1>2, <1>4, <1>5, <1>6 DEF Call
  <1>8. Readable' = Readable /\ Durable' = Durable
    BY <1>1 DEF segVars, Readable, Durable
  <1>9. AnsweredDurable' /\ QuarantineDurable' /\ AcceptedOnce'
    BY <1>1, <1>8, AnswersKept
  <1>10. TypeOK'
    BY <1>1, <1>7 DEF IInv, TypeOK, SegInv
  <1>11. WrittenInv' /\ EvidenceExact'
    BY <1>1 DEF WrittenInv, EvidenceExact, segVars
  <1>12. CallInv'
    <2>1. InsertedAll(before, batch) = InsertedAll(Readable, pending)
      BY <1>2, <1>4 DEF InsertedAll, Elements
    <2>2. \A x \in answered : x[1] \in before
      BY <1>2, DurableReadable DEF IInv, AnsweredDurable
    <2>3. adm = Admissions(before, batch)
      BY DEF adm
    <2> QED BY <1>1, <1>2, <1>5, <1>6, <1>8, <2>1, <2>2, <2>3 DEF CallInv
  <1>13. AppendInv'
    <2>1. ~NeedsFence(adm) => InsertedAll({}, batch) \subseteq InsertedAll(Durable, pending)
      BY <1>4 DEF InsertedAll, Elements
    <2> QED BY <1>6, <1>8, <2>1 DEF AppendInv
  <1> QED BY <1>1, <1>9, <1>10, <1>11, <1>12, <1>13 DEF IInv

\* The fence makes durable all that duplicates and conflicts rely on.
LEMMA FenceInv ==
    ASSUME IInv, SegInv', Durable \subseteq Durable', Fence
    PROVE  IInv'
  <1>1. /\ call.pc = "fence" /\ sync_all /\ UNCHANGED <<cached, evidence, answered>>
        /\ writer.phase = "idle" /\ writer' = writer
    BY DEF Fence, sync_all
  <1>2. call \in Call
    BY DEF IInv, TypeOK
  <1>3. call' = [pc |-> "append", before |-> call.before, batch |-> call.batch,
                 admissions |-> call.admissions, pending |-> call.pending]
    BY <1>2 DEF Fence, Call
  <1>4. call' \in Call
    BY <1>2, <1>3 DEF Call
  <1>5. Readable' = Readable /\ Readable \subseteq Durable' /\ SegInv
    BY <1>1, SyncDurable DEF IInv
  <1>6. AnsweredDurable' /\ QuarantineDurable' /\ AcceptedOnce'
    BY <1>1, AnswersKept
  <1>7. TypeOK'
    BY <1>1, <1>4 DEF IInv, TypeOK, SegInv
  <1>8. WrittenInv' /\ EvidenceExact'
    BY <1>1, <1>5 DEF WrittenInv, EvidenceExact, IInv
  <1>9. CallInv'
    BY <1>1, <1>3, <1>5 DEF CallInv, IInv
  <1>10. AppendInv'
    <2>1. InsertedAll(call.before, call.batch) = InsertedAll(Readable, call.pending)
            /\ call.before \subseteq Readable
      BY <1>1 DEF IInv, CallInv
    <2>2. InsertedAll({}, call.batch) \subseteq InsertedAll(Durable', call.pending)
      BY <1>5, <2>1 DEF InsertedAll
    <2> QED BY <1>3, <1>5, <2>1, <2>2 DEF AppendInv
  <1>11. cached' => call'.pc = "idle"
    BY <1>1 DEF IInv
  <1> QED BY <1>6, <1>7, <1>8, <1>9, <1>10, <1>11 DEF IInv

\* Writing a page moves pending records into what is readable.
LEMMA AppendPageInv ==
    ASSUME IInv, SegInv', Durable \subseteq Durable', AppendPage
    PROVE  IInv'
  <1> DEFINE page == NextPage(call.pending)
  <1>1. /\ call.pc = "append" /\ call.pending # << >> /\ WritePage(page)
        /\ UNCHANGED <<cached, evidence, call, answered>>
    BY DEF AppendPage, logVars
  <1>2. call.pending \in Seq(Record) /\ SegInv
    BY DEF IInv, TypeOK, Call
  <1>3. page \in Page /\ Elements(page) \subseteq Elements(call.pending)
    BY <1>1, <1>2, NextPageFacts, BoundedPages
  <1> HIDE DEF page
  <1>4. Readable' = Readable \cup Elements(page)
    BY <1>1, <1>2, <1>3, WriteReadable
  <1>5. AnsweredDurable' /\ QuarantineDurable' /\ AcceptedOnce'
    BY <1>1, AnswersKept
  <1>6. TypeOK'
    BY <1>1 DEF IInv, TypeOK, SegInv
  <1>7. WrittenInv'
    <2>1. LET w == Placed(page) IN
            /\ writer' = [w EXCEPT !.phase = "written", !.needs_recovery = TRUE]
            /\ AtFrontier(w)
      BY <1>1, <1>2, PlacedFacts DEF WritePage
    <2>2. writer'.seq = Placed(page).seq
      BY <2>1 DEF AtFrontier, Writer
    <2>3. LET w == Placed(page) IN
            segs'[w.seq].pages[Len(segs'[w.seq].pages)].recs = page
      BY <1>1, <1>2, <1>3, WritePageFacts
    <2> QED BY <1>1, <2>2, <2>3 DEF WrittenInv, page
  <1>8. EvidenceExact' /\ (cached' => call'.pc = "idle")
    BY <1>1 DEF EvidenceExact, IInv
  <1>9. CallInv'
    <2>1. InsertedAll(Readable', call.pending) = InsertedAll(Readable, call.pending)
      BY <1>3, <1>4 DEF InsertedAll, Elements
    <2> QED BY <1>1, <1>4, <2>1 DEF CallInv, IInv
  <1>10. AppendInv'
    BY <1>1, SMT DEF AppendInv, IInv, InsertedAll
  <1> QED BY <1>5, <1>6, <1>7, <1>8, <1>9, <1>10 DEF IInv

\* Persisting a page moves its records from what is pending to what is durable.
LEMMA PageDurableInv ==
    ASSUME IInv, SegInv', Durable \subseteq Durable', PageDurable
    PROVE  IInv'
  <1> DEFINE page == NextPage(call.pending)
             rest == AfterPage(call.pending)
  <1>1. /\ call.pc = "append" /\ Persist /\ UNCHANGED <<cached, evidence, answered>>
        /\ writer.phase = "written"
    BY DEF PageDurable, Persist
  <1>2. call \in Call /\ call.pending \in Seq(Record) /\ SegInv /\ writer \in Writer
    BY DEF IInv, TypeOK, Call, SegTypeOK
  <1>3. /\ call.pending # << >>
        /\ segs[writer.seq].pages[Len(segs[writer.seq].pages)].recs = page
    BY <1>1 DEF IInv, WrittenInv
  <1>4. rest \in Seq(Record) /\ Elements(call.pending) = Elements(page) \cup Elements(rest)
    BY <1>2, <1>3, NextPageFacts
  <1>5. Readable' = Readable /\ Elements(page) \subseteq Durable'
    BY <1>1, <1>2, <1>3, PersistDurable
  <1>6. call' = [pc |-> "append", before |-> call.before, batch |-> call.batch,
                 admissions |-> call.admissions, pending |-> rest]
    BY <1>1, <1>2 DEF PageDurable, Call
  <1> HIDE DEF page, rest
  <1>7. call' \in Call
    BY <1>2, <1>4, <1>6 DEF Call
  <1>8. AnsweredDurable' /\ QuarantineDurable' /\ AcceptedOnce'
    BY <1>1, AnswersKept
  <1>9. TypeOK'
    BY <1>1, <1>7 DEF IInv, TypeOK, SegInv
  <1>10. writer'.phase = "idle"
    BY <1>1, <1>2 DEF Persist, Writer
  <1>11. WrittenInv' /\ EvidenceExact' /\ (cached' => call'.pc = "idle")
    BY <1>1, <1>5, <1>10 DEF WrittenInv, EvidenceExact, IInv
  <1>12. Durable' \subseteq Readable'
    BY DurableReadable, SMT DEF Durable, Readable, SegInv, SegTypeOK
  <1>13. CallInv'
    <2>1. InsertedAll(Readable, call.pending) = InsertedAll(Readable, rest)
      BY <1>4, <1>5, <1>12 DEF InsertedAll, Elements
    <2> QED BY <1>1, <1>5, <1>6, <2>1 DEF CallInv, IInv
  <1>14. AppendInv'
    <2>1. InsertedAll({}, call.batch) \subseteq InsertedAll(Durable, call.pending)
            /\ (NeedsFence(call.admissions) => call.before \subseteq Durable)
      BY <1>1 DEF IInv, AppendInv
    <2>2. InsertedAll(Durable, call.pending) \subseteq InsertedAll(Durable', rest)
      BY <1>4, <1>5 DEF InsertedAll, Elements
    <2>3. InsertedAll({}, call.batch) \subseteq InsertedAll(Durable', rest)
            /\ (NeedsFence(call.admissions) => call.before \subseteq Durable')
      BY <2>1, <2>2
    <2> QED BY <1>6, <2>3 DEF AppendInv
  <1> QED BY <1>8, <1>9, <1>11, <1>13, <1>14 DEF IInv

\* What an outcome says: an accepted record had no variant before it, a
\* conflicting one has a rival in the evidence or in its own batch.
LEMMA OutcomeFacts ==
    ASSUME NEW before, NEW batch, NEW adm, adm = Admissions(before, batch),
           NEW i \in DOMAIN batch
    PROVE  /\ adm[i] = "Accepted" =>
                /\ \A r \in before : IdOf[r] # IdOf[batch[i]]
                /\ \A j \in 1 .. (i - 1) : IdOf[batch[j]] # IdOf[batch[i]]
           /\ adm[i] = "Conflict" =>
                /\ batch[i] \notin before
                /\ \E r \in before \cup {batch[j] : j \in 1 .. (i - 1)} :
                     r # batch[i] /\ IdOf[r] = IdOf[batch[i]]
  <1>1. adm[i] = classify(InsertedBefore(before, batch, i), batch[i])
    BY DEF Admissions
  <1> DEFINE S == InsertedBefore(before, batch, i)
  <1>2. adm[i] = "Accepted" => Variants(S, IdOf[batch[i]]) = {}
    BY <1>1 DEF classify
  <1>3. adm[i] = "Conflict" => Variants(S, IdOf[batch[i]]) # {} /\ batch[i] \notin S
    BY <1>1 DEF classify
  <1>4. adm[i] = "Accepted" => \A r \in S : IdOf[r] # IdOf[batch[i]]
    BY <1>2 DEF Variants
  <1>5. adm[i] = "Conflict" => \E r \in S : r # batch[i] /\ IdOf[r] = IdOf[batch[i]]
    BY <1>3 DEF Variants
  <1> QED BY <1>3, <1>4, <1>5 DEF InsertedBefore

\* What a call about to answer knows.
LEMMA ReadyFacts ==
    ASSUME IInv, call.pc = "append", call.pending = << >>
    PROVE  /\ call.batch \in Batch /\ call.batch \in Seq(Record)
           /\ call.admissions = Admissions(call.before, call.batch)
           /\ call.admissions \in [DOMAIN call.batch -> Admission]
           /\ Readable = call.before \cup Elements(call.batch)
           /\ Elements(call.batch) \subseteq Durable
           /\ NeedsFence(call.admissions) => call.before \subseteq Durable
           /\ \A x \in answered : x[1] \in call.before
  <1>1. /\ call.batch \in Batch /\ call.admissions = Admissions(call.before, call.batch)
        /\ InsertedAll(call.before, call.batch) = InsertedAll(Readable, call.pending)
        /\ \A x \in answered : x[1] \in call.before
    BY DEF IInv, CallInv
  <1>2. /\ InsertedAll({}, call.batch) \subseteq InsertedAll(Durable, call.pending)
        /\ NeedsFence(call.admissions) => call.before \subseteq Durable
    BY DEF IInv, AppendInv
  <1>3. \A S : InsertedAll(S, call.pending) = S
    BY SMT DEF InsertedAll
  <1>4. call.batch \in Seq(Record)
    BY <1>1, BatchFacts
  <1>5. call.admissions \in [DOMAIN call.batch -> Admission]
    BY <1>1, <1>4, AdmissionsType, SMT
  <1>6. Readable = call.before \cup Elements(call.batch) /\ Elements(call.batch) \subseteq Durable
    BY <1>1, <1>2, <1>3 DEF InsertedAll, Elements
  <1> QED BY <1>1, <1>2, <1>4, <1>5, <1>6

\* An answer adds outcomes that hold of durable evidence.
LEMMA AnswerInv ==
    ASSUME IInv, SegInv', Answer
    PROVE  IInv'
  <1>1. /\ call.pc = "append" /\ call.pending = << >> /\ writer.phase = "idle"
        /\ cached' = TRUE /\ evidence' = InsertedAll(call.before, call.batch)
        /\ call' = NoCall /\ UNCHANGED segVars
    BY DEF Answer
  <1> DEFINE batch == call.batch
             adm == call.admissions
             new == {<<batch[i], adm[i]>> : i \in DOMAIN batch}
  <1>2. answered' = answered \cup new
    BY DEF Answer
  <1>3. /\ batch \in Seq(Record) /\ adm = Admissions(call.before, batch)
        /\ adm \in [DOMAIN batch -> Admission]
        /\ Readable = call.before \cup Elements(batch)
        /\ Elements(batch) \subseteq Durable
        /\ NeedsFence(adm) => call.before \subseteq Durable
        /\ \A x \in answered : x[1] \in call.before
    BY <1>1, ReadyFacts
  <1>4. Readable' = Readable /\ Durable' = Durable /\ Readable \subseteq Record
    BY <1>1 DEF segVars, Readable, Durable
  <1>5. NoCall \in Call /\ NoCall.pc = "idle"
    BY SMT DEF NoCall, Call
  <1> HIDE DEF batch, adm
  <1>6. \A x \in new : \E i \in DOMAIN batch : x[1] = batch[i] /\ x[2] = adm[i]
    BY SMT
  <1>7. new \subseteq Record \X Admission
    BY <1>3, SMT
  <1> HIDE DEF new
  <1>8. evidence' = Readable
    BY <1>1, <1>3 DEF InsertedAll, Elements, batch
  <1>9. TypeOK'
    BY <1>1, <1>2, <1>4, <1>5, <1>7, <1>8 DEF IInv, TypeOK, SegInv
  <1>10. WrittenInv' /\ CallInv' /\ AppendInv' /\ EvidenceExact' /\ (cached' => call'.pc = "idle")
    BY <1>1, <1>4, <1>5, <1>8 DEF WrittenInv, CallInv, AppendInv, EvidenceExact, segVars
  <1>11. AnsweredDurable'
    <2>1. \A x \in new : x[1] \in Durable
      BY <1>3, <1>6 DEF Elements
    <2> QED BY <1>2, <1>4, <2>1 DEF IInv, AnsweredDurable
  <1>12. QuarantineDurable'
    <2>1. ASSUME NEW x \in new, x[2] = "Conflict"
          PROVE  IdOf[x[1]] \in conflicts(Durable)
      <3>1. PICK i \in DOMAIN batch : x[1] = batch[i] /\ adm[i] = "Conflict"
        BY <1>6, <2>1
      <3>2. PICK r \in call.before \cup {batch[j] : j \in 1 .. (i - 1)} :
              r # batch[i] /\ IdOf[r] = IdOf[batch[i]]
        BY <1>3, <3>1, OutcomeFacts, SMT
      <3>3. call.before \subseteq Durable
        BY <1>3, <3>1 DEF NeedsFence
      <3>4. \A j \in 1 .. (i - 1) : j \in DOMAIN batch
        BY <1>3, <3>1, SMT
      <3>5. r \in Durable /\ batch[i] \in Durable
        BY <1>3, <3>1, <3>2, <3>3, <3>4 DEF Elements
      <3>6. batch[i] \in Record
        BY <1>3, <3>1, SMT
      <3>7. IdOf[batch[i]] \in OpId
        BY <3>6, IdOfAssumption
      <3> QED BY <3>1, <3>2, <3>5, <3>7 DEF conflicts
    <2> QED BY <1>2, <1>4, <2>1 DEF IInv, QuarantineDurable
  <1>13. AcceptedOnce'
    <2>1. ASSUME NEW x \in new, NEW y \in new, x[2] = "Accepted", y[2] = "Accepted",
                 IdOf[x[1]] = IdOf[y[1]]
          PROVE  x[1] = y[1]
      <3>1. PICK i \in DOMAIN batch : x[1] = batch[i] /\ adm[i] = "Accepted"
        BY <1>6, <2>1
      <3>2. PICK j \in DOMAIN batch : y[1] = batch[j] /\ adm[j] = "Accepted"
        BY <1>6, <2>1
      <3>3. \A k \in 1 .. (i - 1) : IdOf[batch[k]] # IdOf[batch[i]]
        BY <1>3, <3>1, OutcomeFacts, SMT
      <3>4. \A k \in 1 .. (j - 1) : IdOf[batch[k]] # IdOf[batch[j]]
        BY <1>3, <3>2, OutcomeFacts, SMT
      <3>5. i \in Nat /\ j \in Nat /\ i >= 1 /\ j >= 1
        BY <1>3, SMT
      <3>6. ~(i < j) /\ ~(j < i)
        BY <2>1, <3>1, <3>2, <3>3, <3>4, <3>5, SMT
      <3> QED BY <3>1, <3>2, <3>5, <3>6, SMT
    <2>2. ASSUME NEW x \in new, NEW y \in answered, x[2] = "Accepted"
          PROVE  IdOf[x[1]] # IdOf[y[1]]
      <3>1. PICK i \in DOMAIN batch : x[1] = batch[i] /\ adm[i] = "Accepted"
        BY <1>6, <2>2
      <3>2. \A r \in call.before : IdOf[r] # IdOf[batch[i]]
        BY <1>3, <3>1, OutcomeFacts, SMT
      <3> QED BY <1>3, <3>1, <3>2
    <2>3. \A x, y \in answered :
            x[2] = "Accepted" /\ y[2] = "Accepted" /\ IdOf[x[1]] = IdOf[y[1]] => x[1] = y[1]
      BY DEF IInv, AcceptedOnce
    <2> QED BY <1>2, <2>1, <2>2, <2>3, SMT DEF AcceptedOnce
  <1> QED BY <1>9, <1>10, <1>11, <1>12, <1>13 DEF IInv

\* Nothing changes in a step that changes no variable.
LEMMA StutterInv ==
    ASSUME IInv, UNCHANGED vars
    PROVE  IInv'
  <1>1. UNCHANGED segVars /\ UNCHANGED logVars
    BY DEF vars
  <1>2. Readable' = Readable /\ Durable' = Durable
    BY <1>1 DEF segVars, Readable, Durable
  <1>3. SegInv' /\ TypeOK'
    BY <1>1, SMT DEF IInv, SegInv, TypeOK, SegTypeOK, WriterInv, LegacyInv, segVars, logVars
  <1>4. WrittenInv' /\ CallInv' /\ AppendInv' /\ EvidenceExact'
    BY <1>1, <1>2 DEF IInv, WrittenInv, CallInv, AppendInv, EvidenceExact, segVars, logVars
  <1>5. AnsweredDurable' /\ QuarantineDurable' /\ AcceptedOnce'
    BY <1>1, <1>2, AnswersKept DEF logVars
  <1> QED BY <1>1, <1>3, <1>4, <1>5 DEF IInv, logVars

\* The log store starts with nothing answered and no call.
LEMMA LogInitInv == Init => IInv
  <1> SUFFICES ASSUME Init PROVE IInv
    OBVIOUS
  <1>1. SegInv
    BY InitInv DEF Init
  <1>2. NoCall \in Call /\ NoCall.pc = "idle"
    BY SMT DEF NoCall, Call
  <1>3. writer.phase = "closed"
    BY DEF Init, SegInit, FilesInit, Closed
  <1>4. TypeOK
    BY <1>1, <1>2 DEF Init, TypeOK, SegInv
  <1>5. WrittenInv /\ CallInv /\ AppendInv /\ EvidenceExact
    BY <1>2, <1>3 DEF Init, WrittenInv, CallInv, AppendInv, EvidenceExact
  <1>6. AnsweredDurable /\ QuarantineDurable /\ AcceptedOnce
    BY DEF Init, AnsweredDurable, QuarantineDurable, AcceptedOnce
  <1> QED BY <1>1, <1>2, <1>4, <1>5, <1>6 DEF IInv, Init

\* Every step of the log store keeps the invariant.
LEMMA LogNextInv == IInv /\ [Next]_vars => IInv'
  <1> SUFFICES ASSUME IInv, [Next]_vars PROVE IInv'
    OBVIOUS
  <1>1. SegInv /\ [SegNext]_segVars
    BY NextIsSegNext DEF IInv
  <1>2. SegInv' /\ Durable \subseteq Durable'
    BY <1>1, NextInv, DurableGrows
  <1>3. CASE FenceFails \/ PageFails \/ PageUncertain \/ CloseLog \/ Interrupted
    BY <1>2, <1>3, FailureInv
  <1>4. CASE OpenLog
    BY <1>2, <1>4, OpenLogInv
  <1>5. CASE \E batch \in Batch : Begin(batch)
    BY <1>2, <1>5, BeginInv, SMT
  <1>6. CASE Fence
    BY <1>2, <1>6, FenceInv
  <1>7. CASE AppendPage
    BY <1>2, <1>7, AppendPageInv
  <1>8. CASE PageDurable
    BY <1>2, <1>8, PageDurableInv
  <1>9. CASE Answer
    BY <1>2, <1>9, AnswerInv
  <1>10. CASE UNCHANGED vars
    BY <1>10, StutterInv
  <1> QED BY <1>3, <1>4, <1>5, <1>6, <1>7, <1>8, <1>9, <1>10 DEF Next

\* The inductive invariant of the log store holds in every reachable state.
THEOREM LogInvariant == Spec => []IInv
  <1> QED BY LogInitInv, LogNextInv, PTL DEF Spec

\* The state of the log store and of the segment store below it is well typed.
THEOREM TypeCorrect == Spec => []TypeOK
  <1>1. IInv => TypeOK
    BY DEF IInv
  <1> QED BY <1>1, LogInvariant, PTL

\* No outcome append_encoded_batch returned can be undone by a power loss.
THEOREM AnsweredDurableHolds == Spec => []AnsweredDurable
  <1>1. IInv => AnsweredDurable
    BY DEF IInv
  <1> QED BY <1>1, LogInvariant, PTL

\* A conflict that was answered stays in quarantine through any crash.
THEOREM QuarantineDurableHolds == Spec => []QuarantineDurable
  <1>1. IInv => QuarantineDurable
    BY DEF IInv
  <1> QED BY <1>1, LogInvariant, PTL

\* At most one variant of an identity is ever answered Accepted.
THEOREM AcceptedOnceHolds == Spec => []AcceptedOnce
  <1>1. IInv => AcceptedOnce
    BY DEF IInv
  <1> QED BY <1>1, LogInvariant, PTL

\* The evidence cached between calls is what a replay of the log would give.
THEOREM EvidenceExactHolds == Spec => []EvidenceExact
  <1>1. IInv => EvidenceExact
    BY DEF IInv
  <1> QED BY <1>1, LogInvariant, PTL

\* An answer of the log store is a reply the contract allows, and everything
\* else it does at most adds durable records.
LEMMA NextKeepsContract ==
    IInv /\ [Next]_vars => [Contract!ContractNext]_<<Durable, answered>>
  <1> SUFFICES ASSUME IInv, [Next]_vars
               PROVE  [Contract!ContractNext]_<<Durable, answered>>
    OBVIOUS
  <1>1. SegInv /\ [SegNext]_segVars
    BY NextIsSegNext DEF IInv
  <1>2. Durable \subseteq Durable' /\ Durable' \subseteq Record
    BY <1>1, DurableGrows DEF Durable
  <1>3. CASE answered' = answered
    <2>1. Durable' = Durable \cup Durable'
      BY <1>2
    <2>2. \E more \in SUBSET Record : Durable' = Durable \cup more
      BY <1>2, <2>1
    <2>3. Contract!Retain
      BY <1>3, <2>2 DEF Contract!Retain
    <2> QED BY <2>3 DEF Contract!ContractNext
  <1>4. CASE Answer
    <2> DEFINE batch == call.batch
               adm == call.admissions
    <2>1. call.pc = "append" /\ call.pending = << >> /\ UNCHANGED segVars
      BY <1>4 DEF Answer
    <2>2. /\ batch \in Batch /\ batch \in Seq(Record) /\ adm = Admissions(call.before, batch)
          /\ adm \in [DOMAIN batch -> Admission]
          /\ Readable = call.before \cup Elements(batch)
          /\ Elements(batch) \subseteq Durable
          /\ NeedsFence(adm) => call.before \subseteq Durable
      BY <2>1, ReadyFacts
    <2>3. Durable' = Durable /\ Durable \subseteq Readable
      BY <1>1, <2>1, DurableReadable DEF segVars, Durable
    <2>4. answered' = answered \cup {<<batch[i], adm[i]>> : i \in DOMAIN batch}
      BY <1>4 DEF Answer
    <2> HIDE DEF batch, adm
    <2>5. ASSUME NEW i \in DOMAIN batch, adm[i] = "Accepted"
          PROVE  /\ \A r \in Durable \ Elements(batch) : IdOf[r] # IdOf[batch[i]]
                 /\ \A j \in 1 .. (i - 1) : IdOf[batch[j]] # IdOf[batch[i]]
      <3>1. /\ \A r \in call.before : IdOf[r] # IdOf[batch[i]]
            /\ \A j \in 1 .. (i - 1) : IdOf[batch[j]] # IdOf[batch[i]]
        BY <2>2, <2>5, OutcomeFacts, SMT
      <3> QED BY <2>2, <2>3, <3>1
    <2>6. ASSUME NEW i \in DOMAIN batch, adm[i] = "Conflict"
          PROVE  \E r \in Durable : r # batch[i] /\ IdOf[r] = IdOf[batch[i]]
      <3>1. PICK r \in call.before \cup {batch[j] : j \in 1 .. (i - 1)} :
              r # batch[i] /\ IdOf[r] = IdOf[batch[i]]
        BY <2>2, <2>6, OutcomeFacts, SMT
      <3>2. call.before \subseteq Durable
        BY <2>2, <2>6 DEF NeedsFence
      <3>3. \A j \in 1 .. (i - 1) : j \in DOMAIN batch
        BY <2>2, SMT
      <3>4. r \in Durable
        BY <2>2, <3>1, <3>2, <3>3 DEF Elements
      <3> QED BY <3>1, <3>4
    <2>7. Contract!Reply(batch, adm)
      <3>1. Elements(batch) = Contract!BatchRecords(batch)
        BY DEF Elements, Contract!BatchRecords
      <3>2. answered' = answered \cup Contract!Answers(batch, adm)
        BY <2>4 DEF Contract!Answers
      <3> QED BY <2>2, <2>3, <2>5, <2>6, <3>1, <3>2 DEF Contract!Reply
    <2>8. batch \in Contract!Batch
      BY <2>2 DEF Batch, Contract!Batch
    <2>9. adm \in [DOMAIN batch -> Contract!Admission]
      BY <2>2 DEF Admission, Contract!Admission
    <2> QED BY <2>7, <2>8, <2>9 DEF Contract!ContractNext
  <1>5. answered' = answered \/ Answer
    BY DEF Next, OpenLog, CloseLog, Begin, Fence, FenceFails, AppendPage, PageFails,
           PageDurable, PageUncertain, Interrupted, logVars, vars
  <1> QED BY <1>3, <1>4, <1>5

\* The log store implements AdmissionContract, with its durable records as the
\* records retained.
THEOREM LogStoreKeepsContract == Spec => KeepsContract
  <1>1. Init => Contract!ContractInit
    BY DEF Init, Contract!ContractInit, Durable
  <1> QED BY <1>1, LogInvariant, NextKeepsContract, PTL
          DEF Spec, KeepsContract, Contract!ContractSpec

\* Like the segment store, the log store above it implements ChainFiles: it
\* adds nothing to what readers of the files may see.
THEOREM LogStoreKeepsFiles == Spec => KeepsFiles
  <1>1. Spec => SegSpec
    <2>1. Init => SegInit
      BY DEF Init
    <2>2. IInv /\ [Next]_vars => [SegNext]_segVars
      BY NextIsSegNext
    <2> QED BY <2>1, <2>2, LogInvariant, PTL DEF Spec, SegSpec
  <1> QED BY <1>1, SegmentStoreKeepsFiles
=============================================================================
