--------------------------- MODULE ProtocolProofs ---------------------------
(***************************************************************************)
(* Proofs about Session as a protocol of two peers: ProtocolInv, which     *)
(* relates each pull to the source it pulls from and to the messages under *)
(* way, is an invariant.  From it, peers that follow the protocol never    *)
(* reject each other and a round that ends is complete.  SessionProofs and *)
(* PullProofs have what each side does with a message.                     *)
(***************************************************************************)
EXTENDS PullProofs, FiniteSetTheorems

\* Zenon proves most leaves; those that need arithmetic, records or
\* sequences cite SMT.
USE Zenon

-----------------------------------------------------------------------------
(* Listings.                                                               *)

\* The places of a sequence are as many as it is long.
LEMMA CountTo ==
    ASSUME NEW n \in Nat
    PROVE  IsFiniteSet(1 .. n) /\ Cardinality(1 .. n) = n
  <1>1. IsFiniteSet(1 .. n)
    BY FS_Interval, SMT
  <1>2. Cardinality(1 .. n) = n
    BY FS_Interval, SMT
  <1> QED BY <1>1, <1>2

\* A listing of a finite set has each element once.
LEMMA ListingIs ==
    ASSUME NEW S, IsFiniteSet(S)
    PROVE  IsListing(Listing(S), S)
  <1> DEFINE n == Cardinality(S)
             s == Listing(S)
  <1>1. n \in Nat /\ ExistsBijection(1 .. n, S)
    BY FS_CardinalityType
  <1>2. \E f \in [1 .. n -> S] : IsInjective(f)
    BY <1>1 DEF ExistsBijection, Bijection, Injection
  <1>3. s \in [1 .. n -> S] /\ IsInjective(s)
    BY <1>2 DEF Listing
  <1> HIDE DEF s
  <1>4. s \in Injection(1 .. n, S)
    BY <1>3 DEF Injection
  <1>5. Cardinality(1 .. n) = n
    <2> HIDE DEF n
    <2> QED BY <1>1, CountTo
  <1>6. s \in Surjection(1 .. n, S)
    BY <1>4, <1>5, FS_Injection
  <1> HIDE DEF n
  <1>7. s \in Seq(S) /\ Len(s) = n
    BY <1>1, <1>3, SMT
  <1>8. \A e \in S : \E i \in 1 .. Len(s) : s[i] = e
    BY <1>6, <1>7 DEF Surjection
  <1> QED BY <1>3, <1>7, <1>8 DEF IsListing, s

\* The content that records of a set of keys refer to is listed too.
LEMMA ContentsFinite ==
    ASSUME NEW W \in SUBSET BlobObjects
    PROVE  IsFiniteSet(W)
  <1> DEFINE f == [c \in Key \X Hash |-> BlobObject(c[1], c[2])]
  <1>1. f \in Surjection(Key \X Hash, BlobObjects)
    BY BlobPairs DEF Surjection
  <1> HIDE DEF f
  <1>2. IsFiniteSet(Key \X Hash)
    BY SessionAssumption, FS_Product
  <1>3. IsFiniteSet(BlobObjects)
    BY <1>1, <1>2, FS_Surjection
  <1> QED BY <1>3, FS_Subset

\* Natural numbers have a least one among them.
LEMMA LeastNumber ==
    ASSUME NEW T, T \subseteq Nat, T # {}
    PROVE  \E n \in T : \A m \in T : n <= m
  <1> DEFINE R == OpToRel(<, Nat)
  <1>1. IsWellFoundedOn(R, Nat)
    BY NatLessThanWellFounded
  <1>2. \A m, n \in Nat : m < n => <<m, n>> \in R
    BY DEF OpToRel
  <1> HIDE DEF R
  <1>3. PICK n \in T : \A m \in T : ~ (<<m, n>> \in R)
    BY <1>1, WFMin
  <1>4. \A m \in T : ~(m < n)
    BY <1>2, <1>3
  <1> QED BY <1>4, SMT

\* Some of different keys can be put in the order of all of them.
LEMMA OrderExists ==
    ASSUME NEW S, NEW keys \in Seq(S), IsInjective(keys), NEW K, K \subseteq Range(keys), IsFiniteSet(K)
    PROVE  \E s \in [1 .. Cardinality(K) -> K] : InOrder(s, keys)
  <1> DEFINE Can(L) == \E s \in [1 .. Cardinality(L) -> L] : InOrder(s, keys)
             Bad == {n \in Nat : \E L \in SUBSET Range(keys) :
                       IsFiniteSet(L) /\ Cardinality(L) = n /\ ~Can(L)}
  <1> SUFFICES ASSUME ~Can(K)
               PROVE  FALSE
    OBVIOUS
  <1>1. Cardinality(K) \in Bad
    BY FS_CardinalityType
  <1>2. PICK n \in Bad : \A m \in Bad : n <= m
    BY <1>1, LeastNumber
  <1>3. PICK L \in SUBSET Range(keys) : IsFiniteSet(L) /\ Cardinality(L) = n /\ ~Can(L)
    BY <1>2
  <1>4. n \in Nat /\ (n - 1 \in Nat => n - 1 \notin Bad)
    <2>1. Bad \in SUBSET Nat
      OBVIOUS
    <2> HIDE DEF Bad
    <2> QED BY <1>2, <2>1, BelowLeast
  <1>5. DOMAIN keys = 1 .. Len(keys) /\ Len(keys) \in Nat
    BY SequenceIs
  <1>6. CASE L = {}
    <2>1. Cardinality(L) = 0
      BY <1>6, FS_EmptySet
    <2> DEFINE s == [i \in 1 .. 0 |-> 0]
    <2>2. s \in [1 .. Cardinality(L) -> L] /\ InOrder(s, keys)
      BY <2>1, SMT DEF InOrder
    <2> QED BY <1>3, <2>2
  <1>7. CASE L # {}
    <2> DEFINE A == {a \in 1 .. Len(keys) : keys[a] \in L}
    <2>1. A # {} /\ A \subseteq Nat
      <3>1. 1 .. Len(keys) \subseteq Nat
        BY SMT
      <3>2. PICK l \in L : l \in Range(keys)
        BY <1>3, <1>7
      <3>3. PICK a \in 1 .. Len(keys) : keys[a] = l
        BY <1>5, <3>2 DEF Range
      <3> QED BY <3>1, <3>3
    <2>2. PICK a \in A : \A b \in A : a <= b
      BY <2>1, LeastNumber
    <2> DEFINE k == keys[a]
               M == L \ {k}
    <2>3. k \in L /\ a \in DOMAIN keys
      BY <1>5, <2>2
    <2>4. IsFiniteSet(M) /\ Cardinality(M) = n - 1 /\ n - 1 \in Nat
      <3>1. IsFiniteSet(M) /\ Cardinality(M) = n - 1
        BY <1>3, <2>3, FS_RemoveElement, ZenonT(30)
      <3>2. Cardinality(M) \in Nat
        BY <3>1, FS_CardinalityType
      <3> QED BY <3>1, <3>2
    <2>5. M \in SUBSET Range(keys)
      OBVIOUS
    <2>6. Can(M)
      <3> HIDE DEF M, Can
      <3> QED BY <1>4, <2>4, <2>5
    <2>7. PICK t \in [1 .. (n - 1) -> M] : InOrder(t, keys)
      BY <2>4, <2>6
    <2> DEFINE s == [i \in 1 .. n |-> IF i = 1 THEN k ELSE t[i - 1]]
    <2>8. \A i \in 1 .. n : i # 1 => i - 1 \in 1 .. (n - 1) /\ s[i] = t[i - 1] /\ s[i] \in M
      BY <1>4, <2>7, LaterPlace
    <2>9. s \in [1 .. Cardinality(L) -> L]
      BY <1>3, <2>3, <2>8
    <2>10. ASSUME NEW i \in 1 .. n, NEW j \in 1 .. n, i < j
           PROVE  \E b, c \in DOMAIN keys : b < c /\ keys[b] = s[i] /\ keys[c] = s[j]
      <3>1. j # 1 /\ j - 1 \in 1 .. (n - 1) /\ s[j] = t[j - 1] /\ s[j] \in M
        BY <1>4, <2>8, <2>10, LaterPlace
      <3>2. CASE i = 1
        <4>1. s[i] = k
          BY <3>2
        <4>2. PICK c \in DOMAIN keys : keys[c] = s[j]
          BY <2>5, <3>1 DEF Range
        <4>3. c \in A /\ c # a
          BY <1>5, <3>1, <4>2
        <4>4. a < c
          BY <1>5, <2>2, <4>3, LaterPlace
        <4> QED BY <2>3, <4>1, <4>2, <4>4
      <3>3. CASE i # 1
        <4>1. i - 1 \in 1 .. (n - 1) /\ s[i] = t[i - 1] /\ i - 1 < j - 1
          BY <1>4, <2>8, <2>10, <3>3, LaterPlace
        <4>2. DOMAIN t = 1 .. (n - 1)
          BY <2>7
        <4>3. \E b, c \in DOMAIN keys : b < c /\ keys[b] = t[i - 1] /\ keys[c] = t[j - 1]
          BY <2>7, <3>1, <4>1, <4>2, ZenonT(30) DEF InOrder
        <4> QED BY <3>1, <4>1, <4>3
      <3> QED BY <3>2, <3>3
    <2>11. InOrder(s, keys)
      <3>1. DOMAIN s = 1 .. n
        OBVIOUS
      <3> HIDE DEF s
      <3> QED BY <2>10, <3>1, SMT DEF InOrder
    <2> HIDE DEF s
    <2> QED BY <1>3, <2>9, <2>11
  <1> QED BY <1>6, <1>7

\* The keys kept of a page are listed once each.
LEMMA KeptIs ==
    ASSUME NEW S, NEW keys \in Seq(S), IsInjective(keys), NEW K, K \subseteq Range(keys), IsFiniteSet(K)
    PROVE  IsListing(Kept(keys, K), K)
  <1> DEFINE n == Cardinality(K)
             s == Kept(keys, K)
  <1>1. n \in Nat
    BY FS_CardinalityType
  <1>2. s \in [1 .. n -> K] /\ InOrder(s, keys)
    BY OrderExists DEF Kept
  <1> HIDE DEF s
  <1>3. DOMAIN s = 1 .. n /\ DOMAIN keys = 1 .. Len(keys) /\ Len(keys) \in Nat
    BY <1>2, SequenceIs
  <1>4. ASSUME NEW i \in 1 .. n, NEW j \in 1 .. n, i < j
        PROVE  s[i] # s[j]
    <2>1. PICK a \in DOMAIN keys, b \in DOMAIN keys : a < b /\ keys[a] = s[i] /\ keys[b] = s[j]
      BY <1>2, <1>3, <1>4, SMT DEF InOrder
    <2>2. a # b
      BY <1>3, <2>1, LaterPlace
    <2> QED BY <2>1, <2>2 DEF IsInjective
  <1>5. ASSUME NEW i \in 1 .. n, NEW j \in 1 .. n, s[i] = s[j]
        PROVE  i = j
    <2>1. i < j \/ j < i \/ i = j
      BY <1>1, LaterPlace
    <2> QED BY <1>4, <1>5, <2>1
  <1>6. IsInjective(s)
    BY <1>3, <1>5 DEF IsInjective
  <1>7. s \in Injection(1 .. n, K)
    BY <1>2, <1>6 DEF Injection
  <1>8. Cardinality(1 .. n) = n
    <2> HIDE DEF n
    <2> QED BY <1>1, CountTo
  <1>9. s \in Surjection(1 .. n, K)
    BY <1>7, <1>8, FS_Injection
  <1> HIDE DEF n
  <1>10. s \in Seq(K) /\ Len(s) = n
    BY <1>1, <1>2, FunctionIs
  <1>11. \A e \in K : \E i \in 1 .. Len(s) : s[i] = e
    BY <1>9, <1>10 DEF Surjection
  <1> QED BY <1>6, <1>10, <1>11 DEF IsListing, s

\* The records staged beside one of their page are fewer than the page.
LEMMA StagedFewer ==
    ASSUME NEW keys \in Seq(Key), NEW k \in Range(keys), NEW staged \in Seq(Range(keys) \ {k})
    PROVE  Cardinality(Objects(staged)) \in 0 .. (Len(keys) - 1)
  <1> DEFINE n == Len(keys)
             O == Objects(staged)
  <1>1. n \in Nat /\ Len(staged) \in Nat
    BY SequenceIs
  <1>2. PICK j \in 1 .. n : keys[j] = k
    BY SequenceIs DEF Range
  <1>3. ASSUME NEW o \in O
        PROVE  \E i \in (1 .. n) \ {j} : RecordObject(keys[i]) = o
    <2>1. PICK i \in 1 .. Len(staged) : o = RecordObject(staged[i])
      BY <1>3 DEF Objects
    <2>2. staged[i] \in Range(keys) /\ staged[i] # k
      <3>1. Range(staged) \subseteq Range(keys) \ {k} /\ DOMAIN staged = 1 .. Len(staged)
        BY SequenceIs
      <3> QED BY <2>1, <3>1 DEF Range
    <2>3. PICK l \in 1 .. n : keys[l] = staged[i]
      BY <2>2, SequenceIs DEF Range
    <2> QED BY <1>2, <2>1, <2>2, <2>3
  <1> DEFINE I == {i \in (1 .. n) \ {j} : RecordObject(keys[i]) \in O}
             f == [i \in I |-> RecordObject(keys[i])]
  <1>4. f \in Surjection(I, O)
    <2> HIDE DEF O
    <2> QED BY <1>3 DEF Surjection
  <1>5. IsFiniteSet(1 .. n) /\ Cardinality(1 .. n) = n
    <2> HIDE DEF n
    <2> QED BY <1>1, CountTo
  <1> DEFINE J == (1 .. n) \ {j}
  <1>6. IsFiniteSet(J) /\ Cardinality(J) = n - 1
    <2> HIDE DEF n
    <2> QED BY <1>5, FS_RemoveElement
  <1>7. I \in SUBSET J
    OBVIOUS
  <1> HIDE DEF I, J, f
  <1>8. IsFiniteSet(I) /\ Cardinality(I) <= n - 1
    BY <1>6, <1>7, FS_Subset
  <1> HIDE DEF O
  <1>9. IsFiniteSet(O) /\ Cardinality(O) <= Cardinality(I)
    BY <1>4, <1>8, FS_Surjection
  <1>10. Cardinality(O) \in Nat /\ Cardinality(I) \in Nat
    BY <1>8, <1>9, FS_CardinalityType
  <1> HIDE DEF n
  <1>11. Cardinality(O) \in 0 .. (n - 1)
    BY <1>1, <1>8, <1>9, <1>10, WithinBound
  <1> QED BY <1>11 DEF O, n

\* What is listed and counted is finite: keys, hashes and the records of a page.
LEMMA CountingHolds == Counting
  <1>1. ASSUME NEW S \in SUBSET Key
        PROVE  IsListing(Listing(S), S)
    <2>1. IsFiniteSet(S)
      BY SessionAssumption, FS_Subset
    <2> QED BY <2>1, ListingIs
  <1>2. ASSUME NEW W \in SUBSET BlobObjects
        PROVE  Listing(W) \in Seq(W)
    BY ContentsFinite, ListingIs DEF IsListing
  <1>3. ASSUME NEW keys \in Seq(Key), NEW K \in SUBSET Range(keys), IsInjective(keys)
        PROVE  IsListing(Kept(keys, K), K)
    <2>1. K \subseteq Key
      BY SequenceIs
    <2>2. IsFiniteSet(K)
      BY <2>1, SessionAssumption, FS_Subset
    <2> QED BY <1>3, <2>2, KeptIs
  <1>4. ASSUME NEW keys \in Seq(Key), NEW k \in Range(keys), NEW staged \in Seq(Range(keys) \ {k})
        PROVE  Cardinality(Objects(staged)) \in 0 .. (Len(keys) - 1)
    BY StagedFewer
  <1>5. Cardinality({}) = 0
    BY FS_EmptySet
  <1> QED BY <1>1, <1>2, <1>3, <1>4, <1>5 DEF Counting
-----------------------------------------------------------------------------

\* The two sides of a connection stand where the messages between them say, in
\* every reachable state (Session::process and Source on the one side and the
\* pull on the other).
THEOREM ProtocolInvariant == SyncSpec => []ProtocolInv
  BY CountingHolds, InitProtocol, NextProtocol, SessionInvariant, PTL DEF SyncSpec

\* Two peers that follow the protocol never reject each other, for any stores,
\* sizes and limits and any interleaving of the two pulls with each other, with
\* the users' writes and with failures (every ProtocolError of session.rs and
\* transfer.rs that the model has).
THEOREM NeverRejected == SyncSpec => []HonestNeverRejected
  <1>1. ProtocolInv => HonestNeverRejected
    BY DEF ProtocolInv, PeerInv, PeerOK, HonestNeverRejected
  <1> QED BY <1>1, ProtocolInvariant, PTL

\* A round that ends has made durable all the records of the snapshot the other
\* side froze for it (Session::finish_page behind Source::inventory's pages).
THEOREM RoundsAreComplete == SyncSpec => RoundsComplete
  BY CountingHolds, RoundStep, SessionInvariant, ProtocolInvariant, PTL DEF SyncSpec, RoundsComplete
=============================================================================
