---------------------------- MODULE IndexProofs ----------------------------
(***************************************************************************)
(* Proofs about ChainIndex.  The state a refresh produces is the one       *)
(* State::build derives from the whole chain; a refresh that publishes     *)
(* nothing had nothing to say; and the journal covers every difference     *)
(* between what a consumer holds and what the index holds, so a consumer   *)
(* at the index's revision has the index's rows.                           *)
(***************************************************************************)
EXTENDS ChainIndex, FiniteSetTheorems, WellFoundedInduction, TLAPS

\* Zenon proves most leaves; those that need arithmetic, records or
\* sequences cite SMT.
USE Zenon

\* The fields of a state; what they hold is said by the invariants below.
IsState(st) ==
    st \in [pos : {st.pos}, records : {st.records}, identities : {st.identities},
            items : {st.items}, postings : {st.postings}, owners : {st.owners},
            states : {st.states}, pending : {st.pending}, generation : {st.generation},
            position : {st.position}, entries : {st.entries}]

\* The journal of a state holds the last changes, at most Retained of them.
First(n) == IF n > Retained THEN n - Retained + 1 ELSE 1

JournalOf(st) ==
    /\ st.position \in Nat
    /\ st.entries = [p \in First(st.position) .. st.position |-> st.entries[p]]

\* Derived, of the records that were read.
Chain(lg, n) == {lg[i] : i \in 1 .. n}

KeysIn(records) == UNION {KeysOf[r] : r \in records}
RefsIn(records) == UNION {RefsOf[r] : r \in records}
Pairs(f, records) == UNION {f[r] \X {IdOf[r]} : r \in records}

DerivedOf(st, all) ==
    /\ st.records = accepted(all)
    /\ st.identities = IdsIn(all)
    /\ st.items = KeysIn(all)
    /\ st.postings = Pairs(KeysOf, accepted(all))
    /\ st.owners = Pairs(RefsOf, accepted(all))
    /\ DOMAIN st.states = RefsIn(accepted(all))
    /\ st.pending = {ref \in DOMAIN st.states : st.states[ref] # "Available"}

\* Content that was available when it was looked at still is.
StillAvailable(st, bl) ==
    \A ref \in DOMAIN st.states : st.states[ref] = "Available" => bl[ref] = "Available"

\* What is known of every state the index keeps, given the chain, the blob
\* store and the number of states built.
SoundIn(st, lg, bl, gens) ==
    /\ IsState(st)
    /\ st.pos \in 0 .. Len(lg)
    /\ DerivedOf(st, Chain(lg, st.pos))
    /\ StillAvailable(st, bl)
    /\ st.generation \in 0 .. gens
    /\ JournalOf(st)

\* The rows that differ between two sets are all named in the journal of st
\* behind position n, if the journal reaches back that far.
Covers(st, n, rows, others) ==
    (n + 1 .. st.position \subseteq DOMAIN st.entries) =>
      \A w \in (rows \ others) \cup (others \ rows) :
        \E q \in n + 1 .. st.position : st.entries[q] = IdOf[w.rec]

\* A consumer of the generation of st is behind it by what the journal says.
FollowsIn(st, c) ==
    c.generation = st.generation =>
      c.position <= st.position /\ Covers(st, c.position, c.rows, Rows(st))

\* later is st with changes appended to its journal.
Extends(later, st) ==
    /\ later.generation = st.generation
    /\ st.position <= later.position
    /\ \A p \in DOMAIN later.entries :
         p <= st.position => p \in DOMAIN st.entries /\ later.entries[p] = st.entries[p]
    /\ Covers(later, st.position, Rows(st), Rows(later))

\* later is of a generation that neither st nor the consumer has seen.
Newer(later, st, c) == later.generation > st.generation /\ later.generation > c.generation

ShapeInv ==
    /\ log \in Seq(Record)
    /\ blobs \in [Ref -> ContentState]
    /\ generations \in Nat
    /\ index \in [phase : {"closed", "ready", "publishing", "fenced"}, state : {index.state},
                  next : {index.next}, opening : BOOLEAN]
    /\ visible = None \/ visible = Some(visible[1])
    /\ consumer \in [generation : 0 .. generations, position : Nat, rows : {consumer.rows}]

StatesInv ==
    /\ SoundIn(index.state, log, blobs, generations)
    /\ SoundIn(index.next, log, blobs, generations)
    /\ visible # None => SoundIn(visible[1], log, blobs, generations)

RevisionInv ==
    /\ index.phase = "closed" => index.state = NoState /\ index.next = NoState
    /\ index.phase = "ready" => visible = Some(index.state)
    /\ index.phase = "publishing" =>
         /\ \/ visible = Some(index.state)
            \/ index.state = NoState /\ index.opening /\ Newer(index.next, index.state, consumer)
         /\ Newer(index.next, index.state, consumer) \/ Extends(index.next, index.state)
    /\ index.phase = "fenced" =>
         /\ visible # None
         /\ \/ visible[1] = index.state
            \/ Newer(visible[1], index.state, consumer)
            \/ Extends(visible[1], index.state)

ConsumerInv ==
    /\ index.phase = "fenced" => FollowsIn(index.state, consumer)
    /\ visible # None => FollowsIn(visible[1], consumer)

Inv == ShapeInv /\ StatesInv /\ RevisionInv /\ ConsumerInv
-----------------------------------------------------------------------------
(* What a drain of the tail returns.  A is what was read before, B all of  *)
(* the chain, R the identities reported as conflicted.                     *)

Removed(lg, n) ==
    {IdOf[lg[i]] : i \in {j \in n + 1 .. Len(lg) : classify(Chain(lg, j - 1), lg[j]) = "Conflict"}}

Drained(A, B, R) ==
    /\ A \subseteq B /\ B \subseteq Record
    /\ \A r \in B \ A, s \in B : r # s /\ IdOf[r] = IdOf[s] => IdOf[r] \in R
    /\ \A id \in R : \E r, s \in B : r # s /\ IdOf[r] = id /\ IdOf[s] = id

Lost(A, R) == {r \in accepted(A) : IdOf[r] \in R}

Kept(A, R) == {r \in accepted(A) : IdOf[r] \notin R}

Gained(A, B) == {r \in accepted(B) : IdOf[r] \notin IdsIn(A)}

\* A nonempty set of natural numbers has a least element.
LEMMA LeastNat ==
    ASSUME NEW T, T \subseteq Nat, T # {}
    PROVE  \E x \in T : \A y \in T : x <= y
  <1>1. PICK R : IsWellFoundedOn(R, Nat) /\ (\A x, y \in Nat : y < x => <<y, x>> \in R)
    <2>1. IsWellFoundedOn(OpToRel(<, Nat), Nat)
      BY NatLessThanWellFounded
    <2>2. \A x, y \in Nat : y < x => (<<y, x>> \in OpToRel(<, Nat))
      BY DEF OpToRel
    <2> QED BY <2>1, <2>2
  <1>2. PICK x \in T : \A y \in T : ~(<<y, x>> \in R)
    BY <1>1, WFMin
  <1>3. ASSUME NEW y \in T
        PROVE  x <= y
    <2>1. x \in Nat /\ y \in Nat
      OBVIOUS
    <2>2. ~(y < x)
      BY <1>1, <1>2, <2>1
    <2> QED BY <2>1, <2>2, SMT
  <1> QED BY <1>3

\* A prefix of the chain is a set of records, and a longer one holds more.
LEMMA ChainFacts ==
    ASSUME NEW lg \in Seq(Record), NEW n \in 0 .. Len(lg)
    PROVE  /\ Chain(lg, n) \subseteq Record
           /\ \A m \in 0 .. n : Chain(lg, m) \subseteq Chain(lg, n)
           /\ \A r \in Record : Chain(Append(lg, r), n) = Chain(lg, n)
  BY SMT DEF Chain

\* A record of the chain has a first place in it.
LEMMA FirstPlace ==
    ASSUME NEW lg \in Seq(Record), NEW n \in 0 .. Len(lg), NEW r \in Chain(lg, n)
    PROVE  \E j \in 1 .. n : lg[j] = r /\ r \notin Chain(lg, j - 1)
  <1> DEFINE T == {j \in 1 .. n : lg[j] = r}
  <1>1. T # {} /\ T \subseteq Nat
    BY SMT DEF Chain
  <1>2. PICK j \in T : \A k \in T : j <= k
    BY <1>1, LeastNat
  <1>3. j \in 1 .. n /\ lg[j] = r
    OBVIOUS
  <1>4. ASSUME r \in Chain(lg, j - 1)
        PROVE  FALSE
    <2>1. PICK k \in 1 .. (j - 1) : lg[k] = r
      BY <1>4 DEF Chain
    <2>2. k \in T
      BY <1>3, <2>1, SMT
    <2> QED BY <1>2, <1>3, <2>1, <2>2, SMT
  <1> QED BY <1>3, <1>4

\* What has a variant before its first place is reported as conflicted.
LEMMA Reported ==
    ASSUME NEW lg \in Seq(Record), NEW n \in 0 .. Len(lg), NEW j \in n + 1 .. Len(lg),
           lg[j] \notin Chain(lg, j - 1),
           NEW s \in Chain(lg, j - 1), IdOf[s] = IdOf[lg[j]]
    PROVE  IdOf[lg[j]] \in Removed(lg, n)
  <1>1. s \in Variants(Chain(lg, j - 1), IdOf[lg[j]])
    BY DEF Variants
  <1>2. classify(Chain(lg, j - 1), lg[j]) = "Conflict"
    BY <1>1 DEF classify
  <1> QED BY <1>2 DEF Removed

\* The drain of the tail, as refresh uses it: a variant that came after
\* another of its identity is reported, and only identities with several
\* variants are.
LEMMA TailDrained ==
    ASSUME NEW lg \in Seq(Record), NEW n \in 0 .. Len(lg)
    PROVE  Drained(Chain(lg, n), Chain(lg, Len(lg)), Removed(lg, n))
  <1> DEFINE A == Chain(lg, n)
             B == Chain(lg, Len(lg))
  <1>0. Len(lg) \in Nat /\ Len(lg) \in 0 .. Len(lg) /\ n \in Nat
    BY SMT
  <1>1. A \subseteq B /\ B \subseteq Record
    BY <1>0, ChainFacts
  <1>2. ASSUME NEW r \in B \ A, NEW s \in B, r # s, IdOf[r] = IdOf[s]
        PROVE  IdOf[r] \in Removed(lg, n)
    <2>1. PICK i \in 1 .. Len(lg) : lg[i] = r /\ r \notin Chain(lg, i - 1)
      BY <1>0, <1>2, FirstPlace
    <2>2. PICK j \in 1 .. Len(lg) : lg[j] = s /\ s \notin Chain(lg, j - 1)
      BY <1>0, <1>2, FirstPlace
    <2>3. i > n
      BY <1>0, <1>2, <2>1, SMT DEF Chain
    <2>4. CASE j < i
      <3>1. s \in Chain(lg, i - 1)
        BY <2>1, <2>2, <2>4, SMT DEF Chain
      <3> QED BY <1>0, <1>2, <2>1, <2>3, <3>1, Reported, SMT
    <2>5. CASE i < j
      <3>1. r \in Chain(lg, j - 1)
        BY <2>1, <2>2, <2>5, SMT DEF Chain
      <3>2. j \in n + 1 .. Len(lg)
        BY <1>0, <2>3, <2>5, SMT
      <3> QED BY <1>0, <1>2, <2>2, <3>1, <3>2, Reported
    <2>6. i # j
      BY <1>2, <2>1, <2>2
    <2> QED BY <2>1, <2>2, <2>4, <2>5, <2>6, SMT
  <1>3. ASSUME NEW id \in Removed(lg, n)
        PROVE  \E r, s \in B : r # s /\ IdOf[r] = id /\ IdOf[s] = id
    <2>1. PICK j \in n + 1 .. Len(lg) : /\ IdOf[lg[j]] = id
                                        /\ classify(Chain(lg, j - 1), lg[j]) = "Conflict"
      BY DEF Removed
    <2>2. Variants(Chain(lg, j - 1), id) # {} /\ lg[j] \notin Chain(lg, j - 1)
      BY <2>1 DEF classify
    <2>3. PICK s \in Chain(lg, j - 1) : IdOf[s] = id
      BY <2>2 DEF Variants
    <2>4. s \in B /\ lg[j] \in B
      BY <1>0, <2>1, <2>3, SMT DEF Chain
    <2> QED BY <2>1, <2>2, <2>3, <2>4
  <1> QED BY <1>1, <1>2, <1>3 DEF Drained

\* A record is accepted when no other variant of it is there.
LEMMA AcceptedMeans ==
    ASSUME NEW S, NEW r
    PROVE  r \in accepted(S) <=> r \in S /\ \A s \in S : IdOf[s] = IdOf[r] => s = r
  BY DEF accepted, Variants

\* The accepted records after a drain: those that were accepted and are not
\* reported, and those of new identities.
LEMMA AcceptedAfter ==
    ASSUME NEW A, NEW B, NEW R, Drained(A, B, R)
    PROVE  /\ accepted(B) = Kept(A, R) \cup Gained(A, B)
           /\ B = A \cup {r \in B : IdOf[r] \in R} \cup Gained(A, B)
           /\ R \subseteq IdsIn(B)
           /\ IdsIn(Gained(A, B)) \cap R = {}
  <1>1. A \subseteq B
    BY DEF Drained
  <1>2. ASSUME NEW r \in accepted(A), IdOf[r] \notin R
        PROVE  r \in accepted(B)
    BY <1>2, AcceptedMeans, SMT DEF Drained
  <1>3. ASSUME NEW r \in accepted(B), IdOf[r] \in IdsIn(A)
        PROVE  r \in accepted(A) /\ IdOf[r] \notin R
    <2>1. PICK s \in A : IdOf[s] = IdOf[r]
      BY <1>3 DEF IdsIn
    <2>2. r \in A
      BY <1>1, <2>1, AcceptedMeans
    <2> QED BY <1>1, <2>2, AcceptedMeans, SMT DEF Drained
  <1>4. Gained(A, B) \subseteq accepted(B)
    BY DEF Gained
  <1>5. accepted(B) = Kept(A, R) \cup Gained(A, B)
    BY <1>2, <1>3, <1>4 DEF Gained, Kept
  <1>6. ASSUME NEW r \in B, r \notin A, IdOf[r] \notin R
        PROVE  r \in Gained(A, B)
    <2>1. r \in accepted(B)
      BY <1>6, AcceptedMeans, SMT DEF Drained
    <2>2. IdOf[r] \notin IdsIn(A)
      BY <1>1, <1>6, <2>1, AcceptedMeans, SMT DEF IdsIn
    <2> QED BY <2>1, <2>2 DEF Gained
  <1>7. accepted(B) \subseteq B
    BY DEF accepted
  <1>8. B = A \cup {r \in B : IdOf[r] \in R} \cup Gained(A, B)
    BY <1>1, <1>4, <1>6, <1>7
  <1>9. R \subseteq IdsIn(B)
    BY DEF Drained, IdsIn
  <1>10. IdsIn(Gained(A, B)) \cap R = {}
    <2>1. ASSUME NEW r \in Gained(A, B), IdOf[r] \in R
          PROVE  FALSE
      BY <1>4, <2>1, AcceptedMeans, SMT DEF Drained
    <2> QED BY <2>1 DEF IdsIn
  <1> QED BY <1>5, <1>8, <1>9, <1>10
-----------------------------------------------------------------------------
(* What the operations on a state do to its fields.                        *)

\* A state that nothing was read into.
LEMMA NoStateFields ==
    /\ IsState(NoState)
    /\ NoState.pos = 0 /\ NoState.records = {} /\ NoState.identities = {} /\ NoState.items = {}
    /\ NoState.postings = {} /\ NoState.owners = {} /\ NoState.states = << >>
    /\ NoState.pending = {} /\ NoState.generation = 0 /\ NoState.position = 0
    /\ NoState.entries = << >>
  BY DEF NoState, IsState

\* State::add for the records of a set.
AddedFields(n, st, new, bl) ==
    /\ IsState(n)
    /\ n.records = st.records \cup new
    /\ n.identities = st.identities \cup IdsIn(new)
    /\ n.items = st.items \cup KeysIn(new)
    /\ n.postings = st.postings \cup Pairs(KeysOf, new)
    /\ n.owners = st.owners \cup Pairs(RefsOf, new)
    /\ n.states = [ref \in DOMAIN st.states \cup (RefsIn(new) \ DOMAIN st.states) |->
                     IF ref \in RefsIn(new) \ DOMAIN st.states THEN bl[ref] ELSE st.states[ref]]
    /\ n.pending = st.pending
         \cup {ref \in RefsIn(new) \ DOMAIN st.states : bl[ref] # "Available"}
    /\ n.pos = st.pos /\ n.generation = st.generation
    /\ n.position = st.position /\ n.entries = st.entries

\* State::remove for a set of identities.
RemovedFields(n, st, gone) ==
    /\ IsState(n)
    /\ n.records = st.records \ gone
    /\ n.postings = st.postings \ Pairs(KeysOf, gone)
    /\ n.owners = st.owners \ Pairs(RefsOf, gone)
    /\ n.states = [ref \in {o[1] : o \in n.owners} |-> st.states[ref]]
    /\ n.pending = st.pending \cap {o[1] : o \in n.owners}
    /\ n.identities = st.identities /\ n.items = st.items
    /\ n.pos = st.pos /\ n.generation = st.generation
    /\ n.position = st.position /\ n.entries = st.entries

\* remember_conflicts, of the chain that was read.
RememberedFields(n, st, ids, all) ==
    /\ IsState(n)
    /\ n.identities = st.identities \cup ids
    /\ n.items = st.items \cup KeysIn({v \in all : IdOf[v] \in ids})
    /\ n.records = st.records /\ n.postings = st.postings
    /\ n.owners = st.owners /\ n.states = st.states /\ n.pending = st.pending
    /\ n.pos = st.pos /\ n.generation = st.generation
    /\ n.position = st.position /\ n.entries = st.entries

\* ContentIndex::refresh.
LookedFields(n, st, bl) ==
    /\ IsState(n)
    /\ n.states = [ref \in DOMAIN st.states |->
                     IF ref \in st.pending THEN bl[ref] ELSE st.states[ref]]
    /\ n.pending = {ref \in st.pending : bl[ref] # "Available"}
    /\ n.records = st.records /\ n.identities = st.identities /\ n.items = st.items
    /\ n.postings = st.postings /\ n.owners = st.owners
    /\ n.pos = st.pos /\ n.generation = st.generation
    /\ n.position = st.position /\ n.entries = st.entries

\* State::add does that.
LEMMA AddedTo ==
    ASSUME NEW st, IsState(st), NEW new
    PROVE  AddedFields(added_to(st, new), st, new, blobs)
  <1> DEFINE n == added_to(st, new)
             fresh == RefsIn(new) \ DOMAIN st.states
             a == st.records \cup new
             b == st.identities \cup IdsIn(new)
             c == st.items \cup KeysIn(new)
             d == st.postings \cup Pairs(KeysOf, new)
             e == st.owners \cup Pairs(RefsOf, new)
             f == [ref \in DOMAIN st.states \cup fresh |->
                     IF ref \in fresh THEN blobs[ref] ELSE st.states[ref]]
             g == st.pending \cup {ref \in fresh : blobs[ref] # "Available"}
  <1>1. n = [st EXCEPT !.records = a, !.identities = b, !.items = c, !.postings = d,
                       !.owners = e, !.states = f, !.pending = g]
    BY DEF added_to, KeysIn, RefsIn, Pairs
  <1> HIDE DEF a, b, c, d, e, f, g, n
  <1>2. /\ IsState(n)
        /\ n.records = a /\ n.identities = b /\ n.items = c /\ n.postings = d
        /\ n.owners = e /\ n.states = f /\ n.pending = g
        /\ n.pos = st.pos /\ n.generation = st.generation
        /\ n.position = st.position /\ n.entries = st.entries
    BY <1>1 DEF IsState
  <1>3. AddedFields(n, st, new, blobs)
    BY <1>2 DEF AddedFields, a, b, c, d, e, f, g
  <1> QED BY <1>3 DEF n

\* State::remove does that.
LEMMA RemovedFrom ==
    ASSUME NEW st, IsState(st), NEW ids
    PROVE  RemovedFields(removed_from(st, ids), st, {r \in st.records : IdOf[r] \in ids})
  <1> DEFINE n == removed_from(st, ids)
             gone == {r \in st.records : IdOf[r] \in ids}
             a == st.records \ gone
             d == st.postings \ Pairs(KeysOf, gone)
             e == st.owners \ Pairs(RefsOf, gone)
             f == [ref \in {o[1] : o \in e} |-> st.states[ref]]
             g == st.pending \cap {o[1] : o \in e}
  <1>1. n = [st EXCEPT !.records = a, !.postings = d, !.owners = e, !.states = f, !.pending = g]
    BY DEF removed_from, Pairs
  <1> HIDE DEF a, d, e, f, g, n
  <1>2. /\ IsState(n)
        /\ n.records = a /\ n.postings = d /\ n.owners = e /\ n.states = f /\ n.pending = g
        /\ n.identities = st.identities /\ n.items = st.items
        /\ n.pos = st.pos /\ n.generation = st.generation
        /\ n.position = st.position /\ n.entries = st.entries
    BY <1>1 DEF IsState
  <1> HIDE DEF gone
  <1>3. RemovedFields(n, st, gone)
    BY <1>2 DEF RemovedFields, a, d, e, f, g
  <1> QED BY <1>3 DEF n, gone

\* remember_conflicts does that.
LEMMA Remembered ==
    ASSUME NEW st, IsState(st), NEW ids, NEW k
    PROVE  RememberedFields(remembered(st, ids, k), st, ids, Chain(log, k))
  <1> DEFINE n == remembered(st, ids, k)
             b == st.identities \cup ids
             c == st.items \cup KeysIn({v \in Chain(log, k) : IdOf[v] \in ids})
  <1>1. n = [st EXCEPT !.identities = b, !.items = c]
    BY DEF remembered, KeysIn, Chain, ChainTo
  <1> HIDE DEF b, c, n
  <1>2. /\ IsState(n)
        /\ n.identities = b /\ n.items = c
        /\ n.records = st.records /\ n.postings = st.postings
        /\ n.owners = st.owners /\ n.states = st.states /\ n.pending = st.pending
        /\ n.pos = st.pos /\ n.generation = st.generation
        /\ n.position = st.position /\ n.entries = st.entries
    BY <1>1 DEF IsState
  <1>3. RememberedFields(n, st, ids, Chain(log, k))
    BY <1>2 DEF RememberedFields, b, c
  <1> QED BY <1>3 DEF n

\* ContentIndex::refresh does that.
LEMMA LookedAgain ==
    ASSUME NEW st, IsState(st)
    PROVE  LookedFields(looked_again(st), st, blobs)
  <1> DEFINE n == looked_again(st)
             f == [ref \in DOMAIN st.states |->
                     IF ref \in st.pending THEN blobs[ref] ELSE st.states[ref]]
             g == {ref \in st.pending : blobs[ref] # "Available"}
  <1>1. n = [st EXCEPT !.states = f, !.pending = g]
    BY DEF looked_again
  <1> HIDE DEF f, g, n
  <1>2. /\ IsState(n)
        /\ n.states = f /\ n.pending = g
        /\ n.records = st.records /\ n.identities = st.identities /\ n.items = st.items
        /\ n.postings = st.postings /\ n.owners = st.owners
        /\ n.pos = st.pos /\ n.generation = st.generation
        /\ n.position = st.position /\ n.entries = st.entries
    BY <1>1 DEF IsState
  <1>3. LookedFields(n, st, blobs)
    BY <1>2 DEF LookedFields, f, g
  <1> QED BY <1>3 DEF n
-----------------------------------------------------------------------------
(* Refresh derives what build derives.                                     *)

\* The pairs filed for a set of records.
LEMMA PairsMeans ==
    ASSUME NEW f, NEW S, NEW p
    PROVE  p \in Pairs(f, S) <=> \E r \in S : \E x \in f[r] : p = <<x, IdOf[r]>>
  BY SMT DEF Pairs

\* Accepted records have different identities, so that taking out what was
\* filed for some of them leaves what was filed for the others.
LEMMA PairsWithout ==
    ASSUME NEW f, NEW A, NEW R
    PROVE  Pairs(f, accepted(A)) \ Pairs(f, Lost(A, R)) = Pairs(f, Kept(A, R))
  <1> DEFINE S == accepted(A)
             G == Lost(A, R)
             K == Kept(A, R)
  <1>1. ASSUME NEW p \in Pairs(f, S), p \notin Pairs(f, G)
        PROVE  p \in Pairs(f, K)
    BY <1>1, PairsMeans, SMT DEF Lost, Kept
  <1>2. ASSUME NEW p \in Pairs(f, K)
        PROVE  p \in Pairs(f, S) /\ p \notin Pairs(f, G)
    <2>1. PICK r \in K : \E x \in f[r] : p = <<x, IdOf[r]>>
      BY PairsMeans, SMT
    <2>2. p \in Pairs(f, S)
      BY <2>1, PairsMeans DEF Kept
    <2>3. p[2] = IdOf[r] /\ IdOf[r] \notin R
      BY <2>1, SMT DEF Kept
    <2>4. \A q \in Pairs(f, G) : q[2] \in R
      BY PairsMeans, SMT DEF Lost
    <2> QED BY <2>2, <2>3, <2>4
  <1> QED BY <1>1, <1>2

\* Filing is by record.
LEMMA PairsBoth ==
    ASSUME NEW f, NEW S, NEW T
    PROVE  Pairs(f, S \cup T) = Pairs(f, S) \cup Pairs(f, T)
  BY DEF Pairs

\* The references that have an owner.
LEMMA OwnedRefs ==
    ASSUME NEW S
    PROVE  {o[1] : o \in Pairs(RefsOf, S)} = RefsIn(S)
  <1>1. ASSUME NEW ref \in RefsIn(S)
        PROVE  \E o \in Pairs(RefsOf, S) : o[1] = ref
    <2>1. PICK r \in S : ref \in RefsOf[r]
      BY DEF RefsIn
    <2>2. <<ref, IdOf[r]>> \in Pairs(RefsOf, S)
      BY <2>1, PairsMeans
    <2> QED BY <2>2
  <1>2. ASSUME NEW o \in Pairs(RefsOf, S)
        PROVE  o[1] \in RefsIn(S)
    BY PairsMeans, SMT DEF RefsIn
  <1> QED BY <1>1, <1>2

\* The content index after a refresh: an entry with an owner left is looked
\* at again if it was pending, a new one is looked at.
Seen(st, kept, ref) ==
    IF ref \in RefsIn(kept)
    THEN IF ref \in st.pending THEN blobs[ref] ELSE st.states[ref]
    ELSE blobs[ref]

\* The state applied by a refresh, field by field.
AppliedShape(n, st, B, R, kept, new) ==
    /\ IsState(n)
    /\ n.pos = Len(log) /\ n.generation = st.generation
    /\ n.position = st.position /\ n.entries = st.entries
    /\ n.records = kept \cup new
    /\ n.identities = st.identities \cup R \cup IdsIn(new)
    /\ n.items = st.items \cup KeysIn({v \in B : IdOf[v] \in R}) \cup KeysIn(new)
    /\ n.postings = Pairs(KeysOf, kept) \cup Pairs(KeysOf, new)
    /\ n.owners = Pairs(RefsOf, kept) \cup Pairs(RefsOf, new)
    /\ DOMAIN n.states = RefsIn(kept) \cup RefsIn(new)
    /\ \A ref \in DOMAIN n.states : n.states[ref] = Seen(st, kept, ref)
    /\ n.pending = {ref \in st.pending \cap RefsIn(kept) : blobs[ref] # "Available"}
         \cup {ref \in RefsIn(new) \ RefsIn(kept) : blobs[ref] # "Available"}

\* A refresh applies that.
LEMMA AppliedFields ==
    ASSUME NEW st, SoundIn(st, log, blobs, generations), log \in Seq(Record),
           NEW A, A = Chain(log, st.pos), NEW B, B = Chain(log, Len(log)),
           NEW R, R = Removed(log, st.pos),
           NEW kept, kept = Kept(A, R)
    PROVE  AppliedShape(applied(st), st, B, R, kept, Gained(A, B))
  <1> DEFINE old == removed_from(st, R)
             mem == remembered(old, R, Len(log))
             again == looked_again(mem)
             new == Gained(A, B)
             full == added_to(again, new)
             n == applied(st)
  <1>1. drained_removed(st) = R /\ drained_added(st) = new
    BY DEF drained_removed, drained_added, Removed, Gained, Chain, ChainTo
  <1>2. n = [full EXCEPT !.pos = Len(log)]
    BY <1>1 DEF applied
  <1>3. IsState(st) /\ DerivedOf(st, A)
    BY DEF SoundIn
  <1>4. st.records = accepted(A) /\ st.records \ Lost(A, R) = kept
    BY <1>3 DEF DerivedOf, Lost, Kept
  <1>5. RemovedFields(old, st, Lost(A, R))
    BY <1>3, <1>4, RemovedFrom, SMT DEF Lost
  <1>6. RememberedFields(mem, old, R, B)
    BY <1>5, Remembered DEF RemovedFields
  <1>7. LookedFields(again, mem, blobs)
    BY <1>6, LookedAgain DEF RememberedFields
  <1>8. AddedFields(full, again, new, blobs)
    BY <1>7, AddedTo DEF LookedFields
  <1> HIDE DEF new, old, mem, again, full, n
  <1>9. old.records = kept /\ old.postings = Pairs(KeysOf, kept) /\ old.owners = Pairs(RefsOf, kept)
    <2>1. st.postings = Pairs(KeysOf, accepted(A)) /\ st.owners = Pairs(RefsOf, accepted(A))
      BY <1>3 DEF DerivedOf
    <2>2. Pairs(KeysOf, accepted(A)) \ Pairs(KeysOf, Lost(A, R)) = Pairs(KeysOf, kept)
      BY PairsWithout
    <2>3. Pairs(RefsOf, accepted(A)) \ Pairs(RefsOf, Lost(A, R)) = Pairs(RefsOf, kept)
      BY PairsWithout
    <2> QED BY <1>4, <1>5, <2>1, <2>2, <2>3 DEF RemovedFields
  <1>10. {o[1] : o \in old.owners} = RefsIn(kept)
    BY <1>9, OwnedRefs
  <1>11. /\ IsState(n)
         /\ n.pos = Len(log) /\ n.generation = full.generation
         /\ n.position = full.position /\ n.entries = full.entries
         /\ n.records = full.records /\ n.identities = full.identities /\ n.items = full.items
         /\ n.postings = full.postings /\ n.owners = full.owners
         /\ n.states = full.states /\ n.pending = full.pending
    BY <1>2, <1>8 DEF AddedFields, IsState
  <1>12. DOMAIN again.states = RefsIn(kept)
    BY <1>5, <1>6, <1>7, <1>10, SMT DEF RemovedFields, RememberedFields, LookedFields
  <1>13. \A ref \in RefsIn(kept) : again.states[ref] = Seen(st, kept, ref)
    BY <1>5, <1>6, <1>7, <1>10, SMT DEF RemovedFields, RememberedFields, LookedFields, Seen
  <1>14. DOMAIN n.states = RefsIn(kept) \cup RefsIn(new)
    BY <1>8, <1>11, <1>12, SMT DEF AddedFields
  <1>15. \A ref \in DOMAIN n.states : n.states[ref] = Seen(st, kept, ref)
    <2>1. full.states = [ref \in DOMAIN again.states \cup (RefsIn(new) \ DOMAIN again.states) |->
                          IF ref \in RefsIn(new) \ DOMAIN again.states THEN blobs[ref]
                          ELSE again.states[ref]]
      BY <1>8 DEF AddedFields
    <2> SUFFICES ASSUME NEW ref \in DOMAIN n.states
                 PROVE  n.states[ref] = Seen(st, kept, ref)
      OBVIOUS
    <2>2. CASE ref \in RefsIn(kept)
      <3>1. full.states[ref] = again.states[ref]
        BY <1>12, <2>1, <2>2
      <3> QED BY <1>11, <1>13, <2>2, <3>1
    <2>3. CASE ref \notin RefsIn(kept)
      <3>1. ref \in RefsIn(new) \ DOMAIN again.states
        BY <1>12, <1>14, <2>3
      <3>2. full.states[ref] = blobs[ref]
        BY <2>1, <3>1
      <3> QED BY <1>11, <2>3, <3>2 DEF Seen
    <2> QED BY <2>2, <2>3
  <1>16. n.pending = {ref \in st.pending \cap RefsIn(kept) : blobs[ref] # "Available"}
                \cup {ref \in RefsIn(new) \ RefsIn(kept) : blobs[ref] # "Available"}
    BY <1>5, <1>6, <1>7, <1>8, <1>10, <1>11, <1>12, ZenonT(30) DEF RemovedFields, RememberedFields, LookedFields, AddedFields
  <1>17. /\ n.records = kept \cup new
         /\ n.identities = st.identities \cup R \cup IdsIn(new)
         /\ n.items = st.items \cup KeysIn({v \in B : IdOf[v] \in R}) \cup KeysIn(new)
    <2>1. old.identities = st.identities /\ old.items = st.items
      BY <1>5 DEF RemovedFields
    <2>2. /\ mem.records = old.records /\ mem.identities = old.identities \cup R
          /\ mem.items = old.items \cup KeysIn({v \in B : IdOf[v] \in R})
      BY <1>6 DEF RememberedFields
    <2>3. again.records = mem.records /\ again.identities = mem.identities /\ again.items = mem.items
      BY <1>7 DEF LookedFields
    <2>4. /\ full.records = again.records \cup new /\ full.identities = again.identities \cup IdsIn(new)
          /\ full.items = again.items \cup KeysIn(new)
      BY <1>8 DEF AddedFields
    <2> QED BY <1>9, <1>11, <2>1, <2>2, <2>3, <2>4, SMT
  <1>18. /\ n.postings = Pairs(KeysOf, kept) \cup Pairs(KeysOf, new)
         /\ n.owners = Pairs(RefsOf, kept) \cup Pairs(RefsOf, new)
    BY <1>6, <1>7, <1>8, <1>9, <1>11, SMT DEF RememberedFields, LookedFields, AddedFields
  <1>19. /\ n.generation = st.generation
         /\ n.position = st.position /\ n.entries = st.entries
    <2>1. /\ old.generation = st.generation
          /\ old.position = st.position /\ old.entries = st.entries
      BY <1>5 DEF RemovedFields
    <2>2. /\ mem.generation = old.generation
          /\ mem.position = old.position /\ mem.entries = old.entries
      BY <1>6 DEF RememberedFields
    <2>3. /\ again.generation = mem.generation
          /\ again.position = mem.position /\ again.entries = mem.entries
      BY <1>7 DEF LookedFields
    <2>4. /\ full.generation = again.generation
          /\ full.position = again.position /\ full.entries = again.entries
      BY <1>8 DEF AddedFields
    <2> QED BY <1>11, <2>1, <2>2, <2>3, <2>4
  <1>20. AppliedShape(n, st, B, R, kept, new)
    BY <1>11, <1>14, <1>15, <1>16, <1>17, <1>18, <1>19 DEF AppliedShape
  <1> QED BY <1>20 DEF new, n

\* Keys, references and identities are unions over records.
LEMMA KeysBoth ==
    ASSUME NEW S, NEW T
    PROVE  KeysIn(S \cup T) = KeysIn(S) \cup KeysIn(T)
  BY DEF KeysIn

\* As above.
LEMMA RefsBoth ==
    ASSUME NEW S, NEW T
    PROVE  RefsIn(S \cup T) = RefsIn(S) \cup RefsIn(T)
  BY DEF RefsIn

\* As above.
LEMMA IdsBoth ==
    ASSUME NEW S, NEW T
    PROVE  IdsIn(S \cup T) = IdsIn(S) \cup IdsIn(T)
  BY DEF IdsIn

\* After a refresh the state is the one derived from all of the chain, and
\* what it holds as available is.
LEMMA AppliedSound ==
    ASSUME NEW st, SoundIn(st, log, blobs, generations), log \in Seq(Record),
           NEW n, n = applied(st)
    PROVE  DerivedOf(n, Chain(log, Len(log))) /\ StillAvailable(n, blobs)
  <1> DEFINE A == Chain(log, st.pos)
             B == Chain(log, Len(log))
             R == Removed(log, st.pos)
             kept == Kept(A, R)
             new == Gained(A, B)
             more == {v \in B : IdOf[v] \in R}
  <1>0. DerivedOf(st, A) /\ StillAvailable(st, blobs) /\ st.pos \in 0 .. Len(log)
    BY DEF SoundIn
  <1>1. Drained(A, B, R)
    BY <1>0, TailDrained
  <1>2. /\ accepted(B) = kept \cup new
        /\ B = A \cup more \cup new
        /\ R \subseteq IdsIn(B)
    BY <1>1, AcceptedAfter, SMT
  <1>a. AppliedShape(n, st, B, R, kept, new)
    BY AppliedFields
  <1>b. kept \subseteq accepted(A)
    BY DEF Kept
  <1> HIDE DEF A, B, R, kept, new
  <1>3. /\ IsState(n)
        /\ n.records = kept \cup new
        /\ n.identities = st.identities \cup R \cup IdsIn(new)
        /\ n.items = st.items \cup KeysIn(more) \cup KeysIn(new)
        /\ n.postings = Pairs(KeysOf, kept) \cup Pairs(KeysOf, new)
        /\ n.owners = Pairs(RefsOf, kept) \cup Pairs(RefsOf, new)
        /\ DOMAIN n.states = RefsIn(kept) \cup RefsIn(new)
        /\ \A ref \in DOMAIN n.states : n.states[ref] = Seen(st, kept, ref)
        /\ n.pending = {ref \in st.pending \cap RefsIn(kept) : blobs[ref] # "Available"}
             \cup {ref \in RefsIn(new) \ RefsIn(kept) : blobs[ref] # "Available"}
    BY <1>a DEF AppliedShape
  <1>4. n.records = accepted(B)
    BY <1>2, <1>3
  <1>5. n.identities = IdsIn(B)
    <2>1. IdsIn(B) = IdsIn(A) \cup IdsIn(more) \cup IdsIn(new)
      <3> HIDE DEF more
      <3>1. IdsIn((A \cup more) \cup new) = IdsIn(A \cup more) \cup IdsIn(new)
        BY IdsBoth
      <3>2. IdsIn(A \cup more) = IdsIn(A) \cup IdsIn(more)
        BY IdsBoth
      <3> QED BY <1>2, <3>1, <3>2
    <2>2. IdsIn(more) = R
      BY <1>2 DEF IdsIn
    <2> QED BY <1>0, <1>3, <2>1, <2>2 DEF DerivedOf
  <1>6. n.items = KeysIn(B)
    <2>1. KeysIn(B) = KeysIn(A) \cup KeysIn(more) \cup KeysIn(new)
      <3> HIDE DEF more
      <3>1. KeysIn((A \cup more) \cup new) = KeysIn(A \cup more) \cup KeysIn(new)
        BY KeysBoth
      <3>2. KeysIn(A \cup more) = KeysIn(A) \cup KeysIn(more)
        BY KeysBoth
      <3> QED BY <1>2, <3>1, <3>2
    <2> QED BY <1>0, <1>3, <2>1 DEF DerivedOf
  <1>7. n.postings = Pairs(KeysOf, accepted(B)) /\ n.owners = Pairs(RefsOf, accepted(B))
    BY <1>2, <1>3, PairsBoth, SMT
  <1>8. DOMAIN n.states = RefsIn(accepted(B))
    BY <1>2, <1>3, RefsBoth, SMT
  <1>9. RefsIn(kept) \subseteq DOMAIN st.states
    BY <1>0, <1>b DEF DerivedOf, RefsIn
  <1>10. ASSUME NEW ref \in DOMAIN n.states
         PROVE  /\ ref \in n.pending <=> n.states[ref] # "Available"
                /\ n.states[ref] = "Available" => blobs[ref] = "Available"
    <2>1. n.states[ref] = Seen(st, kept, ref)
      BY <1>3, <1>10
    <2>2. CASE ref \in RefsIn(kept)
      <3>1. ref \in st.pending <=> st.states[ref] # "Available"
        BY <1>0, <1>9, <2>2 DEF DerivedOf
      <3>2. st.states[ref] = "Available" => blobs[ref] = "Available"
        BY <1>0, <1>9, <2>2 DEF StillAvailable
      <3>3. n.states[ref] = IF ref \in st.pending THEN blobs[ref] ELSE st.states[ref]
        BY <2>1, <2>2 DEF Seen
      <3> QED BY <1>3, <2>2, <3>1, <3>2, <3>3
    <2>3. CASE ref \notin RefsIn(kept)
      <3>1. n.states[ref] = blobs[ref]
        BY <2>1, <2>3 DEF Seen
      <3> QED BY <1>3, <1>10, <2>3, <3>1
    <2> QED BY <2>2, <2>3
  <1>11. n.pending \subseteq DOMAIN n.states
    BY <1>3
  <1>12. n.pending = {ref \in DOMAIN n.states : n.states[ref] # "Available"}
    BY <1>10, <1>11
  <1>13. DerivedOf(n, B)
    BY <1>4, <1>5, <1>6, <1>7, <1>8, <1>12 DEF DerivedOf
  <1>14. StillAvailable(n, blobs)
    BY <1>10 DEF StillAvailable
  <1> QED BY <1>13, <1>14 DEF B

\* State::build derives the same from all of the chain.
LEMMA BuildSound ==
    ASSUME log \in Seq(Record), generations \in Nat, NEW n, n = build
    PROVE  /\ IsState(n)
           /\ n.pos = Len(log) /\ n.generation = generations + 1
           /\ n.position = 0 /\ n.entries = << >>
           /\ DerivedOf(n, Chain(log, Len(log))) /\ StillAvailable(n, blobs)
  <1> DEFINE B == Chain(log, Len(log))
             acc == accepted(B)
             kept == added_to(NoState, acc)
             mem == remembered(kept, conflicts(B), Len(log))
             more == {v \in B : IdOf[v] \in conflicts(B)}
  <1>0. B \subseteq Record
    BY ChainFacts, SMT
  <1>1. AddedFields(kept, NoState, acc, blobs)
    BY NoStateFields, AddedTo
  <1>2. RememberedFields(mem, kept, conflicts(B), B)
    BY <1>1, Remembered DEF AddedFields
  <1>3. n = [mem EXCEPT !.pos = Len(log), !.generation = generations + 1]
    BY DEF build, Chain, ChainTo
  <1> HIDE DEF acc, kept, mem, B
  <1>4. /\ IsState(n)
        /\ n.pos = Len(log) /\ n.generation = generations + 1
        /\ n.position = mem.position /\ n.entries = mem.entries
        /\ n.records = mem.records /\ n.identities = mem.identities /\ n.items = mem.items
        /\ n.postings = mem.postings /\ n.owners = mem.owners
        /\ n.states = mem.states /\ n.pending = mem.pending
    BY <1>2, <1>3, ZenonT(30) DEF IsState, RememberedFields
  <1>5. /\ mem.identities = kept.identities \cup conflicts(B)
        /\ mem.items = kept.items \cup KeysIn(more)
        /\ mem.records = kept.records /\ mem.postings = kept.postings
        /\ mem.owners = kept.owners /\ mem.states = kept.states /\ mem.pending = kept.pending
        /\ mem.position = kept.position /\ mem.entries = kept.entries
    BY <1>2 DEF RememberedFields
  <1>6. /\ kept.records = acc /\ kept.identities = IdsIn(acc) /\ kept.items = KeysIn(acc)
        /\ kept.postings = Pairs(KeysOf, acc) /\ kept.owners = Pairs(RefsOf, acc)
        /\ kept.position = 0 /\ kept.entries = << >>
    BY <1>1, NoStateFields, SMT DEF AddedFields
  <1>7. kept.states = [ref \in RefsIn(acc) |-> blobs[ref]]
    <2>1. DOMAIN NoState.states = {}
      BY NoStateFields, SMT
    <2> QED BY <1>1, <2>1 DEF AddedFields
  <1>8. kept.pending = {ref \in RefsIn(acc) : blobs[ref] # "Available"}
    <2>1. DOMAIN NoState.states = {} /\ NoState.pending = {}
      BY NoStateFields, SMT
    <2> QED BY <1>1, <2>1 DEF AddedFields
  <1>9. B = acc \cup more /\ conflicts(B) \subseteq IdsIn(B)
    <2>1. ASSUME NEW r \in B, r \notin acc
          PROVE  IdOf[r] \in conflicts(B)
      <3>1. PICK s \in B : IdOf[s] = IdOf[r] /\ s # r
        BY <2>1, AcceptedMeans DEF acc
      <3>2. IdOf[r] \in OpId
        BY <1>0, IdOfAssumption
      <3> QED BY <2>1, <3>1, <3>2 DEF conflicts
    <2>2. acc \subseteq B
      BY DEF acc, accepted
    <2>3. conflicts(B) \subseteq IdsIn(B)
      BY DEF conflicts, IdsIn
    <2> QED BY <2>1, <2>2, <2>3
  <1>10. n.identities = IdsIn(B)
    <2>1. IdsIn(B) = IdsIn(acc) \cup IdsIn(more)
      BY <1>9, IdsBoth
    <2>2. IdsIn(more) = conflicts(B)
      BY <1>9 DEF IdsIn
    <2> QED BY <1>4, <1>5, <1>6, <2>1, <2>2
  <1>11. n.items = KeysIn(B)
    <2>1. KeysIn(B) = KeysIn(acc) \cup KeysIn(more)
      BY <1>9, KeysBoth
    <2> QED BY <1>4, <1>5, <1>6, <2>1
  <1>12. DOMAIN n.states = RefsIn(acc) /\ \A ref \in RefsIn(acc) : n.states[ref] = blobs[ref]
    BY <1>4, <1>5, <1>7, SMT
  <1>13. n.pending = {ref \in DOMAIN n.states : n.states[ref] # "Available"}
    BY <1>4, <1>5, <1>8, <1>12, SMT
  <1>14. DerivedOf(n, B)
    BY <1>4, <1>5, <1>6, <1>10, <1>11, <1>12, <1>13 DEF DerivedOf, acc
  <1>15. StillAvailable(n, blobs)
    BY <1>12 DEF StillAvailable
  <1> QED BY <1>4, <1>5, <1>6, <1>14, <1>15 DEF B
-----------------------------------------------------------------------------
(* The order in which changes are journalled.                              *)

Increasing(s, n) == \A i, j \in 1 .. n : i < j => s[i] < s[j]

Sortable(S) == \E s \in [1 .. Cardinality(S) -> S] : Increasing(s, Cardinality(S))

\* A finite set of numbers can be listed in order: a smallest one that could
\* not would lack only its least element.
LEMMA EverySortable ==
    ASSUME NEW S, S \subseteq Nat, IsFiniteSet(S)
    PROVE  Sortable(S)
  <1> DEFINE Bad == {n \in Nat : \E T \in SUBSET Nat :
                       IsFiniteSet(T) /\ Cardinality(T) = n /\ ~Sortable(T)}
  <1>1. SUFFICES ASSUME Bad # {}
                 PROVE  FALSE
    <2>1. Cardinality(S) \in Nat
      BY FS_CardinalityType
    <2> QED BY <2>1
  <1>2. PICK n \in Bad : \A m \in Bad : n <= m
    <2>1. Bad \subseteq Nat
      OBVIOUS
    <2> HIDE DEF Bad
    <2> QED BY <1>1, <2>1, LeastNat
  <1>3. PICK T \in SUBSET Nat : IsFiniteSet(T) /\ Cardinality(T) = n /\ ~Sortable(T)
    OBVIOUS
  <1>4. n \in Nat
    OBVIOUS
  <1>5. T # {}
    <2>1. ASSUME T = {}
          PROVE  FALSE
      <3>1. n = 0
        BY <1>3, <2>1, FS_EmptySet
      <3>2. << >> \in [1 .. 0 -> T] /\ Increasing(<< >>, 0)
        BY SMT DEF Increasing
      <3> QED BY <1>3, <3>1, <3>2 DEF Sortable
    <2> QED BY <2>1
  <1>6. PICK x \in T : \A y \in T : x <= y
    BY <1>5, LeastNat
  <1>7. IsFiniteSet(T \ {x}) /\ Cardinality(T \ {x}) = n - 1 /\ n - 1 \in Nat
    <2>1. IsFiniteSet(T \ {x}) /\ Cardinality(T \ {x}) = n - 1
      BY <1>3, FS_RemoveElement
    <2>2. Cardinality(T \ {x}) \in Nat
      BY <2>1, FS_CardinalityType
    <2> QED BY <2>1, <2>2
  <1>8. Sortable(T \ {x})
    <2>1. n - 1 \notin Bad
      <3> HIDE DEF Bad
      <3> QED BY <1>2, <1>4, SMT
    <2>2. T \ {x} \in SUBSET Nat
      OBVIOUS
    <2> QED BY <1>7, <2>1, <2>2
  <1>9. PICK s \in [1 .. n - 1 -> T \ {x}] : Increasing(s, n - 1)
    BY <1>7, <1>8 DEF Sortable
  <1> DEFINE t == [i \in 1 .. n |-> IF i = 1 THEN x ELSE s[i - 1]]
  <1>10. t \in [1 .. n -> T]
    BY <1>4, SMT
  <1>11. Increasing(t, n)
    <2>1. ASSUME NEW i \in 1 .. n, NEW j \in 1 .. n, i < j
          PROVE  t[i] < t[j]
      <3>1. j - 1 \in 1 .. n - 1 /\ t[j] = s[j - 1]
        BY <1>4, <2>1, SMT
      <3>2. CASE i = 1
        <4>1. s[j - 1] \in T \ {x}
          BY <3>1
        <4>2. x \in Nat /\ s[j - 1] \in Nat /\ x <= s[j - 1] /\ x # s[j - 1]
          BY <1>6, <4>1
        <4>3. t[i] = x
          BY <2>1, <3>2
        <4> HIDE DEF t
        <4> QED BY <3>1, <4>2, <4>3, SMT
      <3>3. CASE i # 1
        <4>1. i - 1 \in 1 .. n - 1 /\ t[i] = s[i - 1] /\ i - 1 < j - 1
          BY <1>4, <2>1, <3>3, SMT
        <4> QED BY <1>9, <3>1, <4>1 DEF Increasing
      <3> QED BY <3>2, <3>3
    <2> QED BY <2>1 DEF Increasing
  <1> QED BY <1>3, <1>10, <1>11 DEF Sortable

\* InOrder lists each identity of a finite set, and nothing else.
LEMMA InOrderLists ==
    ASSUME NEW S, S \subseteq OpId, IsFiniteSet(S)
    PROVE  /\ InOrder(S) \in Seq(S)
           /\ \A x \in S : \E i \in 1 .. Len(InOrder(S)) : InOrder(S)[i] = x
  <1> DEFINE n == Cardinality(S)
             s == InOrder(S)
  <1>1. S \subseteq Nat
    BY IndexAssumption
  <1>2. n \in Nat
    BY FS_CardinalityType
  <1>3. \E t \in [1 .. n -> S] : \A i, j \in 1 .. n : i < j => t[i] < t[j]
    BY <1>1, EverySortable DEF Sortable, Increasing
  <1>4. s \in [1 .. n -> S] /\ \A i, j \in 1 .. n : i < j => s[i] < s[j]
    BY <1>3 DEF InOrder
  <1> HIDE DEF s, n
  <1>5. s \in Seq(S) /\ Len(s) = n
    BY <1>2, <1>4, SMT
  <1>6. s \in Injection(1 .. n, S)
    <2>1. ASSUME NEW i \in 1 .. n, NEW j \in 1 .. n, s[i] = s[j]
          PROVE  i = j
      <3>1. s[i] \in Nat /\ s[j] \in Nat
        BY <1>1, <1>4
      <3>2. ~(s[i] < s[j]) /\ ~(s[j] < s[i])
        BY <2>1, <3>1, SMT
      <3> QED BY <1>2, <1>4, <3>2, SMT
    <2> QED BY <1>4, <2>1 DEF Injection, IsInjective
  <1>7. Cardinality(1 .. n) = n
    <2>1. 1 \in Int /\ n \in Int
      BY <1>2, SMT
    <2> QED BY <1>2, <2>1, FS_Interval, SMT
  <1>8. s \in Surjection(1 .. n, S)
    BY <1>6, <1>7, FS_Injection DEF n
  <1>9. \A x \in S : \E i \in 1 .. n : s[i] = x
    BY <1>8 DEF Surjection
  <1> QED BY <1>5, <1>9 DEF s

\* The identities in a prefix of the chain are finitely many.
LEMMA IdsFinite ==
    ASSUME NEW lg \in Seq(Record), NEW n \in 0 .. Len(lg)
    PROVE  IsFiniteSet(IdsIn(Chain(lg, n))) /\ IdsIn(Chain(lg, n)) \subseteq OpId
  <1> DEFINE T == IdsIn(Chain(lg, n))
             f == [i \in 1 .. n |-> IdOf[lg[i]]]
  <1>1. f \in Surjection(1 .. n, T)
    BY DEF Surjection, IdsIn, Chain
  <1>2. IsFiniteSet(1 .. n)
    <2>1. 1 \in Int /\ n \in Int
      BY SMT
    <2> QED BY <2>1, FS_Interval
  <1>3. T \subseteq OpId
    BY IdOfAssumption, SMT DEF IdsIn, Chain
  <1> HIDE DEF T, f
  <1>4. IsFiniteSet(T)
    BY <1>1, <1>2, FS_Surjection
  <1> QED BY <1>3, <1>4 DEF T
-----------------------------------------------------------------------------
(* The journal.                                                            *)

Appended(n, st, changes) ==
    /\ IsState(n) /\ JournalOf(n)
    /\ n.position = st.position + Len(changes)
    /\ \A p \in DOMAIN n.entries :
         IF p <= st.position THEN p \in DOMAIN st.entries /\ n.entries[p] = st.entries[p]
                             ELSE n.entries[p] = changes[p - st.position]
    /\ n.pos = st.pos /\ n.generation = st.generation
    /\ n.records = st.records /\ n.identities = st.identities /\ n.items = st.items
    /\ n.postings = st.postings /\ n.owners = st.owners
    /\ n.states = st.states /\ n.pending = st.pending

\* ChangeLog::append puts the changes behind what is there and drops the
\* oldest beyond Retained.
LEMMA AppendAppends ==
    ASSUME NEW st, IsState(st), JournalOf(st), NEW S, NEW changes \in Seq(S)
    PROVE  Appended(append(st, changes), st, changes)
  <1> DEFINE n == append(st, changes)
             last == st.position + Len(changes)
             places == {q \in DOMAIN st.entries \cup (st.position + 1 .. last) : q >= First(last)}
             e == [p \in places |->
                     IF p <= st.position THEN st.entries[p] ELSE changes[p - st.position]]
  <1>0. st.position \in Nat /\ Len(changes) \in Nat /\ last \in Nat /\ last >= st.position
        /\ Retained \in Nat \ {0}
    BY IndexAssumption, SMT DEF JournalOf
  <1>1. n = [st EXCEPT !.position = last, !.entries = e]
    BY DEF append, First
  <1>2. DOMAIN st.entries = First(st.position) .. st.position
    BY DEF JournalOf
  <1>3. places = First(last) .. last
    <2>1. First(last) \in Nat /\ First(st.position) \in Nat /\ First(st.position) <= First(last)
      BY <1>0, SMT DEF First
    <2> QED BY <1>0, <1>2, <2>1, SMT
  <1>4. DOMAIN e = places
    OBVIOUS
  <1>5. \A p \in places :
          IF p <= st.position THEN p \in DOMAIN st.entries /\ e[p] = st.entries[p]
                              ELSE e[p] = changes[p - st.position]
    BY <1>0, <1>2, SMT
  <1>6. e = [p \in places |-> e[p]]
    OBVIOUS
  <1> HIDE DEF n, e, places
  <1>7. /\ IsState(n)
        /\ n.position = last /\ n.entries = e
        /\ n.pos = st.pos /\ n.generation = st.generation
        /\ n.records = st.records /\ n.identities = st.identities /\ n.items = st.items
        /\ n.postings = st.postings /\ n.owners = st.owners
        /\ n.states = st.states /\ n.pending = st.pending
    BY <1>1 DEF IsState
  <1>8. JournalOf(n)
    BY <1>0, <1>3, <1>6, <1>7 DEF JournalOf
  <1>9. Appended(n, st, changes)
    BY <1>4, <1>5, <1>7, <1>8 DEF Appended
  <1> QED BY <1>9 DEF n

\* Where the elements of two sequences are in their concatenation.
LEMMA Concatenated ==
    ASSUME NEW S, NEW s \in Seq(S), NEW t \in Seq(S)
    PROVE  /\ s \o t \in Seq(S)
           /\ \A i \in 1 .. Len(s) : i \in 1 .. Len(s \o t) /\ (s \o t)[i] = s[i]
           /\ \A i \in 1 .. Len(t) : Len(s) + i \in 1 .. Len(s \o t) /\ (s \o t)[Len(s) + i] = t[i]
  BY SMT

Lists(s, S) == s \in Seq(OpId) /\ \A x \in S : \E i \in 1 .. Len(s) : s[i] = x

\* Three sets of identities, each listed in order.
LEMMA ThreeLists ==
    ASSUME NEW a, NEW b, NEW c, a \subseteq OpId, b \subseteq OpId, c \subseteq OpId,
           IsFiniteSet(a), IsFiniteSet(b), IsFiniteSet(c)
    PROVE  Lists(InOrder(a) \o InOrder(b) \o InOrder(c), a \cup b \cup c)
  <1> DEFINE s == InOrder(a)
             t == InOrder(b)
             u == InOrder(c)
  <1>1. Lists(s, a) /\ Lists(t, b) /\ Lists(u, c)
    <2>1. s \in Seq(a) /\ t \in Seq(b) /\ u \in Seq(c)
      BY InOrderLists
    <2>2. /\ \A x \in a : \E i \in 1 .. Len(s) : s[i] = x
          /\ \A x \in b : \E i \in 1 .. Len(t) : t[i] = x
          /\ \A x \in c : \E i \in 1 .. Len(u) : u[i] = x
      BY InOrderLists
    <2> HIDE DEF s, t, u
    <2>3. s \in Seq(OpId) /\ t \in Seq(OpId) /\ u \in Seq(OpId)
      BY <2>1, SMT
    <2> QED BY <2>2, <2>3 DEF Lists
  <1> HIDE DEF s, t, u
  <1>2. ASSUME NEW p, NEW q, NEW P, NEW Q, Lists(p, P), Lists(q, Q)
        PROVE  Lists(p \o q, P \cup Q)
    <2>1. p \in Seq(OpId) /\ q \in Seq(OpId)
      BY <1>2 DEF Lists
    <2>2. /\ p \o q \in Seq(OpId)
          /\ \A i \in 1 .. Len(p) : i \in 1 .. Len(p \o q) /\ (p \o q)[i] = p[i]
          /\ \A i \in 1 .. Len(q) : Len(p) + i \in 1 .. Len(p \o q) /\ (p \o q)[Len(p) + i] = q[i]
      BY <2>1, Concatenated, SMT
    <2>3. ASSUME NEW x \in P
          PROVE  \E i \in 1 .. Len(p \o q) : (p \o q)[i] = x
      <3>1. PICK i \in 1 .. Len(p) : p[i] = x
        BY <1>2 DEF Lists
      <3> QED BY <2>2, <3>1
    <2>4. ASSUME NEW x \in Q
          PROVE  \E i \in 1 .. Len(p \o q) : (p \o q)[i] = x
      <3>1. PICK i \in 1 .. Len(q) : q[i] = x
        BY <1>2 DEF Lists
      <3> QED BY <2>2, <3>1
    <2> QED BY <2>2, <2>3, <2>4 DEF Lists
  <1>3. Lists(s \o t, a \cup b)
    BY <1>1, <1>2
  <1>4. Lists((s \o t) \o u, (a \cup b) \cup c)
    BY <1>1, <1>2, <1>3
  <1> QED BY <1>4 DEF s, t, u

\* What content_changed reports: the identities that stay and refer to
\* content whose state is not what it was.
LEMMA ContentMeans ==
    ASSUME NEW st, SoundIn(st, log, blobs, generations), log \in Seq(Record),
           NEW A, A = Chain(log, st.pos), NEW B, B = Chain(log, Len(log)),
           NEW R, R = Removed(log, st.pos),
           NEW kept, kept = Kept(A, R)
    PROVE  /\ content_changed(st) \subseteq IdsIn(kept)
           /\ \A r \in kept, ref \in Ref :
                ref \in RefsOf[r] /\ ref \in st.pending /\ blobs[ref] # st.states[ref]
                  => IdOf[r] \in content_changed(st) \cup IdsIn(Gained(A, B)) \cup R
           /\ drained_removed(st) = R /\ drained_added(st) = Gained(A, B)
  <1> DEFINE old == removed_from(st, R)
             new == Gained(A, B)
             changed == {o[2] : o \in {p \in old.owners : p[1] \in changed_refs(old)}}
  <1>1. drained_removed(st) = R /\ drained_added(st) = new
    BY DEF drained_removed, drained_added, Removed, Gained, Chain, ChainTo
  <1>2. content_changed(st) = changed \ (IdsIn(new) \cup R)
    BY <1>1 DEF content_changed
  <1>3. IsState(st) /\ DerivedOf(st, A)
    BY DEF SoundIn
  <1>4. st.records = accepted(A)
    BY <1>3 DEF DerivedOf
  <1>5. RemovedFields(old, st, Lost(A, R))
    BY <1>3, <1>4, RemovedFrom, SMT DEF Lost
  <1> HIDE DEF new, old
  <1>6. old.owners = Pairs(RefsOf, kept)
    <2>1. st.owners = Pairs(RefsOf, accepted(A))
      BY <1>3 DEF DerivedOf
    <2>2. Pairs(RefsOf, accepted(A)) \ Pairs(RefsOf, Lost(A, R)) = Pairs(RefsOf, kept)
      BY PairsWithout
    <2> QED BY <1>5, <2>1, <2>2 DEF RemovedFields
  <1>7. {o[1] : o \in old.owners} = RefsIn(kept)
    BY <1>6, OwnedRefs
  <1>8. old.pending = st.pending \cap RefsIn(kept)
        /\ \A ref \in RefsIn(kept) : old.states[ref] = st.states[ref]
    BY <1>5, <1>7 DEF RemovedFields
  <1>9. \A o \in old.owners : o[2] \in IdsIn(kept)
    BY <1>6, PairsMeans, SMT DEF IdsIn
  <1>10. content_changed(st) \subseteq IdsIn(kept)
    BY <1>2, <1>9
  <1>11. ASSUME NEW r \in kept, NEW ref \in Ref,
                ref \in RefsOf[r], ref \in st.pending, blobs[ref] # st.states[ref]
         PROVE  IdOf[r] \in content_changed(st) \cup IdsIn(new) \cup R
    <2>1. ref \in RefsIn(kept)
      BY <1>11 DEF RefsIn
    <2>2. ref \in changed_refs(old)
      BY <1>8, <1>11, <2>1 DEF changed_refs
    <2>3. <<ref, IdOf[r]>> \in old.owners
      BY <1>6, <1>11, PairsMeans, SMT
    <2>4. IdOf[r] \in changed
      BY <2>2, <2>3, SMT
    <2> QED BY <1>2, <2>4
  <1> QED BY <1>1, <1>10, <1>11 DEF new

\* The rows of a state, one by one.
LEMMA RowsMeans ==
    ASSUME NEW st, NEW w
    PROVE  w \in Rows(st) <=>
             \E r \in st.records :
               w = [rec |-> r, content |-> [ref \in RefsOf[r] |-> st.states[ref]]]
  BY DEF Rows

\* A row that a refresh adds, removes or changes is of an identity that the
\* refresh reports.
LEMMA RowsReported ==
    ASSUME NEW st, SoundIn(st, log, blobs, generations), log \in Seq(Record),
           NEW w, w \in (Rows(st) \ Rows(applied(st))) \cup (Rows(applied(st)) \ Rows(st))
    PROVE  IdOf[w.rec] \in IdsIn(drained_added(st)) \cup drained_removed(st) \cup content_changed(st)
  <1> DEFINE n == applied(st)
             A == Chain(log, st.pos)
             B == Chain(log, Len(log))
             R == Removed(log, st.pos)
             kept == Kept(A, R)
             new == Gained(A, B)
  <1>0. DerivedOf(st, A) /\ st.pos \in 0 .. Len(log)
    BY DEF SoundIn
  <1>1. AppliedShape(n, st, B, R, kept, new)
    BY AppliedFields
  <1>2. /\ \A r \in kept, ref \in Ref :
             ref \in RefsOf[r] /\ ref \in st.pending /\ blobs[ref] # st.states[ref]
               => IdOf[r] \in content_changed(st) \cup IdsIn(new) \cup R
        /\ drained_removed(st) = R /\ drained_added(st) = new
    BY ContentMeans
  <1>3. A \subseteq Record
    BY <1>0, ChainFacts
  <1>4. kept \subseteq A /\ kept \subseteq accepted(A) /\ \A r \in accepted(A) : r \notin kept => IdOf[r] \in R
    BY DEF Kept, accepted
  <1>5. SUFFICES ASSUME IdOf[w.rec] \notin content_changed(st) \cup IdsIn(new) \cup R
                 PROVE  FALSE
    BY <1>2
  <1> HIDE DEF n, A, B, R, kept, new
  <1>6. st.records = accepted(A) /\ n.records = kept \cup new
    BY <1>0, <1>1 DEF DerivedOf, AppliedShape
  <1>7. ASSUME NEW r \in kept, IdOf[r] = IdOf[w.rec]
        PROVE  [ref \in RefsOf[r] |-> n.states[ref]] = [ref \in RefsOf[r] |-> st.states[ref]]
    <2>1. ASSUME NEW ref \in RefsOf[r]
          PROVE  n.states[ref] = st.states[ref]
      <3>1. ref \in RefsIn(kept) /\ ref \in DOMAIN n.states
        BY <1>1, SMT DEF AppliedShape, RefsIn
      <3>2. n.states[ref] = IF ref \in st.pending THEN blobs[ref] ELSE st.states[ref]
        BY <1>1, <3>1 DEF AppliedShape, Seen
      <3>3. ref \in Ref
        BY <1>3, <1>4, IndexAssumption
      <3> QED BY <1>2, <1>5, <1>7, <3>2, <3>3
    <2> QED BY <2>1
  <1>8. CASE w \in Rows(st) \ Rows(n)
    <2>1. PICK r \in accepted(A) :
            w = [rec |-> r, content |-> [ref \in RefsOf[r] |-> st.states[ref]]]
      BY <1>6, <1>8, RowsMeans, SMT
    <2>2. w.rec = r
      BY <2>1
    <2>3. r \in kept
      BY <1>4, <1>5, <2>2
    <2>4. w = [rec |-> r, content |-> [ref \in RefsOf[r] |-> n.states[ref]]]
      BY <1>7, <2>1, <2>2, <2>3
    <2> QED BY <1>6, <1>8, <2>3, <2>4, RowsMeans
  <1>9. CASE w \in Rows(n) \ Rows(st)
    <2>1. PICK r \in kept \cup new :
            w = [rec |-> r, content |-> [ref \in RefsOf[r] |-> n.states[ref]]]
      BY <1>6, <1>9, RowsMeans, SMT
    <2>2. w.rec = r
      BY <2>1
    <2>3. r \in kept
      BY <1>5, <2>1, <2>2 DEF IdsIn
    <2>4. w = [rec |-> r, content |-> [ref \in RefsOf[r] |-> st.states[ref]]]
      BY <1>7, <2>1, <2>2, <2>3
    <2> QED BY <1>4, <1>6, <1>9, <2>3, <2>4, RowsMeans, SMT
  <1> QED BY <1>8, <1>9 DEF n

\* What a refresh publishes is sound, and extends what it started from.
LEMMA RefreshedExtends ==
    ASSUME NEW st, SoundIn(st, log, blobs, generations), log \in Seq(Record)
    PROVE  SoundIn(refreshed(st), log, blobs, generations) /\ Extends(refreshed(st), st)
  <1> DEFINE a == IdsIn(drained_added(st))
             b == drained_removed(st)
             c == content_changed(st)
             changes == InOrder(a) \o InOrder(b) \o InOrder(c)
             m == applied(st)
             n == refreshed(st)
             A == Chain(log, st.pos)
             B == Chain(log, Len(log))
             R == Removed(log, st.pos)
  <1>0. /\ IsState(st) /\ JournalOf(st) /\ st.pos \in 0 .. Len(log)
        /\ st.generation \in 0 .. generations /\ Len(log) \in Nat /\ Len(log) \in 0 .. Len(log)
    BY SMT DEF SoundIn
  <1>1. IsFiniteSet(IdsIn(B)) /\ IdsIn(B) \subseteq OpId
    BY <1>0, IdsFinite
  <1>2. a \subseteq IdsIn(B) /\ b \subseteq IdsIn(B) /\ c \subseteq IdsIn(B)
    <2>1. c \subseteq IdsIn(Kept(A, R)) /\ b = R /\ drained_added(st) = Gained(A, B)
      BY ContentMeans
    <2>2. Drained(A, B, R)
      BY <1>0, TailDrained
    <2>3. R \subseteq IdsIn(B) /\ A \subseteq B
      <3>1. R \subseteq IdsIn(B)
        BY <2>2, AcceptedAfter, SMT
      <3>2. A \subseteq B
        BY <2>2 DEF Drained
      <3> QED BY <3>1, <3>2
    <2>4. Kept(A, R) \subseteq B /\ Gained(A, B) \subseteq B
      BY <2>3 DEF Kept, Gained, accepted
    <2> QED BY <2>1, <2>3, <2>4 DEF IdsIn
  <1>3. IsFiniteSet(a) /\ IsFiniteSet(b) /\ IsFiniteSet(c)
    <2> HIDE DEF a, b, c
    <2> QED BY <1>1, <1>2, FS_Subset
  <1>4. Lists(changes, a \cup b \cup c)
    <2> HIDE DEF a, b, c
    <2> QED BY <1>1, <1>2, <1>3, ThreeLists
  <1>5. n = append(m, changes)
    BY DEF refreshed
  <1>6. AppliedShape(m, st, B, R, Kept(A, R), Gained(A, B))
    BY AppliedFields
  <1>7. DerivedOf(m, B) /\ StillAvailable(m, blobs)
    BY AppliedSound
  <1>8. \A w \in (Rows(st) \ Rows(m)) \cup (Rows(m) \ Rows(st)) : IdOf[w.rec] \in a \cup b \cup c
    BY RowsReported
  <1> HIDE DEF a, b, c, changes, m, n
  <1>9. /\ IsState(m) /\ m.pos = Len(log) /\ m.generation = st.generation
        /\ m.position = st.position /\ m.entries = st.entries
    BY <1>6 DEF AppliedShape
  <1>10. JournalOf(m)
    BY <1>0, <1>9 DEF JournalOf
  <1>11. Appended(n, m, changes)
    BY <1>4, <1>5, <1>9, <1>10, AppendAppends DEF Lists
  <1>12. SoundIn(n, log, blobs, generations)
    <2>1. IsState(n) /\ JournalOf(n) /\ n.pos = Len(log) /\ n.generation = st.generation
      BY <1>9, <1>11 DEF Appended
    <2>2. DerivedOf(n, B)
      <3>1. /\ n.records = m.records /\ n.identities = m.identities /\ n.items = m.items
            /\ n.postings = m.postings /\ n.owners = m.owners
            /\ n.states = m.states /\ n.pending = m.pending
        BY <1>11 DEF Appended
      <3> HIDE DEF B
      <3> QED BY <1>7, <3>1 DEF DerivedOf
    <2>3. StillAvailable(n, blobs)
      BY <1>7, <1>11 DEF StillAvailable, Appended
    <2> QED BY <1>0, <2>1, <2>2, <2>3 DEF SoundIn
  <1>13. Rows(n) = Rows(m)
    <2>1. n.records = m.records /\ n.states = m.states
      BY <1>11 DEF Appended
    <2> QED BY <2>1 DEF Rows
  <1>14. /\ n.generation = st.generation /\ n.position = st.position + Len(changes)
         /\ st.position \in Nat /\ Len(changes) \in Nat
    BY <1>0, <1>4, <1>9, <1>11, SMT DEF Appended, Lists, JournalOf
  <1>15. \A p \in DOMAIN n.entries :
           p <= st.position => p \in DOMAIN st.entries /\ n.entries[p] = st.entries[p]
    BY <1>9, <1>11, SMT DEF Appended
  <1>16. Covers(n, st.position, Rows(st), Rows(n))
    <2>1. ASSUME st.position + 1 .. n.position \subseteq DOMAIN n.entries,
                 NEW w \in (Rows(st) \ Rows(n)) \cup (Rows(n) \ Rows(st))
          PROVE  \E q \in st.position + 1 .. n.position : n.entries[q] = IdOf[w.rec]
      <3>1. IdOf[w.rec] \in a \cup b \cup c
        BY <1>8, <1>13, <2>1
      <3>2. PICK i \in 1 .. Len(changes) : changes[i] = IdOf[w.rec]
        BY <1>4, <3>1 DEF Lists
      <3>3. st.position + i \in st.position + 1 .. n.position /\ ~(st.position + i <= st.position)
            /\ (st.position + i) - st.position = i
        BY <1>14, <3>2, SMT
      <3>4. n.entries[st.position + i] = changes[i]
        BY <1>9, <1>11, <2>1, <3>3, SMT DEF Appended
      <3> QED BY <3>2, <3>3, <3>4
    <2> QED BY <2>1 DEF Covers
  <1>17. Extends(n, st)
    BY <1>14, <1>15, <1>16, SMT DEF Extends
  <1> QED BY <1>12, <1>17 DEF n
-----------------------------------------------------------------------------
(* The consumer.                                                           *)

\* Who follows a state follows what extends it.
LEMMA FollowsOn ==
    ASSUME NEW st, NEW later, NEW c, JournalOf(st), JournalOf(later), c.position \in Nat,
           FollowsIn(st, c), Extends(later, st)
    PROVE  FollowsIn(later, c)
  <1>1. SUFFICES ASSUME c.generation = later.generation
                 PROVE  /\ c.position <= later.position
                        /\ Covers(later, c.position, c.rows, Rows(later))
    BY DEF FollowsIn
  <1>2. /\ c.position <= st.position /\ st.position <= later.position
        /\ Covers(st, c.position, c.rows, Rows(st))
        /\ Covers(later, st.position, Rows(st), Rows(later))
        /\ \A p \in DOMAIN later.entries :
             p <= st.position => p \in DOMAIN st.entries /\ later.entries[p] = st.entries[p]
    BY <1>1 DEF FollowsIn, Extends
  <1>3. st.position \in Nat /\ later.position \in Nat /\ c.position <= later.position
    BY <1>2, SMT DEF JournalOf
  <1>4. ASSUME c.position + 1 .. later.position \subseteq DOMAIN later.entries,
               NEW w \in (c.rows \ Rows(later)) \cup (Rows(later) \ c.rows)
        PROVE  \E q \in c.position + 1 .. later.position : later.entries[q] = IdOf[w.rec]
    <2>1. CASE w \in (Rows(st) \ Rows(later)) \cup (Rows(later) \ Rows(st))
      <3>1. st.position + 1 .. later.position \subseteq DOMAIN later.entries
        BY <1>2, <1>3, <1>4, SMT
      <3>2. PICK q \in st.position + 1 .. later.position : later.entries[q] = IdOf[w.rec]
        BY <1>2, <2>1, <3>1 DEF Covers
      <3>3. q \in c.position + 1 .. later.position
        BY <1>2, <1>3, SMT
      <3> QED BY <3>2, <3>3
    <2>2. CASE w \in (c.rows \ Rows(st)) \cup (Rows(st) \ c.rows)
      <3>1. \A q \in c.position + 1 .. st.position :
              q \in c.position + 1 .. later.position /\ q <= st.position
        BY <1>2, <1>3, SMT
      <3>2. c.position + 1 .. st.position \subseteq DOMAIN st.entries
        BY <1>2, <1>4, <3>1
      <3>3. PICK q \in c.position + 1 .. st.position : st.entries[q] = IdOf[w.rec]
        BY <1>2, <2>2, <3>2 DEF Covers
      <3> QED BY <1>2, <1>4, <3>1, <3>3
    <2> QED BY <1>4, <2>1, <2>2
  <1> QED BY <1>3, <1>4 DEF Covers

\* The consumer takes over the state whole.
LEMMA TakenWhole ==
    ASSUME NEW st, JournalOf(st), NEW c,
           c = [generation |-> st.generation, position |-> st.position, rows |-> Rows(st)]
    PROVE  FollowsIn(st, c) /\ c.generation = st.generation /\ c.position \in Nat
  BY SMT DEF FollowsIn, Covers, JournalOf

\* What the journal holds for a consumer, and the consumer after taking it.
Reaches(st, c) == ~(st.entries # << >> /\ \A p \in DOMAIN st.entries : c.position + 1 < p)

Batch(st, c, limit) == {p \in DOMAIN st.entries : p > c.position /\ p <= c.position + limit}

Taken(st, c, T) ==
    LET ids == {st.entries[p] : p \in T}
    IN  [generation |-> c.generation, position |-> c.position + Cardinality(T),
         rows |-> {w \in c.rows : IdOf[w.rec] \notin ids}
                    \cup {w \in Rows(st) : IdOf[w.rec] \in ids}]

\* The consumer takes what the journal holds for it.
LEMMA TakenFromJournal ==
    ASSUME NEW st, JournalOf(st), NEW limit \in Nat \ {0},
           NEW c, c.position \in Nat, FollowsIn(st, c), c.generation = st.generation,
           c.position <= st.position, Reaches(st, c),
           NEW T, T = Batch(st, c, limit), NEW d, d = Taken(st, c, T)
    PROVE  FollowsIn(st, d) /\ d.generation = st.generation /\ d.position \in Nat
  <1> USE DEF Batch
  <1> DEFINE ids == {st.entries[p] : p \in T}
             rows == {w \in c.rows : IdOf[w.rec] \notin ids} \cup {w \in Rows(st) : IdOf[w.rec] \in ids}
             to == c.position + Cardinality(T)
  <1>a. d = [generation |-> c.generation, position |-> to, rows |-> rows]
    BY DEF Taken
  <1>b. d.generation = c.generation /\ d.position = to /\ d.rows = rows
    <2> HIDE DEF rows, to
    <2> QED BY <1>a, SMT
  <1>0. /\ st.position \in Nat /\ Retained \in Nat \ {0}
        /\ DOMAIN st.entries = First(st.position) .. st.position
    BY IndexAssumption DEF JournalOf
  <1>1. First(st.position) \in Nat /\ First(st.position) <= st.position + 1
    BY <1>0, SMT DEF First
  <1>2. c.position + 1 .. st.position \subseteq DOMAIN st.entries
    <2>1. CASE st.entries = << >>
      <3>1. DOMAIN st.entries = {}
        BY <2>1, SMT
      <3>2. ~(First(st.position) <= st.position)
        <4>1. st.position \notin First(st.position) .. st.position
          BY <1>0, <3>1
        <4> QED BY <1>0, <1>1, <4>1, SMT
      <3>3. st.position = 0
        BY <1>0, <3>2, SMT DEF First
      <3> QED BY <3>3, SMT
    <2>2. CASE \E p \in DOMAIN st.entries : ~(c.position + 1 < p)
      BY <1>0, <1>1, <2>2, SMT
    <2> QED BY <2>1, <2>2 DEF Reaches
  <1> DEFINE end == IF c.position + limit <= st.position THEN c.position + limit ELSE st.position
  <1>3. T = c.position + 1 .. end /\ end \in Nat /\ c.position <= end /\ end <= st.position
    <2>1. T \subseteq c.position + 1 .. end
      BY <1>0, <1>1, SMT
    <2>2. c.position + 1 .. end \subseteq T
      BY <1>0, <1>1, <1>2, SMT
    <2> QED BY <1>0, <2>1, <2>2, SMT
  <1> HIDE DEF end
  <1>4. c.position + Cardinality(T) = end
    <2>1. c.position + 1 \in Int /\ end \in Int
      BY <1>3, SMT
    <2>2. Cardinality(T) = IF c.position + 1 > end THEN 0 ELSE end - (c.position + 1) + 1
      BY <1>3, <2>1, FS_Interval
    <2> QED BY <1>3, <2>2, SMT
  <1>5. d.generation = c.generation /\ d.position = end /\ d.rows = rows
    BY <1>4, <1>b
  <1>6. Covers(st, c.position, c.rows, Rows(st))
    BY DEF FollowsIn
  <1>7. ASSUME NEW w \in (rows \ Rows(st)) \cup (Rows(st) \ rows)
        PROVE  \E q \in end + 1 .. st.position : st.entries[q] = IdOf[w.rec]
    <2>1. w \in (c.rows \ Rows(st)) \cup (Rows(st) \ c.rows) /\ IdOf[w.rec] \notin ids
      BY <1>7
    <2>2. PICK q \in c.position + 1 .. st.position : st.entries[q] = IdOf[w.rec]
      BY <1>2, <1>6, <2>1 DEF Covers
    <2>3. q \notin T
      BY <2>1, <2>2
    <2>4. q \in end + 1 .. st.position
      BY <1>0, <1>3, <2>2, <2>3, SMT
    <2> QED BY <2>2, <2>4
  <1>8. Covers(st, end, rows, Rows(st))
    BY <1>7 DEF Covers
  <1> HIDE DEF rows
  <1> QED BY <1>3, <1>5, <1>8 DEF FollowsIn

\* A consumer at the revision of a state it follows has its rows.
LEMMA SameRevision ==
    ASSUME NEW st, JournalOf(st), NEW c, FollowsIn(st, c),
           c.generation = st.generation, c.position = st.position
    PROVE  c.rows = Rows(st)
  <1>1. Covers(st, st.position, c.rows, Rows(st)) /\ st.position \in Nat
    BY DEF FollowsIn, JournalOf
  <1>2. st.position + 1 .. st.position = {}
    BY <1>1, SMT
  <1>3. \A w \in (c.rows \ Rows(st)) \cup (Rows(st) \ c.rows) : FALSE
    BY <1>1, <1>2 DEF Covers
  <1> QED BY <1>3
-----------------------------------------------------------------------------
(* The invariant is inductive.                                             *)

\* Nothing was read into the initial state.
LEMMA NoStateSound ==
    ASSUME NEW lg \in Seq(Record), NEW bl, NEW gens \in Nat
    PROVE  SoundIn(NoState, lg, bl, gens)
  <1> DEFINE st == NoState
  <1>1. /\ IsState(st)
        /\ st.pos = 0 /\ st.records = {} /\ st.identities = {} /\ st.items = {}
        /\ st.postings = {} /\ st.owners = {} /\ st.states = << >>
        /\ st.pending = {} /\ st.generation = 0 /\ st.position = 0
        /\ st.entries = << >>
    BY NoStateFields
  <1> HIDE DEF st
  <1>2. Chain(lg, st.pos) = {}
    BY <1>1, SMT DEF Chain
  <1>3. accepted({}) = {} /\ IdsIn({}) = {} /\ KeysIn({}) = {} /\ RefsIn({}) = {}
        /\ Pairs(KeysOf, {}) = {} /\ Pairs(RefsOf, {}) = {}
    BY DEF accepted, IdsIn, KeysIn, RefsIn, Pairs
  <1>4. DOMAIN st.states = {}
    BY <1>1, SMT
  <1>5. DerivedOf(st, Chain(lg, st.pos))
    BY <1>1, <1>2, <1>3, <1>4 DEF DerivedOf
  <1>6. StillAvailable(st, bl)
    BY <1>4 DEF StillAvailable
  <1>7. JournalOf(st)
    <2>1. First(0) = 1
      BY IndexAssumption, SMT DEF First
    <2>2. << >> = [p \in 1 .. 0 |-> st.entries[p]]
      BY SMT
    <2> QED BY <1>1, <2>1, <2>2, SMT DEF JournalOf
  <1>8. SoundIn(st, lg, bl, gens)
    BY <1>1, <1>5, <1>6, <1>7, SMT DEF SoundIn
  <1> QED BY <1>8 DEF st

\* The generation is no part of what a state derives.
LEMMA GenerationSet ==
    ASSUME NEW st, NEW lg, NEW bl, NEW gens, SoundIn(st, lg, bl, gens),
           NEW total, NEW g \in 0 .. total,
           NEW n, n = [st EXCEPT !.generation = g]
    PROVE  SoundIn(n, lg, bl, total) /\ n.generation = g
  <1>1. /\ IsState(st) /\ JournalOf(st) /\ st.pos \in 0 .. Len(lg)
        /\ DerivedOf(st, Chain(lg, st.pos)) /\ StillAvailable(st, bl)
    BY DEF SoundIn
  <1>2. /\ IsState(n)
        /\ n.pos = st.pos /\ n.generation = g
        /\ n.position = st.position /\ n.entries = st.entries
        /\ n.records = st.records /\ n.identities = st.identities /\ n.items = st.items
        /\ n.postings = st.postings /\ n.owners = st.owners
        /\ n.states = st.states /\ n.pending = st.pending
    BY <1>1, ZenonT(30) DEF IsState
  <1>3. JournalOf(n)
    BY <1>1, <1>2 DEF JournalOf
  <1>4. DerivedOf(n, Chain(lg, n.pos)) /\ StillAvailable(n, bl)
    BY <1>1, <1>2 DEF DerivedOf, StillAvailable
  <1> QED BY <1>1, <1>2, <1>3, <1>4 DEF SoundIn

\* A state built from the whole chain is sound.
LEMMA BuiltSound ==
    ASSUME log \in Seq(Record), generations \in Nat, NEW n, n = build
    PROVE  SoundIn(n, log, blobs, generations + 1) /\ n.generation = generations + 1
  <1>1. /\ IsState(n)
        /\ n.pos = Len(log) /\ n.generation = generations + 1
        /\ n.position = 0 /\ n.entries = << >>
        /\ DerivedOf(n, Chain(log, Len(log))) /\ StillAvailable(n, blobs)
    BY BuildSound
  <1>2. JournalOf(n)
    <2>1. First(0) = 1
      BY IndexAssumption, SMT DEF First
    <2>2. << >> = [p \in 1 .. 0 |-> n.entries[p]]
      BY SMT
    <2> QED BY <1>1, <2>1, <2>2, SMT DEF JournalOf
  <1> QED BY <1>1, <1>2, SMT DEF SoundIn

\* The initial states.
LEMMA InitInv == IndexInit => Inv
  <1> SUFFICES ASSUME IndexInit
               PROVE  Inv
    OBVIOUS
  <1>a. /\ log = << >> \/ \E r \in Record : log = <<r>>
        /\ blobs = [ref \in Ref |-> "Missing"] /\ generations = 1 /\ index = Closed
        /\ consumer = [generation |-> 1, position |-> 0, rows |-> {}]
    BY DEF IndexInit
  <1>0. log \in Seq(Record) /\ generations \in Nat /\ generations = 1 /\ 0 \in 0 .. generations
    <2>1. log \in Seq(Record)
      <3>1. CASE log = << >>
        BY <3>1, SMT
      <3>2. ASSUME NEW r \in Record, log = <<r>>
            PROVE  log \in Seq(Record)
        BY <3>2, SMT
      <3> QED BY <1>a, <3>1, <3>2
    <2> QED BY <1>a, <2>1, SMT
  <1>1. index.state = NoState /\ index.next = NoState /\ index.phase = "closed"
    BY <1>a DEF Closed
  <1> DEFINE n == build
             older == [n EXCEPT !.generation = 0]
  <1>2. SoundIn(n, log, blobs, generations + 1)
    BY <1>0, BuiltSound
  <1>b. older = [n EXCEPT !.generation = 0]
    OBVIOUS
  <1>3. visible = None \/ visible = Some(older)
    BY DEF IndexInit
  <1> HIDE DEF n, older
  <1>4. SoundIn(older, log, blobs, generations) /\ older.generation = 0
    BY <1>0, <1>2, <1>b, GenerationSet, SMT
  <1>5. visible = None \/ (visible = Some(older) /\ visible[1] = older)
    <2>1. Some(older)[1] = older
      BY SMT DEF Some
    <2> QED BY <1>3, <2>1
  <1>6. ShapeInv
    <2>1. visible = None \/ visible = Some(visible[1])
      BY <1>5
    <2>2. consumer \in [generation : 0 .. generations, position : Nat, rows : {consumer.rows}]
      BY <1>a, SMT
    <2>3. blobs \in [Ref -> ContentState]
      BY <1>a DEF ContentState
    <2>4. index \in [phase : {"closed", "ready", "publishing", "fenced"}, state : {index.state},
                     next : {index.next}, opening : BOOLEAN]
      BY <1>a DEF Closed
    <2> QED BY <1>0, <2>1, <2>2, <2>3, <2>4 DEF ShapeInv
  <1>7. StatesInv
    <2>1. SoundIn(NoState, log, blobs, generations)
      BY <1>0, NoStateSound
    <2> QED BY <1>1, <1>4, <1>5, <2>1 DEF StatesInv
  <1>8. RevisionInv
    BY <1>1 DEF RevisionInv
  <1>9. ConsumerInv
    <2>1. consumer.generation = 1 /\ 0 # 1
      BY <1>a, SMT
    <2> QED BY <1>1, <1>4, <1>5, <2>1 DEF ConsumerInv, FollowsIn
  <1> QED BY <1>6, <1>7, <1>8, <1>9 DEF Inv

\* A sound state stays sound as the chain grows, blobs arrive and other
\* states are built.
LEMMA SoundLater ==
    ASSUME NEW st, NEW lg \in Seq(Record), NEW bl, NEW gens \in Nat, SoundIn(st, lg, bl, gens),
           NEW more \in Seq(Record), more = lg \/ \E r \in Record : more = Append(lg, r),
           NEW now, \A ref \in DOMAIN st.states : bl[ref] = "Available" => now[ref] = "Available",
           NEW total \in Nat, gens <= total
    PROVE  SoundIn(st, more, now, total)
  <1>1. /\ IsState(st) /\ JournalOf(st) /\ st.pos \in 0 .. Len(lg) /\ st.generation \in 0 .. gens
        /\ DerivedOf(st, Chain(lg, st.pos)) /\ StillAvailable(st, bl)
    BY DEF SoundIn
  <1>2. st.pos \in 0 .. Len(more) /\ Chain(more, st.pos) = Chain(lg, st.pos)
    <2>1. CASE more = lg
      BY <1>1, <2>1
    <2>2. ASSUME NEW r \in Record, more = Append(lg, r)
          PROVE  st.pos \in 0 .. Len(more) /\ Chain(more, st.pos) = Chain(lg, st.pos)
      <3>1. Len(more) = Len(lg) + 1 /\ Len(lg) \in Nat
        BY <2>2, SMT
      <3>2. Chain(more, st.pos) = Chain(lg, st.pos)
        BY <1>1, <2>2, ChainFacts
      <3> QED BY <1>1, <3>1, <3>2, SMT
    <2> QED BY <2>1, <2>2
  <1>3. StillAvailable(st, now)
    BY <1>1 DEF StillAvailable
  <1>4. st.generation \in 0 .. total
    BY <1>1, SMT
  <1> QED BY <1>1, <1>2, <1>3, <1>4 DEF SoundIn

\* open resumes from the published root, or gives an older one a generation
\* nobody has seen.
LEMMA OpenStep == Inv /\ Open => Inv'
  <1> SUFFICES ASSUME Inv, Open
               PROVE  Inv'
    OBVIOUS
  <1>0. ShapeInv /\ StatesInv /\ RevisionInv /\ ConsumerInv
    BY DEF Inv
  <1> DEFINE st == visible[1]
             n == [st EXCEPT !.generation = generations + 1]
  <1>a. UNCHANGED <<log, blobs, visible, consumer>> /\ visible # None
    BY DEF Open
  <1>b. log \in Seq(Record) /\ generations \in Nat /\ visible = Some(st)
    BY <1>0, <1>a DEF ShapeInv
  <1>c. SoundIn(st, log, blobs, generations) /\ SoundIn(NoState, log, blobs, generations)
    BY <1>0, <1>a, <1>b, NoStateSound DEF StatesInv
  <1>1. CASE /\ index' = [Closed EXCEPT !.phase = "ready", !.state = st, !.opening = TRUE]
             /\ UNCHANGED generations
    <2>1. /\ index' \in [phase : {"closed", "ready", "publishing", "fenced"}, state : {index'.state},
                         next : {index'.next}, opening : BOOLEAN]
          /\ index'.phase = "ready" /\ index'.state = st /\ index'.next = NoState
      BY <1>1 DEF Closed
    <2> HIDE DEF st
    <2>2. ShapeInv'
      BY <1>0, <1>1, <1>a, <2>1 DEF ShapeInv
    <2>3. StatesInv'
      BY <1>0, <1>1, <1>a, <1>c, <2>1 DEF StatesInv
    <2>4. RevisionInv'
      BY <1>a, <1>b, <2>1 DEF RevisionInv
    <2>5. ConsumerInv'
      BY <1>0, <1>a, <2>1 DEF ConsumerInv
    <2> QED BY <2>2, <2>3, <2>4, <2>5 DEF Inv
  <1>2. CASE /\ index' = [Closed EXCEPT !.phase = "publishing", !.state = st, !.next = n,
                                       !.opening = TRUE]
             /\ generations' = generations + 1
    <2>1. /\ index' \in [phase : {"closed", "ready", "publishing", "fenced"}, state : {index'.state},
                         next : {index'.next}, opening : BOOLEAN]
          /\ index'.phase = "publishing" /\ index'.state = st /\ index'.next = n
      BY <1>2 DEF Closed
    <2> HIDE DEF st
    <2>n. n = [st EXCEPT !.generation = generations + 1]
      OBVIOUS
    <2> HIDE DEF n
    <2>2. /\ generations + 1 \in Nat /\ generations <= generations + 1
          /\ generations + 1 \in 0 .. generations + 1
      BY <1>b, SMT
    <2>3. SoundIn(n, log, blobs, generations + 1) /\ n.generation = generations + 1
      BY <1>c, <2>2, <2>n, GenerationSet, SMT
    <2>4. SoundIn(st, log, blobs, generations + 1)
      BY <1>b, <1>c, <2>2, SoundLater
    <2>5. ShapeInv'
      <3>1. consumer' \in [generation : 0 .. generations', position : Nat, rows : {consumer'.rows}]
        BY <1>0, <1>2, <1>a, <1>b, SMT DEF ShapeInv
      <3> QED BY <1>0, <1>2, <1>a, <2>1, <2>2, <3>1 DEF ShapeInv
    <2>6. StatesInv'
      <3>1. visible'[1] = st
        BY <1>a DEF st
      <3> QED BY <1>2, <1>a, <2>1, <2>3, <2>4, <3>1 DEF StatesInv
    <2>7. RevisionInv'
      <3>1. st.generation \in 0 .. generations /\ consumer.generation \in 0 .. generations
        BY <1>0, <1>c DEF ShapeInv, SoundIn
      <3>2. Newer(n, st, consumer)
        BY <1>b, <2>3, <3>1, SMT DEF Newer
      <3>3. Newer(index'.next, index'.state, consumer') /\ visible' = Some(index'.state)
        BY <1>a, <1>b, <2>1, <3>2
      <3> QED BY <2>1, <3>3 DEF RevisionInv
    <2>8. ConsumerInv'
      BY <1>0, <1>a, <2>1 DEF ConsumerInv
    <2> QED BY <2>5, <2>6, <2>7, <2>8 DEF Inv
  <1> QED BY <1>1, <1>2 DEF Open

\* A rebuild is of a generation nobody has seen.
LEMMA RebuildStep == Inv /\ Rebuild => Inv'
  <1> SUFFICES ASSUME Inv, Rebuild
               PROVE  Inv'
    OBVIOUS
  <1>0. ShapeInv /\ StatesInv /\ RevisionInv /\ ConsumerInv
    BY DEF Inv
  <1>a. log \in Seq(Record) /\ generations \in Nat
    BY <1>0 DEF ShapeInv
  <1> DEFINE n == build
             o == (index.phase = "closed")
  <1>b. SoundIn(n, log, blobs, generations + 1) /\ n.generation = generations + 1
    BY <1>a, BuiltSound
  <1>c. index' = [index EXCEPT !.phase = "publishing", !.next = n, !.opening = o]
        /\ generations' = generations + 1 /\ UNCHANGED <<log, blobs, visible, consumer>>
        /\ (index.phase = "closed" \/ index.phase = "ready")
    BY DEF Rebuild
  <1>d. o \in BOOLEAN /\ (o <=> index.phase = "closed")
    OBVIOUS
  <1> HIDE DEF n, o
  <1>1. /\ index' \in [phase : {"closed", "ready", "publishing", "fenced"}, state : {index'.state},
                       next : {index'.next}, opening : BOOLEAN]
        /\ index'.phase = "publishing" /\ index'.state = index.state /\ index'.next = n
        /\ index'.opening = o
    BY <1>0, <1>c, <1>d DEF ShapeInv
  <1>2. ShapeInv'
    <2>1. consumer' \in [generation : 0 .. generations', position : Nat, rows : {consumer'.rows}]
      BY <1>0, <1>a, <1>c, SMT DEF ShapeInv
    <2> QED BY <1>0, <1>a, <1>c, <1>1, <2>1, SMT DEF ShapeInv
  <1>3. StatesInv'
    <2>3. generations + 1 \in Nat /\ generations <= generations + 1
      BY <1>a, SMT
    <2>4. SoundIn(index.state, log, blobs, generations + 1)
      BY <1>0, <1>a, <2>3, SoundLater DEF StatesInv
    <2>5. visible # None => SoundIn(visible[1], log, blobs, generations + 1)
      BY <1>0, <1>a, <2>3, SoundLater DEF StatesInv
    <2> QED BY <1>1, <1>b, <1>c, <2>4, <2>5 DEF StatesInv
  <1>4. RevisionInv'
    <2>1. index.state.generation \in 0 .. generations /\ consumer.generation \in 0 .. generations
      BY <1>0 DEF ShapeInv, StatesInv, SoundIn
    <2>2. Newer(n, index.state, consumer)
      BY <1>a, <1>b, <2>1, SMT DEF Newer
    <2>3. visible = Some(index.state) \/ (index.state = NoState /\ o)
      BY <1>0, <1>c, <1>d DEF RevisionInv
    <2>4. Newer(index'.next, index'.state, consumer')
      BY <1>1, <1>c, <2>2
    <2>5. visible' = Some(index'.state) \/ (index'.state = NoState /\ index'.opening)
      BY <1>1, <1>c, <2>3
    <2> QED BY <1>1, <2>4, <2>5 DEF RevisionInv
  <1>5. ConsumerInv'
    BY <1>0, <1>c, <1>1 DEF ConsumerInv
  <1> QED BY <1>2, <1>3, <1>4, <1>5 DEF Inv

\* A refresh prepares what extends the state, or does nothing.
LEMMA RefreshStep == Inv /\ Refresh => Inv'
  <1> SUFFICES ASSUME Inv, Refresh
               PROVE  Inv'
    OBVIOUS
  <1>0. ShapeInv /\ StatesInv /\ RevisionInv /\ ConsumerInv
    BY DEF Inv
  <1>a. log \in Seq(Record) /\ SoundIn(index.state, log, blobs, generations)
    BY <1>0 DEF ShapeInv, StatesInv
  <1>b. UNCHANGED <<log, blobs, visible, generations, consumer>> /\ index.phase = "ready"
        /\ visible = Some(index.state)
    BY <1>0 DEF Refresh, RevisionInv
  <1> DEFINE n == refreshed(index.state)
  <1>c. SoundIn(n, log, blobs, generations) /\ Extends(n, index.state)
    BY <1>a, RefreshedExtends
  <1>d. \/ index' = [index EXCEPT !.phase = "publishing", !.next = n]
        \/ index' = [index EXCEPT !.opening = FALSE]
    BY DEF Refresh
  <1> HIDE DEF n
  <1>1. CASE index' = [index EXCEPT !.phase = "publishing", !.next = n]
    <2>1. /\ index' \in [phase : {"closed", "ready", "publishing", "fenced"}, state : {index'.state},
                         next : {index'.next}, opening : BOOLEAN]
          /\ index'.phase = "publishing" /\ index'.state = index.state /\ index'.next = n
      BY <1>0, <1>1 DEF ShapeInv
    <2>2. ShapeInv'
      BY <1>0, <1>b, <2>1 DEF ShapeInv
    <2>3. StatesInv'
      BY <1>0, <1>b, <1>c, <2>1 DEF StatesInv
    <2>4. RevisionInv'
      <3>1. Extends(index'.next, index'.state) /\ visible' = Some(index'.state)
        BY <1>b, <1>c, <2>1
      <3> QED BY <2>1, <3>1 DEF RevisionInv
    <2>5. ConsumerInv'
      BY <1>0, <1>b, <2>1, SMT DEF ConsumerInv
    <2> QED BY <2>2, <2>3, <2>4, <2>5 DEF Inv
  <1>2. CASE index' = [index EXCEPT !.opening = FALSE]
    <2>1. /\ index' \in [phase : {"closed", "ready", "publishing", "fenced"}, state : {index'.state},
                         next : {index'.next}, opening : BOOLEAN]
          /\ index'.phase = "ready" /\ index'.state = index.state /\ index'.next = index.next
      BY <1>0, <1>2, <1>b DEF ShapeInv
    <2>2. ShapeInv'
      BY <1>0, <1>b, <2>1 DEF ShapeInv
    <2>3. StatesInv'
      BY <1>0, <1>b, <2>1 DEF StatesInv
    <2>4. RevisionInv'
      BY <1>b, <2>1 DEF RevisionInv
    <2>5. ConsumerInv'
      BY <1>0, <1>b, <2>1 DEF ConsumerInv
    <2> QED BY <2>2, <2>3, <2>4, <2>5 DEF Inv
  <1> QED BY <1>d, <1>1, <1>2

\* The consumer follows what is about to be published.
LEMMA NextFollowed ==
    ASSUME Inv, index.phase = "publishing"
    PROVE  FollowsIn(index.next, consumer)
  <1>0. ShapeInv /\ StatesInv /\ RevisionInv /\ ConsumerInv
    BY DEF Inv
  <1>1. /\ index.next.generation \in 0 .. generations /\ consumer.generation \in 0 .. generations
        /\ generations \in Nat /\ consumer.position \in Nat
        /\ JournalOf(index.next) /\ JournalOf(index.state)
    BY <1>0 DEF ShapeInv, StatesInv, SoundIn
  <1>2. CASE Newer(index.next, index.state, consumer)
    <2>1. index.next.generation # consumer.generation
      BY <1>1, <1>2, SMT DEF Newer
    <2> QED BY <2>1 DEF FollowsIn
  <1>3. CASE Extends(index.next, index.state) /\ visible = Some(index.state)
    <2>1. visible # None /\ visible[1] = index.state
      BY <1>3 DEF Some, None
    <2>2. FollowsIn(index.state, consumer)
      BY <1>0, <2>1 DEF ConsumerInv
    <2> QED BY <1>1, <1>3, <2>2, FollowsOn
  <1> QED BY <1>0, <1>2, <1>3 DEF RevisionInv

\* A published state is the one the handle holds.
LEMMA PublishStep == Inv /\ Publish => Inv'
  <1> SUFFICES ASSUME Inv, Publish
               PROVE  Inv'
    OBVIOUS
  <1>0. ShapeInv /\ StatesInv /\ RevisionInv /\ ConsumerInv
    BY DEF Inv
  <1> DEFINE o == index.opening /\ index.state.generation # index.next.generation
             next == index.next
  <1>a. /\ index.phase = "publishing" /\ visible' = Some(next)
        /\ UNCHANGED <<log, blobs, generations, consumer>>
        /\ index' = [index EXCEPT !.phase = "ready", !.state = next, !.next = NoState, !.opening = o]
    BY DEF Publish, PublishTo
  <1>b. o \in BOOLEAN
    OBVIOUS
  <1>c. FollowsIn(next, consumer)
    BY <1>a, NextFollowed
  <1>d. SoundIn(next, log, blobs, generations)
    BY <1>0 DEF StatesInv
  <1> HIDE DEF o, next
  <1>1. /\ index' \in [phase : {"closed", "ready", "publishing", "fenced"}, state : {index'.state},
                       next : {index'.next}, opening : BOOLEAN]
        /\ index'.phase = "ready" /\ index'.state = next /\ index'.next = NoState
    BY <1>0, <1>a, <1>b DEF ShapeInv
  <1>2. visible' = Some(next) /\ visible'[1] = next /\ visible' # None
    BY <1>a DEF Some, None
  <1>3. ShapeInv'
    BY <1>0, <1>a, <1>1, <1>2 DEF ShapeInv
  <1>4. StatesInv'
    <2>1. SoundIn(NoState, log, blobs, generations)
      BY <1>0, NoStateSound DEF ShapeInv
    <2> QED BY <1>a, <1>d, <1>1, <1>2, <2>1, SMT DEF StatesInv
  <1>5. RevisionInv'
    BY <1>1, <1>2 DEF RevisionInv
  <1>6. ConsumerInv'
    BY <1>a, <1>c, <1>1, <1>2 DEF ConsumerInv
  <1> QED BY <1>3, <1>4, <1>5, <1>6 DEF Inv

\* After a failed publication the root is the old one or the new one, and the
\* handle is fenced or dropped.
LEMMA PublishFailsStep == Inv /\ PublishFails => Inv'
  <1> SUFFICES ASSUME Inv, PublishFails
               PROVE  Inv'
    OBVIOUS
  <1>0. ShapeInv /\ StatesInv /\ RevisionInv /\ ConsumerInv
    BY DEF Inv
  <1>a. /\ index.phase = "publishing" /\ index' = Fenced
        /\ visible' = visible \/ visible' = Some(index.next)
        /\ UNCHANGED <<log, blobs, generations, consumer>>
    BY DEF PublishFails, PublishTo
  <1>b. FollowsIn(index.next, consumer)
    BY <1>a, NextFollowed
  <1>c. SoundIn(NoState, log, blobs, generations)
    BY <1>0, NoStateSound DEF ShapeInv
  <1>d. visible' = Some(index.next) => visible' # None /\ visible'[1] = index.next
    BY SMT DEF Some, None
  <1>1. /\ visible' = None \/ visible' = Some(visible'[1])
        /\ visible' # None => SoundIn(visible'[1], log, blobs, generations)
        /\ visible' # None => FollowsIn(visible'[1], consumer)
    BY <1>0, <1>a, <1>b, <1>d, SMT DEF ShapeInv, StatesInv, ConsumerInv
  <1>2. CASE index.opening
    <2>1. index' = Closed
      BY <1>a, <1>2 DEF Fenced
    <2>2. /\ index' \in [phase : {"closed", "ready", "publishing", "fenced"}, state : {index'.state},
                         next : {index'.next}, opening : BOOLEAN]
          /\ index'.phase = "closed" /\ index'.state = NoState /\ index'.next = NoState
      BY <2>1 DEF Closed
    <2>3. ShapeInv'
      BY <1>0, <1>a, <1>1, <2>2 DEF ShapeInv
    <2>4. StatesInv'
      BY <1>a, <1>c, <1>1, <2>2 DEF StatesInv
    <2>5. RevisionInv'
      BY <2>2 DEF RevisionInv
    <2>6. ConsumerInv'
      BY <1>a, <1>1, <2>2, SMT DEF ConsumerInv
    <2> QED BY <2>3, <2>4, <2>5, <2>6 DEF Inv
  <1>3. CASE ~index.opening
    <2>1. index' = [index EXCEPT !.phase = "fenced", !.next = NoState]
      BY <1>a, <1>3 DEF Fenced
    <2>2. /\ index' \in [phase : {"closed", "ready", "publishing", "fenced"}, state : {index'.state},
                         next : {index'.next}, opening : BOOLEAN]
          /\ index'.phase = "fenced" /\ index'.state = index.state /\ index'.next = NoState
      BY <1>0, <2>1 DEF ShapeInv
    <2>3. visible = Some(index.state)
          /\ (Newer(index.next, index.state, consumer) \/ Extends(index.next, index.state))
      BY <1>0, <1>3, <1>a DEF RevisionInv
    <2>4. visible # None /\ visible[1] = index.state
      BY <2>3 DEF Some, None
    <2>5. ShapeInv'
      BY <1>0, <1>a, <1>1, <2>2 DEF ShapeInv
    <2>6. StatesInv'
      BY <1>0, <1>a, <1>c, <1>1, <2>2, SMT DEF StatesInv
    <2>7. RevisionInv'
      <3>1. CASE visible' = visible
        <4>1. visible' # None /\ visible'[1] = index'.state
          BY <2>2, <2>4, <3>1
        <4> QED BY <2>2, <4>1 DEF RevisionInv
      <3>2. CASE visible' = Some(index.next)
        <4>1. visible' # None /\ visible'[1] = index.next
          BY <1>d, <3>2
        <4>2. Newer(visible'[1], index'.state, consumer') \/ Extends(visible'[1], index'.state)
          BY <1>a, <2>2, <2>3, <4>1
        <4> QED BY <2>2, <4>1, <4>2 DEF RevisionInv
      <3> QED BY <1>a, <3>1, <3>2
    <2>8. ConsumerInv'
      <3>1. FollowsIn(index.state, consumer)
        BY <1>0, <2>4, SMT DEF ConsumerInv
      <3> QED BY <1>a, <1>1, <2>2, <3>1 DEF ConsumerInv
    <2> QED BY <2>5, <2>6, <2>7, <2>8 DEF Inv
  <1> QED BY <1>2, <1>3

\* A dropped handle leaves the root.
LEMMA CloseStep == Inv /\ Close => Inv'
  <1> SUFFICES ASSUME Inv, Close
               PROVE  Inv'
    OBVIOUS
  <1>0. ShapeInv /\ StatesInv /\ RevisionInv /\ ConsumerInv
    BY DEF Inv
  <1>1. /\ UNCHANGED <<log, blobs, visible, generations, consumer>>
        /\ index' \in [phase : {"closed", "ready", "publishing", "fenced"}, state : {index'.state},
                       next : {index'.next}, opening : BOOLEAN]
        /\ index'.phase = "closed" /\ index'.state = NoState /\ index'.next = NoState
    BY DEF Close, Closed
  <1>2. ShapeInv'
    BY <1>0, <1>1 DEF ShapeInv
  <1>3. StatesInv'
    <2>1. SoundIn(NoState, log, blobs, generations)
      BY <1>0, NoStateSound DEF ShapeInv
    <2> QED BY <1>0, <1>1, <2>1 DEF StatesInv
  <1>4. RevisionInv'
    BY <1>1 DEF RevisionInv
  <1>5. ConsumerInv'
    BY <1>0, <1>1, SMT DEF ConsumerInv
  <1> QED BY <1>2, <1>3, <1>4, <1>5 DEF Inv

\* Reading the journal, the consumer goes on following the state it read.
LEMMA CatchUpFollows ==
    ASSUME Inv, NEW limit \in 1 .. Retained, CatchUp(limit), FollowsIn(index.state, consumer)
    PROVE  /\ FollowsIn(index.state, consumer') /\ consumer'.generation = index.state.generation
           /\ consumer' \in [generation : 0 .. generations, position : Nat, rows : {consumer'.rows}]
  <1> DEFINE st == index.state
             c == consumer
             T == Batch(st, c, limit)
  <1>1. /\ JournalOf(st) /\ st.generation \in 0 .. generations
        /\ c.position \in Nat /\ c.generation \in 0 .. generations /\ limit \in Nat \ {0}
    BY IndexAssumption, SMT DEF Inv, ShapeInv, StatesInv, SoundIn
  <1>2. CASE since(st, limit) = None
    <2>1. consumer' = [generation |-> st.generation, position |-> st.position, rows |-> Rows(st)]
      BY <1>2 DEF CatchUp
    <2> HIDE DEF st
    <2>2. FollowsIn(st, consumer') /\ consumer'.generation = st.generation /\ consumer'.position \in Nat
      BY <1>1, <2>1, TakenWhole
    <2>3. consumer' \in [generation : 0 .. generations, position : Nat, rows : {consumer'.rows}]
      BY <1>1, <2>1, <2>2
    <2> QED BY <2>2, <2>3 DEF st
  <1>3. CASE since(st, limit) # None
    <2>1. c.generation = st.generation /\ ~(c.position > st.position) /\ Reaches(st, c)
          /\ since(st, limit) = Some(T)
      BY <1>3 DEF since, Reaches, Batch
    <2>2. since(st, limit)[1] = T
      BY <2>1, SMT DEF Some
    <2>3. consumer' = Taken(st, c, T)
      BY <1>3, <2>2 DEF CatchUp, Taken
    <2>4. c.position <= st.position
      BY <1>1, <2>1, SMT DEF JournalOf
    <2>5. FollowsIn(st, c) /\ T = Batch(st, c, limit)
      OBVIOUS
    <2> HIDE DEF st, c, T
    <2>7. FollowsIn(st, consumer') /\ consumer'.generation = st.generation /\ consumer'.position \in Nat
      BY <1>1, <2>1, <2>3, <2>4, <2>5, TakenFromJournal, SMT
    <2>8. consumer' \in [generation : 0 .. generations, position : Nat, rows : {consumer'.rows}]
      BY <1>1, <2>3, <2>7 DEF Taken
    <2> QED BY <2>7, <2>8 DEF st
  <1> QED BY <1>2, <1>3, SMT

\* The consumer reads only states that are published, or that a published one
\* extends.
LEMMA CatchUpStep ==
    ASSUME Inv, NEW limit \in 1 .. Retained, CatchUp(limit)
    PROVE  Inv'
  <1>0. ShapeInv /\ StatesInv /\ RevisionInv /\ ConsumerInv
    BY DEF Inv
  <1>a. UNCHANGED <<log, blobs, visible, index, generations>> /\ Readable
    BY DEF CatchUp
  <1>b. index.phase \in {"ready", "publishing", "fenced"} /\ ~index.opening
    BY <1>a DEF Readable
  <1>c. visible = Some(index.state) => visible # None /\ visible[1] = index.state
    BY SMT DEF Some, None
  <1>d. index.phase # "fenced" => visible = Some(index.state)
    BY <1>0, <1>b DEF RevisionInv
  <1>1. FollowsIn(index.state, consumer)
    BY <1>0, <1>c, <1>d DEF ConsumerInv
  <1>2. /\ FollowsIn(index.state, consumer') /\ consumer'.generation = index.state.generation
        /\ consumer' \in [generation : 0 .. generations, position : Nat, rows : {consumer'.rows}]
    BY <1>1, CatchUpFollows
  <1>3. ShapeInv'
    BY <1>0, <1>a, <1>2 DEF ShapeInv
  <1>4. StatesInv'
    BY <1>0, <1>a DEF StatesInv
  <1>5. \A st : Newer(st, index.state, consumer) => Newer(st, index.state, consumer')
    BY <1>2 DEF Newer
  <1>6. RevisionInv'
    <2>1. CASE index.phase = "ready"
      BY <1>0, <1>a, <2>1 DEF RevisionInv
    <2>2. CASE index.phase = "publishing"
      <3>1. visible = Some(index.state)
        BY <1>d, <2>2
      <3>2. Newer(index.next, index.state, consumer') \/ Extends(index.next, index.state)
        BY <1>0, <1>5, <2>2 DEF RevisionInv
      <3> QED BY <1>a, <2>2, <3>1, <3>2 DEF RevisionInv
    <2>3. CASE index.phase = "fenced"
      <3>1. visible # None
            /\ \/ visible[1] = index.state
               \/ Newer(visible[1], index.state, consumer')
               \/ Extends(visible[1], index.state)
        BY <1>0, <1>5, <2>3 DEF RevisionInv
      <3> QED BY <1>a, <2>3, <3>1 DEF RevisionInv
    <2> QED BY <1>b, <2>1, <2>2, <2>3
  <1>7. visible # None => FollowsIn(visible[1], consumer')
    <2>1. CASE index.phase # "fenced"
      BY <1>2, <1>c, <1>d, <2>1
    <2>2. CASE index.phase = "fenced" /\ visible[1] = index.state
      BY <1>2, <2>2
    <2>3. CASE Newer(visible[1], index.state, consumer) /\ visible # None
      <3>1. visible[1].generation \in 0 .. generations /\ index.state.generation \in 0 .. generations
            /\ generations \in Nat
        BY <1>0, <2>3 DEF StatesInv, SoundIn, ShapeInv
      <3>2. visible[1].generation # consumer'.generation
        BY <1>2, <2>3, <3>1, SMT DEF Newer
      <3> QED BY <3>2 DEF FollowsIn
    <2>4. CASE Extends(visible[1], index.state) /\ visible # None
      <3>1. JournalOf(visible[1]) /\ JournalOf(index.state)
        BY <1>0, <2>4 DEF StatesInv, SoundIn
      <3>2. consumer'.position \in Nat
        BY <1>2
      <3> QED BY <1>2, <2>4, <3>1, <3>2, FollowsOn
    <2> QED BY <1>0, <2>1, <2>2, <2>3, <2>4 DEF RevisionInv
  <1>8. ConsumerInv'
    BY <1>2, <1>7, <1>a DEF ConsumerInv
  <1> QED BY <1>3, <1>4, <1>6, <1>8 DEF Inv

\* The chain grows.
LEMMA AppendRecordStep ==
    ASSUME Inv, NEW r \in Record, AppendRecord(r)
    PROVE  Inv'
  <1>0. ShapeInv /\ StatesInv /\ RevisionInv /\ ConsumerInv
    BY DEF Inv
  <1>1. log' = Append(log, r) /\ UNCHANGED <<blobs, visible, index, generations, consumer>>
    BY DEF AppendRecord
  <1>2. log \in Seq(Record) /\ log' \in Seq(Record) /\ generations \in Nat
    BY <1>0, <1>1, SMT DEF ShapeInv
  <1>3. ShapeInv'
    BY <1>0, <1>1, <1>2 DEF ShapeInv
  <1>4. \A st : SoundIn(st, log, blobs, generations) => SoundIn(st, log', blobs, generations)
    <2>1. \E x \in Record : log' = Append(log, x)
      BY <1>1
    <2>2. generations <= generations
      BY <1>2, SMT
    <2> QED BY <1>2, <2>1, <2>2, SoundLater
  <1>5. StatesInv'
    BY <1>0, <1>1, <1>4 DEF StatesInv
  <1>6. RevisionInv'
    BY <1>0, <1>1 DEF RevisionInv
  <1>7. ConsumerInv'
    BY <1>0, <1>1 DEF ConsumerInv
  <1> QED BY <1>3, <1>5, <1>6, <1>7 DEF Inv

\* Blobs arrive, and what is available stays so.
LEMMA BlobArrivesStep ==
    ASSUME Inv, NEW ref \in Ref, NEW state \in ContentState, BlobArrives(ref, state)
    PROVE  Inv'
  <1>0. ShapeInv /\ StatesInv /\ RevisionInv /\ ConsumerInv
    BY DEF Inv
  <1>1. blobs' = [blobs EXCEPT ![ref] = state] /\ blobs[ref] # "Available"
        /\ UNCHANGED <<log, visible, index, generations, consumer>>
    BY DEF BlobArrives
  <1>2. log \in Seq(Record) /\ generations \in Nat /\ blobs \in [Ref -> ContentState]
    BY <1>0 DEF ShapeInv
  <1>3. blobs' \in [Ref -> ContentState]
    BY <1>1, <1>2
  <1>4. ShapeInv'
    BY <1>0, <1>1, <1>3 DEF ShapeInv
  <1>5. ASSUME NEW st, SoundIn(st, log, blobs, generations)
        PROVE  SoundIn(st, log, blobs', generations)
    <2>1. DOMAIN st.states \subseteq Ref
      <3>1. st.pos \in 0 .. Len(log) /\ DOMAIN st.states = RefsIn(accepted(Chain(log, st.pos)))
        BY <1>5 DEF SoundIn, DerivedOf
      <3>2. Chain(log, st.pos) \subseteq Record
        BY <1>2, <3>1, ChainFacts
      <3> QED BY <3>1, <3>2, IndexAssumption DEF RefsIn, accepted
    <2>2. \A x \in DOMAIN st.states : blobs[x] = "Available" => blobs'[x] = "Available"
      BY <1>1, <1>2, <2>1
    <2>3. generations <= generations
      BY <1>2, SMT
    <2> QED BY <1>2, <1>5, <2>2, <2>3, SoundLater
  <1>6. StatesInv'
    BY <1>0, <1>1, <1>5 DEF StatesInv
  <1>7. RevisionInv'
    BY <1>0, <1>1 DEF RevisionInv
  <1>8. ConsumerInv'
    BY <1>0, <1>1 DEF ConsumerInv
  <1> QED BY <1>4, <1>6, <1>7, <1>8 DEF Inv
-----------------------------------------------------------------------------
\* The invariant, for any chain, any blobs and any number of crashes.
THEOREM IndexInvariant == IndexSpec => []Inv
  <1>1. IndexInit => Inv
    BY InitInv
  <1>2. Inv /\ [IndexNext]_indexVars => Inv'
    <2> SUFFICES ASSUME Inv, [IndexNext]_indexVars
                 PROVE  Inv'
      OBVIOUS
    <2>1. CASE UNCHANGED indexVars
      BY <2>1 DEF indexVars, Inv, ShapeInv, StatesInv, RevisionInv, ConsumerInv
    <2>2. CASE IndexNext
      BY <2>2, OpenStep, RebuildStep, RefreshStep, PublishStep, PublishFailsStep, CloseStep,
         CatchUpStep, AppendRecordStep, BlobArrivesStep, SMT DEF IndexNext
    <2> QED BY <2>1, <2>2
  <1> QED BY <1>1, <1>2, PTL DEF IndexSpec

\* Incremental maintenance is exact: the state of the handle, the one being
\* published and the published root are each what State::build would derive
\* from the records read, over any history of refreshes and crashes.
THEOREM IncrementalIsExact == IndexSpec => []IncrementalExact
  <1>1. Inv => IncrementalExact
    <2>1. \A st : SoundIn(st, log, blobs, generations) => Derived(st)
      BY DEF SoundIn, DerivedOf, Derived, Chain, ChainTo, KeysIn, RefsIn, Pairs
    <2> QED BY <2>1 DEF Inv, StatesInv, IncrementalExact
  <1> QED BY <1>1, IndexInvariant, PTL

\* A consumer at the index's revision has exactly the index's rows: the
\* journal named every row that changed since its position, or told it to
\* start over.
THEOREM ConsumerIsExact == IndexSpec => []ConsumerExact
  <1>1. Inv => ConsumerExact
    <2> SUFFICES ASSUME Inv, Readable, consumer.generation = index.state.generation,
                        consumer.position = index.state.position
                 PROVE  consumer.rows = Rows(index.state)
      BY DEF ConsumerExact
    <2>1. index.phase \in {"ready", "publishing", "fenced"} /\ ~index.opening
      BY DEF Readable
    <2>2. index.phase = "fenced" \/ visible = Some(index.state)
      BY <2>1 DEF Inv, RevisionInv
    <2>3. visible = Some(index.state) => visible # None /\ visible[1] = index.state
      BY SMT DEF Some, None
    <2>4. FollowsIn(index.state, consumer) /\ JournalOf(index.state)
      BY <2>2, <2>3 DEF Inv, ConsumerInv, StatesInv, SoundIn
    <2> QED BY <2>4, SameRevision
  <1> QED BY <1>1, IndexInvariant, PTL

\* A refresh that publishes nothing has seen everything: nothing was appended,
\* and each content state in the index is what the blob store answers.
THEOREM QuietRefreshIsComplete == IndexSpec => QuietRefreshComplete
  <1>1. Inv /\ [IndexNext]_indexVars => [QuietStep]_indexVars
    <2> SUFFICES ASSUME Inv, Refresh, index'.phase = "ready",
                        NEW ref \in DOMAIN index.state.states
                 PROVE  index.state.states[ref] = blobs[ref]
      BY DEF QuietStep
    <2> DEFINE st == index.state
               A == Chain(log, st.pos)
               B == Chain(log, Len(log))
               R == Removed(log, st.pos)
               kept == Kept(A, R)
    <2>1. ~(st.pos < Len(log)) /\ content_changed(st) = {}
      <3>1. ASSUME st.pos < Len(log) \/ content_changed(st) # {}
            PROVE  FALSE
        <4>1. index' = [index EXCEPT !.phase = "publishing", !.next = refreshed(st)]
          BY <3>1 DEF Refresh
        <4>2. index'.phase = "publishing"
          BY <4>1 DEF Inv, ShapeInv
        <4> QED BY <4>2
      <3> QED BY <3>1
    <2>2. SoundIn(st, log, blobs, generations) /\ log \in Seq(Record)
      BY DEF Inv, StatesInv, ShapeInv
    <2>3. DerivedOf(st, A) /\ StillAvailable(st, blobs) /\ st.pos \in 0 .. Len(log)
      BY <2>2 DEF SoundIn
    <2>4. st.pos = Len(log) /\ Len(log) \in Nat
      BY <2>1, <2>2, <2>3, SMT
    <2>5. R = {} /\ Gained(A, B) = {}
      <3>1. Len(log) + 1 .. Len(log) = {}
        BY <2>4, SMT
      <3>2. R = {}
        BY <2>4, <3>1 DEF Removed
      <3>3. A = B
        BY <2>4
      <3>4. Gained(A, B) = {}
        BY <3>3 DEF Gained, IdsIn, accepted
      <3> QED BY <3>2, <3>4
    <2>6. kept = accepted(A)
      BY <2>5 DEF Kept
    <2>7. PICK r \in accepted(A) : ref \in RefsOf[r]
      BY <2>3 DEF DerivedOf, RefsIn
    <2>8. ref \in Ref
      <3>1. A \subseteq Record
        BY <2>2, <2>3, ChainFacts
      <3> QED BY <2>7, <3>1, IndexAssumption DEF accepted
    <2>9. \A k \in kept, x \in Ref :
            x \in RefsOf[k] /\ x \in st.pending /\ blobs[x] # st.states[x]
              => IdOf[k] \in content_changed(st) \cup IdsIn(Gained(A, B)) \cup R
      BY <2>2, ContentMeans, SMT
    <2>10. IdsIn({}) = {}
      BY DEF IdsIn
    <2>11. ~(ref \in st.pending /\ blobs[ref] # st.states[ref])
      BY <2>1, <2>5, <2>6, <2>7, <2>8, <2>9, <2>10
    <2>12. CASE ref \in st.pending
      BY <2>11, <2>12
    <2>13. CASE ref \notin st.pending
      <3>1. st.states[ref] = "Available"
        BY <2>3, <2>13 DEF DerivedOf
      <3> QED BY <2>3, <3>1 DEF StillAvailable
    <2> QED BY <2>12, <2>13
  <1> QED BY <1>1, IndexInvariant, PTL DEF IndexSpec, QuietRefreshComplete
=============================================================================
