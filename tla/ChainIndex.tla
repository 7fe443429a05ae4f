----------------------------- MODULE ChainIndex -----------------------------
(***************************************************************************)
(* The derived index of a chain (editchain-index): records, postings and   *)
(* content availability kept up to date by refresh, published as a         *)
(* checkpoint, with a bounded journal of changes for consumers that keep   *)
(* an index of their own.                                                  *)
(*                                                                         *)
(* The chain is the sequence of its records in reading order; Tail models  *)
(* how they are read.  A reference is content an operation refers to.      *)
(***************************************************************************)
EXTENDS OpSet, FiniteSets

CONSTANTS
    Key,            \* facts a record is filed under
    KeysOf,         \* keys of a record
    Ref,            \* content references
    RefsOf,         \* references of a record
    Retained,       \* RETAINED_CHANGES
    MaxLog,         \* bound: records in the chain
    MaxGenerations  \* bound: generations

ASSUME IndexAssumption ==
    /\ OpId \subseteq Nat
    /\ KeysOf \in [Record -> SUBSET Key]
    /\ RefsOf \in [Record -> SUBSET Ref]
    /\ Retained \in Nat \ {0} /\ MaxLog \in Nat /\ MaxGenerations \in Nat

VARIABLES
    log,            \* the chain
    blobs,          \* blobs[ref]: what the blob store answers for a reference
    visible,        \* the published root: at most one state
    index,          \* the open handle
    generations,    \* number of generations so far
    consumer        \* a dependent index: the revision it is at and its rows

indexVars == <<log, blobs, visible, index, generations, consumer>>

ContentState == {"Available", "Missing", "Corrupt"}

ChainTo(n) == {log[i] : i \in 1 .. n}

IdsIn(records) == {IdOf[r] : r \in records}

InOrder(ids) ==
    CHOOSE s \in [1 .. Cardinality(ids) -> ids] :
        \A i, j \in 1 .. Cardinality(ids) : i < j => s[i] < s[j]

\* An optional value is a sequence of length at most one.
None == << >>
Some(v) == <<v>>
-----------------------------------------------------------------------------
(* The derived state.  records are the accepted ones, postings pairs of    *)
(* key and identity, owners pairs of reference and identity; states and    *)
(* pending are the content index; items holds the keys ever seen.          *)

NoState == [pos |-> 0, records |-> {}, identities |-> {}, items |-> {}, postings |-> {},
            owners |-> {}, states |-> << >>, pending |-> {},
            generation |-> 0, position |-> 0, entries |-> << >>]

\* ContentIndex::add and State::add for the records of a set.
added_to(st, new) ==
    LET refs  == UNION {RefsOf[r] : r \in new}
        fresh == refs \ DOMAIN st.states
    IN  [st EXCEPT
          !.records = @ \cup new,
          !.identities = @ \cup IdsIn(new),
          !.items = @ \cup UNION {KeysOf[r] : r \in new},
          !.postings = @ \cup UNION {KeysOf[r] \X {IdOf[r]} : r \in new},
          !.owners = @ \cup UNION {RefsOf[r] \X {IdOf[r]} : r \in new},
          !.states = [ref \in DOMAIN @ \cup fresh |-> IF ref \in fresh THEN blobs[ref] ELSE @[ref]],
          !.pending = @ \cup {ref \in fresh : blobs[ref] # "Available"}]

removed_keeping_entries(st, ids) ==
    LET gone == {r \in st.records : IdOf[r] \in ids}
    IN  [st EXCEPT
          !.records = @ \ gone,
          !.postings = @ \ UNION {KeysOf[r] \X {IdOf[r]} : r \in gone},
          !.owners = @ \ UNION {RefsOf[r] \X {IdOf[r]} : r \in gone}]

\* State::remove: an entry of the content index goes with its last owner.
removed_from(st, ids) ==
    LET gone   == {r \in st.records : IdOf[r] \in ids}
        owners == st.owners \ UNION {RefsOf[r] \X {IdOf[r]} : r \in gone}
        refs   == {o[1] : o \in owners}
    IN  [st EXCEPT
          !.records = @ \ gone,
          !.postings = @ \ UNION {KeysOf[r] \X {IdOf[r]} : r \in gone},
          !.owners = owners,
          !.states = [ref \in refs |-> @[ref]],
          !.pending = @ \cap refs]

\* remember_conflicts: every variant of a conflicted identity is remembered.
remembered(st, ids, n) ==
    [st EXCEPT !.identities = @ \cup ids,
               !.items = @ \cup UNION {KeysOf[r] : r \in {v \in ChainTo(n) : IdOf[v] \in ids}}]

\* ContentIndex::refresh looks again at what was not available.
changed_refs(st) == {ref \in st.pending : blobs[ref] # st.states[ref]}

looked_again_once(st) ==
    [st EXCEPT !.states = [ref \in DOMAIN @ |-> IF ref \in st.pending THEN blobs[ref] ELSE @[ref]],
               !.pending = {ref \in @ : blobs[ref] = "Missing"}]

looked_again(st) ==
    [st EXCEPT !.states = [ref \in DOMAIN @ |-> IF ref \in st.pending THEN blobs[ref] ELSE @[ref]],
               !.pending = {ref \in @ : blobs[ref] # "Available"}]

\* ChangeLog::append for each change, in order.
append(st, changes) ==
    LET last  == st.position + Len(changes)
        first == IF last > Retained THEN last - Retained + 1 ELSE 1
    IN  [st EXCEPT !.position = last,
                   !.entries = [p \in {q \in DOMAIN @ \cup (st.position + 1 .. last) : q >= first} |->
                                  IF p <= st.position THEN @[p] ELSE changes[p - st.position]]]

\* State::build replays everything.
build ==
    LET all  == ChainTo(Len(log))
        kept == added_to(NoState, accepted(all))
    IN  [remembered(kept, conflicts(all), Len(log)) EXCEPT
           !.pos = Len(log), !.generation = generations + 1]
-----------------------------------------------------------------------------
(* refresh.  What a drain of the tail returns, as Tail shows.              *)

drained_added(st) ==
    {r \in accepted(ChainTo(Len(log))) : IdOf[r] \notin IdsIn(ChainTo(st.pos))}

drained_removed(st) ==
    {IdOf[log[i]] : i \in {j \in st.pos + 1 .. Len(log) :
                             classify(ChainTo(j - 1), log[j]) = "Conflict"}}

\* Identities whose content changed, without those that came or went.
content_changed(st) ==
    LET old == removed_from(st, drained_removed(st))
    IN  {o[2] : o \in {p \in old.owners : p[1] \in changed_refs(old)}}
          \ (IdsIn(drained_added(st)) \cup drained_removed(st))

applied(st) ==
    LET gone == remembered(removed_from(st, drained_removed(st)), drained_removed(st), Len(log))
    IN  [added_to(looked_again(gone), drained_added(st)) EXCEPT !.pos = Len(log)]

refreshed_forgetting_content(st) ==
    append(applied(st), InOrder(IdsIn(drained_added(st))) \o InOrder(drained_removed(st)))

refreshed(st) ==
    append(applied(st), InOrder(IdsIn(drained_added(st))) \o InOrder(drained_removed(st))
                          \o InOrder(content_changed(st)))
-----------------------------------------------------------------------------
(* The handle: closed, opening (the refresh inside open is still to come), *)
(* ready, publishing `next`, or fenced after a failed publication.         *)

Closed == [phase |-> "closed", state |-> NoState, next |-> NoState, opening |-> FALSE]

\* open: resume from the published root.  An older root, without a generation,
\* is given one and published again first.
Open ==
    /\ index.phase = "closed"
    /\ visible # None
    /\ \/ /\ visible[1].generation # 0
          /\ index' = [Closed EXCEPT !.phase = "ready", !.state = visible[1], !.opening = TRUE]
          /\ UNCHANGED generations
       \/ /\ visible[1].generation = 0
          /\ generations < MaxGenerations
          /\ index' = [Closed EXCEPT !.phase = "publishing", !.state = visible[1],
                                     !.next = [visible[1] EXCEPT !.generation = generations + 1],
                                     !.opening = TRUE]
          /\ generations' = generations + 1
    /\ UNCHANGED <<log, blobs, visible, consumer>>

\* rebuild_at, open without a root, and rebuild of an open handle.
Rebuild ==
    /\ index.phase = "closed" \/ (index.phase = "ready" /\ ~index.opening)
    /\ generations < MaxGenerations
    /\ index' = [index EXCEPT !.phase = "publishing", !.next = build,
                              !.opening = (index.phase = "closed")]
    /\ generations' = generations + 1
    /\ UNCHANGED <<log, blobs, visible, consumer>>

Refresh ==
    /\ index.phase = "ready"
    /\ IF index.state.pos < Len(log) \/ content_changed(index.state) # {}
       THEN index' = [index EXCEPT !.phase = "publishing", !.next = refreshed(index.state)]
       ELSE index' = [index EXCEPT !.opening = FALSE]
    /\ UNCHANGED <<log, blobs, visible, generations, consumer>>

\* A first state published by open is refreshed before open returns.
PublishTo(handle, roots) ==
    /\ index.phase = "publishing"
    /\ index' = handle
    /\ visible' = roots
    /\ UNCHANGED <<log, blobs, generations, consumer>>

Publish ==
    PublishTo([index EXCEPT !.phase = "ready", !.state = index.next, !.next = NoState,
                            !.opening = @ /\ index.state.generation # index.next.generation],
              Some(index.next))

\* publish sets needs_reopen for good, and open drops the handle.
Fenced == IF index.opening THEN Closed ELSE [index EXCEPT !.phase = "fenced", !.next = NoState]

\* Pages or root.next could not be written, or the new root was renamed but not
\* synced or not read back.
PublishFails == \E roots \in {visible, Some(index.next)} : PublishTo(Fenced, roots)

\* The handle is dropped or its process dies.
Close ==
    /\ index.phase # "closed"
    /\ index' = Closed
    /\ UNCHANGED <<log, blobs, visible, generations, consumer>>
-----------------------------------------------------------------------------
(* A consumer of the journal.  Its rows are the accepted records with the  *)
(* availability of their content.                                          *)

Rows(st) == {[rec |-> r, content |-> [ref \in RefsOf[r] |-> st.states[ref]]] : r \in st.records}

Readable == index.phase \in {"ready", "publishing", "fenced"} /\ ~index.opening

since_ignoring_gap(st, limit) ==
    IF consumer.generation # st.generation \/ consumer.position > st.position
    THEN None
    ELSE Some({p \in DOMAIN st.entries :
                 p > consumer.position /\ p <= consumer.position + limit})

\* changes_since: None when the journal does not reach back that far, else
\* the positions of the changes returned.
since(st, limit) ==
    IF \/ consumer.generation # st.generation
       \/ consumer.position > st.position
       \/ st.entries # << >> /\ \A p \in DOMAIN st.entries : consumer.position + 1 < p
    THEN None
    ELSE Some({p \in DOMAIN st.entries :
                 p > consumer.position /\ p <= consumer.position + limit})

\* The consumer resolves each identity it is told of in the current state.
CatchUp(limit) ==
    LET st    == index.state
        delta == since(st, limit)
    IN  /\ Readable
        /\ IF delta = None
           THEN consumer' = [generation |-> st.generation, position |-> st.position,
                             rows |-> Rows(st)]
           ELSE LET ids == {st.entries[p] : p \in delta[1]}
                IN  consumer' = [generation |-> consumer.generation,
                                 position |-> consumer.position + Cardinality(delta[1]),
                                 rows |-> {w \in consumer.rows : IdOf[w.rec] \notin ids}
                                            \cup {w \in Rows(st) : IdOf[w.rec] \in ids}]
        /\ UNCHANGED <<log, blobs, visible, index, generations>>
-----------------------------------------------------------------------------
\* The chain and the blob store, written by others.
AppendRecord(r) ==
    /\ Len(log) < MaxLog
    /\ log' = Append(log, r)
    /\ UNCHANGED <<blobs, visible, index, generations, consumer>>

\* A blob arrives, damaged perhaps; what is available stays so.
BlobArrives(ref, state) ==
    /\ blobs[ref] # "Available" /\ state # "Missing" /\ state # blobs[ref]
    /\ blobs' = [blobs EXCEPT ![ref] = state]
    /\ UNCHANGED <<log, visible, index, generations, consumer>>

\* There is no index yet, or one of the chain as it was that has no generation;
\* the consumer is at a generation that is gone.
IndexInit ==
    /\ log = << >> \/ \E r \in Record : log = <<r>>
    /\ blobs = [ref \in Ref |-> "Missing"]
    /\ generations = 1
    /\ visible = None \/ visible = Some([build EXCEPT !.generation = 0])
    /\ index = Closed
    /\ consumer = [generation |-> 1, position |-> 0, rows |-> {}]

IndexNext ==
    \/ Open
    \/ Rebuild
    \/ Refresh
    \/ Publish
    \/ PublishFails
    \/ Close
    \/ \E limit \in 1 .. Retained : CatchUp(limit)
    \/ \E r \in Record : AppendRecord(r)
    \/ \E ref \in Ref, state \in ContentState : BlobArrives(ref, state)

IndexSpec == IndexInit /\ [][IndexNext]_indexVars

\* Whoever keeps the index open goes on refreshing it, a publication ends, and
\* the consumer goes on asking.  Weak fairness, with what enables each step
\* written out.
RefreshDue ==
    /\ index.phase = "ready"
    /\ index.opening \/ index.state.pos < Len(log) \/ content_changed(index.state) # {}

Behind ==
    /\ Readable
    /\ <<consumer.generation, consumer.position>> # <<index.state.generation, index.state.position>>

FairIndexSpec ==
    /\ IndexSpec
    /\ []<>~RefreshDue \/ []<><<index.phase = "ready" /\ index'.phase # "closed">>_index
    /\ []<>(index.phase # "publishing")
    /\ []<>~Behind \/ []<><<TRUE>>_consumer
-----------------------------------------------------------------------------
\* Incremental state equals a rebuild: what refresh added and removed over
\* any history is what State::build would derive from the same records, in
\* the open handle and in the published root.
Derived(st) ==
    LET all == ChainTo(st.pos)
        acc == accepted(all)
    IN  /\ st.records = acc
        /\ st.identities = IdsIn(all)
        /\ st.items = UNION {KeysOf[r] : r \in all}
        /\ st.postings = UNION {KeysOf[r] \X {IdOf[r]} : r \in acc}
        /\ st.owners = UNION {RefsOf[r] \X {IdOf[r]} : r \in acc}
        /\ DOMAIN st.states = UNION {RefsOf[r] : r \in acc}
        /\ st.pending = {ref \in DOMAIN st.states : st.states[ref] # "Available"}

IncrementalExact ==
    /\ Derived(index.state) /\ Derived(index.next)
    /\ visible # None => Derived(visible[1])

\* A consumer that is at the index's revision has exactly its rows, whatever
\* it missed, however it cut the journal and however often the index was
\* closed, rebuilt or fenced in between.
ConsumerExact ==
    Readable /\ consumer.generation = index.state.generation
             /\ consumer.position = index.state.position
      => consumer.rows = Rows(index.state)

\* A refresh that reports nothing leaves nothing unseen: all content states
\* are those of the blob store.
QuietStep ==
    Refresh /\ index'.phase = "ready" =>
      \A ref \in DOMAIN index.state.states : index.state.states[ref] = blobs[ref]

QuietRefreshComplete == [][QuietStep]_indexVars

\* While a handle stays open and its publications succeed, a consumer of the
\* journal ends up with every accepted record and with what the blob store
\* holds for it, blobs that arrived late included.
CurrentRows ==
    {[rec |-> r, content |-> [ref \in RefsOf[r] |-> blobs[ref]]] :
       r \in accepted(ChainTo(Len(log)))}

ConsumerFollows ==
    <>[](index.phase \in {"ready", "publishing"}) => <>[](consumer.rows = CurrentRows)
=============================================================================
