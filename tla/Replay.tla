------------------------------- MODULE Replay -------------------------------
(***************************************************************************)
(* Replay of content updates (editchain-core, activity/replay.rs): records *)
(* arrive in any order, repeated and sometimes in conflict, and the        *)
(* content of one block of a message, or of one attempt of a tool call, is *)
(* rebuilt by walking explicit predecessors back from the only head.       *)
(*                                                                         *)
(* A record has the fields the replay looks at:                            *)
(*   id, item, recorder    identities                                      *)
(*   parents               a sequence of identities                        *)
(*   legacy, original      the identity it was converted or taken from:    *)
(*                         sets of at most one                             *)
(*   session, turn         items it belongs to: sets of at most one        *)
(*   kind                  "message", "tool", or another category          *)
(*   named                 sets of identities by field of its kind         *)
(*   attempt               of a tool call, else 0                          *)
(*   finished, outcome     its stage is the last one, and how it ended     *)
(*   sequence              a position of its recorder, or 0                *)
(*   updates               a set of [block, previous, mode, content];      *)
(*                         previous is 0 when none is recorded             *)
(* A payload is [tag, bytes]: "empty", "inline", or a "blob" named by its  *)
(* bytes and resolved by the caller.                                       *)
(***************************************************************************)
EXTENDS Integers, Sequences, FiniteSets, FiniteSetsExt

\* StreamState: accepted records, at most one for each identity; pairs of an
\* item and an identity recorded for it; identities delivered with changed
\* fields; and triples of an item, an attempt and a conflicting identity.
EmptyStream == [records |-> {}, items |-> {}, conflicts |-> {}, quarantined |-> {}]

-----------------------------------------------------------------------------
(* The contract of one record, without the records it names.  Ranges,      *)
(* versions and texts that must not be empty are left out: no record of a  *)
(* model has such fields.                                                  *)

ValidParents(r) ==
  /\ \A i \in DOMAIN r.parents : r.parents[i] # r.id
  /\ \A i, j \in DOMAIN r.parents : r.parents[i] = r.parents[j] => i = j

ValidAddresses(r) == r.id \notin r.original \cup r.legacy

ValidTurn(r) ==
  /\ r.session # {}
  /\ r.turn = {r.item}
  /\ r.outcome <=> r.finished

\* validate_block
ValidBlocks(r) ==
  /\ \A u, v \in r.updates : u.block = v.block => u = v
  /\ \A u \in r.updates : u.previous # r.id

ValidTool(r) ==
  /\ r.outcome <=> r.finished
  /\ "parent_call" \in DOMAIN r.named => r.item \notin r.named.parent_call

Valid(r) ==
  /\ ValidParents(r) /\ ValidAddresses(r)
  /\ r.kind = "turn" => ValidTurn(r)
  /\ r.kind = "message" => (r.outcome => r.finished) /\ ValidBlocks(r)
  /\ r.kind = "tool" => ValidTool(r) /\ ValidBlocks(r)

-----------------------------------------------------------------------------
(* insert.                                                                 *)

\* A tool's record belongs to its attempt, any other to none.
AttemptOf(r) == IF r.kind = "tool" THEN r.attempt ELSE 0
Place(r) == << r.item, AttemptOf(r), r.id >>

ExistingIn(st, r) == {x \in st.records : x.id = r.id}

\* Only the later variant is set aside.
ConflictKeepingFirst(st, r) ==
  [st EXCEPT !.quarantined = @ \cup {Place(r)}, !.conflicts = @ \cup {r.id},
             !.records = @ \ ExistingIn(st, r)]

\* A changed repeat takes its identity out for good, in every place it named.
Conflict(st, r) ==
  [st EXCEPT !.quarantined = @ \cup {Place(x) : x \in ExistingIn(st, r) \cup {r}},
             !.conflicts = @ \cup {r.id}, !.records = @ \ ExistingIn(st, r)]

\* insert: an invalid record and an exact repeat change nothing.
Inserted(st, r) ==
  IF ~ Valid(r) \/ r \in st.records THEN st
  ELSE IF r.id \in st.conflicts THEN [st EXCEPT !.quarantined = @ \cup {Place(r)}]
  ELSE IF ExistingIn(st, r) # {} THEN Conflict(st, r)
  ELSE [st EXCEPT !.records = @ \cup {r}, !.items = @ \cup {<< r.item, r.id >>}]

-----------------------------------------------------------------------------
(* content: the rebuilt block, an explicit error, or nothing recorded.     *)

Failure(error, id) == [tag |-> "error", error |-> error, id |-> id]
Nothing == [tag |-> "none"]

\* What a record says about a block: a message for attempt 0, a tool for its own.
UpdatesOf(r, block, attempt) ==
  IF r.kind \in {"message", "tool"} /\ AttemptOf(r) = attempt
  THEN {u \in r.updates : u.block = block} ELSE {}

Finishes(r, attempt) == r.kind \in {"message", "tool"} /\ AttemptOf(r) = attempt /\ r.finished

OfItem(st, item) == {r \in st.records : << item, r.id >> \in st.items}

\* The updates of a block by identity: a function from identities to updates.
Updates(st, item, block, attempt) ==
  LET rs == {r \in OfItem(st, item) : UpdatesOf(r, block, attempt) # {}}
  IN  [id \in {r.id : r \in rs} |->
         LET r == CHOOSE x \in rs : x.id = id
         IN  [record |-> r, update |-> CHOOSE u \in UpdatesOf(r, block, attempt) : TRUE]]

\* One walk of validate_predecessors: the first fault met, or Nothing.
RECURSIVE WalkBack(_, _, _, _)
WalkBack(st, us, id, path) ==
  IF id = 0 THEN Nothing
  ELSE IF id \in st.conflicts THEN Failure("conflict", id)
  ELSE IF id \notin DOMAIN us
  THEN IF \E r \in st.records : r.id = id THEN Failure("wrong predecessor", id) ELSE Nothing
  ELSE IF id \in path THEN Failure("cycle", id)
  ELSE WalkBack(st, us, us[id].update.previous, path \cup {id})

\* Walks start in identity order; what an earlier walk passed has no fault.
ValidatePredecessors(st, us) ==
  LET faulty == {id \in DOMAIN us : WalkBack(st, us, id, {}) # Nothing}
  IN  IF faulty = {} THEN Nothing ELSE WalkBack(st, us, Min(faulty), {})

\* Several snapshots of one recorder, in its own order: the last one, or 0.
OrderedSnapshot(us, heads) ==
  LET seq(id) == us[id].record.sequence IN
    IF /\ \A g, h \in heads : us[g].record.recorder = us[h].record.recorder
       /\ \A h \in heads : us[h].update.mode = "replace" /\ us[h].update.previous = 0
       /\ \A h \in heads : seq(h) # 0
       /\ \A g, h \in heads : seq(g) = seq(h) => g = h
    THEN CHOOSE h \in heads : \A g \in heads : seq(g) <= seq(h)
    ELSE 0

\* A missing predecessor is taken for the start of the content.
RECURSIVE CollectFillingGaps(_, _, _, _)
CollectFillingGaps(us, id, blobs, bytes) ==
  IF id = 0 \/ id \notin DOMAIN us THEN [tag |-> "partial", bytes |-> bytes, complete |-> TRUE]
  ELSE LET u == us[id].update
           p == u.content
       IN  IF p.tag = "empty" \/ (p.tag = "blob" /\ p.bytes \notin blobs)
           THEN Failure("unavailable", id)
           ELSE IF u.mode = "replace"
           THEN [tag |-> "whole", bytes |-> p.bytes \o bytes, complete |-> TRUE]
           ELSE CollectFillingGaps(us, u.previous, blobs, p.bytes \o bytes)

\* The walk from the head: bytes of what is present, up to a replacement.
RECURSIVE Collect(_, _, _, _)
Collect(us, id, blobs, bytes) ==
  IF id = 0 \/ id \notin DOMAIN us THEN [tag |-> "partial", bytes |-> bytes, complete |-> FALSE]
  ELSE LET u == us[id].update
           p == u.content
       IN  IF p.tag = "empty" \/ (p.tag = "blob" /\ p.bytes \notin blobs)
           THEN Failure("unavailable", id)
           ELSE IF u.mode = "replace"
           THEN [tag |-> "whole", bytes |-> p.bytes \o bytes, complete |-> TRUE]
           ELSE Collect(us, u.previous, blobs, p.bytes \o bytes)

Content(st, item, block, attempt, blobs) ==
  LET us == Updates(st, item, block, attempt)
      set == {q[3] : q \in {p \in st.quarantined : p[1] = item /\ p[2] = attempt}}
      invalid == ValidatePredecessors(st, us)
      heads == DOMAIN us \ {us[id].update.previous : id \in DOMAIN us}
      head == IF Cardinality(heads) = 1 THEN Max(heads) ELSE OrderedSnapshot(us, heads)
  IN  IF set # {} THEN Failure("conflict", Min(set))
      ELSE IF invalid # Nothing THEN invalid
      ELSE IF heads = {}
      THEN IF DOMAIN us = {} THEN Nothing ELSE Failure("cycle", Min(DOMAIN us))
      ELSE IF head = 0 THEN Failure("ambiguous", 0)
      ELSE LET walk == Collect(us, head, blobs, << >>) IN
           IF walk.tag = "error" THEN walk
           ELSE [tag |-> "content", bytes |-> walk.bytes, complete |-> walk.complete,
                 finished |-> \E r \in OfItem(st, item) : Finishes(r, attempt), head |-> head]
=============================================================================
