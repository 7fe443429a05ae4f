------------------------------- MODULE Reader -------------------------------
(***************************************************************************)
(* Readers of one chain: records reach it in any order, and some again or  *)
(* in conflict; a consumer replays their content as they arrive while      *)
(* callers of the query engine read the index, refreshed now and then.     *)
(***************************************************************************)
EXTENDS Replay, Queries

CONSTANTS
  Incoming,         \* records that may arrive, invalid ones included
  Damaged,          \* bytes of a damaged file
  MaxReceived       \* bound: records received

VARIABLE
  stream            \* the state of the consumer that replays

readerVars == << stream, received, blobs, view, states, scan >>

ReaderInit == stream = EmptyStream /\ QueriesInit

\* An operation is in the chain, and one of schema three is read by a consumer
\* that replays it; no writer encodes a record that its contract refuses.
Receive(r) ==
  /\ r \in received \/ Cardinality(received) < MaxReceived
  /\ stream' = IF r.activity THEN Inserted(stream, r) ELSE stream
  /\ received' = IF r.activity /\ ~ Valid(r) THEN received ELSE received \cup {r}
  /\ UNCHANGED << blobs, view, states, scan >>

RefreshIndex == Refresh /\ UNCHANGED stream

Page ==
  /\ (\E q \in Query, n \in Limits : StartScan(q, n)) \/ ReadPage \/ EndScan
  /\ UNCHANGED stream

BlobFile ==
  /\ \E id \in Blob : \E bytes \in {None, Some(id), Some(Damaged)} : BlobChanges(id, bytes)
  /\ UNCHANGED stream

ReaderNext ==
  \/ \E r \in Incoming : Receive(r)
  \/ RefreshIndex
  \/ Page
  \/ BlobFile

ReaderSpec == ReaderInit /\ [][ReaderNext]_readerVars

-----------------------------------------------------------------------------
Blocks ==
  UNION {{<< r.item, u.block, AttemptOf(r) >> : u \in r.updates} : r \in {x \in Incoming : x.activity}}

ReplayOf(st, available, b) ==
  Content(st, b[1], b[2], b[3], {id \in Blob : available[id] = Some(id)})

\* The stream that a set of records determines, whatever order they came in.
Settled(chain) ==
  LET rs == {r \in chain : r.activity} IN
    [records |-> Accepted(rs), items |-> {<< r.item, r.id >> : r \in rs},
     conflicts |-> IdsOf(rs \ Accepted(rs)), quarantined |-> {Place(r) : r \in rs \ Accepted(rs)}]

\* Replayed content depends on which records arrived, not on their order or on
\* repeats: a conflict is seen whichever of its variants came first.
ArrivalIndependent ==
  \A b \in Blocks : ReplayOf(stream, blobs, b) = ReplayOf(Settled(received), blobs, b)

\* What later arrivals may do to replayed content: as long as the head stays,
\* they only add what was missing in front of it, and nothing once it was
\* complete; a finished item stays finished; and a fault of its links or
\* identities is never repaired by more records.
Broken(c) == c.tag = "error" /\ c.error \in {"conflict", "wrong predecessor", "cycle"}

GrowsOnly(before, after) ==
  /\ Broken(before) => Broken(after)
  /\ before.tag = "content" /\ after.tag = "content" =>
       /\ before.finished => after.finished
       /\ before.head = after.head =>
            /\ before.complete => after.complete /\ after.bytes = before.bytes
            /\ \E n \in 0 .. Len(after.bytes) :
                 before.bytes = SubSeq(after.bytes, n + 1, Len(after.bytes))

\* Every arrival of a record or of a blob changes replayed content only in
\* these ways (activity/replay.rs replay).
ReplayMonotone ==
  [][UNCHANGED << stream, blobs >> \/
       \A b \in Blocks : GrowsOnly(ReplayOf(stream, blobs, b), ReplayOf(stream', blobs', b))]_readerVars
=============================================================================
