----------------------------- MODULE PageStore ------------------------------
(***************************************************************************)
(* The derived checkpoint of editchain-index-pages (storage.rs, page.rs)   *)
(* and the index state kept in it: rows in an ordered map, postings in a   *)
(* hash map.  Pages are appended to one file and never rewritten; a commit *)
(* writes the pages an edit made dirty, children before parents, makes     *)
(* them durable, and only then replaces the small root file that names the *)
(* newest state page.                                                      *)
(*                                                                         *)
(* A page is identified by its position in the file.  An address also      *)
(* holds the digest of the page, so a read of anything else fails instead  *)
(* of returning it; here a read of anything else is what the invariants    *)
(* exclude.  Bytes that are no whole page are one Torn page.               *)
(***************************************************************************)
EXTENDS RankTree, PageMap

CONSTANTS
  Key,              \* operation identities, an interval of naturals
  Locations,        \* what the row of each operation may hold
  WeightOf,         \* function from locations to the measure of the block
  Fact,             \* the recorded fact each operation is posted under
  MaxCommits,       \* bound: checkpoints written, published or not
  MaxFaults,        \* bound: failed writes, crashes and power losses
  MaxEdits          \* bound: edits of one refresh, once there are pages to share

VARIABLES
  file,             \* pages a read of the file sees
  synced,           \* how many of them are known to survive a power loss
  buffer,           \* pages in the writer's buffer, not yet in the file
  end,              \* where the handle believes the file ends
  root,             \* what the root file names: a state page and its rows
  durableRoot,      \* what it names after a power loss
  phase,            \* where the owner of the checkpoint is in a commit
  fenced,           \* needs_reopen: a publication failed
  state,            \* the readable state of the handle
  next,             \* the copy a refresh edits, then publishes
  pending,          \* the state page of the commit in progress
  used              \* how much of each bound is used

disk == << file, synced, root, durableRoot >>
vars == << file, synced, buffer, end, root, durableRoot, phase, fenced, state, next, pending,
           used >>

Torn == [kind |-> "torn"]
NoRows == << >>
NoRoot == [at |-> 0, rows |-> NoRows]
Phases == {"closed", "idle", "written", "flushed", "synced", "renamed"}

\* An index state; rows is what it stands for.
EmptyIndex == [records |-> None, postings |-> EmptyMap, rows |-> NoRows]

Weight(value) == WeightOf[value]

PostingsOf(rows) ==
  [f \in {Fact[k] : k \in DOMAIN rows} |-> {k \in DOMAIN rows : Fact[k] = f}]

-----------------------------------------------------------------------------
(* Serialization.  A page that has an address in this file is not written  *)
(* again; any other page follows the pages it names.                       *)

RECURSIVE WriteTree(_, _, _)
WriteTree(node, base, pages) ==
  IF node = None THEN [addr |-> 0, pages |-> pages]
  ELSE IF node.addr # Dirty THEN [addr |-> node.addr, pages |-> pages]
  ELSE LET l == WriteTree(node.left, base, pages)
           r == WriteTree(node.right, base, l.pages)
           page == [kind |-> "node", key |-> node.key, value |-> node.value,
                    weight |-> node.weight, sum |-> node.sum, height |-> node.height,
                    left |-> l.addr, right |-> r.addr]
       IN  [addr |-> base + Len(r.pages) + 1, pages |-> Append(r.pages, page)]

RECURSIVE WriteTrie(_, _, _), WriteChildren(_, _, _, _)
WriteTrie(node, base, pages) ==
  IF node.addr # MapDirty THEN [addr |-> node.addr, pages |-> pages]
  ELSE LET below == WriteChildren(node.children, base, pages, << >>)
           page == [kind |-> "trie", values |-> node.values, children |-> below.addrs]
       IN  [addr |-> base + Len(below.pages) + 1, pages |-> Append(below.pages, page)]

WriteChildren(children, base, pages, addrs) ==
  IF children = << >> THEN [addrs |-> addrs, pages |-> pages]
  ELSE LET first == WriteTrie(Head(children), base, pages)
       IN  WriteChildren(Tail(children), base, first.pages, Append(addrs, first.addr))

\* The pages of one commit, the state page last, addressed from the given end.
WriteState(index, base) ==
  LET tree == WriteTree(index.records, base, << >>)
      trie == WriteTrie(index.postings.root, base, tree.pages)
      page == [kind |-> "state", records |-> tree.addr, postings |-> trie.addr,
               len |-> index.postings.len]
  IN  Append(trie.pages, page)

-----------------------------------------------------------------------------
(* Reading.  A page beyond the end, torn, or of another kind is an error,  *)
(* never an absent key.                                                    *)

IsPage(pages, addr, kind) == addr \in 1..Len(pages) /\ pages[addr].kind = kind

RECURSIVE TreeReadable(_, _), TrieReadable(_, _)
TreeReadable(pages, addr) ==
  addr = 0 \/ /\ IsPage(pages, addr, "node")
              /\ TreeReadable(pages, pages[addr].left)
              /\ TreeReadable(pages, pages[addr].right)
TrieReadable(pages, addr) ==
  /\ IsPage(pages, addr, "trie")
  /\ \A i \in DOMAIN pages[addr].children : TrieReadable(pages, pages[addr].children[i])

Readable(pages, at) ==
  /\ IsPage(pages, at, "state")
  /\ TreeReadable(pages, pages[at].records)
  /\ TrieReadable(pages, pages[at].postings)

RECURSIVE ReadTree(_, _), ReadTrie(_, _)
ReadTree(pages, addr) ==
  IF addr = 0 THEN None
  ELSE LET p == pages[addr] IN
       [key |-> p.key, value |-> p.value, weight |-> p.weight, sum |-> p.sum,
        height |-> p.height, left |-> ReadTree(pages, p.left),
        right |-> ReadTree(pages, p.right), addr |-> addr]
ReadTrie(pages, addr) ==
  LET p == pages[addr] IN
    [values |-> p.values, addr |-> addr,
     children |-> [i \in DOMAIN p.children |-> ReadTrie(pages, p.children[i])]]

Load(pages, named) ==
  LET p == pages[named.at] IN
    [records  |-> ReadTree(pages, p.records), rows |-> named.rows,
     postings |-> [root |-> ReadTrie(pages, p.postings), len |-> p.len]]

-----------------------------------------------------------------------------
(* Edits of the copy: state.rs adds and retracts rows.                     *)

AddRow(index, k, v) ==
  LET posted == IF MapHas(index.postings, Fact[k]) THEN MapGet(index.postings, Fact[k]) ELSE {}
  IN  [records  |-> Insert(index.records, k, v, Weight(v)),
       postings |-> MapInsert(index.postings, Fact[k], posted \cup {k}),
       rows     |-> (k :> v) @@ index.rows]

\* The last owner of a fact takes the posting with it.
RetractRow(index, k) ==
  LET owners == MapGet(index.postings, Fact[k]) \ {k}
  IN  [records  |-> Remove(index.records, k),
       postings |-> IF owners = {} THEN MapRemove(index.postings, Fact[k])
                    ELSE MapInsert(index.postings, Fact[k], owners),
       rows     |-> Restrict(index.rows, DOMAIN index.rows \ {k})]

RECURSIVE BuildFrom(_, _)
BuildFrom(rows, keys) ==
  IF keys = {} THEN EmptyIndex
  ELSE LET k == Max(keys) IN AddRow(BuildFrom(rows, keys \ {k}), k, rows[k])

-----------------------------------------------------------------------------
Init ==
  /\ file = << >> /\ synced = 0 /\ buffer = << >> /\ end = 0
  /\ root = NoRoot /\ durableRoot = NoRoot
  /\ phase = "closed" /\ fenced = FALSE
  /\ state = EmptyIndex /\ next = EmptyIndex /\ pending = NoRoot
  /\ used = [edits |-> 0, commits |-> 0, faults |-> 0]

Writable == phase = "idle" /\ ~ fenced

\* Edits count against their bound once there are pages to share.
MayEdit ==
  /\ Writable /\ used.edits < MaxEdits /\ used.commits < MaxCommits
  /\ used' = [used EXCEPT !.edits = IF file = << >> THEN 0 ELSE @ + 1]
MayCommit ==
  /\ Writable /\ used.commits < MaxCommits
  /\ used' = [used EXCEPT !.edits = 0, !.commits = @ + 1]
MayFail ==
  /\ used.faults < MaxFaults
  /\ used' = [used EXCEPT !.edits = 0, !.faults = @ + 1]
Fresh == used' = [used EXCEPT !.edits = 0]

\* Open takes the lock, measures the file and loads the root, if there is one.
Open ==
  /\ phase = "closed"
  /\ root.at # 0 => Readable(file, root.at)
  /\ LET loaded == IF root.at = 0 THEN EmptyIndex ELSE Load(file, root)
     IN  state' = loaded /\ next' = loaded
  /\ end' = Len(file)
  /\ phase' = "idle" /\ fenced' = FALSE
  /\ Fresh
  /\ UNCHANGED << disk, buffer, pending >>

Add(k, v) ==
  /\ MayEdit
  /\ ~ (k \in DOMAIN next.rows /\ next.rows[k] = v)
  /\ next' = AddRow(next, k, v)
  /\ UNCHANGED << disk, buffer, end, phase, fenced, state, pending >>

Retract(k) ==
  /\ MayEdit
  /\ k \in DOMAIN next.rows
  /\ next' = RetractRow(next, k)
  /\ UNCHANGED << disk, buffer, end, phase, fenced, state, pending >>

\* An error before publication drops the copy.
Discard ==
  /\ Writable /\ next # state
  /\ next' = state
  /\ Fresh
  /\ UNCHANGED << disk, buffer, end, phase, fenced, state, pending >>

\* A rebuild replays the source into fresh pages.
Rebuild ==
  /\ MayEdit /\ next = state
  /\ next' = BuildFrom(next.rows, DOMAIN next.rows)
  /\ UNCHANGED << disk, buffer, end, phase, fenced, state, pending >>

\* commit: pages go to the buffer; publish fences the handle meanwhile.
Write ==
  /\ MayCommit
  /\ LET pages == WriteState(next, end) IN
       /\ buffer' = buffer \o pages
       /\ end' = end + Len(pages)
       /\ pending' = [at |-> end + Len(pages), rows |-> next.rows]
  /\ phase' = "written" /\ fenced' = TRUE
  /\ UNCHANGED << disk, state, next >>

Flush ==
  /\ phase = "written"
  /\ file' = file \o buffer /\ buffer' = << >>
  /\ phase' = "flushed"
  /\ UNCHANGED << synced, end, root, durableRoot, fenced, state, next, pending, used >>

SyncPages ==
  /\ phase = "flushed"
  /\ synced' = Len(file)
  /\ phase' = "synced"
  /\ UNCHANGED << file, buffer, end, root, durableRoot, fenced, state, next, pending, used >>

\* The new root file is complete and synced before it takes the old one's name.
RenameRoot ==
  /\ phase = "synced"
  /\ root' = pending
  /\ phase' = "renamed"
  /\ UNCHANGED << file, synced, buffer, end, durableRoot, fenced, state, next, pending, used >>

\* The directory is synced and the state page read back with its pages cold.
Publish ==
  /\ phase = "renamed"
  /\ Readable(file, pending.at)
  /\ durableRoot' = root
  /\ LET loaded == Load(file, pending) IN state' = loaded /\ next' = loaded
  /\ phase' = "idle" /\ fenced' = FALSE /\ pending' = NoRoot
  /\ Fresh
  /\ UNCHANGED << file, synced, buffer, end, root >>

\* unload: dirty pages are written and flushed, but no root names them.
Unload ==
  /\ MayCommit
  /\ LET pages == WriteState(next, end)
         written == SubSeq(pages, 1, Len(pages) - 1)
     IN  /\ written # << >> /\ end = Len(file) + Len(buffer)
         /\ file' = file \o buffer \o written
         /\ end' = end + Len(written)
         /\ next' = Load(Append(file', pages[Len(pages)]),
                         [at |-> Len(file') + 1, rows |-> next.rows])
  /\ buffer' = << >>
  /\ UNCHANGED << synced, root, durableRoot, phase, fenced, state, pending >>

\* The same failure, with the handle left open for writing.
WriteFailsUnfenced ==
  /\ Writable /\ MayFail
  /\ file' = file \o buffer \o << Torn >> /\ buffer' = << >>
  /\ next' = state
  /\ UNCHANGED << synced, end, root, durableRoot, phase, fenced, state, pending >>

\* A write that fails half way leaves bytes the handle does not count.
WriteFails ==
  /\ Writable /\ MayFail
  /\ file' = file \o buffer \o << Torn >> /\ buffer' = << >>
  /\ next' = state /\ fenced' = TRUE
  /\ UNCHANGED << synced, end, root, durableRoot, phase, state, pending >>

\* A later step of the commit fails: queries go on with the old state.
CommitFails ==
  /\ phase \in {"written", "flushed", "synced", "renamed"}
  /\ next' = state /\ phase' = "idle" /\ pending' = NoRoot
  /\ MayFail
  /\ UNCHANGED << disk, buffer, end, fenced, state >>

\* A handle that is gone; open measures the file again.
Released ==
  /\ phase' = "closed" /\ fenced' = FALSE /\ end' = 0
  /\ state' = EmptyIndex /\ next' = EmptyIndex /\ pending' = NoRoot

\* Dropping the handle flushes the buffer, then gives the lock up.
Close ==
  /\ phase = "idle"
  /\ file' = file \o buffer /\ buffer' = << >>
  /\ Released
  /\ Fresh
  /\ UNCHANGED << synced, root, durableRoot >>

\* What a process that dies in a commit may have spilled of its buffer.
Spilled == {<< >>, << Torn >>}

Crash ==
  /\ phase # "closed"
  /\ \E spilled \in Spilled : file' = file \o (IF buffer = << >> THEN << >> ELSE spilled)
  /\ buffer' = << >> /\ Released
  /\ MayFail
  /\ UNCHANGED << synced, root, durableRoot >>

\* Unsynced pages are gone or torn, and an unsynced rename may be undone.
PowerLoss ==
  /\ \E tail \in {<< >>, << Torn >>} :
       file' = SubSeq(file, 1, synced) \o (IF Len(file) > synced THEN tail ELSE << >>)
  /\ \E named \in {root, durableRoot} : root' = named /\ durableRoot' = named
  /\ buffer' = << >> /\ Released
  /\ MayFail
  /\ UNCHANGED synced

Next ==
  \/ Open \/ Discard \/ Rebuild \/ Unload \/ Close
  \/ \E k \in Key : Retract(k) \/ \E v \in Locations[k] : Add(k, v)
  \/ Write \/ Flush \/ SyncPages \/ RenameRoot \/ Publish
  \/ WriteFails \/ CommitFails \/ Crash \/ PowerLoss

Spec == Init /\ [][Next]_vars

-----------------------------------------------------------------------------
(* Properties *)

\* The rows of every index state, edited or read back, come out of the tree
\* in order, with exact ranks and selections on both axes, a balanced shape
\* and correct subtree sums, and the postings out of the trie: after any
\* sequence of insertions, replacements, removals, splits of buckets and
\* reloads (rank.rs, ordered.rs, map.rs).
IndexExact ==
  phase = "idle" =>
  /\ TreeMatches(next.records, next.rows, Key, Weight)
  /\ MapMatches(next.postings, PostingsOf(next.rows), {Fact[k] : k \in Key})

\* A state page read from these pages stands for the given rows.
StandsFor(pages, named) ==
  LET loaded == Load(pages, named) IN
    /\ {<< n.key, n.value >> : n \in Nodes(loaded.records)}
         = {<< k, named.rows[k] >> : k \in DOMAIN named.rows}
    /\ Balanced(loaded.records)
    /\ MapMatches(loaded.postings, PostingsOf(named.rows), {Fact[k] : k \in Key})

\* "The previously published root stays readable" (storage.rs commit) and
\* "errors leave the last successful state readable" (chain.rs refresh):
\* after any failure, crash or power loss the root file, and what a power
\* loss may fall back to, names a state page all of whose pages are whole,
\* synced, and stand for the rows committed with it; and while a handle is
\* open, every page its states share with the file is still that page,
\* whatever later commits wrote or failed to write.
CheckpointReadable ==
  /\ \A named \in {root, durableRoot} :
       named.at # 0 => Readable(SubSeq(file, 1, synced), named.at) /\ StandsFor(file, named)
  /\ \A index \in {state, next} :
       /\ \A n \in Nodes(index.records) :
            n.addr # Dirty => TreeReadable(file, n.addr) /\ ReadTree(file, n.addr) = n
       /\ \A n \in TrieNodes(index.postings.root) :
            n.addr # MapDirty => TrieReadable(file, n.addr) /\ ReadTrie(file, n.addr) = n
=============================================================================
