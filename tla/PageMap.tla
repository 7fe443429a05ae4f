------------------------------ MODULE PageMap -------------------------------
(***************************************************************************)
(* The persistent hash map of editchain-index-pages (map.rs): a trie of    *)
(* buckets, routed by successive digits of a fixed hash.  A bucket that is *)
(* full when it is touched for writing, even to remove from it, becomes a  *)
(* branch; buckets are never merged again.  A trie node is a page like a   *)
(* node of RankTree.                                                       *)
(***************************************************************************)
EXTENDS Integers, Sequences, FiniteSets, Functions, TLC

CONSTANTS
  BucketLimit,      \* entries at which a bucket splits (64 in the code)
  Fanout,           \* children of a branch (16)
  MaxDepth,         \* depth at which buckets stop splitting (16)
  Hash              \* the routing hash, a function on keys (FNV-1a)

MapDirty == 0

Bucket(values) == [values |-> values, children |-> << >>, addr |-> MapDirty]

EmptyMap == [root |-> Bucket(<< >>), len |-> 0]

\* The digit of a hash that routes at a depth.
Slot(hash, depth) == (hash \div Fanout^depth) % Fanout

RECURSIVE BucketAt(_, _, _)
BucketAt(node, hash, depth) ==
  IF node.children = << >> THEN node.values
  ELSE BucketAt(node.children[Slot(hash, depth) + 1], hash, depth + 1)

Split(node, depth) ==
  [values   |-> << >>,
   children |-> [i \in 1..Fanout |->
                   Bucket(Restrict(node.values,
                                   {k \in DOMAIN node.values : Slot(Hash[k], depth) = i - 1}))],
   addr     |-> MapDirty]

\* An update is a new value for the key, or none to leave the bucket without it.
Updated(values, key, update) ==
  IF update = << >> THEN Restrict(values, DOMAIN values \ {key})
  ELSE (key :> update[1]) @@ values

RECURSIVE BucketMut(_, _, _, _)
BucketMut(node, key, update, depth) ==
  LET full == /\ node.children = << >>
              /\ depth < MaxDepth
              /\ Cardinality(DOMAIN node.values) >= BucketLimit
      this == IF full THEN Split(node, depth) ELSE node
      i    == Slot(Hash[key], depth) + 1
  IN  IF this.children = << >>
      THEN [this EXCEPT !.values = Updated(this.values, key, update), !.addr = MapDirty]
      ELSE [this EXCEPT !.children[i] = BucketMut(this.children[i], key, update, depth + 1),
                        !.addr = MapDirty]

MapHas(map, key) == key \in DOMAIN BucketAt(map.root, Hash[key], 0)

MapGet(map, key) == BucketAt(map.root, Hash[key], 0)[key]

MapInsert(map, key, value) ==
  [root |-> BucketMut(map.root, key, << value >>, 0),
   len  |-> IF MapHas(map, key) THEN map.len ELSE map.len + 1]

MapRemove(map, key) ==
  [root |-> BucketMut(map.root, key, << >>, 0),
   len  |-> IF MapHas(map, key) THEN map.len - 1 ELSE map.len]

\* The full traversal: a stack of pages, a branch pushing its children.
RECURSIVE Entries(_)
Entries(stack) ==
  IF stack = << >> THEN {}
  ELSE LET top == Head(stack)
       IN  {<< k, top.values[k] >> : k \in DOMAIN top.values}
           \cup Entries(top.children \o Tail(stack))

RECURSIVE TrieNodes(_)
TrieNodes(node) ==
  {node} \cup UNION {TrieNodes(node.children[i]) : i \in DOMAIN node.children}

\* The map holds exactly the given function, found by key and by traversal.
MapMatches(map, expected, keys) ==
  /\ map.len = Cardinality(DOMAIN expected)
  /\ Entries(<< map.root >>) = {<< k, expected[k] >> : k \in DOMAIN expected}
  /\ \A k \in keys : /\ MapHas(map, k) <=> k \in DOMAIN expected
                     /\ k \in DOMAIN expected => MapGet(map, k) = expected[k]
=============================================================================
