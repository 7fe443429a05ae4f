------------------------------ MODULE RankTree ------------------------------
(***************************************************************************)
(* The persistent ordered sequence of editchain-index-pages: the AVL tree  *)
(* of rank.rs, whose nodes carry the weight of their subtree, and the      *)
(* ordered map and set of ordered.rs built on it.                          *)
(*                                                                         *)
(* A node is a page (page.rs).  Its field addr is the address the page was *)
(* written at, or Dirty: every mutable access to a node drops the address, *)
(* an access that only reads keeps it, so the addresses that survive an    *)
(* edit say exactly which pages the next checkpoint shares with the last.  *)
(***************************************************************************)
EXTENDS Integers, Sequences, FiniteSets, FiniteSetsExt

CONSTANT MaxMeasure       \* u64::MAX, where the subtree sums saturate

Dirty == 0

ZeroMeasure == [expanded |-> 0, visible |-> 0]

Plus(a, b) == [axis \in {"expanded", "visible"} |-> Min({a[axis] + b[axis], MaxMeasure})]

\* An absent link, with the height and the sum the code reads for it.
None == [height |-> 0, sum |-> ZeroMeasure]

Fix(node) ==
  [node EXCEPT !.height = Max({node.left.height, node.right.height}) + 1,
               !.sum    = Plus(Plus(node.left.sum, node.weight), node.right.sum),
               !.addr   = Dirty]

RotateLeft(root) ==
  IF root.right = None THEN [root EXCEPT !.addr = Dirty]
  ELSE Fix([root.right EXCEPT !.left = Fix([root EXCEPT !.right = root.right.left])])

RotateRight(root) ==
  IF root.left = None THEN [root EXCEPT !.addr = Dirty]
  ELSE Fix([root.left EXCEPT !.right = Fix([root EXCEPT !.left = root.left.right])])

\* A child that outgrew its sibling is lifted without being turned first.
BalanceSingle(link) ==
  LET root == Fix(link) IN
    IF root.left.height > root.right.height + 1 THEN RotateRight(root)
    ELSE IF root.right.height > root.left.height + 1 THEN RotateLeft(root)
    ELSE root

Balance(link) ==
  LET root == Fix(link)
      l == root.left
      r == root.right
  IN  IF l.height > r.height + 1
      THEN RotateRight([root EXCEPT !.left = IF l.right.height > l.left.height
                                             THEN RotateLeft(l) ELSE l])
      ELSE IF r.height > l.height + 1
      THEN RotateLeft([root EXCEPT !.right = IF r.left.height > r.right.height
                                             THEN RotateRight(r) ELSE r])
      ELSE root

-----------------------------------------------------------------------------
(* Edits.  The path to the key is rewritten, every other page is shared.    *)

RECURSIVE Insert(_, _, _, _)
Insert(link, key, value, weight) ==
  IF link = None
  THEN [key |-> key, value |-> value, weight |-> weight, sum |-> weight, height |-> 1,
        left |-> None, right |-> None, addr |-> Dirty]
  ELSE Balance(
    IF key < link.key THEN [link EXCEPT !.left  = Insert(link.left, key, value, weight)]
    ELSE IF key > link.key THEN [link EXCEPT !.right = Insert(link.right, key, value, weight)]
    ELSE [link EXCEPT !.value = value, !.weight = weight])

\* The smallest node of a tree, taken out of it.
RECURSIVE PopMin(_)
PopMin(node) ==
  IF node.left = None
  THEN [rest |-> node.right, smallest |-> [node EXCEPT !.addr = Dirty]]
  ELSE LET popped == PopMin(node.left)
       IN  [rest     |-> Balance([node EXCEPT !.left = popped.rest]),
            smallest |-> popped.smallest]

\* Removing an absent key rewrites the path it was looked for on.
RECURSIVE Remove(_, _)
Remove(link, key) ==
  IF link = None THEN None
  ELSE IF key < link.key THEN Balance([link EXCEPT !.left  = Remove(link.left, key)])
  ELSE IF key > link.key THEN Balance([link EXCEPT !.right = Remove(link.right, key)])
  ELSE IF link.right = None THEN link.left
  ELSE LET popped == PopMin(link.right)
       IN  Balance([popped.smallest EXCEPT !.left = link.left, !.right = popped.rest])

-----------------------------------------------------------------------------
(* Lookups.  An optional result is a sequence of length at most one.        *)

RECURSIVE Get(_, _)
Get(link, key) ==
  IF link = None THEN << >>
  ELSE IF key < link.key THEN Get(link.left, key)
  ELSE IF key > link.key THEN Get(link.right, key)
  ELSE << link.value >>

\* A bound is unbounded, or includes or excludes a key.
Unbounded == [kind |-> "unbounded", key |-> 0]
Included(key) == [kind |-> "included", key |-> key]
Excluded(key) == [kind |-> "excluded", key |-> key]

Admits(bound, key, reverse) ==
  \/ bound.kind = "unbounded"
  \/ bound.kind = "included" /\ IF reverse THEN key <= bound.key ELSE key >= bound.key
  \/ bound.kind = "excluded" /\ IF reverse THEN key < bound.key ELSE key > bound.key

\* The first key a lower bound admits, or the last one an upper bound admits.
RECURSIVE Seek(_, _, _, _)
Seek(link, bound, reverse, result) ==
  IF link = None THEN result
  ELSE LET accepted == Admits(bound, link.key, reverse)
           found    == IF accepted THEN << link.key >> ELSE result
       IN  Seek(IF accepted = reverse THEN link.right ELSE link.left, bound, reverse, found)

Bound(tree, bound, reverse) == Seek(tree, bound, reverse, << >>)

\* The forward iterator of a range: seek, test the end, exclude what was returned.
RECURSIVE RangeForward(_, _, _)
RangeForward(tree, start, end) ==
  LET pair == Bound(tree, start, FALSE) IN
    IF pair = << >> \/ ~ Admits(end, pair[1], TRUE) THEN << >>
    ELSE pair \o RangeForward(tree, Excluded(pair[1]), end)

\* The same range from its other end.
RECURSIVE RangeBack(_, _, _)
RangeBack(tree, start, end) ==
  LET pair == Bound(tree, end, TRUE) IN
    IF pair = << >> \/ ~ Admits(start, pair[1], FALSE) THEN << >>
    ELSE pair \o RangeBack(tree, start, Excluded(pair[1]))

RECURSIVE RemoveAll(_, _)
RemoveAll(tree, keys) ==
  IF keys = << >> THEN tree ELSE RemoveAll(Remove(tree, Head(keys)), Tail(keys))

RECURSIVE InsertAll(_, _)
InsertAll(tree, keys) ==
  IF keys = << >> THEN tree
  ELSE InsertAll(Insert(tree, Head(keys), TRUE, [expanded |-> 1, visible |-> 1]), Tail(keys))

\* The suffix from a key on moves, one key at a time, into a set of its own.
SplitOff(tree, at) ==
  LET keys == RangeForward(tree, Included(at), Unbounded)
  IN  [kept |-> RemoveAll(tree, keys), moved |-> InsertAll(None, keys)]

-----------------------------------------------------------------------------
(* Ranks: prefix sums of the weights, and the block a position falls in.    *)

RECURSIVE PrefixFrom(_, _, _)
PrefixFrom(link, key, sum) ==
  IF link = None THEN sum
  ELSE IF key <= link.key THEN PrefixFrom(link.left, key, sum)
  ELSE PrefixFrom(link.right, key, Plus(Plus(sum, link.left.sum), link.weight))

Prefix(tree, key) == PrefixFrom(tree, key, ZeroMeasure)

RECURSIVE RankFrom(_, _, _)
RankFrom(link, key, sum) ==
  IF link = None THEN << >>
  ELSE IF key < link.key THEN RankFrom(link.left, key, sum)
  ELSE IF key > link.key
       THEN RankFrom(link.right, key, Plus(Plus(sum, link.left.sum), link.weight))
  ELSE << Plus(sum, link.left.sum) >>

Rank(tree, key) == RankFrom(tree, key, ZeroMeasure)

\* The prefixes of a sorted batch of keys, sharing the search paths.
RECURSIVE PrefixBatch(_, _, _)
PrefixBatch(link, queries, sum) ==
  IF queries = << >> THEN << >>
  ELSE IF link = None THEN [i \in 1..Len(queries) |-> sum]
  ELSE LET split == Cardinality({i \in 1..Len(queries) : queries[i] <= link.key})
       IN  PrefixBatch(link.left, SubSeq(queries, 1, split), sum)
           \o PrefixBatch(link.right, SubSeq(queries, split + 1, Len(queries)),
                          Plus(Plus(sum, link.left.sum), link.weight))

RECURSIVE SelectFrom(_, _, _, _)
SelectFrom(link, offset, axis, sum) ==
  IF link = None THEN << >>
  ELSE LET start == Plus(sum, link.left.sum)
           after == Plus(start, link.weight)
       IN  IF offset < start[axis] THEN SelectFrom(link.left, offset, axis, sum)
           ELSE IF offset < after[axis] THEN << [key |-> link.key, start |-> start] >>
           ELSE SelectFrom(link.right, offset, axis, after)

Select(tree, offset, axis) == SelectFrom(tree, offset, axis, ZeroMeasure)

-----------------------------------------------------------------------------
(* The reference: what the tree stands for is a function from its keys.     *)

RECURSIVE Nodes(_)
Nodes(link) == IF link = None THEN {} ELSE {link} \cup Nodes(link.left) \cup Nodes(link.right)

SumOver(rows, keys, Weight(_)) ==
  [axis \in {"expanded", "visible"} |->
     Min({MapThenSumSet(LAMBDA k : Weight(rows[k])[axis], keys), MaxMeasure})]

\* Every node balanced, with the height and the sum of its subtree.
Balanced(tree) ==
  \A n \in Nodes(tree) :
    /\ n.left.height - n.right.height \in -1..1
    /\ n.height = Max({n.left.height, n.right.height}) + 1
    /\ n.sum = Plus(Plus(n.left.sum, n.weight), n.right.sum)

\* The tree answers every lookup, range and rank as the sorted rows would.
TreeMatches(tree, rows, keys, Weight(_)) ==
  LET present == DOMAIN rows
      below(k) == {j \in present : j < k}
      bounds == {Unbounded} \cup {Included(k) : k \in keys} \cup {Excluded(k) : k \in keys}
      within(s, e) == {k \in present : Admits(s, k, FALSE) /\ Admits(e, k, TRUE)}
      queries == [i \in 1..Cardinality(keys) |-> (i + Min(keys)) - 1]
  IN  /\ Balanced(tree)
      /\ Cardinality(Nodes(tree)) = Cardinality(present)
      /\ tree.sum = SumOver(rows, present, Weight)
      /\ \A k \in keys :
           /\ Get(tree, k) = IF k \in present THEN << rows[k] >> ELSE << >>
           /\ Prefix(tree, k) = SumOver(rows, below(k), Weight)
           /\ Rank(tree, k) = IF k \in present THEN << Prefix(tree, k) >> ELSE << >>
      /\ PrefixBatch(tree, queries, ZeroMeasure) = [i \in DOMAIN queries |-> Prefix(tree, queries[i])]
      /\ \A axis \in {"expanded", "visible"} : \A offset \in 0..(MaxMeasure - 1) :
           Select(tree, offset, axis) =
             LET start(k) == SumOver(rows, below(k), Weight)
                 hit == {k \in present : /\ start(k)[axis] <= offset
                                         /\ offset < start(k)[axis] + Weight(rows[k])[axis]}
             IN  IF hit = {} THEN << >>
                 ELSE LET k == CHOOSE h \in hit : TRUE IN << [key |-> k, start |-> start(k)] >>
      /\ \A s, e \in bounds : (s = Unbounded \/ e = Unbounded \/ s.kind = e.kind) =>
           LET found == RangeForward(tree, s, e)
               back  == RangeBack(tree, s, e)
           IN  /\ {found[i] : i \in DOMAIN found} = within(s, e)
               /\ \A i, j \in DOMAIN found : i < j => found[i] < found[j]
               /\ back = [i \in DOMAIN found |-> found[Len(found) + 1 - i]]
      /\ \A at \in keys :
           LET parts == SplitOff(tree, at)
               all(t) == {n.key : n \in Nodes(t)}
           IN  /\ Balanced(parts.kept) /\ all(parts.kept) = below(at)
               /\ Balanced(parts.moved) /\ all(parts.moved) = present \ below(at)
=============================================================================
