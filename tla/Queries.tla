------------------------------ MODULE Queries ------------------------------
(***************************************************************************)
(* The query engine (editchain-engine, queries/) over the derived index of *)
(* a chain: lookups that keep missing and conflicted identities apart,     *)
(* pages of history, identities resolved from prefixes and old addresses,  *)
(* ancestry within a budget, recorded content with its gaps, comparisons   *)
(* and the integrity report.                                               *)
(*                                                                         *)
(* A record is as in Replay, with these fields besides:                    *)
(*   activity           schema three, or an older kind of record           *)
(*   actor, scope       envelope: an actor, and at most one scope key      *)
(*   session, turn, author, original, causes, folded                       *)
(*                      envelope of schema three: sets of identities, the  *)
(*                      first four of at most one                          *)
(*   payloads           [name, content] of the fields its kind has         *)
(*   before, after, edit  of a file revision; an edit is [form, content],  *)
(*                      form "none", "blob" or "payload"                   *)
(*   named              what else its kind names: sets by field            *)
(* A payload is as in Replay; a blob has a length too, None for the        *)
(* revisions of a file.  The order of fields and of relationships within a *)
(* record is left out.  Identities are numbers below 2^Digits, so that a   *)
(* prefix is an interval.                                                  *)
(* ChainIndex shows that the index holds what a replay of the records it   *)
(* has seen would derive: here it is that set of records.                  *)
(***************************************************************************)
EXTENDS Integers, Sequences, FiniteSets, SequencesExt

CONSTANTS
  Digits,           \* digits of an identity
  ShortDigits,      \* least digits of a displayed prefix (12 of 64)
  HistoryLimit,     \* page size of all_history (1000)
  Key,              \* facts callers ask for
  Blob,             \* content identities with a full address
  Query,            \* paged queries: [key, entity, text], each possibly None
  Limits            \* page limits callers use

VARIABLES
  received,         \* records of the chain, every variant of an identity
  blobs,            \* blobs[id]: the bytes of the file stored under an identity
  view,             \* records the index had seen at its last refresh
  states,           \* states[ref]: what the content index says of a reference
  scan              \* a caller reading a paged query to its end

None == << >>
Some(v) == << v >>
Ids == 0 .. 2^Digits - 1

IdsOf(rs) == {r.id : r \in rs}
Variants(rs, id) == {r \in rs : r.id = id}
Accepted(rs) == {r \in rs : Variants(rs, r.id) = {r}}
Ascending(ids) ==
  [i \in 1 .. Cardinality(ids) |-> CHOOSE a \in ids : Cardinality({b \in ids : b < a}) = i - 1]

-----------------------------------------------------------------------------
(* The index: what refresh derives, and the candidates it offers.          *)

NotRecorded == [tag |-> "none", bytes |-> << >>]

Signatures == {"GitAuthorName", "GitAuthorEmail", "GitCommitterName", "GitCommitterEmail"}
Refs == {"GitImportedRef", "GitLiveRef"}

\* Kind::fields: payload fields of the ten categories.
RecordFields ==
  [session  |-> {"Label", "Metadata"},
   turn     |-> {"Outcome"},
   message  |-> {"MessageBlock", "MediaType", "SummaryAnchors", "Outcome"},
   tool     |-> {"CallId", "ToolName", "Arguments", "Output", "OutputType", "Command", "Cwd", "Outcome"},
   file     |-> {"Path", "RenamedTo", "TextEdit", "Edit"},
   commit   |-> {"Content"} \cup Signatures \cup Refs,
   note     |-> {"Content", "Code"},
   author   |-> {"Label", "Role", "Metadata"},
   link     |-> {"Content"},
   original |-> {"Content"}]

\* fields: payload fields of the older kinds, as content and search see them.
OlderFields ==
  [start      |-> {"ChainName"},
   actor      |-> {"ActorLabel", "ActorRole"},
   session    |-> {"SessionLabel", "SessionMetadata"},
   message    |-> {"MessageContent", "MessageContentType"},
   tool       |-> {"ToolCallId", "ToolName", "ToolContent"},
   command    |-> {"CommandId", "CommandContent"},
   file       |-> {},
   reflection |-> {"ReflectionSummary", "ReflectionAnchors"},
   import     |-> {"ImportRaw"},
   note       |-> {"NoteContent"},
   error      |-> {"ErrorCode", "ErrorMessage"},
   unknown    |-> {"UnknownRaw"},
   commit     |-> {"GitMessage"} \cup Signatures \cup Refs,
   gitlink    |-> {"GitLinkCustom"}]

\* payloads: those of them whose blobs the index keeps track of; the name of a
\* chain is bytes of the record itself.
OlderPayloads ==
  [start      |-> {},
   actor      |-> {"ActorLabel", "ActorRole"},
   session    |-> {"SessionLabel", "SessionMetadata"},
   message    |-> {"MessageContent", "MessageContentType"},
   tool       |-> {"ToolCallId", "ToolName", "ToolContent"},
   command    |-> {"CommandId", "CommandContent"},
   file       |-> {"Edit"},
   reflection |-> {"ReflectionSummary", "ReflectionAnchors"},
   import     |-> {"ImportRaw"},
   note       |-> {"NoteContent"},
   error      |-> {"ErrorCode", "ErrorMessage"},
   unknown    |-> {"UnknownRaw"},
   commit     |-> {"GitMessage"} \cup Signatures \cup Refs,
   gitlink    |-> {"GitLinkCustom"}]

\* The payloads of a record among the fields of a table; an edit given as a
\* payload is one of them.
PayloadsIn(r, table) ==
  LET edit == IF r.kind = "file" /\ r.edit.form = "payload"
              THEN {[name |-> "Edit", content |-> r.edit.content]} ELSE {}
  IN  {p \in r.payloads \cup edit : p.name \in table[r.kind]}

\* fields: what content and search look at.  In an activity record an empty
\* payload was not recorded.
Fields(r) ==
  LET of(p) == IF r.activity /\ p.content.tag = "empty" THEN NotRecorded ELSE p.content
      scope == IF r.activity THEN "record" ELSE "content"
  IN  {[name |-> << scope, p.name >>, content |-> of(p)] :
         p \in PayloadsIn(r, IF r.activity THEN RecordFields ELSE OlderFields)}
        \cup (IF r.kind = "file"
              THEN {[name |-> << "content", "FileBase" >>, content |-> r.before],
                    [name |-> << "content", "FileAfter" >>, content |-> r.after],
                    [name |-> << "content", "FileEdit" >>, content |-> r.edit.content]}
              ELSE {})

\* references: the blobs a record names, of a file its revisions and edit too.
References(r) ==
  LET table == IF r.activity THEN RecordFields ELSE OlderPayloads
      named == {p.content : p \in PayloadsIn(r, table)}
                 \cup (IF r.kind = "file" THEN {r.before, r.after} ELSE {})
                 \cup (IF r.kind = "file" /\ r.edit.form = "blob" THEN {r.edit.content} ELSE {})
  IN  {[id |-> p.bytes, len |-> p.len] : p \in {q \in named : q.tag = "blob"}}

\* Old addresses of a converted record, those folded into it included.
Addresses(r) == IF r.activity THEN r.legacy \cup r.folded ELSE {}

Named(r, field) == IF field \in DOMAIN r.named THEN r.named[field] ELSE {}
Facts(name, values) == {<< name, v >> : v \in values}

\* keys: the facts a record is filed under.
Keys(r) ==
  Facts("actor", {r.actor}) \cup Facts("parent", ToSet(r.parents))
    \cup Facts("content", {ref.id : ref \in References(r)}) \cup r.scope
    \cup (IF r.activity
          THEN Facts("item", {r.item}) \cup Facts("kind", {r.kind}) \cup Facts("recorder", {r.recorder})
                 \cup Facts("session item", r.session) \cup Facts("turn item", r.turn)
                 \cup Facts("author item", r.author) \cup Facts("alias", Addresses(r))
          ELSE {})
    \cup (IF r.kind \in {"file", "commit"} THEN Facts("file", Named(r, "path")) ELSE {})
    \cup (IF r.kind = "session" /\ ~ r.activity THEN Facts("session", Named(r, "id")) ELSE {})

RefsIn(rs) == UNION {References(r) : r \in rs}

\* ContentReference::resolve: a file holds the bytes of its identity, of the
\* recorded length when there is one, or it is corrupt.
Resolve(ref) ==
  IF ref.id \notin Blob THEN [tag |-> "Unresolvable"]
  ELSE IF blobs[ref.id] = None THEN [tag |-> "Missing"]
  ELSE IF blobs[ref.id] = Some(ref.id) /\ (ref.len = None \/ ref.len = Some(Len(ref.id)))
  THEN [tag |-> "Available", bytes |-> blobs[ref.id][1]]
  ELSE [tag |-> "Corrupt"]

\* What was available is not looked at again while it keeps an owner.
RefreshedStates ==
  LET kept == RefsIn(Accepted(view) \cap Accepted(received)) IN
    [ref \in RefsIn(Accepted(received)) |->
       IF ref \in kept /\ states[ref] = "Available" THEN "Available" ELSE Resolve(ref).tag]

\* The posting lists of the index; None selects every operation.
Posting(key) ==
  IdsOf({r \in Accepted(view) : key = None \/ key[1] \in Keys(r)})

\* Pairs of an old address and the record converted from it, and the items that
\* records name; conflicts included.
Aliases == UNION {{<< a, r.id >> : a \in Addresses(r)} : r \in view}
Items == UNION {{r.item} \cup r.session \cup r.turn \cup r.author : r \in {x \in view : x.activity}}

FirstTwo(ids) == LET s == Ascending(ids) IN SubSeq(s, 1, IF Len(s) < 2 THEN Len(s) ELSE 2)

\* Two candidates of each kind are enough to know that there is more than one.
IdCandidates(lower, upper) ==
  LET within(ids) == ToSet(FirstTwo({id \in ids : lower <= id /\ id <= upper}))
  IN  FirstTwo(within(IdsOf(view)) \cup within({a[1] : a \in Aliases}))

ItemCandidates(lower, upper) ==
  FirstTwo({i \in Items : lower <= i /\ i <= upper})

\* The interval of the identities that share their first digits with an id.
Prefix(id, digits) ==
  LET size == 2^(Digits - digits) IN
    [lower |-> (id \div size) * size, upper |-> (id \div size) * size + size - 1]

\* short_id: the number of digits to display.
ShortId(id) ==
  LET unique == {d \in ShortDigits .. Digits - 1 :
                   LET p == Prefix(id, d) IN IdCandidates(p.lower, p.upper) = << id >>}
  IN  IF unique = {} THEN Digits ELSE CHOOSE d \in unique : \A e \in unique : d <= e

-----------------------------------------------------------------------------
(* Lookups.                                                                *)

Missing == [tag |-> "missing"]
Found(v) == [tag |-> "found", value |-> v]
Conflicted(rs) == [tag |-> "conflicted", variants |-> rs]
Ambiguous(ids) == [tag |-> "ambiguous", ids |-> ids]

\* try_map: the mapped value of what was found, any other outcome as it is.
TryMap(lookup, mapped) == IF lookup.tag = "found" THEN Found(mapped) ELSE lookup

Operation(id) ==
  LET rs == Variants(view, id) IN
    IF rs = {} THEN Missing
    ELSE IF rs \subseteq Accepted(view) THEN Found(CHOOSE r \in rs : TRUE)
    ELSE Conflicted(rs)

ResolveAlias(id) ==
  LET mapped == FirstTwo({a[2] : a \in {x \in Aliases : x[1] = id}}) IN
    IF id \in IdsOf(view) \/ mapped = << >> THEN Found(id)
    ELSE IF Len(mapped) = 1 THEN Found(mapped[1])
    ELSE Ambiguous(mapped)

\* A prefix that two identities share is answered with the first.
ResolveFirst(id, digits) ==
  LET p == Prefix(id, digits)
      candidates == IdCandidates(p.lower, p.upper)
  IN  IF digits = Digits THEN ResolveAlias(id)
      ELSE IF candidates = << >> THEN Missing
      ELSE ResolveAlias(candidates[1])

\* resolve_id of the first digits of an identity.
ResolveId(id, digits) ==
  LET p == Prefix(id, digits)
      candidates == IdCandidates(p.lower, p.upper)
  IN  IF digits = Digits THEN ResolveAlias(id)
      ELSE IF candidates = << >> THEN Missing
      ELSE IF Len(candidates) = 1 THEN ResolveAlias(candidates[1])
      ELSE Ambiguous(candidates)

ResolveItem(item, digits) ==
  LET p == Prefix(item, digits)
      candidates == ItemCandidates(p.lower, p.upper)
  IN  IF digits = Digits THEN Found(item)
      ELSE IF candidates = << >> THEN Missing
      ELSE IF Len(candidates) = 1 THEN Found(candidates[1])
      ELSE Ambiguous(candidates)

-----------------------------------------------------------------------------
(* Pages.                                                                  *)

\* The continuation is the first identity left out instead of the last one read.
HistorySkipping(key, after, limit) ==
  LET ids == Ascending({id \in Posting(key) : after = None \/ id > after[1]})
      more == Len(ids) > limit
  IN  [items |-> IF more THEN SubSeq(ids, 1, limit) ELSE ids,
       next |-> IF more THEN Some(ids[limit + 1]) ELSE None]

\* history: one identity more than the limit is asked for, to know there is one.
History(key, after, limit) ==
  LET ids == Ascending({id \in Posting(key) : after = None \/ id > after[1]})
      more == Len(ids) > limit
  IN  [items |-> IF more THEN SubSeq(ids, 1, limit) ELSE ids,
       next |-> IF more THEN Some(ids[limit]) ELSE None]

RECURSIVE HistoryFrom(_, _)
HistoryFrom(key, after) ==
  LET page == History(key, after, HistoryLimit) IN
    IF page.next = None THEN page.items ELSE page.items \o HistoryFrom(key, page.next)

AllHistory(key) == HistoryFrom(key, None)

Entry(id) == Operation(id).value

\* Entities a relationship connects.
Ops(ids) == {<< "operation", id >> : id \in ids}
ItemsOf(items) == {<< "item", i >> : i \in items}
Edges(source, targets, kind) == {[source |-> source, target |-> t, kind |-> kind] : t \in targets}

\* modern_relationships: the envelope, then what the category asserts.
ModernRelationships(r) ==
  LET op == << "operation", r.id >>
      item == << "item", r.item >>
      git(oid) == << "git", oid >>
      of(field) == Named(r, field)
  IN  Edges(op, ItemsOf(r.session), "session") \cup Edges(op, ItemsOf(r.turn), "turn")
        \cup Edges(op, ItemsOf(r.causes), "cause") \cup Edges(op, Ops(r.original), "original")
        \cup CASE r.kind = "session" -> Edges(item, ItemsOf(of("parent")), "parent_session")
                                          \cup Edges(item, Ops(of("initiated_by")), "initiated_by")
               [] r.kind = "turn" -> Edges(op, Ops(of("triggers")), "trigger")
               [] r.kind = "message" -> Edges(op, Ops(of("coverage")), "summarizes")
               [] r.kind = "tool" -> Edges(item, ItemsOf(of("parent_call")), "parent_call")
               [] r.kind = "file" -> Edges(op, ItemsOf(of("caused_by")), "caused_by")
               [] r.kind = "note" -> Edges(op, ItemsOf(of("items")) \cup Ops(of("targets")), "annotates")
               [] r.kind = "link" -> UNION {Edges(from, of("to"), "relation") : from \in of("from")}
               [] r.kind = "commit" ->
                    UNION {Edges(git(oid), {git(p) : p \in of("parents")}, "git_parent")
                             \cup Edges(git(oid), Ops(of("imported_record")), "original") : oid \in of("oid")}
               [] OTHER -> {}

\* What the older kinds of record assert.
OlderRelationships(r) ==
  LET op == << "operation", r.id >>
      git(oid) == << "git", oid >>
      sessions(ids) == {<< "session", s >> : s \in ids}
      of(field) == Named(r, field)
  IN  CASE r.kind = "note" -> Edges(op, Ops(of("target_ids")), "annotation")
        [] r.kind = "session" -> UNION {Edges(s, sessions(of("parent")), "session parent") : s \in sessions(of("id"))}
        [] r.kind = "commit" ->
             UNION {Edges(git(oid), {git(p) : p \in of("parents")}, "git parent")
                      \cup Edges(git(oid), Ops(of("imported_record")), "imported record") : oid \in of("oid")}
        [] r.kind = "gitlink" -> UNION {Edges(s, {git(t) : t \in of("target")}, "git link") : s \in Ops(of("source"))}
        [] OTHER -> {}

CausalParents(r) == Edges(<< "operation", r.id >>, Ops(ToSet(r.parents)), "parent")

\* recorded_relationships
Relationships(r) ==
  CausalParents(r) \cup (IF r.activity THEN ModernRelationships(r) ELSE OlderRelationships(r))

\* Records of a kind that the whole history of a key holds.
HistoryOf(key, activity, kind) ==
  {r \in {Entry(id) : id \in ToSet(AllHistory(Some(key)))} : r.activity = activity /\ r.kind = kind}

ActorRecords(r) ==
  IF r.activity THEN UNION {HistoryOf(<< "item", a >>, TRUE, "author") : a \in r.author}
  ELSE HistoryOf(<< "actor", r.actor >>, FALSE, "actor")

\* An older record belongs to the session it registers, else to that of its scope.
SessionRecords(r) ==
  LET own == IF r.kind = "session" THEN Named(r, "id")
             ELSE {k[2] : k \in {x \in r.scope : x[1] = "session"}}
  IN  IF r.activity THEN UNION {HistoryOf(<< "item", s >>, TRUE, "session") : s \in r.session}
      ELSE UNION {{x \in HistoryOf(<< "session", s >>, FALSE, "session") : s \in Named(x, "id")} : s \in own}

\* operation_meta: records about its actor and session, its parents looked up,
\* and every relationship it asserts or takes part in.
OperationMeta(id) ==
  LET r == Entry(id)
      all == {Entry(i) : i \in ToSet(AllHistory(None))}
  IN  TryMap(Operation(id),
        [record |-> r, actors |-> ActorRecords(r), sessions |-> SessionRecords(r),
         parents |-> [i \in DOMAIN r.parents |-> Operation(r.parents[i])],
         relationships |->
           UNION {{l \in Relationships(x) : x.id = id \/ << "operation", id >> \in {l.source, l.target}} :
                    x \in all}])

\* ancestors: pending identities in order, at most limit of them looked up.
RECURSIVE Climb(_, _, _)
Climb(pending, visited, limit) ==
  IF Cardinality(visited) >= limit \/ pending = {}
  THEN [operations |-> visited, frontier |-> pending,
        relationships |-> UNION {CausalParents(Entry(id)) :
                                   id \in {i \in visited : Operation(i).tag = "found"}}]
  ELSE LET id == CHOOSE i \in pending : \A j \in pending : i <= j
           parents == IF Operation(id).tag = "found" THEN ToSet(Entry(id).parents) ELSE {}
       IN  Climb((pending \ {id}) \cup (parents \ (visited \cup {id})), visited \cup {id}, limit)

AncestorsPastLimit(root, limit) == Climb({root}, {}, limit + 1)

Ancestors(root, limit) == Climb({root}, {}, limit)

-----------------------------------------------------------------------------
(* Content.                                                                *)

Available(bytes) == [tag |-> "Available", bytes |-> bytes]
Gap(why) == [tag |-> why]

\* What the index found available is read without being verified.
IndexedTrusting(ref) ==
  IF ref \notin DOMAIN states THEN Gap("InvalidData")
  ELSE IF states[ref] # "Available" THEN Gap(states[ref])
  ELSE IF blobs[ref.id] = None THEN Gap("Missing") ELSE Available(blobs[ref.id][1])

\* indexed_bytes: a gap of the index stays until a refresh, available bytes are
\* read and verified each time.
IndexedBytes(ref) ==
  IF ref \notin DOMAIN states THEN Gap("InvalidData")
  ELSE IF states[ref] # "Available" THEN Gap(states[ref]) ELSE Resolve(ref)

\* resolve_field
ResolveField(field) ==
  LET p == field.content IN
    CASE p.tag = "blob" -> IndexedBytes([id |-> p.bytes, len |-> p.len])
      [] p.tag = "none" -> Gap("NotRecorded")
      [] OTHER -> Available(p.bytes)

Contents(id) ==
  TryMap(Operation(id), {[name |-> f.name, value |-> ResolveField(f)] : f \in Fields(Entry(id))})

\* Three older names of fields are those of a schema-three record too.
Selected(r, name) ==
  IF r.activity /\ name \in {<< "content", f >> : f \in {"ToolName"} \cup Refs}
  THEN << "record", name[2] >> ELSE name

\* field_content: the field of a name.
FieldContent(r, name) ==
  LET named == {f \in Fields(r) : f.name = Selected(r, name)}
  IN  IF named = {} THEN Gap("NotRecorded") ELSE ResolveField(CHOOSE f \in named : TRUE)

Shared(b, a) == {n \in 0 .. (IF Len(b) < Len(a) THEN Len(b) ELSE Len(a)) :
                   SubSeq(b, 1, n) = SubSeq(a, 1, n)}
Longest(ns) == CHOOSE n \in ns : \A m \in ns : m <= n

Unavailable == [tag |-> "unavailable"]
Identical == [tag |-> "identical"]

\* compare_bytes: the suffix is counted in what the prefix leaves.
CompareBytes(before, after) ==
  IF before.tag # "Available" \/ after.tag # "Available" THEN Unavailable
  ELSE IF before.bytes = after.bytes THEN Identical
  ELSE LET b == before.bytes
           a == after.bytes
           prefix == Longest(Shared(b, a))
           rest(s) == SubSeq(s, prefix + 1, Len(s))
           suffix == Longest(Shared(Reverse(rest(b)), Reverse(rest(a))))
       IN  [tag |-> "changed", start |-> prefix,
            beforeEnd |-> Len(b) - suffix, afterEnd |-> Len(a) - suffix]

InvalidInput == [tag |-> "invalid input"]

\* diff of a recorded file revision; other accepted records are refused.
Diff(id) ==
  LET r == Entry(id)
      of(name) == FieldContent(r, << "content", name >>)
  IN  IF Operation(id).tag = "found" /\ r.kind # "file" THEN InvalidInput
      ELSE TryMap(Operation(id),
             [before |-> of("FileBase"), after |-> of("FileAfter"), edit |-> of("FileEdit"),
              comparison |-> CompareBytes(of("FileBase"), of("FileAfter"))])

Occurs(text, bytes) ==
  \E i \in 0 .. Len(bytes) - Len(text) : SubSeq(bytes, i + 1, i + Len(text)) = text

\* search of one record: is it a hit, and is some field of it unavailable?
Hit(r, text) ==
  \E f \in Fields(r) : LET c == ResolveField(f) IN
    c.tag = "Available" /\ Occurs(text, c.bytes)

Gapped(r) == \E f \in Fields(r) : ResolveField(f).tag # "Available"

\* verify_integrity: problems of content in every variant, and a clean report.
ContentIssues ==
  UNION {{<< r, ref >> : ref \in {x \in References(r) : Resolve(x).tag # "Available"}} : r \in received}

IsClean ==
  /\ view = received
  /\ states = [ref \in RefsIn(Accepted(received)) |-> Resolve(ref).tag]
  /\ Accepted(received) = received
  /\ ContentIssues = {}

-----------------------------------------------------------------------------
(* Steps: the index is refreshed, and a caller pages through a query.      *)

Idle == [on |-> FALSE, query |-> None, limit |-> 0, after |-> None,
         hits |-> << >>, gaps |-> {}, steady |-> {}]

QueriesInit ==
  /\ received = {} /\ view = {} /\ states = << >> /\ scan = Idle
  /\ blobs = [id \in Blob |-> None]

\* Records a query is about, as they were recorded.
Incident(r, entity) ==
  \E l \in Relationships(r) : entity \in {l.source, l.target}

Selects(q, r) ==
  /\ q.key = None \/ q.key[1] \in Keys(r)
  /\ q.entity = None \/ Incident(r, q.entity[1])
  /\ q.text = None \/ \E f \in Fields(r) : Occurs(q.text[1], f.content.bytes)

\* refresh of the index: what a handle that stays open sees next.
Refresh ==
  /\ << view, states >> # << received, RefreshedStates >>
  /\ view' = received
  /\ states' = RefreshedStates
  /\ scan' = [scan EXCEPT !.steady = @ \cap Accepted(received)]
  /\ UNCHANGED << received, blobs >>

StartScan(q, limit) ==
  /\ scan = Idle
  /\ scan' = [Idle EXCEPT !.on = TRUE, !.query = Some(q), !.limit = limit,
                          !.steady = {r \in Accepted(view) : Selects(q, r)}]
  /\ UNCHANGED << received, blobs, view, states >>

\* One page of history, git, relationships or search.
ReadPage ==
  /\ scan.on
  /\ LET q == scan.query[1]
         page == History(q.key, scan.after, scan.limit)
         matches(id) == /\ q.entity = None \/ Incident(Entry(id), q.entity[1])
                        /\ q.text = None \/ Hit(Entry(id), q.text[1])
     IN  scan' = [scan EXCEPT
                    !.on = page.next # None, !.after = page.next,
                    !.hits = @ \o SelectSeq(page.items, matches),
                    !.gaps = @ \cup {id \in ToSet(page.items) : q.text # None /\ Gapped(Entry(id))}]
  /\ UNCHANGED << received, blobs, view, states >>

EndScan == ~ scan.on /\ scan # Idle /\ scan' = Idle /\ UNCHANGED << received, blobs, view, states >>

\* A blob arrives, perhaps damaged, or is damaged or lost later.
BlobChanges(id, bytes) ==
  /\ bytes # blobs[id]
  /\ blobs' = [blobs EXCEPT ![id] = bytes]
  /\ UNCHANGED << received, view, states, scan >>

-----------------------------------------------------------------------------
\* A caller that follows next_after to the end, while the index is refreshed
\* between its pages, gets identities in order and each once, and misses no
\* record that was accepted all along: a search either hits it or lists a gap.
ScanComplete ==
  /\ \A i, j \in DOMAIN scan.hits : i < j => scan.hits[i] < scan.hits[j]
  /\ \A i \in DOMAIN scan.hits :
       \E r \in received : r.id = scan.hits[i] /\ Selects(scan.query[1], r)
  /\ scan # Idle /\ ~ scan.on => IdsOf(scan.steady) \subseteq ToSet(scan.hits) \cup scan.gaps

\* What the explicit parents of accepted records reach from an identity.
RECURSIVE Reached(_)
Reached(ids) ==
  LET more == ids \cup UNION {ToSet(r.parents) : r \in {x \in Accepted(view) : x.id \in ids}}
  IN  IF more = ids THEN ids ELSE Reached(more)

\* A traversal of ancestors looks up as many identities as its budget and the
\* recorded parents allow, whatever cycles, gaps and conflicts they have, and
\* its frontier is exactly what it would have looked at next.
AncestorsExact ==
  scan = Idle =>
    \A root \in IdsOf(received), limit \in 1 .. Cardinality(IdsOf(received)) + 1 :
      LET all == Reached({root})
          graph == Ancestors(root, limit)
          seen == graph.operations
      IN  /\ seen \subseteq all
          /\ Cardinality(seen) = (IF limit < Cardinality(all) THEN limit ELSE Cardinality(all))
          /\ \A l \in graph.relationships : l.target[2] \in seen \cup graph.frontier
          /\ graph.frontier =
               ({root} \cup UNION {ToSet(r.parents) : r \in {x \in Accepted(view) : x.id \in seen}}) \ seen

\* A prefix never chooses: it is answered only when one retained identity or old
\* address has it, conflicts included, and the prefix short_id displays leads
\* back to its operation.  Reading everything in pages loses nothing.
ResolutionExact ==
  scan = Idle =>
    LET retained == IdsOf(view) \cup {a[1] : a \in Aliases} IN
    /\ \A id \in Ids, d \in ShortDigits .. Digits - 1 :
         LET known == {i \in retained : i \div 2^(Digits - d) = id \div 2^(Digits - d)}
             answer == ResolveId(id, d)
         IN  /\ known = {} <=> answer = Missing
             /\ Cardinality(known) > 1 => answer.tag = "ambiguous" /\ ToSet(answer.ids) \subseteq known
             /\ Cardinality(known) = 1 /\ answer.tag = "found" =>
                  answer.value \in known \/ \E a \in Aliases : a[1] \in known /\ a[2] = answer.value
    /\ \A r \in view : ResolveId(r.id, ShortId(r.id)) = Found(r.id)
    /\ \A i \in Items :
         ResolveItem(i, ShortDigits).tag = "found" => ResolveItem(i, ShortDigits).value = i
    /\ \A key \in Key : ToSet(AllHistory(Some(key))) = Posting(Some(key))
    /\ \A r \in Accepted(view) :
         LET meta == OperationMeta(r.id).value
             about(x) == IF x = r THEN Relationships(x)
                         ELSE {l \in Relationships(x) : << "operation", r.id >> \in {l.source, l.target}}
         IN  /\ meta.relationships = UNION {about(x) : x \in Accepted(view)}
             /\ r.activity => meta.sessions = {x \in Accepted(view) : x.activity /\ x.kind = "session" /\ x.item \in r.session}

\* Bytes are answered only as they were recorded, however a file was damaged
\* since it was indexed; every blob that a field of any kind of record can name
\* is kept track of; a comparison of two fields tells exactly how to turn one
\* into the other, never with overlapping ranges; and a clean report means that
\* every retained record is answered in full.
ContentExact ==
  /\ \A kind \in DOMAIN OlderFields : OlderFields[kind] \ {"ChainName"} \subseteq OlderPayloads[kind]
  /\ scan = Idle =>
       LET all == UNION {Fields(r) : r \in Accepted(view)} IN
         /\ \A f \in all : LET c == ResolveField(f) IN
              /\ c.tag # "InvalidData"
              /\ c.tag = "Available" => c.bytes = f.content.bytes
         /\ IsClean => \A f \in all : ResolveField(f).tag \in {"Available", "NotRecorded"}
         /\ \A f, g \in all :
              LET before == ResolveField(f)
                  after == ResolveField(g)
                  range == CompareBytes(before, after)
              IN  range.tag = "changed" =>
                    /\ range.start <= range.beforeEnd /\ range.start <= range.afterEnd
                    /\ after.bytes = SubSeq(before.bytes, 1, range.start)
                                       \o SubSeq(after.bytes, range.start + 1, range.afterEnd)
                                       \o SubSeq(before.bytes, range.beforeEnd + 1, Len(before.bytes))
         /\ \A r \in view :
              /\ Contents(r.id).tag = "found" <=> r \in Accepted(view)
              /\ Diff(r.id).tag = "found" =>
                   /\ r.kind = "file"
                   /\ Diff(r.id).value.comparison = Identical => r.before.bytes = r.after.bytes
=============================================================================
