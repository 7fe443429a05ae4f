------------------------------ MODULE MCReader ------------------------------
\* Small instance of Reader: a message in three parts and the session it belongs
\* to; two more variants of its second part, one that would close a cycle and one
\* that is an attempt of a tool call with a predecessor elsewhere; a file revision
\* whose parents form a cycle with the message; another snapshot of the message,
\* earlier in the order of its recorder; an older file revision with an identity
\* that cannot be resolved and a length that is wrong; and a record its contract
\* refuses.
EXTENDS Reader

Inline(bytes) == [tag |-> "inline", bytes |-> bytes]
Stored(bytes) == [tag |-> "blob", bytes |-> bytes, len |-> Some(Len(bytes))]
Revision(bytes) == [tag |-> "blob", bytes |-> bytes, len |-> None]
Empty == [tag |-> "empty", bytes |-> << >>]
Nobody == [f \in {} |-> {}]

Rec(id, parents, kind, item, updates) ==
  [id |-> id, parents |-> parents, kind |-> kind, item |-> item, updates |-> updates,
   payloads |-> {[name |-> IF kind = "tool" THEN "Output" ELSE "MessageBlock", content |-> u.content] :
                   u \in updates},
   recorder |-> 1, legacy |-> {}, folded |-> {}, original |-> {}, causes |-> {},
   session |-> {}, turn |-> {}, author |-> {}, actor |-> 1, scope |-> {}, named |-> Nobody,
   attempt |-> 0, finished |-> FALSE, outcome |-> FALSE, sequence |-> 0, activity |-> TRUE]

File(r, before, after, edit) == r @@ [before |-> before, after |-> after, edit |-> edit]

Update(previous, mode, content) ==
  [block |-> 1, previous |-> previous, mode |-> mode, content |-> content]

big == << 1, 2, 1 >>

first  == [Rec(1, << >>, "message", 1, {Update(0, "replace", Inline(<< 1 >>))})
             EXCEPT !.session = {4}, !.original = {5}, !.sequence = 2]
second == [Rec(2, << 1 >>, "message", 1, {Update(1, "append", Stored(big))}) EXCEPT !.legacy = {7}]
forged == [Rec(2, << 4 >>, "message", 1, {Update(4, "append", Inline(<< 3 >>))}) EXCEPT !.legacy = {6}]
tool   == [Rec(2, << >>, "tool", 1, {Update(1, "append", Inline(<< 2 >>))}) EXCEPT !.attempt = 1]
last   == [Rec(4, << 2, 5 >>, "message", 1, {Update(2, "append", Inline(<< 2, 1 >>))})
             EXCEPT !.finished = TRUE, !.outcome = TRUE, !.named = [coverage |-> {2, 3}]]
file   == File([Rec(5, << 4 >>, "file", 3, {})
                  EXCEPT !.legacy = {6}, !.folded = {7}, !.named = [caused_by |-> {1}, path |-> {1}]],
               NotRecorded, Revision(big), [form |-> "payload", content |-> Inline(<< 1, 1 >>)])
newer  == [Rec(6, << 3 >>, "message", 1, {Update(0, "replace", Empty)})
             EXCEPT !.sequence = 1, !.session = {4}]
session == [Rec(0, << >>, "session", 4, {})
             EXCEPT !.payloads = {[name |-> "Label", content |-> Inline(<< 2 >>)]},
                    !.named = [initiated_by |-> {5}]]
older  == File([Rec(7, << 1, 1 >>, "file", 0, {}) EXCEPT !.activity = FALSE],
               Revision(<< 3 >>), Revision(big),
               [form |-> "blob", content |-> [Stored(big) EXCEPT !.len = Some(2)]])
broken == Rec(3, << 3 >>, "message", 1, {Update(0, "replace", Empty)})

MCIncoming == {first, second, forged, tool, last, file, newer, session, older, broken}
MCBlob == {big}
MCDamaged == << 1, 1, 1 >>
MCKey == {<< "kind", "message" >>, << "parent", 2 >>, << "content", big >>}
MCQuery == {[key |-> Some(<< "kind", "message" >>), entity |-> None, text |-> Some(<< 2, 1 >>)],
            [key |-> None, entity |-> Some(<< "operation", 2 >>), text |-> None]}
MCLimits == {1}
=============================================================================
