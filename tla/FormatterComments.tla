------------------------- MODULE FormatterComments -------------------------
(***************************************************************************)
(* Comments in the pretty-printer: their attachment to nodes               *)
(* (format/comments.rs) and the render path that weaves them in while it   *)
(* keeps the set `emitted` for its no-drop net (format/render.rs).         *)
(*                                                                         *)
(* A document is a sequence of statements.  A statement is <<"other">> (a  *)
(* canonical fragment) or <<"query", q>> with                              *)
(*   q = [ctes, body, order, limit, exotic]   `order` sort keys, a LIMIT,  *)
(*                                            a tail v1 does not lay out   *)
(*   body = <<"select", clauses>>, <<"flat">> (VALUES, an exotic SELECT),  *)
(*          <<"setop", left, right>> or <<"nested", q>>                    *)
(*   clause = [list, items]: a comma list or a single expression; an item  *)
(*            is <<>> or <<q>>, a fragment around a subquery               *)
(*   cte = [plain, query].                                                 *)
(* A node is named by its path of child numbers, so that a span contains a *)
(* comment exactly when the path of the node is a prefix of its place.     *)
(***************************************************************************)
EXTENDS Naturals, SequencesExt

CONSTANTS Documents,    \* the documents that are formatted
          MaxComments   \* bound on the comments of a document

ASSUME MaxCommentsAssumption == MaxComments \in Nat

VARIABLES stage,     \* "source", then "attached", then "formatted"
          doc,       \* the document
          slots,     \* its places for comments
          comments,  \* the captured comments in source order: [slot, line, own]
          table,     \* CommentAttachments: [node, pos] of each comment
          output     \* the pieces of the layout: one sequence per statement and
                     \* one for the no-drop net

vars == <<stage, doc, slots, comments, table, output>>

-----------------------------------------------------------------------------
(* Where a comment can stand                                               *)

\* A place in the source: its path, the direct children of the enclosing node
\* around it, whether a clause keyword separates it from the first, and
\* whether a comma follows it before the next item.
Slot(at, prec, foll, kw, comma) ==
    [at |-> at, prec |-> prec, foll |-> foll, kw |-> kw, comma |-> comma]
Inside(p) == Slot(p, <<>>, <<>>, FALSE, TRUE)

\* Item j of a clause, the place before and the place after its comma.
ItemAt(c, j) == c \o <<j>>
BeforeComma(c, j) == c \o <<10 + j>>
AfterComma(c, j) == c \o <<20 + j>>

RECURSIVE QuerySlots(_, _)

\* The places of a clause at path c: `prev` is the sibling before it, `next`
\* the one after it.
ClauseSlots(items, c, prev, next) ==
    <<Slot(c \o <<0>>, prev, ItemAt(c, 1), TRUE, FALSE)>> \o
    FlattenSeq([j \in 1..Len(items) |->
        LET foll == IF j < Len(items) THEN ItemAt(c, j + 1) ELSE next
        IN  <<Inside(ItemAt(c, j) \o <<0>>)>>
            \o (IF items[j] = <<>> THEN <<>> ELSE QuerySlots(items[j][1], ItemAt(c, j) \o <<1>>))
            \o (IF foll = <<>> THEN <<>>
                ELSE <<Slot(BeforeComma(c, j), ItemAt(c, j), foll, FALSE, TRUE)>>)
            \o (IF j = Len(items) THEN <<>>
                ELSE <<Slot(AfterComma(c, j), ItemAt(c, j), foll, FALSE, FALSE)>>)])

RECURSIVE BodySlots(_, _)
BodySlots(b, p) ==
    CASE b[1] = "flat" -> <<Inside(p \o <<0>>)>>
      [] b[1] = "nested" -> <<Inside(p \o <<1>>)>> \o QuerySlots(b[2], p \o <<2>>)
      [] b[1] = "setop" -> BodySlots(b[2], p \o <<1>>)
                           \o <<Slot(p \o <<2>>, p \o <<1>>, p \o <<3>>, FALSE, FALSE)>>
                           \o BodySlots(b[3], p \o <<3>>)
      [] OTHER ->
            LET n == Len(b[2])
            IN  FlattenSeq([k \in 1..n |->
                    ClauseSlots(b[2][k].items, p \o <<k>>,
                                IF k = 1 THEN <<>> ELSE p \o <<k - 1, Len(b[2][k - 1].items)>>,
                                IF k = n THEN <<>> ELSE p \o <<k + 1, 1>>)])

OrderItems(q) == [j \in 1..q.order |-> <<>>]

QuerySlots(q, p) ==
    LET first == IF q.order > 0 THEN p \o <<4, 1>> ELSE IF q.limit THEN p \o <<5>> ELSE <<>>
    IN  FlattenSeq([k \in 1..Len(q.ctes) |->
                       <<Inside(p \o <<1, k, 0>>)>> \o QuerySlots(q.ctes[k].query, p \o <<1, k, 1>>)])
        \o BodySlots(q.body, p \o <<2>>)
        \o (IF first = <<>> THEN <<>> ELSE <<Slot(p \o <<3>>, p \o <<2>>, first, FALSE, FALSE)>>)
        \o (IF q.order = 0 THEN <<>>
            ELSE ClauseSlots(OrderItems(q), p \o <<4>>, p \o <<2>>,
                             IF q.limit THEN p \o <<5>> ELSE <<>>))
        \o (IF q.limit THEN <<Inside(p \o <<5>>)>> ELSE <<>>)

\* The places of a document: before each statement, in it, and after the last.
Slots(d) ==
    FlattenSeq([i \in 1..Len(d) |->
        <<Slot(<<0, i>>, IF i = 1 THEN <<>> ELSE <<i - 1>>, <<i>>, TRUE, FALSE)>>
        \o (IF d[i][1] = "query" THEN QuerySlots(d[i][2], <<i>>) ELSE <<Inside(<<i, 0>>)>>)])
    \o <<Slot(<<0, Len(d) + 1>>, IF d = <<>> THEN <<>> ELSE <<Len(d)>>, <<>>, FALSE, FALSE)>>

-----------------------------------------------------------------------------
(* The attachment pass                                                     *)

\* Mutant: a clause keyword before the comment is not looked for.
AttachIgnoringKeyword(c) ==
    CASE c.slot.prec # <<>> /\ c.slot.foll # <<>> ->
            IF c.own THEN [node |-> c.slot.foll, pos |-> "leading"]
            ELSE [node |-> c.slot.prec, pos |-> "trailing"]
      [] c.slot.foll # <<>> -> [node |-> c.slot.foll, pos |-> "leading"]
      [] c.slot.prec # <<>> -> [node |-> c.slot.prec, pos |-> "trailing"]
      [] OTHER -> [node |-> <<>>, pos |-> "dangling"]

\* classify and attach_top_level, with the enclosing node and its children
\* given by the place.  Comments attached inside a fragment have no node the
\* renderer looks up.
AttachComment(c) ==
    CASE c.slot.prec # <<>> /\ c.slot.foll # <<>> ->
            IF c.own \/ c.slot.kw THEN [node |-> c.slot.foll, pos |-> "leading"]
            ELSE [node |-> c.slot.prec, pos |-> "trailing"]
      [] c.slot.prec = <<>> /\ c.slot.foll # <<>> -> [node |-> c.slot.foll, pos |-> "leading"]
      [] c.slot.prec # <<>> /\ c.slot.foll = <<>> -> [node |-> c.slot.prec, pos |-> "trailing"]
      [] OTHER -> [node |-> <<>>, pos |-> "dangling"]

-----------------------------------------------------------------------------
(* The render path.  Every function threads `em`, the set `emitted`, and   *)
(* returns [ok, out, em]; a piece is syntax, a break, or a comment.  The   *)
(* keyword of a clause and the start of an item are named by their path.   *)

Tok == <<"tok">>
Named(p) == <<"tok", p>>
HardLine == <<"hardline">>
Line == <<"line">>
Comment(c) == <<"comment", c>>

Rendered(ok, out, em) == [ok |-> ok, out |-> out, em |-> em]

Ids == 1..Len(comments)
InOrder(S) == SetToSortSeq(S, <)
Attached(p, pos) == {c \in Ids : table[c] = [node |-> p, pos |-> pos]}
Within(p) == {c \in Ids : IsPrefix(p, comments[c].slot.at)}

\* leading, trailing and interior: what they write, and what they mark.
Leading(p) == FlattenSeq([k \in 1..Cardinality(Attached(p, "leading")) |->
                             <<Comment(InOrder(Attached(p, "leading"))[k]), HardLine>>])
Trailing(p) == LET s == InOrder(Attached(p, "trailing"))
               IN  [k \in 1..Len(s) |-> Comment(s[k])]
Interior(p, em) ==
    LET s == InOrder(Within(p) \ em)
    IN  FlattenSeq([k \in 1..Len(s) |-> IF comments[s[k]].line
                                        THEN <<Comment(s[k]), HardLine>> ELSE <<Comment(s[k])>>])

HasHardLine(out) == \E i \in 1..Len(out) : out[i] = HardLine

RECURSIVE TryQuery(_, _, _)

\* structured_subquery: layout r of a subquery in the fragment of item p, or
\* the fragment on one line, with what is marked then.
Relaid(p, r, inline) ==
    IF r.ok /\ HasHardLine(r.out)
    THEN Rendered(TRUE, <<Named(p), HardLine>> \o r.out \o <<HardLine, Tok>>, r.em)
    ELSE Rendered(TRUE, <<Named(p)>>, inline)

RelaidKeeping(p, r) == Relaid(p, r, r.em)

\* Mutant: an inline subquery keeps what its layout marked.
ItemDocKeeping(item, p, em) ==
    IF item = <<>> THEN Rendered(TRUE, <<Named(p)>>, em)
    ELSE RelaidKeeping(p, TryQuery(item[1], p \o <<1>>, em))

\* relayout_fragment: a subquery kept inline gives its comments back.
ItemDoc(item, p, em) ==
    IF item = <<>> THEN Rendered(TRUE, <<Named(p)>>, em)
    ELSE Relaid(p, TryQuery(item[1], p \o <<1>>, em), em)

\* The docs of all items are built before the comments of any.
AddDoc(docs, r) == [outs |-> Append(docs.outs, r.out), em |-> r.em]
ItemDocs(items, c, em) ==
    FoldLeft(LAMBDA docs, j : AddDoc(docs, ItemDoc(items[j], ItemAt(c, j), docs.em)),
             [outs |-> <<>>, em |-> em], [j \in 1..Len(items) |-> j])

\* item_comments: the comments of an item that nothing emitted yet.
ItemComments(p, em) == (Within(p) \cup Attached(p, "trailing")) \ em

\* Mutant: a line comment does not force the list to break.
ForcesBreakLeading(items, c, em) ==
    \E j \in 1..Len(items) : Attached(ItemAt(c, j), "leading") # {}

ForcesBreak(items, c, em) ==
    \E j \in 1..Len(items) :
        \/ Attached(ItemAt(c, j), "leading") # {}
        \/ \E d \in ItemComments(ItemAt(c, j), em) : comments[d].line

\* list_clause, once the docs of its items are built.  A comment inside the
\* item stands before its comma.
ListLines(items, c, docs) ==
    LET Piece(j) ==
            LET mine == ItemComments(ItemAt(c, j), docs.em)
                before == {d \in mine : /\ j < Len(items) /\ ~comments[d].line
                                        /\ \/ comments[d].slot.comma
                                           \/ IsPrefix(ItemAt(c, j), comments[d].slot.at)}
                Texts(S) == [k \in 1..Cardinality(S) |-> Comment(InOrder(S)[k])]
            IN  (IF j = 1 THEN <<>> ELSE Leading(ItemAt(c, j)))
                \o docs.outs[j] \o Texts(before)
                \o (IF j < Len(items) THEN <<Tok>> ELSE <<>>) \o Texts(mine \ before)
        break == IF ForcesBreak(items, c, docs.em) THEN HardLine ELSE Line
        pieces == FlattenSeq([j \in 1..Len(items) |->
                                 (IF j = 1 THEN <<>> ELSE <<break>>) \o Piece(j)])
    IN  Rendered(TRUE, Leading(ItemAt(c, 1)) \o <<Named(c), Line>> \o pieces,
                 docs.em \cup UNION {Attached(ItemAt(c, j), "leading")
                                     \cup ItemComments(ItemAt(c, j), docs.em) :
                                     j \in 1..Len(items)})
ListClause(items, c, em) == ListLines(items, c, ItemDocs(items, c, em))

\* expr_clause, around the doc of its item at p.
ExprLine(p, body) ==
    Rendered(TRUE, Leading(p) \o <<Named(Front(p))>> \o body.out \o Interior(p, body.em) \o Trailing(p),
             body.em \cup Within(p) \cup Attached(p, "trailing"))
ExprClause(item, p, em) == ExprLine(p, ItemDoc(item, p, em \cup Attached(p, "leading")))

Clause(cl, c, em) == IF cl.list THEN ListClause(cl.items, c, em)
                     ELSE ExprClause(cl.items[1], ItemAt(c, 1), em)

\* Two parts in order, each on its own lines.
Both(a, b) == Rendered(b.ok,
                       a.out \o (IF a.out = <<>> \/ b.out = <<>> THEN <<>> ELSE <<HardLine>>)
                             \o b.out, b.em)

\* The `?` of the layout: a part that is declined ends it.
Then(a, Part(_)) == IF a.ok THEN Both(a, Part(a.em)) ELSE a

Nothing(em) == Rendered(TRUE, <<>>, em)
Declined(em) == Rendered(FALSE, <<>>, em)
Word(em) == Rendered(TRUE, <<Tok>>, em)

Clauses(cls, p, em) ==
    FoldLeft(LAMBDA r, k : Both(r, Clause(cls[k], p \o <<k>>, r.em)),
             Nothing(em), [k \in 1..Len(cls) |-> k])

RECURSIVE SetExpr(_, _, _)
SetExpr(b, p, em) ==
    CASE b[1] = "select" -> Clauses(b[2], p, em)
      [] b[1] = "nested" -> TryQuery(b[2], p \o <<2>>, em)
      [] b[1] = "setop" -> Then(Then(SetExpr(b[2], p \o <<1>>, em), Word),
                                LAMBDA e : SetExpr(b[3], p \o <<3>>, e))
      [] OTHER -> Declined(em)

\* with_clause and cte.
InParens(r) == IF r.ok THEN Rendered(TRUE, <<Tok, HardLine>> \o r.out \o <<HardLine, Tok>>, r.em)
               ELSE r
Cte(cte, p, em) == IF cte.plain THEN InParens(TryQuery(cte.query, p \o <<1>>, em))
                   ELSE Declined(em)
Ctes(ctes, p, em) ==
    FoldLeft(LAMBDA r, k : Then(r, LAMBDA e : Cte(ctes[k], p \o <<1, k>>, e)),
             Nothing(em), [k \in 1..Len(ctes) |-> k])

OrderBy(q, p, em) == IF q.order = 0 THEN Nothing(em)
                     ELSE ListClause(OrderItems(q), p \o <<4>>, em)
Limit(q, em) == IF q.limit THEN Word(em) ELSE Nothing(em)

\* try_query: the first part that cannot be laid out ends it, with whatever
\* the parts before it have marked.
TryQuery(q, p, em) ==
    IF q.exotic THEN Declined(em)
    ELSE Then(Then(Then(Ctes(q.ctes, p, em),
                        LAMBDA e : SetExpr(q.body, p \o <<2>>, e)),
                   LAMBDA e : OrderBy(q, p, e)),
              LAMBDA e : Limit(q, e))

\* query: the structured layout, or the canonical fragment with the comments
\* in its span that are not yet marked.
OrFragment(r, p) == IF r.ok THEN r
                    ELSE Rendered(TRUE, <<Tok>> \o Interior(p, r.em), r.em \cup Within(p))
Query(q, p, em) == OrFragment(TryQuery(q, p, em), p)

Edged(body, p) == Rendered(TRUE, Leading(p) \o body.out \o Trailing(p),
                           body.em \cup Attached(p, "trailing"))
StatementBody(s, p, em) == IF s[1] = "query" THEN Query(s[2], p, em)
                           ELSE OrFragment(Declined(em), p)
RenderStatement(s, p, em) ==
    Edged(StatementBody(s, p, em \cup Attached(p, "leading")), p)

\* document: the statements joined by `;`, then the no-drop net.
AddStatement(r, i, s) ==
    [outs |-> Append(r.outs, s.out \o (IF i < Len(doc) THEN <<Tok, HardLine>> ELSE <<>>)),
     em |-> s.em]
NoDropNet(r) ==
    LET left == InOrder(Ids \ r.em)
    IN  Append(r.outs, FlattenSeq([k \in 1..Len(left) |-> <<HardLine, Comment(left[k])>>]))
Document ==
    NoDropNet(FoldLeft(LAMBDA r, i : AddStatement(r, i, RenderStatement(doc[i], <<i>>, r.em)),
                       [outs |-> <<>>, em |-> {}], [i \in 1..Len(doc) |-> i]))

-----------------------------------------------------------------------------
(* The behaviour: a source with comments is parsed, its comments are       *)
(* attached, and it is formatted.                                          *)

Init == /\ stage = "source" /\ doc \in Documents /\ slots = Slots(doc)
        /\ comments = <<>> /\ table = <<>> /\ output = <<>>

SlotIndex(c) == CHOOSE i \in 1..Len(slots) : slots[i] = c.slot

\* The next comment of the source.  It is on a line of its own with respect to
\* the node before it when an earlier comment after that node ended the line.
WriteComment ==
    /\ stage = "source" /\ Len(comments) < MaxComments
    /\ \E i \in 1..Len(slots), line \in BOOLEAN, own \in BOOLEAN :
          LET slot == slots[i]
          IN  /\ comments # <<>> => i >= SlotIndex(Last(comments))
              /\ IF slot.prec = <<>> THEN ~own
                 ELSE \A c \in Ids : comments[c].slot.prec = slot.prec
                                          => (comments[c].line \/ comments[c].own => own)
              /\ comments' = Append(comments, [slot |-> slot, line |-> line, own |-> own])
    /\ UNCHANGED <<stage, doc, slots, table, output>>

\* CommentAttachments::compute.
Attach ==
    /\ stage = "source" /\ stage' = "attached"
    /\ table' = [c \in Ids |-> AttachComment(comments[c])]
    /\ UNCHANGED <<doc, slots, comments, output>>

\* PrettyRenderer::document.
Format ==
    /\ stage = "attached" /\ stage' = "formatted"
    /\ output' = Document
    /\ UNCHANGED <<doc, slots, comments, table>>

Next == WriteComment \/ Attach \/ Format

Spec == Init /\ [][Next]_vars

-----------------------------------------------------------------------------
(* Where a comment must come out                                           *)

\* The items that the layout of a query visits, and the parts it declines.
\* Those of a subquery inside an item are not on this spine.
RECURSIVE ItemsOfQuery(_, _), DeclinedIn(_, _)
RECURSIVE ItemsOfBody(_, _), DeclinedInBody(_, _)

ItemsOfBody(b, p) ==
    CASE b[1] = "select" -> UNION {{p \o <<k, j>> : j \in 1..Len(b[2][k].items)} : k \in 1..Len(b[2])}
      [] b[1] = "nested" -> ItemsOfQuery(b[2], p \o <<2>>)
      [] b[1] = "setop" -> ItemsOfBody(b[2], p \o <<1>>) \cup ItemsOfBody(b[3], p \o <<3>>)
      [] OTHER -> {}

ItemsOfQuery(q, p) ==
    UNION {ItemsOfQuery(q.ctes[k].query, p \o <<1, k, 1>>) : k \in 1..Len(q.ctes)}
        \cup ItemsOfBody(q.body, p \o <<2>>) \cup {p \o <<4, j>> : j \in 1..q.order}

DeclinedInBody(b, p) ==
    CASE b[1] = "flat" -> {p}
      [] b[1] = "nested" -> DeclinedIn(b[2], p \o <<2>>)
      [] b[1] = "setop" -> DeclinedInBody(b[2], p \o <<1>>) \cup DeclinedInBody(b[3], p \o <<3>>)
      [] OTHER -> {}

DeclinedIn(q, p) ==
    IF q.exotic THEN {p}
    ELSE UNION {IF q.ctes[k].plain THEN DeclinedIn(q.ctes[k].query, p \o <<1, k, 1>>)
                ELSE {p \o <<1, k>>} : k \in 1..Len(q.ctes)}
         \cup DeclinedInBody(q.body, p \o <<2>>)

\* Path p is before path r in the source, and not around or inside it.
Precedes(p, r) == \E k \in 1..Len(p) : /\ k <= Len(r) /\ p[k] < r[k]
                                       /\ SubSeq(p, 1, k - 1) = SubSeq(r, 1, k - 1)

Claims(x, c) == IsPrefix(x, comments[c].slot.at) \/ table[c].node = x

\* Statement i takes the comment: it is inside it, or attached to its edge.
Owner(c) == IF comments[c].slot.at[1] # 0 THEN comments[c].slot.at[1]
            ELSE IF table[c].node = <<>> THEN Len(doc) + 1 ELSE table[c].node[1]

SpineItems(i) == ItemsOfQuery(doc[i][2], <<i>>)
SpineDeclined(i) == DeclinedIn(doc[i][2], <<i>>)

InQuery(c) == LET i == comments[c].slot.at[1] IN i # 0 /\ doc[i][1] = "query"

\* The comments on the spine of a statement that is laid out.
InLayout(c) ==
    LET i == comments[c].slot.at[1]
    IN  /\ InQuery(c) /\ SpineDeclined(i) = {}
        /\ \A x \in SpineItems(i) : ~IsPrefix(x, comments[c].slot.at)

\* Those that no item claims: between set operands, after the parenthesis of a
\* nested query, in the head of a CTE, in LIMIT or on a line of its own before
\* it, or on the line of the last clause before ORDER BY or LIMIT.  Nothing
\* writes them but the net at the end of the document, although format.rs says
\* that the pretty path "no longer relocates one to the tail" (line 81).
Relocated(c) == InLayout(c) /\ table[c].node \notin SpineItems(comments[c].slot.at[1])

\* The comments that an item claimed before the layout of its statement was
\* given up: query() writes the fragment and leaves them marked.
Dropped(c) ==
    LET i == comments[c].slot.at[1]
    IN  /\ InQuery(c) /\ SpineDeclined(i) # {}
        /\ \E x \in SpineItems(i) : /\ Claims(x, c)
                                    /\ \A d \in SpineDeclined(i) : Precedes(x, d)

\* Where a comment stands in the output.
Places(c) == UNION {{<<i, k>> : k \in {k \in 1..Len(output[i]) : output[i][k] = Comment(c)}} :
                    i \in 1..Len(output)}

-----------------------------------------------------------------------------
(* Properties                                                              *)

TypeOK ==
    /\ stage \in {"source", "attached", "formatted"} /\ doc \in Documents
    /\ \A c \in Ids : comments[c].slot \in Range(slots)
    /\ stage = "source" => table = <<>>
    /\ stage # "source" =>
          DOMAIN table = Ids /\ \A c \in Ids : table[c].pos \in {"leading", "trailing", "dangling"}
    /\ (stage = "formatted") <=> (output # <<>>)

\* Each comment is written exactly once: with its own statement, except that
\* those Relocated, and no others, wait for the no-drop net at the end, and
\* that those Dropped, and no others, are written nowhere, because query()
\* leaves them marked when it gives a layout up.
CommentsAccounted ==
    /\ TypeOK
    /\ stage = "formatted" =>
        \A c \in Ids :
            LET i == IF Relocated(c) THEN Len(doc) + 1 ELSE Owner(c)
            IN  IF Dropped(c) THEN Places(c) = {}
                ELSE \E k \in 1..Len(output[i]) : Places(c) = {<<i, k>>}

IsLine(piece) == piece[1] = "comment" /\ comments[piece[2]].line
InItem(c) == InQuery(c) /\ \E x \in SpineItems(comments[c].slot.at[1]) :
                                IsPrefix(x, comments[c].slot.at)

\* A line comment never takes what is written after it: item_comments and
\* list_clause break the line.  The exceptions are a second comment kept with
\* the same item or at the end of the document, and the `;` after a statement
\* that ends with an item whose fragment had the comment inside.
LineCommentSafe ==
    \A i \in 1..Len(output) : \A k \in 1..Len(output[i]) :
        LET c == output[i][k][2]
            next == output[i][k + 1]
        IN  IsLine(output[i][k]) /\ k < Len(output[i]) /\ next # HardLine
                => \/ next[1] = "comment" /\ (InItem(c) \/ comments[c].slot.at = <<0, Len(doc) + 1>>)
                   \/ next = Tok /\ InItem(c) /\ k + 2 = Len(output[i]) /\ i < Len(doc)

\* What a comment before item x stands before: the keyword of its clause when
\* x is the first of it, else x.
Target(x) == IF Last(x) = 1 THEN Front(x) ELSE x

\* comments.rs and the clause marks: a comment after a clause keyword, or on a
\* line of its own before a clause or a list item, gets a line of its own in
\* the layout, and the next keyword or item written after it is that of this
\* clause, or this item.
ClauseComments ==
    stage = "formatted" =>
        \A c \in {d \in Ids : InLayout(d)} :
            /\ comments[c].slot.foll \in SpineItems(comments[c].slot.at[1])
            /\ comments[c].own \/ comments[c].slot.kw
            => \A pl \in Places(c) :
                  LET out == output[pl[1]]
                      Later(k) == {n \in k..Len(out) : Len(out[n]) = 2 /\ out[n][1] = "tok"}
                  IN  /\ pl[2] = 1 \/ out[pl[2] - 1] = HardLine
                      /\ pl[2] < Len(out) /\ out[pl[2] + 1] = HardLine
                      /\ \E n \in Later(pl[2]) : /\ \A k \in Later(pl[2]) : n <= k
                                             /\ out[n] = Named(Target(comments[c].slot.foll))

\* format.rs: "The pretty path never drops a comment (the no-drop safety net
\* re-emits any it cannot place)".
NeverDropped == stage = "formatted" => \A c \in Ids : Places(c) # {}
=============================================================================
