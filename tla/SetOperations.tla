--------------------------- MODULE SetOperations ---------------------------
(***************************************************************************)
(* The query grammar above the SELECT core (parser/query.rs): the climb    *)
(* over UNION, INTERSECT and EXCEPT, the operands in parentheses, the      *)
(* query tails, and what the renderer writes for the result.               *)
(*                                                                         *)
(* A query is [with, body, tails]; `tails` lists the tail clauses in the   *)
(* order they are read.  A body is <<"core">> (SELECT, TABLE, VALUES,      *)
(* FROM-first), <<"pivot", tails>> (PIVOT or UNPIVOT with the ORDER BY and *)
(* LIMIT it reads itself), <<"setop", op, left, right>> or                 *)
(* <<"query", q>> (SetExpr::Query).  A source body may also be             *)
(* <<"paren", q>>, the parentheses a user wrote.  The one-shot flags that  *)
(* carry the grouping context are a parameter and a result here;           *)
(* ParserScopes has their lifetime.                                        *)
(***************************************************************************)
EXTENDS BindingPowers, Sequences, Functions

CONSTANTS Vocabulary,   \* [presets -> the set of tokens a source may use]
          MaxPieces     \* bound on operators, parentheses, WITHs and tails

VARIABLES preset,    \* the dialect
          grouping,  \* TRUE inside the `(` of a FROM or scalar-subquery helper
          source,    \* the query as it was written
          tree,      \* what the first parse returned
          mode,      \* "none", then the RenderMode or "formatted"
          reparsed   \* what the parse of the rendered text returned

vars == <<preset, grouping, source, tree, mode, reparsed>>

-----------------------------------------------------------------------------
(* Dialects                                                                *)

\* The flags of SelectSyntax, TableFactorSyntax and QueryTailSyntax read here.
\* No preset sets pipe_syntax; `piped` is ANSI with that delta.
Features ==
    LET shared == {"parenthesized_query_operands", "intersect_all", "except_all", "fetch_first"}
    IN  [sqlite     |-> {},
         mysql      |-> (shared \ {"fetch_first"}) \cup {"locking_clauses"},
         postgres   |-> shared \cup {"locking_clauses", "stacked_locking_clauses",
                                     "with_ties_requires_order_by"},
         duckdb     |-> shared \cup {"union_by_name", "pivot"},
         clickhouse |-> shared \cup {"limit_by_clause", "settings_clause", "format_clause"},
         mssql      |-> shared \cup {"for_xml_json_clause"},
         lenient    |-> shared \cup {"union_by_name", "pivot", "locking_clauses",
                                     "stacked_locking_clauses", "limit_by_clause",
                                     "settings_clause", "format_clause", "for_xml_json_clause"},
         piped      |-> shared \cup {"pipe_syntax"}]

ASSUME VocabularyAssumption == DOMAIN Vocabulary \subseteq DOMAIN Features
ASSUME MaxPiecesAssumption == MaxPieces \in Nat

If(d, flag, S) == IF flag \in Features[d] THEN S ELSE {}

\* An operator token is the keyword with its ALL and BY NAME.
Unions == {"union", "union all", "union by name", "union all by name"}
Intersects == {"intersect", "intersect all"}
Excepts == {"except", "except all"}
SetOps == Unions \cup Intersects \cup Excepts

SetPower(op) == IF op \in Intersects THEN SET_STANDARD.intersect
                ELSE SET_STANDARD.union_except

\* The operators with the modifiers a dialect takes after them.
AllowedOps(d) ==
    {"union", "union all", "intersect", "except"}
        \cup If(d, "intersect_all", {"intersect all"})
        \cup If(d, "except_all", {"except all"})
        \cup If(d, "union_by_name", {"union by name", "union all by name"})

\* The tail clauses in the order parse_query_after_with tries them; a slot of
\* `many` is tried again after a match.  FETCH ... WITH TIES is one of the
\* limit spellings.
Slot(S, many) == [tokens |-> S, many |-> many]
TailSlots(d) ==
    <<Slot({"order"}, FALSE),
      Slot(If(d, "limit_by_clause", {"limit by"}), FALSE),
      Slot({"limit"} \cup If(d, "fetch_first", {"ties"}), FALSE),
      Slot(If(d, "settings_clause", {"settings"}), FALSE),
      Slot(If(d, "format_clause", {"format"}), FALSE),
      Slot(If(d, "locking_clauses", {"lock", "skip locked"}),
           "stacked_locking_clauses" \in Features[d]),
      Slot(If(d, "pipe_syntax", {"pipe"}), TRUE),
      Slot(If(d, "for_xml_json_clause", {"for xml"}), FALSE)>>

\* parse_pivot_operator reads the same ORDER BY and LIMIT itself.
PivotSlots(d) == <<TailSlots(d)[1], TailSlots(d)[3]>>

-----------------------------------------------------------------------------
(* The parser                                                              *)

Token(s, i) == IF i \in 1..Len(s) THEN s[i] ELSE "eof"

\* What a parse function returns: the next position, the node, and whether
\* grouped_query_complete is set.  Position 0 is an error.
Result(at, node, complete) == [at |-> at, node |-> node, complete |-> complete]
Failed == Result(0, <<"failed">>, FALSE)

Has(s, t) == \E i \in 1..Len(s) : s[i] = t

RECURSIVE TakeTails(_, _, _)
TakeTails(slots, s, i) ==
    IF slots = <<>> THEN <<>>
    ELSE IF Token(s, i) \in slots[1].tokens
         THEN <<s[i]>> \o TakeTails(IF slots[1].many THEN slots ELSE Tail(slots), s, i + 1)
         ELSE TakeTails(Tail(slots), s, i)

\* The two guards on FETCH ... WITH TIES.
TiesRejected(d, tails) ==
    /\ "with_ties_requires_order_by" \in Features[d] /\ Has(tails, "ties")
    /\ ~Has(tails, "order") \/ Has(tails, "skip locked")

\* Mutant: the test of the grouped operand forgets the locking clauses.
KeepsQueryUnlocked(q) == q.with \/ Has(q.tails, "order") \/ Has(q.tails, "limit")

\* The operand keeps its query when it has a WITH or one of these tails.
KeepsQuery(q) == q.with \/ \E t \in {"order", "limit", "ties", "lock", "skip locked"} :
                               Has(q.tails, t)

RECURSIVE ParseQuery(_, _, _, _), ParseSetExpr(_, _, _, _, _), ClimbSets(_, _, _, _)

\* parse_parenthesized_set_operand, at its `(`.
ParenthesizedOperand(d, s, i, grp) ==
    LET operands == "parenthesized_query_operands" \in Features[d]
        q == ParseQuery(d, s, i + 1, grp)
    IN  IF \/ ~operands /\ ~grp
           \/ Token(s, i + 1) \notin {"core", "with", "("}
           \/ q.at = 0 \/ Token(s, q.at) # ")"
        THEN Failed
        ELSE Result(q.at + 1,
                    IF KeepsQuery(q.node) THEN <<"query", q.node>> ELSE q.node.body,
                    grp /\ ~operands)

\* parse_set_operand.  A LIMIT ... BY after PIVOT fails: parse_limit takes the
\* LIMIT and nothing takes the BY.
SetOperand(d, s, i, grp) ==
    LET pivotTails == TakeTails(PivotSlots(d), s, i + 1)
        next == i + 1 + Len(pivotTails)
    IN  CASE Token(s, i) = "core" -> Result(i + 1, <<"core">>, FALSE)
          [] Token(s, i) = "pivot" /\ "pivot" \in Features[d]
                /\ (Token(s, next) = "limit by" =>
                        Has(pivotTails, "limit") \/ Has(pivotTails, "ties")) ->
                Result(next, <<"pivot", pivotTails>>, FALSE)
          [] Token(s, i) = "(" -> ParenthesizedOperand(d, s, i, grp)
          [] OTHER -> Failed

\* parse_set_expr_bp: the leading operand, then the climb unless it was a
\* complete group.
ParseSetExpr(d, s, i, min, grp) ==
    LET first == SetOperand(d, s, i, grp)
    IN  IF first.at = 0 \/ first.complete THEN first ELSE ClimbSets(d, s, first, min)

\* The loop of parse_set_expr_bp.
ClimbSets(d, s, left, min) ==
    LET op == Token(s, left.at)
        right == ParseSetExpr(d, s, left.at + 1, SetPower(op).right, FALSE)
    IN  IF op \notin SetOps \/ SetPower(op).left < min THEN left
        ELSE IF op \notin AllowedOps(d) \/ right.at = 0 THEN Failed
        ELSE ClimbSets(d, s, Result(right.at, <<"setop", op, left.node, right.node>>, FALSE), min)

\* parse_query_inner and parse_query_after_with.
ParseQuery(d, s, i, grp) ==
    LET with == Token(s, i) = "with"
        body == ParseSetExpr(d, s, IF with THEN i + 1 ELSE i, 0, grp /\ ~with)
        tails == IF body.complete THEN <<>> ELSE TakeTails(TailSlots(d), s, body.at)
    IN  IF body.at = 0 \/ TiesRejected(d, tails) THEN Failed
        ELSE Result(body.at + Len(tails),
                    [with |-> with, body |-> body.node, tails |-> tails], FALSE)

\* A whole text: end of input for a statement or a CTE body, the `)` of the
\* helper in a grouping context.
Parse(d, grp, s) ==
    LET q == ParseQuery(d, s, 1, grp)
    IN  IF q.at = Len(s) + 1 THEN <<"query", q.node>> ELSE <<"failed">>

-----------------------------------------------------------------------------
(* The renderer                                                            *)

Kind(b) == b[1]

Group(yes, s) == IF yes THEN <<"(">> \o s \o <<")">> ELSE s

\* Mutant: only the rank decides, not the side.
WrapsOperandRank(m, op, child, side) ==
    /\ Kind(child) = "setop"
    /\ \/ m = "parenthesized"
       \/ m = "canonical" /\ SetPower(child[2]).left < SetPower(op).left

\* set_child_needs_parens, and the rule of RenderMode::Parenthesized.  "source"
\* is the text of a written query, whose parentheses are its own.
WrapsOperand(m, op, child, side) ==
    /\ Kind(child) = "setop"
    /\ \/ m = "parenthesized"
       \/ m = "canonical" /\ NeedsParensBetween(SetPower(op), SetPower(child[2]), side)

RECURSIVE RenderBody(_, _)
RenderQuery(m, q) ==
    (IF q.with THEN <<"with">> ELSE <<>>) \o RenderBody(m, q.body) \o q.tails

RenderBody(m, b) ==
    LET Operand(child, side) == Group(WrapsOperand(m, b[2], child, side), RenderBody(m, child))
    IN  CASE Kind(b) = "core"  -> <<"core">>
          [] Kind(b) = "pivot" -> <<"pivot">> \o b[2]
          [] Kind(b) = "setop" -> Operand(b[3], "left") \o <<b[2]>> \o Operand(b[4], "right")
          [] OTHER -> Group(m # "formatted", RenderQuery(m, b[2]))

\* The queries that try_query of the formatter lays out, with SELECT as the
\* core.  The layout writes no parentheses; the rest is canonical text.
RECURSIVE LaidOutBody(_)
LaidOut(q) == Range(q.tails) \subseteq {"order", "limit", "ties"} /\ LaidOutBody(q.body)

LaidOutBody(b) == CASE Kind(b) = "setop" -> LaidOutBody(b[3]) /\ LaidOutBody(b[4])
                    [] Kind(b) = "query" -> LaidOut(b[2])
                    [] OTHER -> Kind(b) = "core"

RenderIn(m, q) == RenderQuery(IF m = "formatted" /\ ~LaidOut(q) THEN "canonical" ELSE m, q)

-----------------------------------------------------------------------------
(* The behaviour: a written query is parsed, rendered and parsed again.    *)

\* The tail lists a source may have: in the order of the slots, once each.
TailLists(v, n) ==
    LET order == <<"order", "limit by", "limit", "ties", "settings", "format", "lock",
                   "skip locked", "pipe", "for xml">>
        Lists(m) == {f \in [1..m -> 1..Len(order)] :
                        /\ \A i \in 1..m : order[f[i]] \in v
                        /\ \A i \in 1..m - 1 : f[i] < f[i + 1]}
    IN  {[i \in 1..n |-> order[f[i]]] : f \in Lists(n)}

\* The sources of exactly n pieces over a vocabulary.
RECURSIVE BodiesOf(_, _)
QueriesOf(v, n) ==
    UNION {{[with |-> w, body |-> b, tails |-> t] :
                b \in BodiesOf(v, n - k - (IF w THEN 1 ELSE 0)), t \in TailLists(v, k)} :
           <<w, k>> \in {p \in BOOLEAN \X (0..n) : p[2] + (IF p[1] THEN 1 ELSE 0) <= n}}

BodiesOf(v, n) ==
    (IF n = 0 THEN {<<"core">>} ELSE {<<"paren", q>> : q \in QueriesOf(v, n - 1)})
        \cup (IF "pivot" \in v
              THEN {<<"pivot", t>> : t \in TailLists(v \cap {"order", "limit"}, n)} ELSE {})
        \cup UNION {{<<"setop", op, l, r>> : op \in v \cap SetOps,
                          l \in BodiesOf(v, i), r \in BodiesOf(v, n - 1 - i)} : i \in 0..n - 1}

Sources(d) == UNION {QueriesOf(Vocabulary[d], n) : n \in 0..MaxPieces}

Init == /\ preset \in DOMAIN Vocabulary
        /\ source \in Sources(preset)
        /\ grouping \in BOOLEAN
        /\ mode = "none" /\ tree = <<>> /\ reparsed = <<>>

\* parse_query over the written text.
ParseSource ==
    /\ tree = <<>>
    /\ tree' = Parse(preset, grouping, RenderQuery("source", source))
    /\ UNCHANGED <<preset, grouping, source, mode, reparsed>>

\* Render in a mode or format, and parse_query over the text.
RenderAndReparse(m) ==
    /\ tree \notin {<<>>, <<"failed">>} /\ mode = "none"
    /\ mode' = m
    /\ reparsed' = Parse(preset, grouping, RenderIn(m, tree[2]))
    /\ UNCHANGED <<preset, grouping, source, tree>>

Next == ParseSource \/ \E m \in {"canonical", "parenthesized", "formatted"} : RenderAndReparse(m)

Spec == Init /\ [][Next]_vars

-----------------------------------------------------------------------------
(* What a written query means                                              *)

\* The tree of a source: parentheses are kept as a query of their own exactly
\* when they hold a WITH or a tail.
RECURSIVE Meaning(_)
MeaningOfQuery(q) == [q EXCEPT !.body = Meaning(q.body)]

Meaning(b) ==
    CASE Kind(b) = "setop" -> <<"setop", b[2], Meaning(b[3]), Meaning(b[4])>>
      [] Kind(b) = "paren" -> LET q == MeaningOfQuery(b[2])
                              IN  IF q.with \/ q.tails # <<>> THEN <<"query", q>> ELSE q.body
      [] OTHER -> b

\* The PIVOT at the open end of a body, as the tails it read itself.
RECURSIVE OpenPivots(_, _)
OpenPivots(m, b) ==
    CASE Kind(b) = "pivot" -> {b[2]}
      [] Kind(b) = "setop" -> IF WrapsOperand(m, b[2], b[4], "right") THEN {}
                              ELSE OpenPivots(m, b[4])
      [] OTHER -> {}

\* The tail after the body is one that PIVOT reads as its own.
PivotTakes(m, q) ==
    \E own \in OpenPivots(m, q.body) :
        /\ q.tails # <<>>
        /\ \/ q.tails[1] = "order" /\ own = <<>>
           \/ q.tails[1] \in {"limit", "ties", "limit by"} /\ ~Has(own, "limit")

\* The first token of a body.
RECURSIVE FirstToken(_)
FirstToken(b) == CASE Kind(b) = "setop" -> FirstToken(b[3])
                   [] Kind(b) \in {"paren", "query"} -> "("
                   [] OTHER -> Kind(b)

\* The written queries a dialect reads as they mean.  With g, the body may be
\* one group even where operands in parentheses are not in the grammar.
RECURSIVE Legal(_, _, _)
LegalQuery(d, g, q) ==
    /\ TakeTails(TailSlots(d), q.tails, 1) = q.tails
    /\ ~TiesRejected(d, q.tails)
    /\ ~PivotTakes("source", q)
    /\ Legal(d, g /\ ~q.with /\ q.tails = <<>>, q.body)

Legal(d, g, b) ==
    CASE Kind(b) = "core"  -> TRUE
      [] Kind(b) = "pivot" -> "pivot" \in Features[d]
      [] Kind(b) = "paren" ->
            /\ g \/ "parenthesized_query_operands" \in Features[d]
            /\ b[2].with \/ FirstToken(b[2].body) # "pivot"
            /\ LegalQuery(d, g, b[2])
      [] OTHER ->
            /\ b[2] \in AllowedOps(d)
            /\ Kind(b[3]) = "setop" => SetPower(b[3][2]).left >= SetPower(b[2]).left
            /\ Kind(b[4]) = "setop" => SetPower(b[4][2]).left > SetPower(b[2]).left
            /\ Legal(d, FALSE, b[3]) /\ Legal(d, FALSE, b[4])

\* The parentheses that hold only tails the operand's test does not name.
Unnamed == {"limit by", "settings", "format", "pipe", "for xml"}
RECURSIVE Drops(_)
Drops(b) == CASE Kind(b) = "setop" -> Drops(b[3]) \/ Drops(b[4])
              [] Kind(b) = "paren" -> \/ /\ ~b[2].with /\ b[2].tails # <<>>
                                         /\ Range(b[2].tails) \subseteq Unnamed
                                      \/ Drops(b[2].body)
              [] OTHER -> FALSE

-----------------------------------------------------------------------------
(* Properties                                                              *)

TypeOK == /\ preset \in DOMAIN Vocabulary /\ grouping \in BOOLEAN
          /\ tree = <<>> \/ Kind(tree) \in {"failed", "query"}
          /\ (mode = "none") <=> (reparsed = <<>>)
          /\ mode # "none" => Kind(tree) = "query"

\* parse_set_expr_bp and parse_parenthesized_set_operand return the meaning of
\* a written query exactly when the dialect reads it so and no parentheses
\* hold only tails the operand's test does not name.
ReadExact ==
    tree # <<>> =>
        (tree = <<"query", MeaningOfQuery(source)>>
             <=> LegalQuery(preset, grouping, source) /\ ~Drops(source.body))

\* The nodes of a tree that a renderer wraps as an operand.
RECURSIVE Nodes(_)
Nodes(b) == {b} \cup CASE Kind(b) = "setop" -> Nodes(b[3]) \cup Nodes(b[4])
                      [] Kind(b) = "query" -> Nodes(b[2].body)
                      [] OTHER -> {}

\* The operands in parentheses in mode m.
Wrapped(m, b) == {child \in {b[3], b[4]} :
                     \/ child = b[3] /\ WrapsOperand(m, b[2], child, "left")
                     \/ child = b[4] /\ WrapsOperand(m, b[2], child, "right")}

\* The shapes that do not come back from a renderer: a tail behind an open
\* PIVOT; parentheses a dialect does not read, or that would open with PIVOT.
LostRendered(m, root) ==
    LET all == Nodes(root)
    IN  \/ \E b \in all : Kind(b) = "query" /\ PivotTakes(m, b[2])
        \/ \E b \in all : /\ Kind(b) = "setop"
                          /\ \E child \in Wrapped(m, b) :
                                \/ "parenthesized_query_operands" \notin Features[preset]
                                \/ FirstToken(child) = "pivot"

\* From the formatter: an operand that needs parentheses, or a query that has
\* a tail or a WITH of its own.
LostFormatted(q) ==
    IF LaidOut(q)
    THEN \E b \in Nodes(q.body) :
            \/ Kind(b) = "query"
            \/ Kind(b) = "setop" /\ Wrapped("canonical", b) # {}
    ELSE LostRendered("canonical", <<"query", q>>)

Lost(m, root) == IF m = "formatted" THEN LostFormatted(root[2]) ELSE LostRendered(m, root)

\* Every query the parser returned comes back from its rendering, in both
\* modes, and from its formatting, except the shapes of Lost.
ReadBack == TypeOK /\ (mode # "none" => (reparsed = tree <=> ~Lost(mode, tree)))
=============================================================================
