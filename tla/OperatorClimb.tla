--------------------------- MODULE OperatorClimb ---------------------------
(***************************************************************************)
(* The precedence climb of the parser (parser/expr/core.rs,                *)
(* parse_expr_bp_inner) and the parenthesis rules of the renderer          *)
(* (squonk-ast render/nodes.rs), on one operator tree: a tree is rendered  *)
(* in one of the render modes, the text is lexed and parsed again.         *)
(***************************************************************************)
EXTENDS OperatorRanks, Sequences, FiniteSets

CONSTANTS Vocabulary,   \* [Dialects -> set of operator classes enumerated]
          MaxOperators  \* bound on the operators of an enumerated tree

ASSUME VocabularyAssumption == DOMAIN Vocabulary \subseteq Dialects
ASSUME MaxOperatorsAssumption == MaxOperators \in Nat

VARIABLES dialect,   \* the preset both sides use
          tree,      \* the tree that is rendered
          mode,      \* "none", then "bare" or a RenderMode
          text,      \* the rendered tokens
          parsed     \* what the second parse returned

vars == <<dialect, tree, mode, text, parsed>>

-----------------------------------------------------------------------------
(* The parser.  A result is [node, grouped, at], `at` the next token, or   *)
(* Failed.                                                                 *)

Failed == [node |-> <<"error">>, grouped |-> FALSE, at |-> 0]
Result(node, grouped, at) == [node |-> node, grouped |-> grouped, at |-> at]
Token(s, i) == IF i <= Len(s) THEN s[i] ELSE "end"

RECURSIVE Climb(_, _, _, _)
RECURSIVE ClimbLoop(_, _, _, _)
RECURSIVE TypeEnd(_, _)

\* parse_data_type consumes the array suffixes that follow the type name.
TypeEnd(s, i) == IF Token(s, i) = "subscript" THEN TypeEnd(s, i + 1) ELSE i

\* parse_prefix: a parenthesised group, a prefix operator applied to what
\* binds at least its prefix power, a symbolic operator no built-in claims
\* (parse_prefix_named_operator), or a primary.
ParsePrefix(d, s, i) ==
    LET t == Token(s, i)
        Unary(op, power) ==
            LET e == Climb(d, s, i + 1, power)
            IN  IF e = Failed THEN Failed
                ELSE Result(<<"prefix", op, e.node>>, FALSE, e.at)
    IN  CASE t = "("      -> LET e == Climb(d, s, i + 1, 0)
                             IN  IF e # Failed /\ Token(s, e.at) = ")"
                                 THEN Result(e.node, TRUE, e.at + 1) ELSE Failed
          [] t = "atom"   -> Result(Atom, FALSE, i + 1)
          [] t = "not"    -> Unary("not", PrefixTable(d).not)
          [] t = "add"    -> Unary("sign", PrefixTable(d).sign)
          [] t = "tilde"  -> Unary("tilde", PrefixTable(d).tilde)
          [] t = "custom" -> Unary("custom", Table(d).concat.right)
          [] OTHER        -> Failed

\* The folds of the climb: parse_postfix and the postfix predicates,
\* parse_predicate for BETWEEN, fold_infix for the rest.
Fold(d, s, op, lhs) ==
    LET right == Power(d, op).right
    IN  CASE op = "cast" ->
                LET end == TypeEnd(s, lhs.at + 1)
                    kind == IF end = lhs.at + 1 THEN "cast" ELSE "castarray"
                IN  Result(<<"postfix", kind, lhs.node>>, FALSE, end)
          [] op \in PostfixOps \ {"cast"} ->
                Result(<<"postfix", op, lhs.node>>, FALSE, lhs.at + 1)
          [] op = "between" ->
                LET low  == Climb(d, s, lhs.at + 1, right)
                    high == Climb(d, s, low.at + 1, right)
                IN  IF low = Failed \/ Token(s, low.at) # "and" \/ high = Failed
                    THEN Failed
                    ELSE Result(<<"between", op, lhs.node, low.node, high.node>>,
                                FALSE, high.at)
          [] OTHER ->
                LET rhs == Climb(d, s, lhs.at + 1, right)
                IN  IF rhs = Failed THEN Failed
                    ELSE Result(<<"infix", op, lhs.node, rhs.node>>, FALSE, rhs.at)

\* Mutant: a chain of non-associative operators is folded.
ClimbLoopUnchecked(d, s, lhs, min) ==
    LET op == Token(s, lhs.at)
    IN  IF lhs = Failed THEN Failed
        ELSE IF op \notin InfixOps \cup PostfixOps \cup {"between"} THEN lhs
        ELSE IF Power(d, op).left < min THEN lhs
        ELSE ClimbLoop(d, s, Fold(d, s, op, lhs), min)

\* One turn of the loop of parse_expr_bp_inner: an operator below `min` is
\* left to an outer frame, one that chains is an error, any other is folded.
ClimbLoop(d, s, lhs, min) ==
    LET op == Token(s, lhs.at)
    IN  IF lhs = Failed THEN Failed
        ELSE IF op \notin InfixOps \cup PostfixOps \cup {"between"} THEN lhs
        ELSE IF Power(d, op).left < min THEN lhs
        ELSE IF ~lhs.grouped /\ Chains(d, op, lhs.node) THEN Failed
        ELSE ClimbLoop(d, s, Fold(d, s, op, lhs), min)

Climb(d, s, i, min) == ClimbLoop(d, s, ParsePrefix(d, s, i), min)

\* parse_expr over a whole text.
Parse(d, s) == LET e == Climb(d, s, 1, 0)
               IN  IF e # Failed /\ e.at = Len(s) + 1 THEN e.node ELSE Failed.node

-----------------------------------------------------------------------------
(* The renderer                                                            *)

\* "bare" is no mode of the renderer: it is the source a user writes with no
\* parentheses at all.
Wrapped(d, m, parent, child, side) ==
    m = "canonical" /\ ChildNeedsParens(d, parent, child, side)

\* A symbolic prefix is written against its operand, so its token differs from
\* the infix one.
Glued == [not |-> "not", sign |-> "glued sign", tilde |-> "glued tilde"]

Group(yes, s) == IF yes THEN <<"(">> \o s \o <<")">> ELSE s

\* Render for Expr: in parenthesized mode every node wraps itself, in canonical
\* mode the parent wraps its operands.
RECURSIVE Render(_, _, _)
Render(d, m, e) ==
    LET Operand(i, side) == Group(Wrapped(d, m, e, e[i], side), Render(d, m, e[i]))
        Written ==
            CASE Kind(e) = "atom"    -> <<"atom">>
              [] Kind(e) = "prefix"  -> <<Glued[Op(e)]>> \o Operand(3, "right")
              [] Kind(e) = "postfix" -> Operand(3, "left") \o <<Op(e)>>
              [] Kind(e) = "infix"   ->
                    Operand(3, "left") \o <<Op(e)>> \o Operand(4, "right")
              [] Kind(e) = "between" ->
                    Operand(3, "left") \o <<"between">> \o Operand(4, "right")
                        \o <<"and">> \o Operand(5, "right")
    IN  Group(m = "parenthesized" /\ Kind(e) # "atom", Written)

\* custom_operators: the scanner takes the longest run of operator characters
\* as one token, so prefixes written against each other become one operator.
FusesOperators(d) == d \in {"postgres", "duckdb"}

IsGlued(s, i) == Token(s, i) \in {"glued sign", "glued tilde"}

\* The tokens the scanner finds in the rendered text.
RECURSIVE Lex(_, _)
Lex(d, s) ==
    IF s = <<>> THEN <<>>
    ELSE LET rest == Lex(d, Tail(s))
             first == CASE s[1] = "glued sign"  -> "add"
                        [] s[1] = "glued tilde" -> "tilde"
                        [] OTHER -> s[1]
         IN  IF FusesOperators(d) /\ IsGlued(s, 1) /\ IsGlued(s, 2)
             THEN <<"custom">> \o Tail(rest) ELSE <<first>> \o rest

-----------------------------------------------------------------------------
(* The behaviour: one tree is rendered, and its text parsed.               *)

\* The trees with exactly n operators of a vocabulary.
RECURSIVE TreesOf(_, _)
TreesOf(v, n) ==
    IF n = 0 THEN {Atom}
    ELSE LET Sub(i) == TreesOf(v, i)
         IN  {<<"prefix", op, e>> : op \in v \cap PrefixOps, e \in Sub(n - 1)}
             \cup {<<"postfix", op, e>> : op \in v \cap PostfixOps, e \in Sub(n - 1)}
             \cup UNION {{<<"infix", op, l, r>> : op \in v \cap InfixOps,
                              l \in Sub(i), r \in Sub(n - 1 - i)} : i \in 0..n - 1}
             \cup UNION {{<<"between", "between", e, low, high>> :
                              e \in Sub(i), low \in Sub(j), high \in Sub(n - 1 - i - j)} :
                         <<i, j>> \in {p \in (0..n - 1) \X (0..n - 1) :
                                           "between" \in v /\ p[1] + p[2] < n}}

Trees(d) == UNION {TreesOf(Vocabulary[d], n) : n \in 0..MaxOperators}

Init == /\ dialect \in DOMAIN Vocabulary
        /\ tree \in Trees(dialect)
        /\ mode = "none" /\ text = <<>> /\ parsed = <<>>

\* Render with a RenderMode, and the scan of its text.
WriteText(m) ==
    /\ mode = "none"
    /\ mode' = m
    /\ text' = Lex(dialect, Render(dialect, m, tree))
    /\ UNCHANGED <<dialect, tree, parsed>>

\* A user's text: nothing is glued, since only the renderer omits the space.
WriteBare ==
    /\ mode = "none"
    /\ mode' = "bare"
    /\ text' = Lex("ansi", Render(dialect, "bare", tree))
    /\ UNCHANGED <<dialect, tree, parsed>>

\* parse_expr over that text.
ParseText ==
    /\ mode # "none" /\ parsed = <<>>
    /\ parsed' = Parse(dialect, text)
    /\ UNCHANGED <<dialect, tree, mode, text>>

Next == \/ WriteText("canonical") \/ WriteText("parenthesized")
        \/ WriteBare \/ ParseText

Spec == Init /\ [][Next]_vars

-----------------------------------------------------------------------------
(* What the table says a text means                                        *)

\* The operators whose right operand is still open at the end of e, and the
\* ones that take their left operand from the start of e, parentheses closing
\* both.  A type is open to the subscripts that follow it.
RECURSIVE OpenRight(_, _, _)
OpenRight(d, m, e) ==
    LET Last == e[Len(e)]
    IN  CASE Kind(e) \in {"infix", "prefix", "between"} ->
                {Op(e)} \cup IF Wrapped(d, m, e, Last, "right") THEN {}
                             ELSE OpenRight(d, m, Last)
          [] Kind(e) = "postfix" /\ Op(e) = "cast" -> {"cast"}
          [] OTHER -> {}

RECURSIVE OpenLeft(_, _, _)
OpenLeft(d, m, e) ==
    IF Kind(e) \in {"atom", "prefix"} THEN {}
    ELSE {Op(e)} \cup IF Wrapped(d, m, e, e[3], "left") THEN {} ELSE OpenLeft(d, m, e[3])

\* A tree is the meaning of its text when no operator inside a left operand
\* takes its parent, every operator at the start of a right operand binds as
\* tightly as that operand is read, and nothing chains.
RECURSIVE Grouped(_, _, _)
Grouped(d, m, e) ==
    LET Free(i, side) == ~Wrapped(d, m, e, e[i], side)
        LeftOk == Free(3, "left") =>
                      /\ \A c \in OpenRight(d, m, e[3]) : ~Takes(d, c, Op(e))
                      /\ ~Chains(d, Op(e), e[3])
        RightOk(i) == Free(i, "right") =>
                      \A c \in OpenLeft(d, m, e[i]) : Power(d, c).left >= RightPower(d, Op(e))
    IN  CASE Kind(e) = "atom"    -> TRUE
          [] Kind(e) = "prefix"  -> RightOk(3) /\ Grouped(d, m, e[3])
          [] Kind(e) = "postfix" -> LeftOk /\ Grouped(d, m, e[3])
          [] OTHER -> /\ LeftOk
                      /\ \A i \in 4..Len(e) : RightOk(i)
                      /\ \A i \in 3..Len(e) : Grouped(d, m, e[i])

-----------------------------------------------------------------------------
(* Properties                                                              *)

TypeOK == /\ dialect \in DOMAIN Vocabulary
          /\ mode \in {"none", "bare", "canonical", "parenthesized"}
          /\ (mode = "none") => (text = <<>> /\ parsed = <<>>)

Parsed(m) == mode = m /\ parsed # <<>>

\* The climb (core.rs:185) builds exactly the tree the binding powers say a
\* text without parentheses means, and fails on every text that means nothing
\* (a chain of non-associative operators).
ClimbExact == Parsed("bare") => (parsed = tree <=> Grouped(dialect, "bare", tree))

\* RenderMode::Parenthesized: every tree comes back from the parser as it was.
ParenthesizedRoundTrip == Parsed("parenthesized") => parsed = tree

\* The subtrees of e, e included.
RECURSIVE Subtrees(_)
Subtrees(e) == {e} \cup UNION {Subtrees(e[i]) : i \in 3..Len(e)}

\* The shapes the canonical mode does not bring back: a prefix operator at the
\* open end of a left operand; a prefix tighter than a COLLATE or AT TIME ZONE
\* it is applied to; a predicate the parenthesis rules do not rank; prefixes
\* the scanner reads as one operator.
HiddenPrefix(d, e) ==
    /\ Kind(e) \in {"infix", "postfix", "between"}
    /\ ~ChildNeedsParens(d, e, e[3], "left")
    /\ \E c \in OpenRight(d, "canonical", e[3]) \cap PrefixOps : Takes(d, c, Op(e))

PrefixOverPostfix(d, e) ==
    /\ Kind(e) = "prefix"
    /\ ~ChildNeedsParens(d, e, e[3], "right")
    /\ \E c \in OpenLeft(d, "canonical", e[3]) \cap {"collate", "zone"} :
          Power(d, c).left < PrefixTable(d)[Op(e)]

UnrankedPredicate(d, e) ==
    \/ \E i \in (IF Kind(e) = "prefix" THEN {3} ELSE 4..Len(e)) :
          /\ ~ChildNeedsParens(d, e, e[i], "right")
          /\ \E c \in OpenLeft(d, "canonical", e[i]) \cap {"isjson", "anylist"} :
                Power(d, c).left < RightPower(d, Op(e))
    \/ /\ Kind(e) \in {"infix", "postfix", "between"}
       /\ Kind(e[3]) = "postfix" /\ Op(e[3]) = "anylist"
       /\ Chains(d, Op(e), e[3])

RECURSIVE StartsWithSymbol(_, _)
StartsWithSymbol(d, e) ==
    \/ Kind(e) = "prefix" /\ Op(e) \in {"sign", "tilde"}
    \/ /\ Kind(e) \in {"infix", "postfix", "between"}
       /\ ~ChildNeedsParens(d, e, e[3], "left")
       /\ StartsWithSymbol(d, e[3])

FusedPrefixes(d, e) ==
    /\ FusesOperators(d)
    /\ Kind(e) = "prefix" /\ Op(e) \in {"sign", "tilde"}
    /\ ~ChildNeedsParens(d, e, e[3], "right")
    /\ StartsWithSymbol(d, e[3])

Gap(d, e) == \E x \in Subtrees(e) : \/ HiddenPrefix(d, x) \/ PrefixOverPostfix(d, x)
                                    \/ UnrankedPredicate(d, x) \/ FusedPrefixes(d, x)

\* Apart from those shapes the canonical mode writes the parentheses the
\* parser needs: parse(render(x)) = x.
CanonicalRoundTrip == Parsed("canonical") => (parsed = tree <=> ~Gap(dialect, tree))

\* The renderer and the parser are inverse to each other: in Parenthesized
\* mode on every tree, in canonical mode on every tree but those shapes, and
\* on none of those.
RoundTripExact == TypeOK /\ ParenthesizedRoundTrip /\ CanonicalRoundTrip
=============================================================================
