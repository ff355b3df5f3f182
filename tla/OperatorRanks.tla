--------------------------- MODULE OperatorRanks ---------------------------
(***************************************************************************)
(* What the parser and the renderer ask of the binding-power table about   *)
(* an operator and its operand: whether the climb (parser/expr/core.rs)    *)
(* gives the operand to it, and whether the renderer (squonk-ast           *)
(* render/nodes.rs) writes parentheses around it.                          *)
(*                                                                         *)
(* A tree is <<"atom">>, <<"infix", op, l, r>>, <<"prefix", op, e>>,       *)
(* <<"postfix", op, e>> or <<"between", "between", e, low, high>>; the     *)
(* second component is an operator class of BindingPowers.  Everything     *)
(* that closes itself (names, literals, calls, subqueries) is the atom.    *)
(***************************************************************************)
EXTENDS BindingPowers

-----------------------------------------------------------------------------
(* Operator classes                                                        *)

PrefixOps == {"not", "sign", "tilde"}
\* `isnull` and `isjson` end the IS predicates, `anylist` is `= ANY (array)`.
PostfixOps == {"isnull", "isjson", "anylist", "collate", "cast", "subscript"}
\* `distinct` is the keyword IS DISTINCT FROM; `zone` is AT TIME ZONE.
InfixOps == {"or", "xor", "and", "cmp", "distinct", "concat", "arrow", "bitor",
             "bitand", "shift", "bitxor", "add", "mul", "exp", "zone"}

\* The rank an operator is climbed at (binary, predicate_binding_power,
\* peek_postfix_operator).
Power(d, op) == LET t == Table(d)
                IN  CASE op \in {"isnull", "isjson", "distinct"} -> t.is
                      [] op = "between" -> t.range
                      [] op = "anylist" -> t.cmp
                      [] OTHER -> t[op]

Atom == <<"atom">>
Kind(e) == e[1]
Op(e) == e[2]

\* The nodes that report a rank to lhs_chains_nonassoc: binary operators,
\* quantified operators, the range predicates and IS NULL.
ReportsRank(e) == \/ Kind(e) \in {"infix", "between"} /\ Op(e) # "zone"
                  \/ Kind(e) = "postfix" /\ Op(e) \in {"isnull", "anylist"}

\* reject_nonassoc_chain: op may not follow a bare left operand that is
\* non-associative at the same rank.  The operators folded without the check
\* have left-associative ranks.
Chains(d, op, lhs) ==
    /\ Power(d, op).assoc = "NonAssoc"
    /\ ReportsRank(lhs)
    /\ Power(d, Op(lhs)).assoc = "NonAssoc"
    /\ Power(d, Op(lhs)).left = Power(d, op).left

\* The power an operator reads its right operand at.
RightPower(d, op) == IF op \in PrefixOps THEN PrefixTable(d)[op] ELSE Power(d, op).right

\* An operator `op` after an operand in which `open` waits for its right
\* operand belongs to `open`.
Takes(d, open, op) == IF open = "cast" THEN op = "subscript"
                      ELSE Power(d, op).left >= RightPower(d, open)

-----------------------------------------------------------------------------
(* The parenthesis rules of the renderer                                   *)

\* Mutant: both operands follow the rule of the left one.
OperandNeedsParensLeft(d, parent, child, side) ==
    CASE Kind(child) = "prefix" -> PrefixTable(d)[Op(child)] < parent.left
      [] Kind(child) = "atom" \/ Op(child) \in {"isjson", "anylist"} -> FALSE
      [] OTHER -> NeedsParensBetween(parent, Power(d, Op(child)), "left")

\* operand_needs_parens: the operand of a predicate, of a postfix operator or
\* of AT TIME ZONE.  IS JSON and `= ANY (array)` are not in its match.
OperandNeedsParens(d, parent, child, side) ==
    CASE Kind(child) = "prefix" ->
            side = "left" /\ PrefixTable(d)[Op(child)] < parent.left
      [] Kind(child) = "atom" \/ Op(child) \in {"isjson", "anylist"} -> FALSE
      [] OTHER -> NeedsParensBetween(parent, Power(d, Op(child)), side)

\* binary_child_needs_parens: the operand of a binary operator; a postfix
\* operator or AT TIME ZONE below it is never wrapped.
BinaryChildNeedsParens(d, parent, child, side) ==
    /\ Kind(child) # "atom"
    /\ Op(child) \notin {"zone", "collate", "cast", "subscript"}
    /\ OperandNeedsParens(d, Power(d, parent), child, side)

\* prefix_operand_needs_parens: the operand of NOT, a sign or `~`.
PrefixOperandNeedsParens(d, op, child) ==
    CASE Kind(child) = "prefix" -> op = "sign" /\ Op(child) = "sign"
      [] ReportsRank(child) /\ Op(child) # "anylist" ->
            Power(d, Op(child)).left < PrefixTable(d)[op]
      [] OTHER -> FALSE

\* What a parent writes around the child on a side (canonical_parens of
\* render_operand at each use).
ChildNeedsParens(d, parent, child, side) ==
    CASE Kind(parent) = "prefix" -> PrefixOperandNeedsParens(d, Op(parent), child)
      [] Kind(parent) = "infix" /\ Op(parent) \notin {"zone"} ->
            BinaryChildNeedsParens(d, Op(parent), child, side)
      [] OTHER -> \/ /\ Op(parent) = "subscript"
                     /\ Kind(child) = "postfix" /\ Op(child) = "cast"
                  \/ OperandNeedsParens(d, Power(d, Op(parent)), child, side)
=============================================================================
