--------------------------- MODULE BindingPowers ---------------------------
(***************************************************************************)
(* The binding-power table of `squonk-ast` (precedence/mod.rs): one rank   *)
(* per operator class, read by the climb of the parser and by the          *)
(* parenthesis rule of the renderer.  Dialect presets are deltas of        *)
(* STANDARD.  An operator class stands for every operator of its row.      *)
(***************************************************************************)
EXTENDS Integers

\* BindingPower: every rank of every shipped table has right = left + 1.
Rank(left, assoc) == [left |-> left, right |-> left + 1, assoc |-> assoc]

\* BindingPowerTable::STANDARD, with the rank `is` of the IS family and the
\* rank `range` of BETWEEN/LIKE/IN resolved: with no override both follow
\* `cmp` (predicate() and range_predicate()).
STANDARD ==
    [or        |-> Rank(10, "Left"), xor       |-> Rank(15, "Left"),
     and       |-> Rank(20, "Left"), cmp       |-> Rank(40, "NonAssoc"),
     is        |-> Rank(40, "NonAssoc"), range |-> Rank(40, "NonAssoc"),
     eqeq      |-> Rank(40, "NonAssoc"),
     concat    |-> Rank(45, "Left"), arrow     |-> Rank(45, "Left"),
     bitor     |-> Rank(45, "Left"), bitand    |-> Rank(45, "Left"),
     shift     |-> Rank(45, "Left"), bitxor    |-> Rank(45, "Left"),
     add       |-> Rank(50, "Left"), mul       |-> Rank(60, "Left"),
     exp       |-> Rank(65, "Left"), zone      |-> Rank(70, "Left"),
     collate   |-> Rank(74, "Left"), subscript |-> Rank(84, "Left"),
     cast      |-> Rank(88, "Left")]

\* The prefix powers of STANDARD: NOT, the signs, and `~`.
STANDARD_PREFIX == [not |-> 30, sign |-> 80, tilde |-> 46]

\* is_predicate_override and range_predicate_override of the presets.
IS_PREDICATE_BELOW_COMPARISON == Rank(35, "NonAssoc")
RANGE_PREDICATE_ABOVE_COMPARISON == Rank(42, "NonAssoc")

POSTGRES == [STANDARD EXCEPT !.is = IS_PREDICATE_BELOW_COMPARISON,
                             !.range = RANGE_PREDICATE_ABOVE_COMPARISON]

DUCKDB == [STANDARD EXCEPT !.is = IS_PREDICATE_BELOW_COMPARISON,
                           !.eqeq = Rank(45, "Left"), !.arrow = Rank(4, "Left")]

\* SQLite and MySQL associate comparisons to the left, and the two predicate
\* families with them; both rank prefix `~` with the signs.
SQLITE == [STANDARD EXCEPT !.cmp = Rank(40, "Left"), !.is = Rank(40, "Left"),
                           !.range = Rank(40, "Left"), !.eqeq = Rank(40, "Left")]

MYSQL == [SQLITE EXCEPT !.bitor = Rank(42, "Left"), !.bitand = Rank(44, "Left"),
                        !.shift = Rank(47, "Left"), !.bitxor = Rank(65, "Left")]

Dialects == {"ansi", "postgres", "duckdb", "sqlite", "mysql"}

Table(d) == CASE d = "ansi"     -> STANDARD
              [] d = "postgres" -> POSTGRES
              [] d = "duckdb"   -> DUCKDB
              [] d = "sqlite"   -> SQLITE
              [] d = "mysql"    -> MYSQL

PrefixTable(d) == [STANDARD_PREFIX EXCEPT
                      !.tilde = IF d \in {"sqlite", "mysql"} THEN 80 ELSE @]

\* The set-operation table, the same in every preset.
SET_STANDARD == [union_except |-> Rank(10, "Left"), intersect |-> Rank(20, "Left")]

\* needs_parens_between: whether a child of rank `child` needs parentheses on
\* the given side of a parent of rank `parent`.
NeedsParensBetween(parent, child, side) ==
    LET same == parent.left = child.left /\ parent.right = child.right
    IN  IF side = "left"
        THEN child.right < parent.left \/ (same /\ parent.assoc # "Left")
        ELSE child.left < parent.right \/ (same /\ parent.assoc # "Right")
=============================================================================
