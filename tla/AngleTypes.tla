---------------------------- MODULE AngleTypes ----------------------------
(***************************************************************************)
(* Angle-bracket types (parser/ty.rs, parser/expr/collections.rs), in the  *)
(* dialects that have them and no liberal type names (BigQuery).  The      *)
(* lexer reads two closers as one shift token; the parser takes one close  *)
(* from it and keeps the other in a counter of the parser itself, which no *)
(* rewind, error or statement boundary resets.  The text is produced token *)
(* by token as the parser asks for it; chars counts the angle brackets of  *)
(* the text read so far, the reference the parser's own nesting is checked *)
(* against.                                                                *)
(***************************************************************************)
EXTENDS Integers, Sequences

CONSTANTS
    MaxDepth,       \* bound: nested types
    MaxStatements   \* bound: statements of the script

ASSUME BoundsAssumption == MaxDepth \in Nat \ {0} /\ MaxStatements \in Nat \ {0}

(* ARRAY and STRUCT stand for the keyword and the bracket that follows.    *)
Constructors == {"ARRAY<", "STRUCT<"}

Tokens == {"word", ">", ">>", ",", "[]", ")"} \cup Constructors

(* What can be left of ARRAY< once its keyword is read as a suffix.        *)
Residual == {"<"}

WordLike == {"word"} \cup Constructors

(* A column list, an expression STRUCT<...>(...), and the two types.       *)
Kinds == {"columns", "constructor", "array", "struct"}

Points == {"begin", "field", "type", "suffix", "item", "close", "end", "accepted", "failed"}

VARIABLES
    next,           \* the token the parser looks at
    stack,          \* open lists and types, innermost last
    at,             \* where in the innermost production the parser is
    pending,        \* angle_gt_pending
    statements,     \* statements begun
    chars,          \* history: brackets opened less brackets closed in the text
    carried,        \* history: pending when the statement began
    shifted         \* history: a shift token has been split

vars == <<next, stack, at, pending, statements, chars, carried, shifted>>

Top == stack[Len(stack)]
Below == SubSeq(stack, 1, Len(stack) - 1)

(* Every open production but a column list has read an opening bracket.    *)
OpenBrackets(s) == IF s # <<>> /\ s[1] = "columns" THEN Len(s) - 1 ELSE Len(s)

Init ==
    /\ next = "word"
    /\ stack = <<>>
    /\ at = "begin"
    /\ pending = 0
    /\ statements = 0
    /\ chars = 0
    /\ carried = 0
    /\ shifted = FALSE
-----------------------------------------------------------------------------
Goto(point) == at' = point

Read == next' \in Tokens

(* A statement with a column list, empty or not, or a typed constructor in *)
(* a projection.                                                           *)
Begin ==
    /\ at \in {"begin", "accepted", "failed"}
    /\ statements < MaxStatements
    /\ statements' = statements + 1
    /\ Read
    /\ \/ stack' = <<"columns">> /\ chars' = 0 /\ Goto(IF next' = ")" THEN "end" ELSE "field")
       \/ stack' = <<"constructor">> /\ chars' = 1 /\ Goto("field")
    /\ carried' = pending
    /\ UNCHANGED <<pending, shifted>>

(* parse_struct_type_field, parse_column_def: a name, then a type.         *)
FieldName ==
    /\ at = "field"
    /\ Top # "constructor"
    /\ next = "word"
    /\ Goto("type")
    /\ Read
    /\ UNCHANGED <<stack, pending, statements, chars, carried, shifted>>

(* parse_struct_constructor_field: two word-like tokens are a name and a   *)
(* type, one is a type.                                                    *)
ConstructorField ==
    /\ at = "field"
    /\ Top = "constructor"
    /\ \/ next = "word" /\ Goto("type") /\ next' \in WordLike
       \/ next = "word" /\ Goto("suffix") /\ next' \in Tokens \ WordLike
       \/ next \in Constructors /\ Goto("type") /\ UNCHANGED next
    /\ UNCHANGED <<stack, pending, statements, chars, carried, shifted>>

(* A type that is no constructor.                                          *)
NamedType ==
    /\ at = "type"
    /\ next = "word"
    /\ Goto("suffix")
    /\ Read
    /\ UNCHANGED <<stack, pending, statements, chars, carried, shifted>>

(* try_parse_angle_bracket_type                                            *)
OpenType ==
    /\ at = "type"
    /\ next \in Constructors
    /\ Len(stack) <= MaxDepth
    /\ stack' = Append(stack, IF next = "ARRAY<" THEN "array" ELSE "struct")
    /\ Goto(IF next = "ARRAY<" THEN "type" ELSE "field")
    /\ chars' = chars + 1
    /\ Read
    /\ UNCHANGED <<pending, statements, carried, shifted>>

(* parse_array_suffixes                                                    *)
ArraySuffix ==
    /\ at = "suffix"
    /\ \/ next = "[]" /\ Read
       \/ next = "ARRAY<" /\ next' = "<"
    /\ UNCHANGED <<stack, at, pending, statements, chars, carried, shifted>>

SuffixesDone ==
    /\ at = "suffix"
    /\ next \notin {"[]", "ARRAY<"}
    /\ Goto(IF Top = "array" THEN "close" ELSE "item")
    /\ UNCHANGED <<next, stack, pending, statements, chars, carried, shifted>>

(* parse_comma_separated                                                   *)
Comma ==
    /\ at = "item"
    /\ next = ","
    /\ Goto("field")
    /\ Read
    /\ UNCHANGED <<stack, pending, statements, chars, carried, shifted>>

ItemsDone ==
    /\ at = "item"
    /\ next # ","
    /\ Goto(IF Top = "columns" THEN "end" ELSE "close")
    /\ UNCHANGED <<next, stack, pending, statements, chars, carried, shifted>>

(* Mutant: a lone closer leaves a close behind as well.                    *)
LoneLeavesPending ==
    /\ next = ">"
    /\ pending' = 1
    /\ chars' = chars - 1
    /\ Read
    /\ UNCHANGED shifted

(* A closer of its own.                                                    *)
Lone ==
    /\ next = ">"
    /\ chars' = chars - 1
    /\ Read
    /\ UNCHANGED <<pending, shifted>>

(* Mutant: the second half of the shift token is lost.                     *)
SplitForgets ==
    /\ next = ">>"
    /\ chars' = chars - 2
    /\ shifted' = TRUE
    /\ Read
    /\ UNCHANGED pending

(* A shift token: one close now, one pending.                              *)
Split ==
    /\ next = ">>"
    /\ pending' = 1
    /\ chars' = chars - 2
    /\ shifted' = TRUE
    /\ Read

(* expect_angle_gt                                                         *)
CloseType ==
    /\ at = "close"
    /\ Top \in {"array", "struct"}
    /\ \/ pending > 0 /\ pending' = pending - 1 /\ UNCHANGED <<next, chars, shifted>>
       \/ pending = 0 /\ Lone
       \/ pending = 0 /\ Split
    /\ stack' = Below
    /\ Goto("suffix")
    /\ UNCHANGED <<statements, carried>>

(* parse_struct_constructor closes its list with expect_op.                *)
CloseConstructor ==
    /\ at = "close"
    /\ Top = "constructor"
    /\ Lone
    /\ stack' = Below
    /\ Goto("end")
    /\ UNCHANGED <<statements, carried>>

(* The parenthesis that ends the column list, or the constructor's values. *)
Accept ==
    /\ at = "end"
    /\ next = ")"
    /\ stack' = <<>>
    /\ Goto("accepted")
    /\ UNCHANGED <<next, pending, statements, chars, carried, shifted>>

(* The production at this point takes the token.                           *)
Expected ==
    \/ at = "field" /\ Top # "constructor" /\ next = "word"
    \/ at = "field" /\ Top = "constructor" /\ next \in WordLike
    \/ at = "type" /\ next \in WordLike
    \/ at \in {"suffix", "item"}
    \/ at = "close" /\ (next = ">" \/ (Top # "constructor" /\ (next = ">>" \/ pending > 0)))
    \/ at = "end" /\ next = ")"

(* unexpected: the statement is abandoned; recovery goes on with the next. *)
Fail ==
    /\ at \notin {"begin", "accepted", "failed"}
    /\ ~Expected
    /\ stack' = <<>>
    /\ Goto("failed")
    /\ UNCHANGED <<next, pending, statements, chars, carried, shifted>>

Next ==
    \/ Begin \/ FieldName \/ ConstructorField \/ NamedType \/ OpenType
    \/ ArraySuffix \/ SuffixesDone \/ Comma \/ ItemsDone
    \/ CloseType \/ CloseConstructor \/ Accept \/ Fail

Spec == Init /\ [][Next]_vars
-----------------------------------------------------------------------------
TypeOK ==
    /\ next \in Tokens \cup Residual
    /\ stack \in Seq(Kinds) /\ Len(stack) <= MaxDepth + 1
    /\ at \in Points
    /\ pending \in 0..1
    /\ statements \in 0..MaxStatements
    /\ chars \in Int
    /\ carried \in 0..1
    /\ shifted \in BOOLEAN

Parsing == at \notin {"begin", "accepted", "failed"}

(* The counter accounts for every closing bracket: what is open in the     *)
(* parser is what is open in the text, plus the closes still pending, less *)
(* those the statement inherited (expect_angle_gt).                        *)
BracketsCounted == Parsing => OpenBrackets(stack) = chars + pending - carried

(* No close is counted twice or lost, and never more than one is pending.  *)
ClosesAccounted == TypeOK /\ BracketsCounted

(* As long as no shift token has been split, a field or column belongs to  *)
(* the list whose brackets enclose it, and a statement is accepted only    *)
(* with every bracket closed and none to spare (parse_comma_separated,     *)
(* expect_angle_gt).                                                       *)
SpacedTypesExact ==
    ~shifted => /\ Parsing => OpenBrackets(stack) = chars
                /\ at = "accepted" => chars = 0
=============================================================================
