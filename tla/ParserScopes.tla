---------------------------- MODULE ParserScopes ----------------------------
(***************************************************************************)
(* What the recursive-descent parser keeps outside its call stack, and     *)
(* must keep in step with it: the recursion depth the guards count, the    *)
(* flags a production sets for the extent of another, and the one-shot     *)
(* grouping flag handed to the next query (parser/engine.rs).              *)
(*                                                                         *)
(* The stack holds the productions that do any of this; the grammar in     *)
(* between is nondeterministic.  A production calls another, returns, or   *)
(* fails; a failure unwinds frame by frame, and a speculating production   *)
(* catches it, rewinds, and tries its other reading.  At the bottom the    *)
(* recovering driver goes on to the next statement with the same parser.   *)
(***************************************************************************)
EXTENDS Integers, Sequences, FiniteSets

CONSTANTS
    Limit,          \* recursion_limit
    ParenOperands,  \* SelectSyntax::parenthesized_query_operands (off: SQLite)
    Explored        \* the productions this instance lets the grammar use

(* Productions that hold a RecursionGuard.                                 *)
Guarded ==
    {"statement", "body", "query", "cte", "factor", "join", "pattern", "expr_bp"}

(* Productions that set flags for the extent of the one they call.         *)
Scoped ==
    {"expr", "target", "b_expr", "c_expr", "connect_by", "function_body", "procedure_body"}

(* Where the next tokens do not tell: a `(` with a `(` behind it, in an    *)
(* expression or in FROM, is first read as a query and, rewound, as a row  *)
(* or a join; a LIMIT count whose reading fails is read again as the       *)
(* operand of a `%` marker; INTERVAL and LIMIT BY try an operand and,      *)
(* rewound, decline.                                                       *)
Grouping == {"grouped", "derived"}
Retrying == Grouping \cup {"count"}
Speculating == Retrying \cup {"probe"}
Rewound == {"reread", "rejoined", "recounted"}

Productions == Guarded \cup Scoped \cup Speculating \cup Rewound

ASSUME LimitAssumption == Limit \in Nat
ASSUME OperandsAssumption == ParenOperands \in BOOLEAN
ASSUME ExploredAssumption == Explored \subseteq Productions

VARIABLES
    stack,                 \* frames, the innermost last
    status,                \* "parse", or "error" while an Err propagates
    recursion_depth,
    flags,
    paren_query_grouping,
    refused                \* history: the limit has refused a query

vars == <<stack, status, recursion_depth, flags, paren_query_grouping, refused>>

Flags ==
    [restrict_b_expr : BOOLEAN, suppress_value_star : BOOLEAN,
     in_connect_by : BOOLEAN, body_return_allowed : BOOLEAN]

(* saved: the flags on entry; called: the frame has called another         *)
(* production; grouping: the query took the one-shot flag and stands at    *)
(* its body; complete: that body is a grouped query nothing may extend.    *)
Frame ==
    [prod : Productions, saved : Flags, called : BOOLEAN,
     grouping : BOOLEAN, complete : BOOLEAN]

NoFlags ==
    [restrict_b_expr |-> FALSE, suppress_value_star |-> FALSE,
     in_connect_by |-> FALSE, body_return_allowed |-> TRUE]

Top == stack[Len(stack)]

(* Everything but the frame on top.                                        *)
Below == SubSeq(stack, 1, Len(stack) - 1)

Init ==
    /\ stack = <<>>
    /\ status = "parse"
    /\ recursion_depth = 0
    /\ flags = NoFlags
    /\ paren_query_grouping = FALSE
    /\ refused = FALSE
-----------------------------------------------------------------------------
(* What a production's own code may call next.                             *)
Callees(p) ==
    CASE p = "statement" -> {"statement", "query", "cte", "factor", "join", "expr", "target",
                             "b_expr", "c_expr", "function_body", "procedure_body"}
      [] p = "body" -> {"body", "statement", "query", "expr"}
      [] p = "query" -> {"query", "cte", "expr", "target", "factor", "join", "connect_by",
                         "b_expr", "c_expr", "pattern", "count", "probe"}
      [] p = "cte" -> {"query", "cte", "factor", "join", "expr", "target"}
      [] p = "factor" -> {"query", "derived", "factor", "join", "expr", "b_expr", "expr_bp"}
      [] p = "join" -> {"factor", "join", "expr"}
      [] p = "pattern" -> {"pattern"}
      [] p \in {"expr_bp", "c_expr"} -> {"expr_bp", "expr", "b_expr", "query", "grouped", "probe"}
      [] p \in {"expr", "target", "b_expr", "recounted"} -> {"expr_bp"}
      [] p \in {"connect_by", "count", "probe", "reread"} -> {"expr"}
      [] p \in {"function_body", "procedure_body"} -> {"body", "statement"}
      [] p \in Grouping -> {"query"}
      [] p = "rejoined" -> {"factor", "join"}

(* Productions whose whole body is the one call.                           *)
CallsOnce == (Scoped \ {"c_expr"}) \cup Speculating \cup {"recounted"}

(* Productions that cannot return without a call.                          *)
MustCall == CallsOnce \cup Rewound

(* The flags a production sets on entry.                                   *)
Entered(p) ==
    CASE p = "expr" ->
            [flags EXCEPT !.restrict_b_expr = FALSE, !.suppress_value_star = FALSE]
      [] p = "target" ->
            [flags EXCEPT !.restrict_b_expr = FALSE, !.suppress_value_star = TRUE]
      [] p = "b_expr" -> [flags EXCEPT !.restrict_b_expr = TRUE]
      [] p = "c_expr" -> [flags EXCEPT !.restrict_b_expr = FALSE]
      [] p = "connect_by" -> [flags EXCEPT !.in_connect_by = TRUE]
      [] p = "query" -> [flags EXCEPT !.in_connect_by = FALSE]
      [] p = "function_body" -> [flags EXCEPT !.body_return_allowed = TRUE]
      [] p = "procedure_body" -> [flags EXCEPT !.body_return_allowed = FALSE]
      [] OTHER -> flags

(* Mutant: a query nested in a CONNECT BY condition leaves PRIOR off.      *)
RestoredButQuery(f) ==
    CASE f.prod \in {"expr", "target"} ->
            [flags EXCEPT !.restrict_b_expr = f.saved.restrict_b_expr,
                          !.suppress_value_star = f.saved.suppress_value_star]
      [] f.prod \in {"b_expr", "c_expr"} ->
            [flags EXCEPT !.restrict_b_expr = f.saved.restrict_b_expr]
      [] f.prod = "connect_by" ->
            [flags EXCEPT !.in_connect_by = f.saved.in_connect_by]
      [] f.prod \in {"function_body", "procedure_body"} ->
            [flags EXCEPT !.body_return_allowed = f.saved.body_return_allowed]
      [] OTHER -> flags

(* Mutant: `?` on the guarded call, so that only Ok restores.              *)
RestoredOnOk(f) ==
    CASE status = "error" -> flags
      [] f.prod \in {"expr", "target"} ->
            [flags EXCEPT !.restrict_b_expr = f.saved.restrict_b_expr,
                          !.suppress_value_star = f.saved.suppress_value_star]
      [] f.prod \in {"b_expr", "c_expr"} ->
            [flags EXCEPT !.restrict_b_expr = f.saved.restrict_b_expr]
      [] f.prod \in {"connect_by", "query"} ->
            [flags EXCEPT !.in_connect_by = f.saved.in_connect_by]
      [] f.prod \in {"function_body", "procedure_body"} ->
            [flags EXCEPT !.body_return_allowed = f.saved.body_return_allowed]
      [] OTHER -> flags

(* Mutant: a projection target restores only the b_expr restriction.       *)
RestoredButStar(f) ==
    CASE f.prod \in {"expr", "target", "b_expr", "c_expr"} ->
            [flags EXCEPT !.restrict_b_expr = f.saved.restrict_b_expr]
      [] f.prod \in {"connect_by", "query"} ->
            [flags EXCEPT !.in_connect_by = f.saved.in_connect_by]
      [] f.prod \in {"function_body", "procedure_body"} ->
            [flags EXCEPT !.body_return_allowed = f.saved.body_return_allowed]
      [] OTHER -> flags

(* The flags it restores when it is left, by Ok or by Err.                 *)
Restored(f) ==
    CASE f.prod \in {"expr", "target"} ->
            [flags EXCEPT !.restrict_b_expr = f.saved.restrict_b_expr,
                          !.suppress_value_star = f.saved.suppress_value_star]
      [] f.prod \in {"b_expr", "c_expr"} ->
            [flags EXCEPT !.restrict_b_expr = f.saved.restrict_b_expr]
      [] f.prod \in {"connect_by", "query"} ->
            [flags EXCEPT !.in_connect_by = f.saved.in_connect_by]
      [] f.prod \in {"function_body", "procedure_body"} ->
            [flags EXCEPT !.body_return_allowed = f.saved.body_return_allowed]
      [] OTHER -> flags

(* The one-shot flag as the callee finds it: armed by the two grouping     *)
(* helpers, and handed on by a grouping `(` directly inside another.       *)
Armed(caller, p) ==
    IF p # "query" THEN paren_query_grouping
    ELSE IF caller.prod \in Grouping THEN TRUE
    ELSE IF caller.prod = "query" THEN caller.grouping
    ELSE paren_query_grouping

(***************************************************************************)
(* Production p runs.  A guard that would exceed the limit refuses: the    *)
(* call fails before its frame exists -- for parse_query, after it has     *)
(* cleared in_connect_by, which the early return does not restore, and     *)
(* before it has taken the grouping flag.                                  *)
(***************************************************************************)
Enter(p, base, armed) ==
    IF p \in Guarded /\ recursion_depth >= Limit
    THEN /\ status' = "error"
         /\ stack' = base
         /\ flags' = IF p = "query" THEN Entered(p) ELSE flags
         /\ paren_query_grouping' = armed
         /\ refused' = (refused \/ p = "query")
         /\ UNCHANGED recursion_depth
    ELSE /\ stack' = Append(base, [prod |-> p, saved |-> flags, called |-> FALSE,
                                   grouping |-> p = "query" /\ armed, complete |-> FALSE])
         /\ flags' = Entered(p)
         /\ paren_query_grouping' = IF p = "query" THEN FALSE ELSE armed
         /\ recursion_depth' = IF p \in Guarded THEN recursion_depth + 1 ELSE recursion_depth
         /\ UNCHANGED <<status, refused>>

(* The driver calls parse_statement.                                       *)
Start ==
    /\ status = "parse"
    /\ stack = <<>>
    /\ Enter("statement", stack, paren_query_grouping)

(* The frame on top as it waits for p.                                     *)
Calling(p) ==
    [Top EXCEPT !.called = TRUE, !.grouping = FALSE,
                !.complete = p = "query" /\ Top.grouping /\ ~ParenOperands]

(* The frame on top calls production p.  A compound's parenthesized        *)
(* operand needs the dialect's leave, or the grouping context.             *)
Call(p) ==
    /\ status = "parse"
    /\ stack # <<>>
    /\ p \in Callees(Top.prod)
    /\ Top.prod \in CallsOnce => ~Top.called
    /\ ~Top.complete
    /\ (Top.prod = "query" /\ p = "query") => (ParenOperands \/ Top.grouping)
    /\ Enter(p, Append(Below, Calling(p)), Armed(Top, p))

(* Mutant: the guard of an abandoned production is not dropped.            *)
LeaveOnErrorKeepsDepth ==
    /\ stack' = Below
    /\ flags' = Restored(Top)
    /\ recursion_depth' = IF Top.prod \in Guarded /\ status = "parse"
                          THEN recursion_depth - 1 ELSE recursion_depth
    /\ UNCHANGED <<paren_query_grouping, refused>>

(* A frame is left, and its guard dropped.                                 *)
Leave ==
    /\ stack' = Below
    /\ flags' = Restored(Top)
    /\ recursion_depth' = IF Top.prod \in Guarded THEN recursion_depth - 1 ELSE recursion_depth
    /\ UNCHANGED <<paren_query_grouping, refused>>

(* The production on top returns Ok.                                       *)
Return ==
    /\ status = "parse"
    /\ stack # <<>>
    /\ Top.prod \in MustCall => Top.called
    /\ Leave
    /\ UNCHANGED status

(* The frame on top once its speculation has failed.                       *)
Rereading ==
    [Top EXCEPT !.called = FALSE,
                !.prod = CASE @ = "grouped" -> "reread"
                           [] @ = "derived" -> "rejoined"
                           [] @ = "count" -> "recounted"]

(* The query was read, but no `)` follows it: the cursor is rewound.       *)
NoMatch ==
    /\ status = "parse"
    /\ stack # <<>>
    /\ Top.prod \in Grouping
    /\ Top.called
    /\ stack' = Append(Below, Rereading)
    /\ UNCHANGED <<status, recursion_depth, flags, paren_query_grouping, refused>>

(* The production on top meets something it cannot parse.                  *)
Fail ==
    /\ status = "parse"
    /\ stack # <<>>
    /\ Top.prod \notin Speculating
    /\ status' = "error"
    /\ UNCHANGED <<stack, recursion_depth, flags, paren_query_grouping, refused>>

(* The look at what follows the reading meets a lexical fault.             *)
SpeculationFaults ==
    /\ status = "parse"
    /\ stack # <<>>
    /\ Top.prod \in Speculating
    /\ Top.called
    /\ status' = "error"
    /\ Leave

(* An Err leaves the frame on top.                                         *)
Unwind ==
    /\ status = "error"
    /\ stack # <<>>
    /\ Top.prod \notin Speculating
    /\ Leave
    /\ UNCHANGED status

(* A speculating production catches the Err of its call; the cursor is     *)
(* rewound, and nothing but the cursor.                                    *)
Catch ==
    /\ status = "error"
    /\ stack # <<>>
    /\ Top.prod \in Speculating
    /\ stack' = IF Top.prod \in Retrying THEN Append(Below, Rereading) ELSE Below
    /\ status' = "parse"
    /\ UNCHANGED <<recursion_depth, flags, paren_query_grouping, refused>>

(* The recovering driver records the error and goes on.                    *)
Recover ==
    /\ status = "error"
    /\ stack = <<>>
    /\ status' = "parse"
    /\ UNCHANGED <<stack, recursion_depth, flags, paren_query_grouping, refused>>

Next ==
    \/ Start
    \/ \E p \in Explored : Call(p)
    \/ Return
    \/ NoMatch
    \/ Fail
    \/ SpeculationFaults
    \/ Unwind
    \/ Catch
    \/ Recover

Spec == Init /\ [][Next]_vars
-----------------------------------------------------------------------------
TypeOK ==
    /\ stack \in Seq(Frame)
    /\ status \in {"parse", "error"}
    /\ recursion_depth \in Nat
    /\ flags \in Flags
    /\ paren_query_grouping \in BOOLEAN
    /\ refused \in BOOLEAN

(* The guards live in a stack of frames.                                   *)
Guards(s) == {i \in 1..Len(s) : s[i].prod \in Guarded}

(***************************************************************************)
(* recursion_depth is the number of live guards and never exceeds the      *)
(* limit, whatever calls returned, failed, or were abandoned by a rewind:  *)
(* a rejected deep parse cannot make the limit trip on shallower input.    *)
(***************************************************************************)
DepthIsLiveGuards ==
    /\ recursion_depth = Cardinality(Guards(stack))
    /\ recursion_depth <= Limit

(* Of the first n frames in ps, the innermost is a p.                      *)
Innermost(s, n, ps, p) ==
    \E i \in 1..n : s[i].prod = p /\ \A j \in (i + 1)..n : s[j].prod \notin ps

(* The productions that own each flag.                                     *)
Spine == {"expr", "target", "b_expr", "c_expr"}
Starred == {"expr", "target"}
Hierarchy == {"connect_by", "query"}
Routine == {"function_body", "procedure_body"}

ParsingOperand == status = "parse" /\ stack # <<>> /\ Top.prod \in {"expr_bp", "c_expr"}

(* PRIOR is an operator only in a CONNECT BY condition, and not in a query *)
(* nested in one, whatever was refused, failed or rewound on the way       *)
(* (parse_connect_by, parse_query).                                        *)
PriorConfined ==
    ParsingOperand /\ flags.in_connect_by => Innermost(stack, Len(stack), Hierarchy, "connect_by")

(***************************************************************************)
(* The b_expr restriction and the suppressed star cover the operator spine *)
(* of their own expression only: nested expressions parse in full, and the *)
(* restriction is back when they are done.                                 *)
(***************************************************************************)
SpineScoped ==
    ParsingOperand =>
        /\ flags.restrict_b_expr <=> Innermost(stack, Len(stack), Spine, "b_expr")
        /\ flags.suppress_value_star <=> Innermost(stack, Len(stack), Starred, "target")

(* RETURN is legal where the innermost routine is not a procedure.         *)
ReturnScoped ==
    (status = "parse" /\ stack # <<>> /\ Top.prod = "body")
        => (flags.body_return_allowed <=> ~Innermost(stack, Len(stack), Routine, "procedure_body"))

(***************************************************************************)
(* What the next statement of a recovering parse inherits.  The depth and  *)
(* the four scoped flags are those of a fresh parser, however the last one *)
(* ended.  The grouping flag is down too, unless the limit has refused a   *)
(* query: the refusal comes between the caller's arming of it and          *)
(* parse_query's taking it, and neither the unwinding nor the loop clears  *)
(* it.  No other failure leaves anything behind.                           *)
(***************************************************************************)
StatementsIndependent ==
    stack = <<>> =>
        /\ flags = NoFlags
        /\ recursion_depth = 0
        /\ paren_query_grouping => refused

(* Every operand and every routine body reads the flags of its own place   *)
(* in the grammar, at any nesting and after any failure caught on the way. *)
FlagsScoped == TypeOK /\ PriorConfined /\ SpineScoped /\ ReturnScoped

(* The field's documentation: PRIOR stays an operator through the whole of *)
(* the condition, its parentheses and sub-expressions included.            *)
PriorThroughout ==
    ParsingOperand /\ Innermost(stack, Len(stack), Hierarchy, "connect_by") => flags.in_connect_by

(* The gate's documentation: where the dialect lacks parenthesized query   *)
(* operands, one is accepted only in a grouping context, that is, directly *)
(* inside a grouping parenthesis or another such operand.                  *)
OperandsOnlyGrouped ==
    \A i \in 2..Len(stack) :
        (stack[i - 1].prod = "query" /\ stack[i].prod = "query" /\ ~ParenOperands)
            => i > 2 /\ stack[i - 2].prod \in Grouping \cup {"query"}

(***************************************************************************)
(* Both promises of the documentation hold for as long as the limit has    *)
(* refused no query.  parse_query clears in_connect_by, and its caller     *)
(* arms the grouping flag, before the guard can refuse, and the refusal    *)
(* puts neither back: it is the only way either flag outlives its place.   *)
(***************************************************************************)
ScopedUnlessRefused == ~refused => PriorThroughout /\ OperandsOnlyGrouped
=============================================================================
