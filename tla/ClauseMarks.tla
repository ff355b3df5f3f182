---------------------------- MODULE ClauseMarks ----------------------------
(***************************************************************************)
(* The side table of clause keywords (parser/clause_marks.rs, engine.rs).  *)
(* A keyword is recorded when it is eaten, with a placeholder owner; the   *)
(* node it belongs to claims the unclaimed marks since its own start once  *)
(* it has an id.  A speculative parse rewinds the cursor; the operand      *)
(* probe of expr/core.rs also truncates the table, no other does: not the  *)
(* reading of a nested parenthesis as a query, nor that of a LIMIT BY      *)
(* head, of a LIMIT count, of an INTERVAL amount, or of the first argument *)
(* of SUBSTRING, CEIL, FLOOR, OVERLAY, TRIM or a JSON member.              *)
(***************************************************************************)
EXTENDS Integers, Sequences, FiniteSets

CONSTANTS
    MaxOffset,      \* bound: length of the source in tokens
    MaxNodes,       \* bound: nodes opened, abandoned ones included
    MaxSpeculation, \* bound: speculative parses
    Speculation     \* the kinds of speculation the text leads to

ASSUME BoundsAssumption ==
    MaxOffset \in Nat /\ MaxNodes \in Nat /\ MaxSpeculation \in Nat

(* The operand probe, and every other reading that begins with a           *)
(* checkpoint: one that turns out to be right, and one that does not.      *)
Kinds == {"probe", "kept", "undone"}

ASSUME SpeculationAssumption == Speculation \subseteq Kinds

(* PENDING_OWNER                                                           *)
Pending == 0

VARIABLES
    keyword,        \* which tokens of the source are clause keywords
    pos,            \* tokens consumed
    clause_marks,   \* in the order recorded; an offset is a token's ordinal
    stack,          \* owning nodes and speculations under way
    next_node_id,
    opened,         \* history: nodes opened so far
    node,           \* history: the node each id was minted for
    speculated,     \* history: speculations so far
    reread,         \* history: keywords were left behind by a rewind
    taken           \* the table has been handed to the root

vars ==
    <<keyword, pos, clause_marks, stack, next_node_id, opened, node, speculated, reread, taken>>

(* by: history, the node that recorded the mark.                           *)
Mark == [owner : 0..MaxNodes, offset : 1..MaxOffset, by : 1..MaxNodes]

(* marks: clause_marks_checkpoint; at: the cursor; node: 0 for speculation.*)
Frame ==
    [kind : Kinds \cup {"node"}, marks : Nat, at : 0..MaxOffset, node : 0..MaxNodes]

Top == stack[Len(stack)]
Below == SubSeq(stack, 1, Len(stack) - 1)

Init ==
    /\ keyword \in [1..MaxOffset -> BOOLEAN]
    /\ pos = 0
    /\ clause_marks = <<>>
    /\ stack = <<>>
    /\ next_node_id = 1
    /\ opened = 0
    /\ node = <<>>
    /\ speculated = 0
    /\ reread = FALSE
    /\ taken = FALSE
-----------------------------------------------------------------------------
(* parse_select or parse_query_after_with begins.                          *)
Open ==
    /\ ~taken
    /\ opened < MaxNodes
    /\ opened' = opened + 1
    /\ stack' = Append(stack, [kind |-> "node", marks |-> Len(clause_marks), at |-> pos,
                               node |-> opened'])
    /\ UNCHANGED <<keyword, pos, clause_marks, next_node_id, node, speculated, reread, taken>>

(* A token that is no clause keyword.                                      *)
Advance ==
    /\ ~taken
    /\ pos < MaxOffset
    /\ ~keyword[pos + 1]
    /\ pos' = pos + 1
    /\ UNCHANGED <<keyword, clause_marks, stack, next_node_id, opened, node, speculated, reread, taken>>

(* The node on top eats a clause keyword.                                  *)
RecordClauseMark ==
    /\ ~taken
    /\ stack # <<>>
    /\ Top.kind = "node"
    /\ pos < MaxOffset
    /\ keyword[pos + 1]
    /\ pos' = pos + 1
    /\ clause_marks' = Append(clause_marks, [owner |-> Pending, offset |-> pos', by |-> Top.node])
    /\ UNCHANGED <<keyword, stack, next_node_id, opened, node, speculated, reread, taken>>

(* Mutant: the patch also re-owns what a nested node has claimed.          *)
PatchedAll(checkpoint, owner) ==
    [i \in 1..Len(clause_marks) |->
        IF i > checkpoint THEN [clause_marks[i] EXCEPT !.owner = owner] ELSE clause_marks[i]]

(* patch_clause_marks                                                      *)
Patched(checkpoint, owner) ==
    [i \in 1..Len(clause_marks) |->
        IF i > checkpoint /\ clause_marks[i].owner = Pending
        THEN [clause_marks[i] EXCEPT !.owner = owner]
        ELSE clause_marks[i]]

(* The node on top is complete: its id is minted and its marks are patched.*)
Close ==
    /\ ~taken
    /\ stack # <<>>
    /\ Top.kind = "node"
    /\ clause_marks' = Patched(Top.marks, next_node_id)
    /\ node' = Append(node, Top.node)
    /\ next_node_id' = next_node_id + 1
    /\ stack' = Below
    /\ UNCHANGED <<keyword, pos, opened, speculated, reread, taken>>

(* A speculative parse takes its checkpoint.                               *)
Speculate(kind) ==
    /\ ~taken
    /\ speculated < MaxSpeculation
    /\ speculated' = speculated + 1
    /\ stack' = Append(stack, [kind |-> kind, marks |-> Len(clause_marks), at |-> pos, node |-> 0])
    /\ UNCHANGED <<keyword, pos, clause_marks, next_node_id, opened, node, reread, taken>>

(* The reading is right (the parenthesis is a query, BY follows the LIMIT, *)
(* a unit the amount, FROM the argument): nothing is rewound.              *)
Commit ==
    /\ ~taken
    /\ stack # <<>>
    /\ Top.kind = "kept"
    /\ stack' = Below
    /\ UNCHANGED <<keyword, pos, clause_marks, next_node_id, opened, node, speculated, reread, taken>>

(* Mutant: the table is truncated to the length it has, not had.           *)
RewoundMarksLate(f) == clause_marks

(* The table once speculation f is rewound.                                *)
RewoundMarks(f) ==
    IF f.kind = "probe" THEN SubSeq(clause_marks, 1, f.marks) ELSE clause_marks

(***************************************************************************)
(* The innermost speculation is over without a match: an error inside it   *)
(* unwound to it, or the token after it was not the one it needs, or it    *)
(* only asked whether an operand starts.  The nodes inside it are dropped. *)
(***************************************************************************)
Rewind ==
    /\ ~taken
    /\ \E i \in 1..Len(stack) :
        /\ stack[i].kind \in {"probe", "undone"}
        /\ \A j \in (i + 1)..Len(stack) : stack[j].kind = "node"
        /\ pos' = stack[i].at
        /\ clause_marks' = RewoundMarks(stack[i])
        /\ stack' = SubSeq(stack, 1, i - 1)
        /\ reread' = (reread \/ (stack[i].kind = "undone" /\ Len(clause_marks) > stack[i].marks))
    /\ UNCHANGED <<keyword, next_node_id, opened, node, speculated, taken>>

(* The statements are parsed, and the table goes to the root.              *)
TakeClauseMarks ==
    /\ ~taken
    /\ stack = <<>>
    /\ taken' = TRUE
    /\ UNCHANGED <<keyword, pos, clause_marks, stack, next_node_id, opened, node, speculated, reread>>

Next ==
    \/ Open
    \/ Advance
    \/ RecordClauseMark
    \/ Close
    \/ \E kind \in Speculation : Speculate(kind)
    \/ Commit
    \/ Rewind
    \/ TakeClauseMarks

Spec == Init /\ [][Next]_vars
-----------------------------------------------------------------------------
(* partition_point: the length of the prefix that satisfies the predicate, *)
(* for a sequence with such a prefix (any index otherwise).                *)
StartingBefore(bound) == {i \in 1..Len(clause_marks) : clause_marks[i].offset < bound}

(* Mutant: the end of the span is included.                                *)
InSpanInclusive(start, end) ==
    SubSeq(clause_marks, Cardinality(StartingBefore(start)) + 1, Cardinality(StartingBefore(end + 1)))

(* ClauseMarkIndex::in_span                                                *)
InSpan(start, end) ==
    SubSeq(clause_marks, Cardinality(StartingBefore(start)) + 1, Cardinality(StartingBefore(end)))

TypeOK ==
    /\ keyword \in [1..MaxOffset -> BOOLEAN]
    /\ pos \in 0..MaxOffset
    /\ clause_marks \in Seq(Mark)
    /\ stack \in Seq(Frame)
    /\ next_node_id \in 1..(MaxNodes + 1)
    /\ opened \in 0..MaxNodes
    /\ node \in Seq(1..MaxNodes)
    /\ speculated \in 0..MaxSpeculation
    /\ reread \in BOOLEAN
    /\ taken \in BOOLEAN

(* The owner of a mark is the node that ate the keyword: neither a node    *)
(* around it nor one inside it claims it.                                  *)
OwnedByRecorder ==
    \A i \in 1..Len(clause_marks) :
        clause_marks[i].owner # Pending => node[clause_marks[i].owner] = clause_marks[i].by

(* The second assertion of ClauseMarkIndex::new: no placeholder gets out.  *)
AllOwned ==
    taken => \A i \in 1..Len(clause_marks) : clause_marks[i].owner # Pending

(***************************************************************************)
(* Each keyword belongs to the node that ate it and to no other, and none  *)
(* goes unclaimed, unless a text with keywords in it was read a second     *)
(* time and the table not truncated: what the first reading leaves in it   *)
(* is unclaimed when its node was abandoned, and falls to the node around. *)
(***************************************************************************)
MarksOwned == TypeOK /\ (~reread => OwnedByRecorder /\ AllOwned)

(* ms is one run of the table, and holds exactly the marks whose keyword   *)
(* lies in the span.                                                       *)
IsRunOf(ms, start, end) ==
    \E k \in 0..(Len(clause_marks) - Len(ms)) :
        /\ ms = SubSeq(clause_marks, k + 1, k + Len(ms))
        /\ \A i \in 1..Len(clause_marks) :
            i \in (k + 1)..(k + Len(ms))
                <=> (start <= clause_marks[i].offset /\ clause_marks[i].offset < end)

(***************************************************************************)
(* in_span recovers exactly the marks whose keyword lies in the span, for  *)
(* every span of the source.  The two binary searches need the order that  *)
(* a second reading breaks.                                                *)
(***************************************************************************)
InSpanExact ==
    ~reread =>
        \A start, end \in 1..(MaxOffset + 1) :
            (start <= end) => IsRunOf(InSpan(start, end), start, end)

(* No mark lies ahead of the cursor: none is left of a parse that was      *)
(* rewound, so no keyword is recorded a second time when it is read again. *)
MarksBehindCursor ==
    \A i \in 1..Len(clause_marks) : clause_marks[i].offset <= pos

(* The module documentation and the first assertion of                     *)
(* ClauseMarkIndex::new: the table is in source order.                     *)
Sorted ==
    \A i, j \in 1..Len(clause_marks) :
        i < j => clause_marks[i].offset <= clause_marks[j].offset

(***************************************************************************)
(* The table is sorted by construction, which ClauseMarkIndex::new asserts *)
(* and does not arrange, through every other step: a rewind that does not  *)
(* truncate, behind recorded keywords, is the only way out of order.       *)
(***************************************************************************)
SortedUnlessReread == ~reread => MarksBehindCursor /\ Sorted
=============================================================================
