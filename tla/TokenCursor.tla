---------------------------- MODULE TokenCursor ----------------------------
(***************************************************************************)
(* What the parser is promised by its token cursor, as if the whole source *)
(* had been tokenized before the parse: a position that can be read, read  *)
(* ahead of, moved over a token and set back to a checkpoint of the        *)
(* statement being parsed.  The public TokenCursor over a token slice is   *)
(* this machine on a source without a fault; BufferedTokenCursor, which    *)
(* scans only on demand and drops what was consumed, implements it.        *)
(***************************************************************************)
EXTENDS LexedSource

VARIABLES
    source,       \* the text being read
    pos,          \* absolute index of the next token
    stmt_start,   \* pos when the statement being parsed began
    marks,        \* positions of the checkpoints still alive
    ret           \* what the last operation answered

cursorVars == <<source, pos, stmt_start, marks, ret>>

Init ==
    /\ source \in Sources
    /\ pos = 0
    /\ stmt_start = 0
    /\ marks = {}
    /\ ret = None

(* Look at the token n places ahead: nothing moves.                        *)
PeekNth(n) ==
    /\ ret' = TokenAt(source, pos + n)
    /\ UNCHANGED <<source, pos, stmt_start, marks>>

(* Read the token at the cursor and step over it; stay put at the end of   *)
(* the input and at the fault.                                             *)
Advance ==
    /\ ret' = TokenAt(source, pos)
    /\ pos' = IF IsToken(ret') THEN pos + 1 ELSE pos
    /\ UNCHANGED <<source, stmt_start, marks>>

Checkpoint ==
    /\ marks' = marks \cup {pos}
    /\ UNCHANGED <<source, pos, stmt_start, ret>>

Rewind(p) ==
    /\ p \in marks
    /\ pos' = p
    /\ UNCHANGED <<source, stmt_start, marks, ret>>

(* The token before the cursor.  At the start of a statement the cursor    *)
(* may have forgotten it.                                                  *)
Preceding ==
    /\ \/ pos > 0 /\ ret' = pos
       \/ pos = stmt_start /\ ret' = None
    /\ UNCHANGED <<source, pos, stmt_start, marks>>

(* The parse moves on to the next statement; no checkpoint survives.       *)
NextStatement ==
    /\ stmt_start' = pos
    /\ marks' = {}
    /\ UNCHANGED <<source, pos, ret>>

Next ==
    \/ \E n \in 0..MaxLookahead : PeekNth(n)
    \/ Advance
    \/ Checkpoint
    \/ \E p \in marks : Rewind(p)
    \/ Preceding
    \/ NextStatement

Spec == Init /\ [][Next]_cursorVars
=============================================================================
