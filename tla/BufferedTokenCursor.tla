------------------------ MODULE BufferedTokenCursor ------------------------
(***************************************************************************)
(* The cursor every parse reads through (tokenizer/mod.rs), with the       *)
(* memoized peek the parser puts in front of it (parser/engine.rs).        *)
(*                                                                         *)
(* A streaming cursor scans the source only as far as lookahead asks, into *)
(* a buffer that holds the absolute token indices buffer_start onwards,    *)
(* and drops the consumed prefix between statements.  A slice cursor reads *)
(* an already tokenized source and never drops anything.                   *)
(*                                                                         *)
(* An operation that finds its token buffered answers in one step.  One    *)
(* that does not becomes the call in flight: the steps of scan_loop run    *)
(* for it, one token each, until it answers; nothing else can start.       *)
(***************************************************************************)
EXTENDS TriviaQueries

CONSTANT NoCall    \* no operation is scanning

Ops == {"peek", "peek_nth", "advance"}

Call == [op : Ops, target : Nat]

ASSUME NoCallAssumption == NoCall \notin Call

VARIABLES
    source,        \* the text being read
    slice,         \* the cursor reads an already tokenized slice
    capture,       \* skipped trivia is recorded
    scanned,       \* units the byte cursor has passed
    reached_eof,   \* next_token has reported the end of the input
    lex_error,     \* next_token has reported the fault
    buffer,        \* retained tokens
    buffer_start,  \* absolute index of buffer[1]
    pos,           \* absolute index of the next token
    trivia,        \* trivia recorded so far
    peeked,        \* the parser's memo: None, or the position and its answer
    call,          \* the operation scanning, or NoCall
    marks,         \* positions of the checkpoints still alive
    stmt_start,    \* pos when the statement being parsed began
    ret            \* what the last operation answered

sourceVars == <<source, slice, capture>>
scanVars == <<scanned, reached_eof, lex_error, trivia>>
bufferVars == <<buffer, buffer_start>>
clientVars == <<marks, stmt_start>>
vars == <<sourceVars, scanVars, bufferVars, clientVars, pos, peeked, call, ret>>

Init ==
    /\ source \in Sources
    /\ slice \in BOOLEAN
    /\ slice => FaultFree(source)
    /\ capture \in BOOLEAN
    /\ slice => ~capture
    /\ scanned = 0
    /\ reached_eof = FALSE
    /\ lex_error = FALSE
    /\ buffer = <<>>
    /\ buffer_start = 0
    /\ pos = 0
    /\ trivia = <<>>
    /\ peeked = None
    /\ call = NoCall
    /\ marks = {}
    /\ stmt_start = 0
    /\ ret = None
-----------------------------------------------------------------------------
(***************************************************************************)
(* scan::next_token: skip the trivia in front of the next unit, then read  *)
(* it.  Past the last unit the byte cursor is at the end of the text (or   *)
(* still on the stray byte), which is what a second scan of it would find. *)
(***************************************************************************)
NextToken ==
    IF scanned < source.n THEN scanned + 1
    ELSE IF source.end = "eof" THEN None
    ELSE IF source.end = "unterminated" /\ scanned > source.n THEN None
    ELSE LexError

(* The trivia runs that call of next_token skips.                          *)
Skipped ==
    IF scanned <= source.n
    THEN [j \in 1..source.lead[scanned + 1] |-> <<scanned + 1, j>>]
    ELSE <<>>

(* tokens.get(index) of a slice cursor.                                    *)
SliceToken(index) == IF index < source.n THEN index + 1 ELSE None

Buffered(index) == buffer_start <= index /\ index < buffer_start + Len(buffer)

BufferedToken(index) ==
    IF Buffered(index) THEN buffer[index - buffer_start + 1] ELSE None

(* An operation answers: advance steps over a token, the parser's peek     *)
(* remembers the answer for the position it was computed at.               *)
Return(op, a) ==
    /\ ret' = a
    /\ pos' = IF op = "advance" /\ IsToken(a) THEN pos + 1 ELSE pos
    /\ peeked' = IF op = "peek" THEN <<pos, a>> ELSE peeked
    /\ call' = NoCall

MemoHit == peeked # None /\ peeked[1] = pos
-----------------------------------------------------------------------------
(* Parser::peek at the position of its memo.                               *)
PeekMemo ==
    /\ call = NoCall
    /\ MemoHit
    /\ ret' = peeked[2]
    /\ UNCHANGED <<sourceVars, scanVars, bufferVars, clientVars, pos, peeked, call>>

(* Mutant: the fault is reported but not remembered.                       *)
ReadForgetsFault(op, n) ==
    /\ call = NoCall
    /\ LET target == pos + n IN
         \/ slice /\ Return(op, SliceToken(target))
         \/ ~slice /\ Buffered(target) /\ Return(op, BufferedToken(target))
         \/ /\ ~slice /\ ~Buffered(target)
            /\ call' = [op |-> op, target |-> target]
            /\ UNCHANGED <<pos, peeked, ret>>
    /\ UNCHANGED <<sourceVars, scanVars, bufferVars, clientVars>>

(* Any read of the token at index pos + n: from the slice, from the        *)
(* buffer, from the remembered fault, or by starting to scan.              *)
Read(op, n) ==
    /\ call = NoCall
    /\ LET target == pos + n IN
         \/ slice /\ Return(op, SliceToken(target))
         \/ ~slice /\ Buffered(target) /\ Return(op, BufferedToken(target))
         \/ ~slice /\ ~Buffered(target) /\ lex_error /\ Return(op, LexError)
         \/ /\ ~slice /\ ~Buffered(target) /\ ~lex_error
            /\ call' = [op |-> op, target |-> target]
            /\ UNCHANGED <<pos, peeked, ret>>
    /\ UNCHANGED <<sourceVars, scanVars, bufferVars, clientVars>>

Peek == ~MemoHit /\ Read("peek", 0)

PeekNth(n) == Read("peek_nth", n)

Advance == Read("advance", 0)

(* Mutant: the loop does not look at reached_eof.                          *)
FillingPastEnd == buffer_start + Len(buffer) <= call.target

(* The loop condition of scan_loop.                                        *)
Filling == ~reached_eof /\ buffer_start + Len(buffer) <= call.target

(* Mutant: the runs in front of the end and of a fault are lost.           *)
RecordTokensOnly ==
    trivia' = IF capture /\ IsToken(NextToken) THEN trivia \o Skipped ELSE trivia

Record == trivia' = IF capture THEN trivia \o Skipped ELSE trivia

Pass == scanned' = IF scanned <= source.n THEN scanned + 1 ELSE scanned

(* One turn of scan_loop.                                                  *)
Scan ==
    /\ call # NoCall
    /\ Filling
    /\ Record
    /\ Pass
    /\ \/ /\ IsToken(NextToken)
          /\ buffer' = Append(buffer, NextToken)
          /\ UNCHANGED <<reached_eof, lex_error, pos, peeked, call, ret>>
       \/ /\ NextToken = None
          /\ reached_eof' = TRUE
          /\ UNCHANGED <<lex_error, buffer, pos, peeked, call, ret>>
       \/ /\ NextToken = LexError
          /\ lex_error' = TRUE
          /\ Return(call.op, LexError)
          /\ UNCHANGED <<reached_eof, buffer>>
    /\ UNCHANGED <<sourceVars, clientVars, buffer_start>>

(* scan_loop is done: the operation answers from the buffer.               *)
ScanDone ==
    /\ call # NoCall
    /\ ~Filling
    /\ Return(call.op, BufferedToken(call.target))
    /\ UNCHANGED <<sourceVars, scanVars, bufferVars, clientVars>>
-----------------------------------------------------------------------------
(* Parser::checkpoint: remember the position.                              *)
Checkpoint ==
    /\ call = NoCall
    /\ marks' = marks \cup {pos}
    /\ UNCHANGED <<sourceVars, scanVars, bufferVars, stmt_start, pos, peeked, call, ret>>

(* Parser::rewind: seek to a checkpoint, and nothing else.                 *)
Rewind(p) ==
    /\ call = NoCall
    /\ p \in marks
    /\ pos' = p
    /\ UNCHANGED <<sourceVars, scanVars, bufferVars, clientVars, peeked, call, ret>>

(* preceding: the token before the cursor, if it is still retained.        *)
Preceding ==
    /\ call = NoCall
    /\ ret' = IF pos = 0 THEN None
              ELSE IF slice THEN SliceToken(pos - 1) ELSE BufferedToken(pos - 1)
    /\ UNCHANGED <<sourceVars, scanVars, bufferVars, clientVars, pos, peeked, call>>

(* Mutant: the lookahead goes with the consumed tokens.                    *)
ConsumedAndAhead == Len(buffer)

(* The tokens discard_consumed drops: the consumed prefix of the buffer.   *)
Consumed ==
    LET passed == IF pos > buffer_start THEN pos - buffer_start ELSE 0
    IN IF passed < Len(buffer) THEN passed ELSE Len(buffer)

(* parse_next_statement releases the consumed tokens of the statement      *)
(* before: its checkpoints were locals of productions that have returned.  *)
DiscardConsumed ==
    /\ call = NoCall
    /\ IF slice THEN UNCHANGED bufferVars
       ELSE /\ buffer' = SubSeq(buffer, Consumed + 1, Len(buffer))
            /\ buffer_start' = buffer_start + Consumed
    /\ stmt_start' = pos
    /\ marks' = {}
    /\ UNCHANGED <<sourceVars, scanVars, pos, peeked, call, ret>>

Next ==
    \/ PeekMemo
    \/ Peek
    \/ \E n \in 0..MaxLookahead : PeekNth(n)
    \/ Advance
    \/ Scan
    \/ ScanDone
    \/ Checkpoint
    \/ \E p \in marks : Rewind(p)
    \/ Preceding
    \/ DiscardConsumed

(* scan_loop runs to its end: it is straight-line code of the parse's own  *)
(* thread.  Nothing obliges the grammar to start another operation.        *)
Spec == Init /\ [][Next]_vars /\ WF_vars(Scan \/ ScanDone)
-----------------------------------------------------------------------------
TypeOK ==
    /\ source \in Sources
    /\ slice \in BOOLEAN
    /\ capture \in BOOLEAN
    /\ scanned \in 0..(source.n + 1)
    /\ reached_eof \in BOOLEAN
    /\ lex_error \in BOOLEAN
    /\ buffer \in Seq(Token)
    /\ buffer_start \in Nat
    /\ pos \in 0..source.n
    /\ trivia \in Seq(Token \X Token)
    /\ peeked \in {None} \cup (Nat \X Answer)
    /\ call \in {NoCall} \cup Call
    /\ marks \subseteq Nat
    /\ stmt_start \in Nat
    /\ ret \in Answer
-----------------------------------------------------------------------------
(***************************************************************************)
(* The window a streaming cursor keeps.                                    *)
(***************************************************************************)

(* A retained token is the source's own token at its absolute index.       *)
BufferIsSource == \A i \in 1..Len(buffer) : buffer[i] = buffer_start + i

(* The buffer ends where the scan has got to.                              *)
BufferMeetsScan ==
    ~slice => buffer_start + Len(buffer) = (IF scanned <= source.n THEN scanned ELSE source.n)

(* Nothing of the statement being parsed has been dropped, and nothing     *)
(* older than it is kept.                                                  *)
KeepsStatement == ~slice => buffer_start = stmt_start

(* seek's assertion, before the fact: every checkpoint a production still  *)
(* holds, and the cursor itself, lies in the retained window, so a rewind  *)
(* can never land on a token discard_consumed has dropped or on one that   *)
(* was never scanned.                                                      *)
RewindStaysInWindow ==
    ~slice => \A p \in marks \cup {pos} :
                 buffer_start <= p /\ p <= buffer_start + Len(buffer)

(* The end of the source is reported once, by the flag for what it is.     *)
EndIsRemembered ==
    /\ reached_eof <=> (scanned = source.n + 1 /\ FaultFree(source))
    /\ lex_error <=> (scanned = source.n + 1 /\ ~FaultFree(source))

(* The parser's memo of peek always holds what the source has at its       *)
(* position, whatever scanning, rewinding and discarding happened since it *)
(* was filled: a hit can be answered without looking.                      *)
MemoSound ==
    peeked # None => peeked[2] = TokenAt(source, peeked[1])

(* The trivia an eager tokenizer captures of the units scanned so far.     *)
Captured == IF capture THEN Runs(source, scanned) ELSE {}

(* Captured trivia is what an eager tokenizer would have captured of the   *)
(* units scanned so far: every run, once, in source order, however often   *)
(* lookahead, rewinds and refills passed over them (TriviaIndex::new       *)
(* asserts the order; nothing in the code asserts that no run is missing). *)
TriviaExact ==
    /\ \A i, j \in 1..Len(trivia) : i < j => Precedes(trivia[i], trivia[j])
    /\ {trivia[i] : i \in 1..Len(trivia)} = Captured

(* in_span gives exactly the runs that lie in the span, in order.          *)
SpanRecovered(a, b) ==
    LET hits == InSpan(trivia, a, b)
    IN  /\ \A i, j \in 1..Len(hits) : i < j => Precedes(hits[i], hits[j])
        /\ {hits[i] : i \in 1..Len(hits)}
              = {r \in Captured : AtMost(a, Start(r)) /\ AtMost(End(r), b)}

(* before gives the runs of its own unit that lead up to the offset, and   *)
(* none for an offset inside a token or a run.                             *)
LeadRecovered(a) ==
    Before(trivia, a) = IF capture /\ a[2] % 2 = 0
                        THEN [k \in 1..(a[2] \div 2) |-> <<a[1], k>>] ELSE <<>>

(* Once the source is read to its end or its fault, when the table goes    *)
(* with the root, its queries recover the trivia of any place: in_span     *)
(* those of any span, before those leading up to a token or a comment,     *)
(* never an earlier unit's.                                                *)
TriviaRecovered ==
    ((reached_eof \/ lex_error) /\ call = NoCall) =>
        \A a \in Offsets(source) :
            /\ \A b \in Offsets(source) : AtMost(a, b) => SpanRecovered(a, b)
            /\ LeadRecovered(a)

(* Where the cursor can be in the source, and what a slice cursor never    *)
(* does: it has no fault, no buffer and nothing to scan.                   *)
CursorInSource ==
    /\ \A p \in marks : p <= source.n
    /\ stmt_start <= pos
    /\ \A p \in marks : stmt_start <= p
    /\ slice => FaultFree(source) /\ call = NoCall /\ buffer = <<>>

(* A call in flight still has something to find out.                       *)
CallIsPending ==
    call # NoCall => /\ ~slice
                     /\ ~lex_error
                     /\ pos <= call.target /\ call.target <= pos + MaxLookahead
                     /\ call.op # "peek_nth" => call.target = pos

(* What every answer of the cursor rests on: its fields keep their types,  *)
(* every position the parser may still seek to is in the retained window,  *)
(* which holds the statement being parsed and nothing older, and a hit of  *)
(* the memo of peek needs no look at the window.                           *)
CursorSafe == TypeOK /\ KeepsStatement /\ RewindStaysInWindow /\ MemoSound

(***************************************************************************)
(* The lazy cursor is the eager one.  Scanning is invisible: a step of     *)
(* scan_loop that does not answer changes nothing the parser can see.      *)
(***************************************************************************)
Eager == INSTANCE TokenCursor WITH
             source <- source, pos <- pos, marks <- marks, ret <- ret

(* Every answer the lazy, discarding, memoizing cursor gives is the answer *)
(* of a cursor over the fully tokenized source -- including the fault,     *)
(* which stays where it is when speculation rewinds in front of it and     *)
(* comes upon it again.                                                    *)
ImplementsTokenCursor == Eager!Spec

(* An operation that has to scan always answers: scan_loop ends at its     *)
(* target, at the end of the input or at the fault.                        *)
CallReturns == call # NoCall ~> call = NoCall
=============================================================================
