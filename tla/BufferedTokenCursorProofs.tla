--------------------- MODULE BufferedTokenCursorProofs ---------------------
(***************************************************************************)
(* For every set of sources and every lookahead: the window, the memo and  *)
(* the sticky fault are invariants of the lazy cursor, and the lazy cursor *)
(* implements the eager one.                                               *)
(***************************************************************************)
EXTENDS BufferedTokenCursor, SequenceTheorems, FiniteSetTheorems, NaturalsInduction,
        WellFoundedInduction, TLAPS

(***************************************************************************)
(* The inductive invariant.  That a rewind stays in the window needs the   *)
(* window to start where the statement does (KeepsStatement); that the     *)
(* memo and every answer agree with the whole source needs the buffer to   *)
(* be a copy of the source that ends where the scan has got to, and the    *)
(* end of the source to have been recorded as what it is.                  *)
(***************************************************************************)
Window ==
    /\ BufferIsSource
    /\ BufferMeetsScan
    /\ KeepsStatement
    /\ RewindStaysInWindow
    /\ EndIsRemembered
    /\ CursorInSource
    /\ CallIsPending

IInv == TypeOK /\ Window /\ MemoSound

USE SourcesAssumption, AnswersAssumption, LookaheadAssumption, NoCallAssumption

(* A source's fields have their types.                                     *)
LEMMA SourceFacts ==
    ASSUME NEW s \in Sources
    PROVE  s.n \in Nat /\ s.lead \in Seq(Nat) /\ Len(s.lead) = s.n + 1 /\ s.end \in Ends
BY DEF Source

(* Reading the whole source always gives an answer.                        *)
LEMMA TokenAtType ==
    ASSUME NEW s \in Sources, NEW t \in Nat
    PROVE  TokenAt(s, t) \in Answer
BY SourceFacts DEF TokenAt, Answer, Token

(* The runs next_token skips are pairs of ordinals.                        *)
LEMMA SkippedType ==
    ASSUME TypeOK, scanned <= source.n
    PROVE  Skipped \in Seq(Token \X Token)
<1>1. scanned + 1 \in 1..Len(source.lead) /\ source.lead \in Seq(Nat)
  BY SourceFacts DEF TypeOK
<1>2. source.lead[scanned + 1] \in Nat
  BY <1>1
<1>3. scanned + 1 \in Token
  BY DEF TypeOK, Token
<1> QED
  BY <1>2, <1>3 DEF Skipped, Token

(* A cursor starts with an empty window.                                   *)
LEMMA InitEstablishes == Init => IInv
<1> SUFFICES ASSUME Init PROVE IInv
  OBVIOUS
<1> USE DEF Init
<1>1. TypeOK
  <2>1. buffer \in Seq(Token) /\ trivia \in Seq(Token \X Token)
    OBVIOUS
  <2>2. reached_eof \in BOOLEAN /\ lex_error \in BOOLEAN
    OBVIOUS
  <2>3. ret \in Answer
    BY DEF Answer
  <2> QED
    BY <2>1, <2>2, <2>3, SourceFacts DEF TypeOK
<1>2. BufferIsSource /\ BufferMeetsScan /\ KeepsStatement /\ RewindStaysInWindow
  BY SourceFacts DEF BufferIsSource, BufferMeetsScan, KeepsStatement, RewindStaysInWindow
<1>3. EndIsRemembered
  BY SourceFacts DEF EndIsRemembered
<1>4. CursorInSource /\ CallIsPending /\ MemoSound
  BY SourceFacts DEF CursorInSource, CallIsPending, MemoSound
<1> QED
  BY <1>1, <1>2, <1>3, <1>4 DEF IInv, Window
-----------------------------------------------------------------------------
(***************************************************************************)
(* Every way to answer gives the answer of the eager cursor.               *)
(***************************************************************************)

(* A slice cursor reads the tokenized source.                              *)
LEMMA SliceAnswer ==
    ASSUME IInv, slice, NEW t \in Nat
    PROVE  SliceToken(t) = TokenAt(source, t)
BY DEF IInv, Window, CursorInSource, SliceToken, TokenAt

(* A buffered token is the source's.                                       *)
LEMMA BufferAnswer ==
    ASSUME IInv, ~slice, NEW t \in Nat, Buffered(t)
    PROVE  BufferedToken(t) = TokenAt(source, t) /\ t < source.n /\ BufferedToken(t) = t + 1
<1>1. source.n \in Nat
  BY SourceFacts DEF IInv, TypeOK
<1>2. t - buffer_start + 1 \in 1..Len(buffer)
  BY DEF IInv, TypeOK, Buffered
<1>3. buffer[t - buffer_start + 1] = t + 1
  BY <1>2 DEF IInv, TypeOK, Window, BufferIsSource
<1>4. t < source.n
  BY <1>1 DEF IInv, TypeOK, Window, BufferMeetsScan, Buffered
<1> QED
  BY <1>3, <1>4 DEF BufferedToken, TokenAt

(* Past the buffer a remembered fault is what the source has.              *)
LEMMA FaultAnswer ==
    ASSUME IInv, ~slice, lex_error, NEW t \in Nat, pos <= t, ~Buffered(t)
    PROVE  TokenAt(source, t) = LexError
<1>1. source.n \in Nat /\ ~FaultFree(source) /\ scanned = source.n + 1
  BY SourceFacts DEF IInv, TypeOK, Window, EndIsRemembered
<1>2. buffer_start <= t
  BY <1>1 DEF IInv, TypeOK, Window, RewindStaysInWindow
<1>3. t >= source.n
  BY <1>1, <1>2 DEF IInv, TypeOK, Window, BufferMeetsScan, Buffered
<1> QED
  BY <1>1, <1>3 DEF TokenAt

(* A finished scan_loop answers from the buffer, or finds the end.         *)
LEMMA ScanDoneAnswer ==
    ASSUME IInv, call # NoCall, ~Filling
    PROVE  /\ BufferedToken(call.target) = TokenAt(source, call.target)
           /\ IsToken(BufferedToken(call.target)) => Buffered(call.target)
<1>1. call \in Call /\ ~slice /\ ~lex_error /\ pos <= call.target
  BY DEF IInv, TypeOK, Window, CallIsPending
<1>2. call.target \in Nat /\ source.n \in Nat
  BY <1>1, SourceFacts DEF Call, IInv, TypeOK
<1>3. buffer_start <= call.target
  BY <1>1, <1>2 DEF IInv, TypeOK, Window, RewindStaysInWindow
<1>4. CASE Buffered(call.target)
  BY <1>1, <1>2, <1>4, BufferAnswer
<1>5. CASE ~Buffered(call.target)
  <2>1. reached_eof
    BY <1>2, <1>3, <1>5 DEF Filling, Buffered, IInv, TypeOK
  <2>2. scanned = source.n + 1 /\ FaultFree(source)
    BY <2>1 DEF IInv, Window, EndIsRemembered
  <2>3. call.target >= source.n
    BY <1>1, <1>2, <1>3, <1>5, <2>2 DEF Buffered, IInv, TypeOK, Window, BufferMeetsScan
  <2> QED
    BY <1>2, <1>5, <2>2, <2>3 DEF BufferedToken, TokenAt, IsToken, Token
<1> QED
  BY <1>4, <1>5

(* The scan of a call in flight has not passed the end of the source.      *)
LEMMA ScanFacts ==
    ASSUME IInv, call # NoCall, Filling
    PROVE  /\ call \in Call /\ call.op \in Ops /\ call.target \in Nat /\ ~slice
           /\ source.n \in Nat /\ scanned \in Nat /\ scanned <= source.n
           /\ buffer_start + Len(buffer) = scanned
           /\ scanned <= call.target
           /\ call.op # "peek_nth" => call.target = pos
           /\ ~reached_eof /\ ~lex_error
<1>1. call \in Call /\ ~slice /\ ~lex_error /\ ~reached_eof
      /\ (call.op # "peek_nth" => call.target = pos)
  BY DEF IInv, TypeOK, Window, CallIsPending, Filling
<1>2. call.op \in Ops /\ call.target \in Nat /\ source.n \in Nat /\ scanned \in Nat
  BY <1>1, SourceFacts DEF Call, IInv, TypeOK
<1>3. scanned <= source.n
  BY <1>1, <1>2 DEF IInv, TypeOK, Window, EndIsRemembered
<1> QED
  BY <1>1, <1>2, <1>3 DEF IInv, Window, BufferMeetsScan, Filling

(* A fault met by scan_loop is what the source has at the target.          *)
LEMMA ScanFaultAnswer ==
    ASSUME IInv, call # NoCall, Filling, NextToken = LexError
    PROVE  /\ TokenAt(source, call.target) = LexError
           /\ scanned = source.n /\ ~FaultFree(source)
BY ScanFacts, SourceFacts DEF NextToken, TokenAt, FaultFree, Ends, IInv, TypeOK
-----------------------------------------------------------------------------
(***************************************************************************)
(* Every step keeps the invariant.                                         *)
(***************************************************************************)

(* What an operation that answers eagerly does to the client's view.       *)
LEMMA ReturnEffect ==
    ASSUME IInv, NEW op \in Ops, NEW t \in Nat, op # "peek_nth" => t = pos,
           Return(op, TokenAt(source, t)), source' = source
    PROVE  /\ ret' \in Answer
           /\ pos' \in Nat
           /\ peeked' \in {None} \cup (Nat \X Answer)
           /\ call' = NoCall
           /\ MemoSound'
           /\ \/ pos' = pos
              \/ op = "advance" /\ t = pos /\ IsToken(TokenAt(source, t)) /\ pos' = pos + 1
           /\ pos' <= source.n
<1>1. TokenAt(source, t) \in Answer /\ pos \in Nat /\ source.n \in Nat /\ pos <= source.n
  BY TokenAtType, SourceFacts DEF IInv, TypeOK, Window, CursorInSource
<1>2. IsToken(TokenAt(source, t)) => t < source.n
  BY <1>1 DEF TokenAt, IsToken, Token
<1>3. /\ \/ pos' = pos
         \/ op = "advance" /\ t = pos /\ IsToken(TokenAt(source, t)) /\ pos' = pos + 1
      /\ pos' <= source.n
      /\ pos' \in Nat
  BY <1>1, <1>2 DEF Return
<1>4. peeked' \in {None} \cup (Nat \X Answer)
  BY <1>1 DEF Return, IInv, TypeOK
<1>5. MemoSound'
  <2>1. CASE op = "peek"
    BY <2>1, <1>1 DEF Return, MemoSound, TokenAt, FaultFree
  <2>2. CASE op # "peek"
    BY <2>2 DEF Return, MemoSound, TokenAt, FaultFree, IInv
  <2> QED
    BY <2>1, <2>2
<1> QED
  BY <1>1, <1>3, <1>4, <1>5 DEF Return

(* Parser::peek answering from its memo changes nothing but the answer.    *)
LEMMA PeekMemoStep == IInv /\ PeekMemo => IInv'
<1> SUFFICES ASSUME IInv, PeekMemo PROVE IInv'
  OBVIOUS
<1>1. ret' \in Answer
  BY DEF IInv, TypeOK, PeekMemo, MemoHit
<1>2. TypeOK'
  BY <1>1 DEF IInv, TypeOK, PeekMemo, sourceVars, scanVars, bufferVars, clientVars
<1>3. Window' /\ MemoSound'
  BY DEF IInv, PeekMemo, sourceVars, scanVars, bufferVars, clientVars, Window,
     BufferIsSource, BufferMeetsScan, KeepsStatement, RewindStaysInWindow,
     EndIsRemembered, CursorInSource, CallIsPending, MemoSound, TokenAt, FaultFree
<1> QED
  BY <1>2, <1>3 DEF IInv

(* A read either answers as the eager cursor would, or starts to scan and  *)
(* leaves everything else alone.                                           *)
LEMMA ReadAnswers ==
    ASSUME IInv, NEW op \in Ops, NEW n \in Nat, op # "peek_nth" => n = 0, Read(op, n)
    PROVE  /\ UNCHANGED <<sourceVars, scanVars, bufferVars, clientVars>>
           /\ call = NoCall
           /\ \/ /\ Return(op, TokenAt(source, pos + n))
                 /\ ~slice /\ IsToken(TokenAt(source, pos + n)) => Buffered(pos + n)
              \/ /\ ~slice /\ ~lex_error
                 /\ call' = [op |-> op, target |-> pos + n]
                 /\ UNCHANGED <<pos, peeked, ret>>
<1> DEFINE t == pos + n
<1>1. t \in Nat /\ pos <= t
  BY DEF IInv, TypeOK
<1>2. CASE slice /\ Return(op, SliceToken(t))
  BY <1>1, <1>2, SliceAnswer DEF Read
<1>3. CASE ~slice /\ Buffered(t) /\ Return(op, BufferedToken(t))
  BY <1>1, <1>3, BufferAnswer DEF Read
<1>4. CASE ~slice /\ ~Buffered(t) /\ lex_error /\ Return(op, LexError)
  <2>1. TokenAt(source, t) = LexError
    BY <1>1, <1>4, FaultAnswer
  <2> QED
    BY <1>4, <2>1 DEF Read, IsToken, Token
<1>5. CASE /\ ~slice /\ ~Buffered(t) /\ ~lex_error
           /\ call' = [op |-> op, target |-> t]
           /\ UNCHANGED <<pos, peeked, ret>>
  BY <1>5 DEF Read
<1> QED
  BY <1>2, <1>3, <1>4, <1>5 DEF Read

(* The invariant after a step that only answered.                          *)
LEMMA AnsweredStep ==
    ASSUME IInv, NEW op \in Ops, NEW t \in Nat, op # "peek_nth" => t = pos,
           Return(op, TokenAt(source, t)),
           ~slice /\ IsToken(TokenAt(source, t)) => Buffered(t),
           UNCHANGED <<sourceVars, scanVars, bufferVars, clientVars>>
    PROVE  IInv'
<1> USE DEF sourceVars, scanVars, bufferVars, clientVars
<1>1. TypeOK'
  BY ReturnEffect DEF IInv, TypeOK
<1>2. MemoSound'
  BY ReturnEffect
<1>3. BufferIsSource' /\ BufferMeetsScan' /\ KeepsStatement' /\ EndIsRemembered'
  BY DEF IInv, Window, BufferIsSource, BufferMeetsScan, KeepsStatement, EndIsRemembered,
     FaultFree
<1>4. pos <= pos' /\ pos' \in Nat /\ pos \in Nat
  BY ReturnEffect DEF IInv, TypeOK
<1>5. RewindStaysInWindow'
  <2>1. ~slice => buffer_start <= pos' /\ pos' <= buffer_start + Len(buffer)
    BY ReturnEffect DEF IInv, TypeOK, Window, RewindStaysInWindow, Buffered
  <2> QED
    BY <2>1 DEF IInv, Window, RewindStaysInWindow
<1>6. CursorInSource'
  BY ReturnEffect, <1>4 DEF IInv, TypeOK, Window, CursorInSource, FaultFree
<1>7. CallIsPending'
  BY ReturnEffect DEF CallIsPending
<1> QED
  BY <1>1, <1>2, <1>3, <1>5, <1>6, <1>7 DEF IInv, Window

(* Reads: peek, peek_nth, advance.                                         *)
LEMMA ReadStep ==
    ASSUME IInv, NEW op \in Ops, NEW n \in 0..MaxLookahead, op # "peek_nth" => n = 0, Read(op, n)
    PROVE  IInv'
<1> DEFINE t == pos + n
<1>1. t \in Nat /\ pos <= t /\ t <= pos + MaxLookahead /\ (op # "peek_nth" => t = pos) /\ pos \in Nat
  BY DEF IInv, TypeOK
<1>2. CASE /\ Return(op, TokenAt(source, t))
           /\ ~slice /\ IsToken(TokenAt(source, t)) => Buffered(t)
  <2>1. UNCHANGED <<sourceVars, scanVars, bufferVars, clientVars>>
    BY ReadAnswers
  <2> QED
    BY <1>1, <1>2, <2>1, AnsweredStep
<1>3. CASE /\ ~slice /\ ~lex_error
           /\ call' = [op |-> op, target |-> t]
           /\ UNCHANGED <<pos, peeked, ret>>
  <2> USE DEF sourceVars, scanVars, bufferVars, clientVars
  <2>1. UNCHANGED <<sourceVars, scanVars, bufferVars, clientVars>>
    BY ReadAnswers
  <2>2. call' \in Call
    BY <1>1, <1>3 DEF Call
  <2>3. TypeOK'
    BY <1>3, <2>1, <2>2 DEF IInv, TypeOK
  <2>4. CallIsPending'
    BY <1>1, <1>3, <2>1 DEF CallIsPending
  <2>5. /\ BufferIsSource' /\ BufferMeetsScan' /\ KeepsStatement' /\ EndIsRemembered'
        /\ RewindStaysInWindow' /\ CursorInSource' /\ MemoSound'
    BY <1>3, <2>1 DEF IInv, Window, BufferIsSource, BufferMeetsScan, KeepsStatement,
       EndIsRemembered, RewindStaysInWindow, CursorInSource, MemoSound, FaultFree, TokenAt
  <2> QED
    BY <2>3, <2>4, <2>5 DEF IInv, Window
<1> QED
  BY <1>2, <1>3, ReadAnswers

(* One turn of scan_loop.                                                  *)
LEMMA ScanStep == IInv /\ Scan => IInv'
<1> SUFFICES ASSUME IInv, Scan PROVE IInv'
  OBVIOUS
<1> USE DEF sourceVars, clientVars
<1>1. /\ call # NoCall /\ Filling
      /\ UNCHANGED <<sourceVars, clientVars, buffer_start>>
      /\ scanned' = scanned + 1
  BY ScanFacts DEF Scan, Pass
<1>2. /\ call \in Call /\ call.op \in Ops /\ call.target \in Nat /\ ~slice
      /\ source.n \in Nat /\ scanned \in Nat /\ scanned <= source.n
      /\ buffer_start + Len(buffer) = scanned
      /\ scanned <= call.target
      /\ call.op # "peek_nth" => call.target = pos
      /\ ~reached_eof /\ ~lex_error
  BY <1>1, ScanFacts
<1>3. trivia' \in Seq(Token \X Token)
  BY <1>2, SkippedType DEF IInv, TypeOK, Scan, Record
<1>4. CASE /\ IsToken(NextToken)
           /\ buffer' = Append(buffer, NextToken)
           /\ UNCHANGED <<reached_eof, lex_error, pos, peeked, call, ret>>
  <2>1. NextToken = scanned + 1 /\ scanned < source.n
    BY <1>2, <1>4 DEF NextToken, IsToken, Token
  <2>2. buffer \in Seq(Token) /\ Len(buffer) \in Nat /\ buffer_start \in Nat
    BY DEF IInv, TypeOK
  <2>3. Len(buffer') = Len(buffer) + 1 /\ buffer' \in Seq(Token)
    BY <1>2, <1>4, <2>1, <2>2 DEF IsToken
  <2>4. TypeOK'
    BY <1>1, <1>2, <1>3, <1>4, <2>3 DEF IInv, TypeOK
  <2>5. BufferIsSource'
    <3> SUFFICES ASSUME NEW i \in 1..Len(buffer') PROVE buffer'[i] = buffer_start + i
      BY <1>1 DEF BufferIsSource
    <3>1. CASE i \in 1..Len(buffer)
      BY <1>4, <2>2, <3>1 DEF IInv, Window, BufferIsSource
    <3>2. CASE i = Len(buffer) + 1
      BY <1>2, <1>4, <2>1, <2>2, <3>2
    <3> QED
      BY <2>2, <2>3, <3>1, <3>2
  <2>6. BufferMeetsScan' /\ KeepsStatement' /\ EndIsRemembered'
    BY <1>1, <1>2, <1>4, <2>1, <2>2, <2>3 DEF IInv, Window, BufferMeetsScan, KeepsStatement,
       EndIsRemembered, FaultFree
  <2>7. RewindStaysInWindow'
    BY <1>1, <1>2, <1>4, <2>2, <2>3 DEF IInv, TypeOK, Window, RewindStaysInWindow
  <2>8. CursorInSource' /\ CallIsPending' /\ MemoSound'
    BY <1>1, <1>2, <1>4 DEF IInv, Window, CursorInSource, CallIsPending, MemoSound,
       FaultFree, TokenAt
  <2> QED
    BY <2>4, <2>5, <2>6, <2>7, <2>8 DEF IInv, Window
<1>5. CASE /\ NextToken = None
           /\ reached_eof' = TRUE
           /\ UNCHANGED <<lex_error, buffer, pos, peeked, call, ret>>
  <2>1. scanned = source.n /\ FaultFree(source)
    BY <1>2, <1>5 DEF NextToken, FaultFree
  <2>2. TypeOK'
    BY <1>1, <1>2, <1>3, <1>5 DEF IInv, TypeOK
  <2>3. BufferIsSource' /\ BufferMeetsScan' /\ KeepsStatement' /\ EndIsRemembered'
    <3>1. BufferIsSource' /\ KeepsStatement'
      BY <1>1, <1>5 DEF IInv, Window, BufferIsSource, KeepsStatement
    <3>2. BufferMeetsScan'
      BY <1>1, <1>2, <1>5, <2>1 DEF BufferMeetsScan
    <3>3. EndIsRemembered'
      BY <1>1, <1>2, <1>5, <2>1 DEF EndIsRemembered, FaultFree
    <3> QED
      BY <3>1, <3>2, <3>3
  <2>4. RewindStaysInWindow' /\ CursorInSource' /\ CallIsPending' /\ MemoSound'
    BY <1>1, <1>2, <1>5 DEF IInv, Window, RewindStaysInWindow, CursorInSource,
       CallIsPending, MemoSound, FaultFree, TokenAt
  <2> QED
    BY <2>2, <2>3, <2>4 DEF IInv, Window
<1>6. CASE /\ NextToken = LexError
           /\ lex_error' = TRUE
           /\ Return(call.op, LexError)
           /\ UNCHANGED <<reached_eof, buffer>>
  <2>1. TokenAt(source, call.target) = LexError /\ scanned = source.n /\ ~FaultFree(source)
    BY <1>1, <1>6, ScanFaultAnswer
  <2>2. Return(call.op, TokenAt(source, call.target)) /\ source' = source
    BY <1>1, <1>6, <2>1
  <2>3. /\ ret' \in Answer /\ pos' \in Nat /\ peeked' \in {None} \cup (Nat \X Answer)
        /\ call' = NoCall /\ MemoSound'
    BY <1>2, <2>2, ReturnEffect
  <2>4. pos' = pos
    BY <1>6 DEF Return, IsToken, Token
  <2>5. TypeOK'
    BY <1>1, <1>2, <1>3, <1>6, <2>3, <2>4 DEF IInv, TypeOK
  <2>6. BufferIsSource' /\ BufferMeetsScan' /\ KeepsStatement' /\ EndIsRemembered'
    <3>1. BufferIsSource' /\ KeepsStatement'
      BY <1>1, <1>6 DEF IInv, Window, BufferIsSource, KeepsStatement
    <3>2. BufferMeetsScan'
      BY <1>1, <1>2, <1>6, <2>1 DEF BufferMeetsScan
    <3>3. EndIsRemembered'
      BY <1>1, <1>2, <1>6, <2>1 DEF EndIsRemembered, FaultFree
    <3> QED
      BY <3>1, <3>2, <3>3
  <2>7. RewindStaysInWindow' /\ CursorInSource' /\ CallIsPending'
    BY <1>1, <1>2, <1>6, <2>3, <2>4 DEF IInv, Window, RewindStaysInWindow, CursorInSource,
       CallIsPending, FaultFree
  <2> QED
    BY <2>3, <2>5, <2>6, <2>7 DEF IInv, Window
<1> QED
  BY <1>4, <1>5, <1>6 DEF Scan

(* scan_loop has ended and the operation answers.                          *)
LEMMA ScanDoneStep == IInv /\ ScanDone => IInv'
<1> SUFFICES ASSUME IInv, ScanDone PROVE IInv'
  OBVIOUS
<1>1. /\ call \in Call /\ call.op \in Ops /\ call.target \in Nat
      /\ call.op # "peek_nth" => call.target = pos
  BY DEF ScanDone, IInv, TypeOK, Window, CallIsPending, Call
<1>2. /\ Return(call.op, TokenAt(source, call.target))
      /\ IsToken(TokenAt(source, call.target)) => Buffered(call.target)
      /\ UNCHANGED <<sourceVars, scanVars, bufferVars, clientVars>>
  BY ScanDoneAnswer DEF ScanDone
<1> QED
  BY <1>1, <1>2, AnsweredStep

(* Taking a checkpoint and rewinding to one.                               *)
LEMMA SpeculationStep ==
    ASSUME IInv, Checkpoint \/ \E p \in marks : Rewind(p)
    PROVE  IInv'
<1> USE DEF sourceVars, scanVars, bufferVars, clientVars
<1>0. source.n \in Nat /\ pos \in 0..source.n
  BY SourceFacts DEF IInv, TypeOK
<1>1. CASE Checkpoint
  BY <1>0, <1>1 DEF Checkpoint, IInv, TypeOK, Window, BufferIsSource, BufferMeetsScan,
     KeepsStatement, RewindStaysInWindow, EndIsRemembered, CursorInSource,
     CallIsPending, MemoSound, TokenAt, FaultFree
<1>2. ASSUME NEW p \in marks, Rewind(p) PROVE IInv'
  BY <1>0, <1>2 DEF Rewind, IInv, TypeOK, Window, BufferIsSource, BufferMeetsScan,
     KeepsStatement, RewindStaysInWindow, EndIsRemembered, CursorInSource,
     CallIsPending, MemoSound, TokenAt, FaultFree
<1> QED
  BY <1>1, <1>2

(* The token before the cursor: what preceding answers.                    *)
LEMMA PrecedingAnswer ==
    ASSUME IInv, Preceding
    PROVE  \/ pos > 0 /\ ret' = pos
           \/ pos = stmt_start /\ ret' = None
<1>1. pos \in Nat /\ source.n \in Nat /\ pos <= source.n /\ stmt_start \in Nat /\ stmt_start <= pos
  BY SourceFacts DEF IInv, TypeOK, Window, CursorInSource
<1>2. CASE pos = 0
  BY <1>1, <1>2 DEF Preceding
<1>3. CASE pos # 0 /\ slice
  BY <1>1, <1>3 DEF Preceding, SliceToken
<1>4. CASE pos # 0 /\ ~slice
  <2>1. buffer_start = stmt_start /\ pos <= buffer_start + Len(buffer)
    BY <1>4 DEF IInv, Window, KeepsStatement, RewindStaysInWindow
  <2>2. CASE pos = stmt_start
    BY <1>1, <1>4, <2>1, <2>2 DEF Preceding, BufferedToken, Buffered, IInv, TypeOK
  <2>3. CASE pos # stmt_start
    <3>1. Buffered(pos - 1) /\ pos - 1 \in Nat
      BY <1>1, <2>1, <2>3 DEF Buffered
    <3> QED
      BY <1>1, <1>4, <3>1, BufferAnswer DEF Preceding
  <2> QED
    BY <2>2, <2>3
<1> QED
  BY <1>2, <1>3, <1>4

(* Reading the token behind the cursor moves nothing.                    *)
LEMMA PrecedingStep == IInv /\ Preceding => IInv'
<1> SUFFICES ASSUME IInv, Preceding PROVE IInv'
  OBVIOUS
<1>1. ret' \in Answer
  BY PrecedingAnswer DEF IInv, TypeOK, Answer, Token
<1>2. TypeOK'
  BY <1>1 DEF IInv, TypeOK, Preceding, sourceVars, scanVars, bufferVars, clientVars
<1>3. Window' /\ MemoSound'
  BY DEF IInv, Preceding, sourceVars, scanVars, bufferVars, clientVars, Window,
     BufferIsSource, BufferMeetsScan, KeepsStatement, RewindStaysInWindow,
     EndIsRemembered, CursorInSource, CallIsPending, MemoSound, TokenAt, FaultFree
<1> QED
  BY <1>2, <1>3 DEF IInv

(* Between statements the window moves up to the cursor.                   *)
LEMMA DiscardStep == IInv /\ DiscardConsumed => IInv'
<1> SUFFICES ASSUME IInv, DiscardConsumed PROVE IInv'
  OBVIOUS
<1> USE DEF sourceVars, scanVars, bufferVars, clientVars
<1>1. /\ buffer \in Seq(Token) /\ Len(buffer) \in Nat /\ buffer_start \in Nat /\ pos \in Nat
      /\ source.n \in Nat
  BY SourceFacts DEF IInv, TypeOK
<1>2. CASE slice
  <2>1. TypeOK'
    BY <1>1, <1>2 DEF DiscardConsumed, IInv, TypeOK
  <2>2. BufferIsSource' /\ BufferMeetsScan' /\ KeepsStatement' /\ RewindStaysInWindow'
    BY <1>2 DEF DiscardConsumed, IInv, Window, BufferIsSource, BufferMeetsScan,
       KeepsStatement, RewindStaysInWindow
  <2>3. EndIsRemembered' /\ CursorInSource' /\ CallIsPending' /\ MemoSound'
    BY <1>1, <1>2 DEF DiscardConsumed, IInv, Window, EndIsRemembered, CursorInSource,
       CallIsPending, MemoSound, TokenAt, FaultFree
  <2> QED
    BY <2>1, <2>2, <2>3 DEF IInv, Window
<1>3. CASE ~slice
  <2>1. buffer_start <= pos /\ pos <= buffer_start + Len(buffer)
    BY <1>3 DEF IInv, Window, RewindStaysInWindow
  <2>2. Consumed = pos - buffer_start /\ Consumed \in Nat /\ Consumed <= Len(buffer)
    BY <1>1, <2>1 DEF Consumed
  <2>3. buffer' = SubSeq(buffer, Consumed + 1, Len(buffer)) /\ buffer_start' = pos
    BY <1>1, <1>3, <2>2 DEF DiscardConsumed
  <2>4. /\ buffer' \in Seq(Token)
        /\ Len(buffer') = Len(buffer) - Consumed
        /\ \A i \in 1..Len(buffer') : buffer'[i] = buffer[i + Consumed]
    BY <1>1, <2>2, <2>3
  <2>5. TypeOK'
    BY <1>1, <2>3, <2>4 DEF DiscardConsumed, IInv, TypeOK
  <2>6. BufferIsSource'
    <3> SUFFICES ASSUME NEW i \in 1..Len(buffer') PROVE buffer'[i] = pos + i
      BY <2>3 DEF BufferIsSource
    <3>1. i + Consumed \in 1..Len(buffer)
      BY <1>1, <2>2, <2>4
    <3>2. buffer[i + Consumed] = buffer_start + (i + Consumed)
      BY <3>1 DEF IInv, Window, BufferIsSource
    <3> QED
      BY <1>1, <2>2, <2>4, <3>2
  <2>7. BufferMeetsScan' /\ KeepsStatement' /\ RewindStaysInWindow' /\ EndIsRemembered'
    BY <1>1, <1>3, <2>1, <2>2, <2>3, <2>4 DEF DiscardConsumed, IInv, Window, BufferMeetsScan,
       KeepsStatement, RewindStaysInWindow, EndIsRemembered, FaultFree
  <2>8. CursorInSource' /\ CallIsPending' /\ MemoSound'
    BY <1>1, <1>3 DEF DiscardConsumed, IInv, Window, CursorInSource, CallIsPending,
       MemoSound, FaultFree, TokenAt
  <2> QED
    BY <2>5, <2>6, <2>7, <2>8 DEF IInv, Window
<1> QED
  BY <1>2, <1>3
-----------------------------------------------------------------------------
(* The invariant is inductive.                                             *)
LEMMA StepPreserves == IInv /\ [Next]_vars => IInv'
<1> SUFFICES ASSUME IInv, [Next]_vars PROVE IInv'
  OBVIOUS
<1>1. CASE PeekMemo
  BY <1>1, PeekMemoStep
<1>2. CASE Peek
  BY <1>2, ReadStep DEF Peek, Ops
<1>3. ASSUME NEW n \in 0..MaxLookahead, PeekNth(n) PROVE IInv'
  BY <1>3, ReadStep DEF PeekNth, Ops
<1>4. CASE Advance
  BY <1>4, ReadStep DEF Advance, Ops
<1>5. CASE Scan
  BY <1>5, ScanStep
<1>6. CASE ScanDone
  BY <1>6, ScanDoneStep
<1>7. CASE Checkpoint \/ \E p \in marks : Rewind(p)
  BY <1>7, SpeculationStep
<1>8. CASE Preceding
  BY <1>8, PrecedingStep
<1>9. CASE DiscardConsumed
  BY <1>9, DiscardStep
<1>10. CASE UNCHANGED vars
  BY <1>10 DEF vars, sourceVars, scanVars, bufferVars, clientVars, IInv, TypeOK, Window,
     BufferIsSource, BufferMeetsScan, KeepsStatement, RewindStaysInWindow,
     EndIsRemembered, CursorInSource, CallIsPending, MemoSound, TokenAt, FaultFree
<1> QED
  BY <1>1, <1>2, <1>3, <1>4, <1>5, <1>6, <1>7, <1>8, <1>9, <1>10 DEF Next

(* The inductive invariant holds of every behaviour.                     *)
LEMMA IInvHolds == Spec => []IInv
BY InitEstablishes, StepPreserves, PTL DEF Spec

(* Type correctness of the cursor.                                         *)
THEOREM TypeCorrect == Spec => []TypeOK
<1>1. IInv => TypeOK
  BY DEF IInv
<1> QED
  BY <1>1, IInvHolds, PTL

(* seek's assertion never fails: whatever was scanned, discarded and       *)
(* rewound, every live checkpoint is in the retained window.               *)
THEOREM RewindIsSafe == Spec => []RewindStaysInWindow
<1>1. IInv => RewindStaysInWindow
  BY DEF IInv, Window
<1> QED
  BY <1>1, IInvHolds, PTL

(* The position-keyed memo of Parser::peek is never stale.                 *)
THEOREM MemoIsSound == Spec => []MemoSound
<1>1. IInv => MemoSound
  BY DEF IInv
<1> QED
  BY <1>1, IInvHolds, PTL

(* The window starts where the statement being parsed does: nothing of it  *)
(* has been dropped, and nothing older is kept (discard_consumed).         *)
THEOREM StatementIsKept == Spec => []KeepsStatement
<1>1. IInv => KeepsStatement
  BY DEF IInv, Window
<1> QED
  BY <1>1, IInvHolds, PTL

(* These together, as the model checker states them of an instance: types, *)
(* the window seek asserts, what it keeps, and the memo.                   *)
THEOREM CursorIsSafe == Spec => []CursorSafe
<1>1. TypeOK /\ KeepsStatement /\ RewindStaysInWindow /\ MemoSound => CursorSafe
  BY DEF CursorSafe
<1> QED
  BY <1>1, TypeCorrect, StatementIsKept, RewindIsSafe, MemoIsSound, PTL
-----------------------------------------------------------------------------
(***************************************************************************)
(* The captured trivia.                                                    *)
(***************************************************************************)

(* TriviaExact of any record t, of the first k units of the source.        *)
ExactTo(t, k) ==
    /\ \A i, j \in 1..Len(t) : i < j => Precedes(t[i], t[j])
    /\ {t[i] : i \in 1..Len(t)} = Runs(source, k)

(* The runs of one more unit are its own and those before.                 *)
LEMMA RunsOfNext ==
    ASSUME NEW s \in Sources, NEW k \in 0..s.n
    PROVE  Runs(s, k + 1) = Runs(s, k) \cup {<<k + 1, r>> : r \in 1..s.lead[k + 1]}
<1>1. s.n \in Nat
  BY SourceFacts
<1>2. 1..(k + 1) = 1..k \cup {k + 1}
  BY <1>1
<1> QED
  BY <1>2 DEF Runs

(* next_token skips the runs of its unit, in order, after all before.      *)
LEMMA SkippedExtends ==
    ASSUME TypeOK, scanned <= source.n, NEW t \in Seq(Token \X Token), ExactTo(t, scanned)
    PROVE  ExactTo(t \o Skipped, scanned + 1)
<1> DEFINE k == scanned
           d == source.lead[k + 1]
           sk == Skipped
           u == t \o sk
           n == Len(t)
<1>1. source \in Sources /\ source.n \in Nat /\ k \in 0..source.n /\ k \in Nat
  BY SourceFacts DEF TypeOK
<1>2. d \in Nat
  <2>1. k + 1 \in 1..Len(source.lead) /\ source.lead \in Seq(Nat)
    BY <1>1, SourceFacts
  <2> QED
    BY <2>1
<1>3. sk = [j \in 1..d |-> <<k + 1, j>>]
  BY <1>1 DEF Skipped
<1>4. sk \in Seq(Token \X Token) /\ Len(sk) = d /\ (\A j \in 1..d : sk[j] = <<k + 1, j>>)
  <2>1. sk \in Seq(Token \X Token)
    BY SkippedType
  <2> QED
    BY <2>1, <1>2, <1>3
<1>5. n \in Nat /\ Len(u) = n + d
  <2> DEFINE P == Token \X Token
  <2>1. t \in Seq(P) /\ sk \in Seq(P)
    BY <1>4
  <2> HIDE DEF P, sk
  <2>2. Len(t) \in Nat /\ Len(t \o sk) = Len(t) + Len(sk)
    BY <2>1
  <2> QED
    BY <2>2, <1>4
<1>6. ASSUME NEW i \in 1..n PROVE u[i] = t[i]
  BY <1>4
<1>7. ASSUME NEW j \in 1..d PROVE u[n + j] = <<k + 1, j>>
  BY <1>4
<1>8. ASSUME NEW i \in 1..n PROVE t[i] \in Token \X Token /\ t[i][1] \in 1..k
  <2>1. t[i] \in Token \X Token
    BY ElementOfSeq
  <2>2. t[i] \in Runs(source, k)
    BY DEF ExactTo
  <2> QED
    BY <2>1, <2>2 DEF Runs
<1>9. \A i \in 1..(n + d) : i \in 1..n \/ (i - n \in 1..d /\ i = n + (i - n))
  BY <1>2, <1>5
<1> HIDE DEF u, n, d, sk, k
<1>10. ASSUME NEW i \in 1..(n + d), NEW j \in 1..(n + d), i < j PROVE Precedes(u[i], u[j])
  <2>1. CASE i \in 1..n /\ j \in 1..n
    BY <2>1, <1>6, <1>10 DEF ExactTo, n
  <2>2. CASE i \in 1..n /\ j \notin 1..n
    <3> DEFINE e == j - n
    <3>1. e \in 1..d /\ j = n + e
      BY <2>2, <1>9
    <3> HIDE DEF e
    <3>2. u[j] = <<k + 1, e>> /\ u[i] = t[i]
      BY <3>1, <2>2, <1>6, <1>7
    <3>3. t[i][1] \in 1..k
      BY <2>2, <1>8
    <3>4. u[i][1] < u[j][1]
      BY <3>2, <3>3, <1>1
    <3> QED
      BY <3>4 DEF Precedes
  <2>3. CASE i \notin 1..n
    <3> DEFINE a == i - n
               b == j - n
    <3>0. j \notin 1..n
      BY <2>3, <1>5, <1>10
    <3>1. a \in 1..d /\ i = n + a /\ b \in 1..d /\ j = n + b
      BY <3>0, <2>3, <1>9
    <3>2. a < b
      BY <1>5, <1>10
    <3> HIDE DEF a, b
    <3>3. u[i] = <<k + 1, a>> /\ u[j] = <<k + 1, b>>
      BY <3>1, <1>7
    <3> QED
      BY <3>2, <3>3 DEF Precedes
  <2> QED
    BY <2>1, <2>2, <2>3
<1>11. {u[i] : i \in 1..(n + d)} = Runs(source, k + 1)
  <2> DEFINE R == {<<k + 1, r>> : r \in 1..d}
  <2>1. {t[i] : i \in 1..n} = Runs(source, k)
    BY DEF ExactTo, n, k
  <2>2. Runs(source, k + 1) = Runs(source, k) \cup R
    BY <1>1, RunsOfNext DEF d
  <2>3. ASSUME NEW i \in 1..(n + d) PROVE u[i] \in {t[h] : h \in 1..n} \cup R
    <3>1. CASE i \in 1..n
      BY <3>1, <1>6
    <3>2. CASE i \notin 1..n
      BY <3>2, <1>7, <1>9
    <3> QED
      BY <3>1, <3>2
  <2>4. ASSUME NEW h \in 1..n PROVE t[h] \in {u[i] : i \in 1..(n + d)}
    <3>1. h \in 1..(n + d)
      BY <1>2, <1>5
    <3> QED
      BY <3>1, <1>6
  <2>5. ASSUME NEW r \in 1..d PROVE <<k + 1, r>> \in {u[i] : i \in 1..(n + d)}
    <3>1. n + r \in 1..(n + d)
      BY <1>2, <1>5
    <3> QED
      BY <3>1, <1>7
  <2> QED
    BY <2>1, <2>2, <2>3, <2>4, <2>5
<1> QED
  BY <1>5, <1>10, <1>11 DEF ExactTo, k, u, sk

(* Every step keeps the captured trivia exact: only scan_loop records, and *)
(* it passes a unit in the step that records its runs.                     *)
LEMMA TriviaStep == IInv /\ TriviaExact /\ [Next]_vars => TriviaExact'
<1> SUFFICES ASSUME IInv, TriviaExact, [Next]_vars PROVE TriviaExact'
  OBVIOUS
<1>1. TypeOK
  BY DEF IInv
<1>2. ASSUME UNCHANGED <<source, capture, scanned, trivia>> PROVE TriviaExact'
  BY <1>2 DEF TriviaExact, Captured, Runs, Precedes
<1>3. CASE Scan
  <2>1. scanned \in Nat /\ scanned <= source.n
    BY <1>3, ScanFacts DEF Scan
  <2>2. scanned' = scanned + 1 /\ trivia' = (IF capture THEN trivia \o Skipped ELSE trivia)
        /\ source' = source /\ capture' = capture
    BY <2>1, <1>3 DEF Scan, Pass, Record, sourceVars
  <2>3. CASE capture
    <3>1. ExactTo(trivia, scanned) /\ trivia \in Seq(Token \X Token)
      BY <2>3, <1>1 DEF TriviaExact, Captured, ExactTo, TypeOK
    <3>2. ExactTo(trivia \o Skipped, scanned + 1)
      BY <3>1, <2>1, <1>1, SkippedExtends
    <3>3. trivia' = trivia \o Skipped
      BY <2>2, <2>3
    <3>4. /\ \A i, j \in 1..Len(trivia') : i < j => Precedes(trivia'[i], trivia'[j])
          /\ {trivia'[i] : i \in 1..Len(trivia')} = Runs(source, scanned')
      BY <3>2, <3>3, <2>2 DEF ExactTo
    <3>5. capture' = TRUE /\ source' = source
      BY <2>2, <2>3, <1>1 DEF TypeOK
    <3> QED
      BY <3>4, <3>5 DEF TriviaExact, Captured
  <2>4. CASE ~capture
    BY <2>2, <2>4 DEF TriviaExact, Captured, Precedes
  <2> QED
    BY <2>3, <2>4
<1>4. CASE ~Scan
  <2>1. UNCHANGED <<source, capture, scanned, trivia>>
    BY <1>4 DEF Next, vars, sourceVars, scanVars, PeekMemo, Peek, PeekNth, Advance, Read, ScanDone,
                Checkpoint, Rewind, Preceding, DiscardConsumed
  <2> QED
    BY <2>1, <1>2
<1> QED
  BY <1>3, <1>4

(***************************************************************************)
(* For every source: the captured trivia are the runs of the units scanned *)
(* so far, each once and in source order, however lookahead, rewinds and   *)
(* refills went over them.                                                 *)
(***************************************************************************)
THEOREM TriviaIsExact == Spec => []TriviaExact
<1>1. Init => TriviaExact
  <2> SUFFICES ASSUME Init PROVE TriviaExact
    OBVIOUS
  <2>1. trivia = <<>> /\ scanned = 0 /\ 1..Len(trivia) = {}
    BY DEF Init
  <2>2. Runs(source, scanned) = {}
    BY <2>1 DEF Runs
  <2> QED
    BY <2>1, <2>2 DEF TriviaExact, Captured
<1> QED
  BY <1>1, TriviaStep, IInvHolds, PTL DEF Spec
-----------------------------------------------------------------------------
(***************************************************************************)
(* Refinement: TokenCursor's variables are this module's own.              *)
(***************************************************************************)
LEMMA InitRefines == Init => Eager!Init
BY DEF Init, Eager!Init

(* The two modules read a source alike.                                    *)
LEMMA SameTokenAt == \A s, t : Eager!TokenAt(s, t) = TokenAt(s, t)
BY DEF Eager!TokenAt, TokenAt, Eager!FaultFree, FaultFree

(* An operation that answers is a step of the eager cursor.                *)
LEMMA ReturnRefines ==
    ASSUME NEW op \in Ops, NEW n \in 0..MaxLookahead, op # "peek_nth" => n = 0, pos \in Nat,
           Return(op, TokenAt(source, pos + n)), UNCHANGED <<source, marks, stmt_start>>
    PROVE  Eager!Next
<1>1. CASE op = "advance"
  <2>1. Eager!Advance
    BY <1>1, SameTokenAt DEF Return, Eager!Advance, Eager!IsToken, IsToken, Eager!Token, Token
  <2> QED
    BY <2>1 DEF Eager!Next
<1>2. CASE op # "advance"
  <2>1. Eager!PeekNth(n)
    BY <1>2, SameTokenAt DEF Return, Eager!PeekNth
  <2> QED
    BY <2>1 DEF Eager!Next
<1> QED
  BY <1>1, <1>2

(* A read answers, or starts to scan and is not seen.                      *)
LEMMA ReadRefines ==
    ASSUME IInv, NEW op \in Ops, NEW n \in 0..MaxLookahead, op # "peek_nth" => n = 0,
           Read(op, n)
    PROVE  [Eager!Next]_(Eager!cursorVars)
<1>1. /\ UNCHANGED <<sourceVars, scanVars, bufferVars, clientVars>>
      /\ \/ Return(op, TokenAt(source, pos + n))
         \/ UNCHANGED <<pos, peeked, ret>>
  BY ReadAnswers
<1>2. pos \in Nat
  BY DEF IInv, TypeOK
<1>3. CASE Return(op, TokenAt(source, pos + n))
  BY <1>1, <1>2, <1>3, ReturnRefines DEF sourceVars, clientVars
<1>4. CASE UNCHANGED <<pos, peeked, ret>>
  BY <1>1, <1>4 DEF Eager!cursorVars, sourceVars, clientVars
<1> QED
  BY <1>1, <1>3, <1>4

(* Every step of the lazy cursor is a step of the eager one or invisible.  *)
LEMMA StepRefines == IInv /\ [Next]_vars => [Eager!Next]_(Eager!cursorVars)
<1> SUFFICES ASSUME IInv, [Next]_vars PROVE [Eager!Next]_(Eager!cursorVars)
  OBVIOUS
<1> USE DEF sourceVars, clientVars
<1>1. CASE PeekMemo
  <2>1. ret' = TokenAt(source, pos + 0) /\ UNCHANGED <<source, pos, stmt_start, marks>>
    BY <1>1 DEF PeekMemo, MemoHit, IInv, MemoSound, TypeOK
  <2>2. Eager!PeekNth(0)
    BY <2>1, SameTokenAt DEF Eager!PeekNth
  <2> QED
    BY <2>2 DEF Eager!Next
<1>2. CASE Peek
  BY <1>2, ReadRefines DEF Peek, Ops
<1>3. ASSUME NEW n \in 0..MaxLookahead, PeekNth(n) PROVE [Eager!Next]_(Eager!cursorVars)
  BY <1>3, ReadRefines DEF PeekNth, Ops
<1>4. CASE Advance
  BY <1>4, ReadRefines DEF Advance, Ops
<1>5. ASSUME call # NoCall PROVE
        /\ call.op \in Ops
        /\ \E n \in 0..MaxLookahead : call.target = pos + n /\ (call.op # "peek_nth" => n = 0)
        /\ pos \in Nat
  <2>1. call \in Call /\ pos \in Nat /\ pos <= call.target /\ call.target <= pos + MaxLookahead
        /\ (call.op # "peek_nth" => call.target = pos)
    BY <1>5 DEF IInv, TypeOK, Window, CallIsPending
  <2>2. call.op \in Ops /\ call.target \in Nat
    BY <2>1 DEF Call
  <2>3. call.target - pos \in 0..MaxLookahead /\ call.target = pos + (call.target - pos)
        /\ (call.op # "peek_nth" => call.target - pos = 0)
    BY <2>1, <2>2
  <2> QED
    BY <2>1, <2>2, <2>3
<1>6. CASE Scan
  <2>1. CASE ~(NextToken = LexError /\ Return(call.op, LexError))
    BY <1>6, <2>1 DEF Scan, Eager!cursorVars
  <2>2. CASE NextToken = LexError /\ Return(call.op, LexError)
    <3>1. call # NoCall /\ Filling /\ UNCHANGED <<source, marks, stmt_start>>
      BY <1>6 DEF Scan
    <3>2. TokenAt(source, call.target) = LexError
      BY <2>2, <3>1, ScanFaultAnswer
    <3> QED
      BY <1>5, <2>2, <3>1, <3>2, ReturnRefines
  <2> QED
    BY <2>1, <2>2
<1>7. CASE ScanDone
  <2>1. call # NoCall /\ ~Filling /\ UNCHANGED <<source, marks, stmt_start>>
    BY <1>7 DEF ScanDone
  <2>2. Return(call.op, TokenAt(source, call.target))
    BY <1>7, <2>1, ScanDoneAnswer DEF ScanDone
  <2> QED
    BY <1>5, <2>1, <2>2, ReturnRefines
<1>8. CASE Checkpoint
  BY <1>8 DEF Checkpoint, Eager!Next, Eager!Checkpoint
<1>9. ASSUME NEW p \in marks, Rewind(p) PROVE [Eager!Next]_(Eager!cursorVars)
  <2>1. Eager!Rewind(p)
    BY <1>9 DEF Rewind, Eager!Rewind
  <2> QED
    BY <2>1 DEF Eager!Next
<1>10. CASE Preceding
  <2>1. Eager!Preceding
    BY <1>10, PrecedingAnswer DEF Preceding, Eager!Preceding
  <2> QED
    BY <2>1 DEF Eager!Next
<1>11. CASE DiscardConsumed
  BY <1>11 DEF DiscardConsumed, Eager!Next, Eager!NextStatement
<1>12. CASE UNCHANGED vars
  BY <1>12 DEF vars, Eager!cursorVars
<1> QED
  BY <1>1, <1>2, <1>3, <1>4, <1>6, <1>7, <1>8, <1>9, <1>10, <1>11, <1>12 DEF Next

(* The lazy cursor implements the eager one: no parse can tell that its    *)
(* tokens are scanned on demand and dropped between statements.            *)
THEOREM LazyIsEager == Spec => ImplementsTokenCursor
<1>1. Spec => []IInv
  BY IInvHolds
<1> QED
  BY <1>1, InitRefines, StepRefines, PTL DEF Spec, ImplementsTokenCursor, Eager!Spec
-----------------------------------------------------------------------------
(***************************************************************************)
(* The safety half of CallReturns.  A call lacks the tokens from the end   *)
(* of the window to the one it asks for, and then its answer.              *)
(***************************************************************************)
CallTurns ==
    IF Filling THEN call.target + 2 - (buffer_start + Len(buffer)) ELSE 1

(* The guards of the turns of scan_loop.                                   *)
ScanReady == ~Filling \/ IsToken(NextToken) \/ NextToken = None \/ NextToken = LexError

(* The numbers the turns of a call are counted with.                       *)
LEMMA CallFacts ==
    ASSUME IInv, call # NoCall
    PROVE  /\ call \in Call /\ call.target \in Nat
           /\ pos \in Nat /\ pos <= buffer_start + Len(buffer)
           /\ call.target <= pos + MaxLookahead
           /\ buffer_start \in Nat /\ buffer \in Seq(Token) /\ Len(buffer) \in Nat
<1>1. call \in Call /\ ~slice /\ call.target <= pos + MaxLookahead
  BY DEF IInv, TypeOK, Window, CallIsPending
<1>2. call.target \in Nat
  BY <1>1 DEF Call
<1>3. pos \in Nat /\ buffer_start \in Nat /\ buffer \in Seq(Token)
  BY DEF IInv, TypeOK
<1>4. pos <= buffer_start + Len(buffer)
  BY <1>1 DEF IInv, Window, RewindStaysInWindow
<1> QED
  BY <1>1, <1>2, <1>3, <1>4

(* A call has a turn to take, and few of them.                             *)
LEMMA CallIsShort ==
    ASSUME IInv, call # NoCall
    PROVE  ScanReady /\ CallTurns \in 1..(MaxLookahead + 2)
<1>1. CallTurns \in 1..(MaxLookahead + 2)
  BY CallFacts DEF CallTurns, Filling
<1>2. ScanReady
  <2>1. scanned \in Nat
    BY DEF IInv, TypeOK
  <2> QED
    BY <2>1 DEF ScanReady, NextToken, IsToken, Token
<1> QED
  BY <1>1, <1>2

(* Each turn answers the call or leaves it fewer.                          *)
LEMMA CallAdvances ==
    ASSUME IInv, call # NoCall, Scan \/ ScanDone
    PROVE  call' = NoCall \/ (call' = call /\ CallTurns' < CallTurns)
<1>1. CASE ScanDone
  BY <1>1 DEF ScanDone, Return
<1>2. CASE Scan
  <2>1. Filling /\ UNCHANGED buffer_start
    BY <1>2 DEF Scan
  <2>2. CASE IsToken(NextToken) /\ buffer' = Append(buffer, NextToken) /\ call' = call
    <3>1. Len(buffer') = Len(buffer) + 1
      BY <2>2, CallFacts DEF IsToken
    <3>2. call'.target = call.target /\ buffer_start' = buffer_start
      BY <2>1, <2>2
    <3>3. CallTurns = call.target + 2 - (buffer_start + Len(buffer))
          /\ buffer_start + Len(buffer) <= call.target
      BY <2>1 DEF CallTurns, Filling
    <3>4. CallTurns' = call.target + 2 - (buffer_start + Len(buffer) + 1) \/ CallTurns' = 1
      BY <3>1, <3>2, CallFacts DEF CallTurns
    <3> QED
      BY <2>2, <3>3, <3>4, CallFacts
  <2>3. CASE reached_eof' = TRUE /\ UNCHANGED <<buffer, call>>
    <3>1. ~Filling'
      BY <2>3 DEF Filling
    <3>2. CallTurns' = 1
      BY <3>1 DEF CallTurns
    <3>3. CallTurns \in Int /\ CallTurns >= 2
      BY <2>1, CallFacts DEF CallTurns, Filling
    <3>4. call' = call
      BY <2>3
    <3> QED
      BY <3>2, <3>3, <3>4, SMT
  <2>4. CASE call' = NoCall
    BY <2>4
  <2> QED
    BY <1>2, <2>2, <2>3, <2>4 DEF Scan, Return
<1> QED
  BY <1>1, <1>2

(***************************************************************************)
(* Whatever the source, a read that has to scan cannot loop or halt in     *)
(* scan_loop, and reads no further than it must: while it is in flight it  *)
(* has a turn to take, nothing else runs, and it is answered within        *)
(* MaxLookahead + 2 turns, however long the source is.  What is left to    *)
(* CallReturns is that turns are taken.                                    *)
(***************************************************************************)
THEOREM CallsAreShort ==
    Spec => /\ [](call # NoCall => ScanReady /\ CallTurns \in 1..(MaxLookahead + 2))
            /\ [][call # NoCall =>
                    /\ Scan \/ ScanDone
                    /\ call' = NoCall \/ (call' = call /\ CallTurns' < CallTurns)]_vars
<1>1. IInv => (call # NoCall => ScanReady /\ CallTurns \in 1..(MaxLookahead + 2))
  BY CallIsShort
<1>2. ASSUME IInv, Next, call # NoCall
      PROVE  Scan \/ ScanDone
  BY <1>2, Zenon DEF Next, PeekMemo, Peek, PeekNth, Advance, Read, Checkpoint, Rewind,
         Preceding, DiscardConsumed
<1>3. IInv /\ [Next]_vars =>
        [call # NoCall =>
            /\ Scan \/ ScanDone
            /\ call' = NoCall \/ (call' = call /\ CallTurns' < CallTurns)]_vars
  BY <1>2, CallAdvances
<1> QED
  BY <1>1, <1>3, IInvHolds, PTL DEF Spec
-----------------------------------------------------------------------------
(***************************************************************************)
(* The queries of the trivia table.                                        *)
(***************************************************************************)

(* A set of naturals has a least element.                                  *)
LEMMA LeastNat ==
    ASSUME NEW T, T \subseteq Nat, T # {}
    PROVE  \E x \in T : \A y \in T : x <= y
<1> DEFINE R == OpToRel(<, Nat)
<1>1. IsWellFoundedOn(R, Nat)
  BY NatLessThanWellFounded
<1>2. \A x, y \in Nat : x < y => <<x, y>> \in R
  BY DEF OpToRel
<1> HIDE DEF R
<1>3. PICK x \in T : \A y \in T : ~(<<y, x>> \in R)
  BY <1>1, WFMin
<1>4. ASSUME NEW y \in T PROVE x <= y
  <2>1. x \in Nat /\ y \in Nat
    OBVIOUS
  <2>2. ~(y < x)
    BY <2>1, <1>2, <1>3
  <2> QED
    BY <2>1, <2>2
<1> QED
  BY <1>4

(* A set that holds, with a number, all those before it is an interval.    *)
LEMMA ClosedDownwards ==
    ASSUME NEW q \in Nat, NEW S, S \subseteq 1..q,
           \A i, j \in 1..q : i < j /\ j \in S => i \in S
    PROVE  Cardinality(S) \in 0..q /\ S = 1..Cardinality(S)
<1> DEFINE T == (1..(q + 1)) \ S
<1>1. T \subseteq Nat /\ T # {}
  <2>1. q + 1 \in T
    OBVIOUS
  <2> QED
    BY <2>1
<1>2. PICK c \in T : \A y \in T : c <= y
  <2> HIDE DEF T
  <2> QED
    BY <1>1, LeastNat
<1>3. c \in 1..(q + 1) /\ c \notin S
  BY <1>2
<1>4. ASSUME NEW i \in 1..(c - 1) PROVE i \in S
  <2>1. i \in 1..(q + 1) /\ ~(c <= i)
    BY <1>3
  <2> QED
    BY <2>1, <1>2
<1>5. ASSUME NEW i \in S PROVE i \in 1..(c - 1)
  <2>1. i \in 1..q
    OBVIOUS
  <2>2. ~(c < i)
    <3>1. SUFFICES ASSUME c < i PROVE FALSE
      OBVIOUS
    <3>2. c \in 1..q
      BY <3>1, <2>1, <1>3
    <3> QED
      BY <3>1, <3>2, <2>1, <1>3
  <2>3. i # c
    BY <1>3
  <2> QED
    BY <2>1, <2>2, <2>3, <1>3
<1>6. S = 1..(c - 1)
  BY <1>4, <1>5
<1>7. Cardinality(S) = c - 1
  <2>1. c - 1 \in Nat
    BY <1>3
  <2>2. Cardinality(1..(c - 1)) = c - 1
    <3> DEFINE d == c - 1
    <3>1. d \in Int /\ d >= 0
      BY <2>1
    <3> HIDE DEF d
    <3>2. Cardinality(1..d) = IF 1 > d THEN 0 ELSE d - 1 + 1
      BY <3>1, FS_Interval
    <3>3. Cardinality(1..d) = d
      BY <3>1, <3>2
    <3> QED
      BY <3>3 DEF d
  <2> QED
    BY <2>2, <1>6
<1> QED
  BY <1>3, <1>6, <1>7
(* The order of the source on runs carries over to their starts and ends.  *)
LEMMA RunsInOrder ==
    ASSUME NEW r \in Token \X Token, NEW q \in Token \X Token, Precedes(r, q)
    PROVE  /\ Start(r) \in Nat \X Nat /\ End(r) \in Nat \X Nat
           /\ Start(q) \in Nat \X Nat /\ End(q) \in Nat \X Nat
           /\ Precedes(Start(r), Start(q)) /\ Precedes(End(r), End(q))
<1>1. r[1] \in Nat /\ r[2] \in Nat /\ r[2] >= 1 /\ q[1] \in Nat /\ q[2] \in Nat /\ q[2] >= 1
  BY DEF Token
<1> QED
  BY <1>1 DEF Precedes, Start, End

(* Offsets are ordered totally.                                            *)
LEMMA OffsetOrder ==
    ASSUME NEW a \in Nat \X Nat, NEW b \in Nat \X Nat, NEW c \in Nat \X Nat
    PROVE  /\ (Precedes(a, b) /\ Precedes(b, c)) => Precedes(a, c)
           /\ (Precedes(a, b) /\ AtMost(b, c)) => AtMost(a, c)
           /\ AtMost(a, b) <=> ~Precedes(b, a)
           /\ ~Precedes(a, a)
<1>1. a[1] \in Nat /\ a[2] \in Nat /\ b[1] \in Nat /\ b[2] \in Nat /\ c[1] \in Nat /\ c[2] \in Nat
      /\ a = <<a[1], a[2]>> /\ b = <<b[1], b[2]>>
  OBVIOUS
<1>2. (Precedes(a, b) /\ Precedes(b, c)) => Precedes(a, c)
  BY <1>1 DEF Precedes
<1>3. AtMost(a, b) <=> ~Precedes(b, a)
  <2>1. AtMost(a, b) <=> (a[1] < b[1] \/ (a[1] = b[1] /\ a[2] <= b[2]))
    <3>1. a = b <=> (a[1] = b[1] /\ a[2] = b[2])
      BY <1>1
    <3> QED
      BY <1>1, <3>1 DEF AtMost, Precedes
  <2> QED
    BY <2>1, <1>1 DEF Precedes
<1>4. (Precedes(a, b) /\ AtMost(b, c)) => AtMost(a, c)
  BY <1>2 DEF AtMost
<1>5. ~Precedes(a, a)
  BY <1>1 DEF Precedes
<1> QED
  BY <1>2, <1>3, <1>4, <1>5

(* A table of runs in source order.                                        *)
InSourceOrder(t) ==
    /\ t \in Seq(Token \X Token)
    /\ \A i, j \in 1..Len(t) : i < j => Precedes(t[i], t[j])

(* The partition_points of both queries split a table in source order.     *)
LEMMA PartitionPoints ==
    ASSUME NEW t, InSourceOrder(t), NEW a \in Nat \X Nat
    PROVE  /\ Cardinality(StartingBefore(t, a)) \in 0..Len(t)
           /\ StartingBefore(t, a) = 1..Cardinality(StartingBefore(t, a))
           /\ Cardinality(EndingBy(t, a)) \in 0..Len(t)
           /\ EndingBy(t, a) = 1..Cardinality(EndingBy(t, a))
<1> DEFINE q == Len(t)
           S == StartingBefore(t, a)
           E == EndingBy(t, a)
<1>1. q \in Nat /\ S \subseteq 1..q /\ E \subseteq 1..q
  BY DEF InSourceOrder, StartingBefore, EndingBy
<1>2. ASSUME NEW i \in 1..q, NEW j \in 1..q, i < j
      PROVE  (j \in S => i \in S) /\ (j \in E => i \in E)
  <2>1. t[i] \in Token \X Token /\ t[j] \in Token \X Token /\ Precedes(t[i], t[j])
    <3>1. t[i] \in Token \X Token /\ t[j] \in Token \X Token
      BY ElementOfSeq DEF InSourceOrder
    <3> QED
      BY <3>1, <1>2 DEF InSourceOrder
  <2>2. /\ Start(t[i]) \in Nat \X Nat /\ End(t[i]) \in Nat \X Nat
        /\ Start(t[j]) \in Nat \X Nat /\ End(t[j]) \in Nat \X Nat
        /\ Precedes(Start(t[i]), Start(t[j])) /\ Precedes(End(t[i]), End(t[j]))
    BY <2>1, RunsInOrder
  <2>3. ASSUME j \in S PROVE i \in S
    <3>1. Precedes(Start(t[j]), a)
      BY <2>3 DEF StartingBefore
    <3>2. Precedes(Start(t[i]), a)
      BY <3>1, <2>2, OffsetOrder
    <3> QED
      BY <3>2 DEF StartingBefore
  <2>4. ASSUME j \in E PROVE i \in E
    <3>1. AtMost(End(t[j]), a)
      BY <2>4 DEF EndingBy
    <3>2. AtMost(End(t[i]), a)
      BY <3>1, <2>2, OffsetOrder
    <3> QED
      BY <3>2 DEF EndingBy
  <2> QED
    BY <2>3, <2>4
<1> HIDE DEF q, S, E
<1>3. Cardinality(S) \in 0..q /\ S = 1..Cardinality(S)
  BY <1>1, <1>2, ClosedDownwards
<1>4. Cardinality(E) \in 0..q /\ E = 1..Cardinality(E)
  BY <1>1, <1>2, ClosedDownwards
<1> QED
  BY <1>3, <1>4 DEF q, S, E

(* in_span of a table in source order: the runs of the table that lie in   *)
(* the span, still in order.                                               *)
LEMMA InSpanOfTable ==
    ASSUME NEW t, InSourceOrder(t), NEW a \in Nat \X Nat, NEW b \in Nat \X Nat
    PROVE  LET hits == InSpan(t, a, b)
           IN  /\ \A i, j \in 1..Len(hits) : i < j => Precedes(hits[i], hits[j])
               /\ {hits[i] : i \in 1..Len(hits)}
                    = {r \in {t[i] : i \in 1..Len(t)} : AtMost(a, Start(r)) /\ AtMost(End(r), b)}
<1> DEFINE q == Len(t)
           lo == Cardinality(StartingBefore(t, a))
           hi == Cardinality(EndingBy(t, b))
           hits == InSpan(t, a, b)
           Within(r) == AtMost(a, Start(r)) /\ AtMost(End(r), b)
<1>1. q \in Nat /\ lo \in 0..q /\ hi \in 0..q /\ StartingBefore(t, a) = 1..lo /\ EndingBy(t, b) = 1..hi
  BY PartitionPoints DEF InSourceOrder
<1>2. ASSUME NEW i \in 1..q PROVE t[i] \in Token \X Token /\ Start(t[i]) \in Nat \X Nat
  <2>1. t[i] \in Token \X Token
    BY ElementOfSeq DEF InSourceOrder
  <2> QED
    BY <2>1 DEF Start, Token
<1>3. ASSUME NEW i \in 1..q PROVE i \in (lo + 1)..hi <=> Within(t[i])
  <2>1. i \in 1..lo <=> Precedes(Start(t[i]), a)
    BY <1>1 DEF StartingBefore
  <2>2. i \in 1..hi <=> AtMost(End(t[i]), b)
    BY <1>1 DEF EndingBy
  <2>3. AtMost(a, Start(t[i])) <=> ~Precedes(Start(t[i]), a)
    BY <1>2, OffsetOrder
  <2>4. i \in (lo + 1)..hi <=> (~(i \in 1..lo) /\ i \in 1..hi)
    BY <1>1
  <2> QED
    BY <2>1, <2>2, <2>3, <2>4
<1>4. hits = SubSeq(t, lo + 1, hi)
  BY DEF InSpan
<1> HIDE DEF lo, hi, hits
<1>5. /\ Len(hits) \in Nat
      /\ Len(hits) = (IF lo + 1 <= hi THEN hi - lo ELSE 0)
      /\ \A i \in 1..Len(hits) : hits[i] = t[lo + i] /\ lo + i \in (lo + 1)..hi
  <2>1. \A i \in (lo + 1)..hi : t[i] \in Token \X Token
    <3>1. \A i \in (lo + 1)..hi : i \in 1..q
      BY <1>1
    <3> QED
      BY <3>1, <1>2
  <2>2. lo + 1 \in Int /\ hi \in Int
    BY <1>1
  <2>3. /\ Len(SubSeq(t, lo + 1, hi)) = IF lo + 1 <= hi THEN hi - (lo + 1) + 1 ELSE 0
        /\ \A i \in 1..(hi - (lo + 1) + 1) : SubSeq(t, lo + 1, hi)[i] = t[(lo + 1) + i - 1]
    BY <2>1, <2>2, SubSeqProperties
  <2>4. Len(hits) = IF lo + 1 <= hi THEN hi - lo ELSE 0
    BY <2>3, <1>1, <1>4
  <2>5. ASSUME NEW i \in 1..Len(hits) PROVE hits[i] = t[lo + i] /\ lo + i \in (lo + 1)..hi
    <3>1. i \in 1..(hi - (lo + 1) + 1) /\ (lo + 1) + i - 1 = lo + i /\ lo + i \in (lo + 1)..hi
      BY <2>4, <1>1
    <3>2. hits[i] = t[(lo + 1) + i - 1]
      BY <3>1, <2>3, <1>4
    <3> QED
      BY <3>1, <3>2
  <2> QED
    BY <2>4, <2>5, <1>1
<1>6. \A i \in 1..Len(hits) : lo + i \in 1..q
  BY <1>1, <1>5
<1>7. ASSUME NEW i \in 1..Len(hits), NEW j \in 1..Len(hits), i < j PROVE Precedes(hits[i], hits[j])
  <2>1. lo + i \in 1..q /\ lo + j \in 1..q /\ lo + i < lo + j
    BY <1>1, <1>5, <1>6, <1>7
  <2> DEFINE x == lo + i
             y == lo + j
  <2> HIDE DEF x, y
  <2>2. Precedes(t[x], t[y])
    BY <2>1 DEF InSourceOrder, x, y
  <2> QED
    BY <2>2, <1>5 DEF x, y
<1>8. ASSUME NEW i \in 1..Len(hits)
      PROVE  hits[i] \in {t[k] : k \in 1..q} /\ Within(hits[i])
  BY <1>3, <1>5, <1>6
<1>9. ASSUME NEW k \in 1..q, Within(t[k]) PROVE \E i \in 1..Len(hits) : t[k] = hits[i]
  <2>1. k \in (lo + 1)..hi
    BY <1>3, <1>9
  <2>2. k - lo \in 1..Len(hits) /\ lo + (k - lo) = k
    BY <2>1, <1>1, <1>5
  <2>3. hits[k - lo] = t[lo + (k - lo)]
    BY <2>2, <1>5
  <2> QED
    BY <2>2, <2>3
<1>10. {hits[i] : i \in 1..Len(hits)} = {r \in {t[i] : i \in 1..q} : Within(r)}
  <2> HIDE DEF Within, q
  <2> DEFINE A == {hits[i] : i \in 1..Len(hits)}
             T == {t[i] : i \in 1..q}
             B == {r \in T : Within(r)}
  <2>1. ASSUME NEW x \in A PROVE x \in B
    <3>1. PICK i \in 1..Len(hits) : x = hits[i]
      OBVIOUS
    <3>2. x \in T /\ Within(x)
      BY <3>1, <1>8
    <3> QED
      BY <3>2
  <2>2. ASSUME NEW x \in B PROVE x \in A
    <3>1. x \in T /\ Within(x)
      OBVIOUS
    <3>2. PICK k \in 1..q : x = t[k]
      BY <3>1
    <3>3. Within(t[k])
      BY <3>1, <3>2
    <3>4. PICK i \in 1..Len(hits) : t[k] = hits[i]
      BY <3>3, <1>9
    <3> QED
      BY <3>2, <3>4
  <2> HIDE DEF A, B
  <2>3. A = B
    BY <2>1, <2>2
  <2> QED
    BY <2>3 DEF A, B
<1> QED
  BY <1>7, <1>10 DEF hits

(* A table of every run of a source.                                       *)
Complete(t, s) == {t[i] : i \in 1..Len(t)} = Runs(s, s.n + 1)

(* The first m runs of unit u.                                             *)
FirstRuns(u, m) == [k \in 1..m |-> <<u, k>>]

(* before of a complete table, at the end of run m of unit u (m = 0: where *)
(* the unit begins): the runs 1 to m of the unit.                          *)
LEMMA BeforeOfTable ==
    ASSUME NEW s \in Sources, NEW t, InSourceOrder(t), Complete(t, s),
           NEW u \in 1..(s.n + 1), NEW m \in Nat, m <= s.lead[u]
    PROVE  Before(t, <<u, 2 * m>>) = FirstRuns(u, m)
<1> DEFINE q == Len(t)
           offset == <<u, 2 * m>>
           origin == <<u, 0>>
           e == Cardinality(EndingBy(t, offset))
           f == Cardinality(EndingBy(t, origin))
<1>1. s.n \in Nat /\ u \in Nat /\ s.lead[u] \in Nat
  <2>1. s.n \in Nat /\ s.lead \in Seq(Nat) /\ Len(s.lead) = s.n + 1
    BY SourceFacts
  <2> QED
    BY <2>1
<1>2. q \in Nat /\ e \in 0..q /\ f \in 0..q /\ EndingBy(t, offset) = 1..e /\ EndingBy(t, origin) = 1..f
  <2>1. offset \in Nat \X Nat /\ origin \in Nat \X Nat
    BY <1>1
  <2> HIDE DEF offset, origin
  <2> QED
    BY <2>1, PartitionPoints DEF InSourceOrder
<1>3. ASSUME NEW i \in 1..q
      PROVE  t[i][1] \in Nat /\ t[i][2] \in Nat /\ t[i][2] >= 1 /\ t[i] = <<t[i][1], t[i][2]>>
  <2>1. t[i] \in Token \X Token
    BY ElementOfSeq DEF InSourceOrder
  <2> QED
    BY <2>1 DEF Token
<1>4. ASSUME NEW i \in 1..q PROVE i \in 1..f <=> t[i][1] < u
  <2>1. i \in 1..f <=> AtMost(End(t[i]), origin)
    BY <1>2 DEF EndingBy
  <2> DEFINE x == t[i][1]
             y == t[i][2]
  <2>2. End(t[i]) = <<x, 2 * y>> /\ x \in Nat /\ y \in Nat /\ y >= 1
    BY <1>3 DEF End
  <2> HIDE DEF x, y
  <2>3. AtMost(<<x, 2 * y>>, origin) <=> x < u
    BY <2>2, <1>1 DEF AtMost, Precedes
  <2> QED
    BY <2>1, <2>2, <2>3 DEF x
<1>5. ASSUME NEW i \in 1..q PROVE i \in 1..e <=> (t[i][1] < u \/ (t[i][1] = u /\ t[i][2] <= m))
  <2>1. i \in 1..e <=> AtMost(End(t[i]), offset)
    BY <1>2 DEF EndingBy
  <2> DEFINE x == t[i][1]
             y == t[i][2]
  <2>2. End(t[i]) = <<x, 2 * y>> /\ x \in Nat /\ y \in Nat /\ y >= 1
    BY <1>3 DEF End
  <2> HIDE DEF x, y
  <2>3. AtMost(<<x, 2 * y>>, offset) <=> (x < u \/ (x = u /\ y <= m))
    <3>1. Precedes(<<x, 2 * y>>, offset) <=> (x < u \/ (x = u /\ y < m))
      BY <2>2, <1>1 DEF Precedes
    <3>2. <<x, 2 * y>> = offset <=> (x = u /\ y = m)
      BY <2>2, <1>1
    <3> QED
      BY <3>1, <3>2, <2>2, <1>1 DEF AtMost
  <2> QED
    BY <2>1, <2>2, <2>3 DEF x, y
<1>6. ASSUME NEW k \in 1..m PROVE \E i \in 1..q : t[i] = <<u, k>>
  <2>1. k \in 1..s.lead[u]
    BY <1>1
  <2>2. <<u, k>> \in Runs(s, s.n + 1)
    BY <2>1 DEF Runs
  <2>3. <<u, k>> \in {t[i] : i \in 1..q}
    BY <2>2 DEF Complete
  <2> QED
    BY <2>3
<1>7. ASSUME NEW i \in 1..q, NEW j \in 1..q, i < j
      PROVE  t[i][1] < t[j][1] \/ (t[i][1] = t[j][1] /\ t[i][2] < t[j][2])
  BY <1>7 DEF InSourceOrder, Precedes
<1> HIDE DEF q, e, f
(* The runs of the unit follow the runs of the units before it, in turn.   *)
<1>8. ASSUME NEW k \in 1..m PROVE f + k \in 1..q /\ t[f + k] = <<u, k>>
  <2> DEFINE Good(h) == f + h \in 1..q /\ t[f + h] = <<u, h>>
             Bad == {h \in 1..m : ~Good(h)}
  <2>1. Bad = {}
    <3> SUFFICES ASSUME Bad # {} PROVE FALSE
      OBVIOUS
    <3>1. PICK h \in Bad : \A g \in Bad : h <= g
      <4>1. Bad \subseteq Nat
        OBVIOUS
      <4> HIDE DEF Bad
      <4> QED
        BY <4>1, LeastNat
    <3>2. h \in 1..m /\ ~Good(h)
      BY <3>1
    <3>3. ASSUME NEW g \in 1..(h - 1) PROVE Good(g)
      <4>1. g \in 1..m /\ ~(h <= g)
        BY <3>2
      <4> QED
        BY <4>1, <3>1
    <3>4. PICK i \in 1..q : t[i] = <<u, h>>
      BY <3>2, <1>6
    <3>5. ~(i \in 1..f)
      BY <3>4, <1>1, <1>4
    <3>6. i > f /\ i \in Nat /\ h \in Nat /\ f \in Nat
      BY <3>2, <3>5, <1>2
    <3>7. i >= f + h
      <4>1. SUFFICES ASSUME i < f + h PROVE FALSE
        BY <3>6
      <4> DEFINE g == i - f
      <4>2. g \in 1..(h - 1) /\ f + g = i /\ g < h
        BY <4>1, <3>6
      <4> HIDE DEF g
      <4>3. t[f + g] = <<u, g>> /\ g < h /\ f + g = i
        BY <4>2, <3>3
      <4> QED
        BY <4>3, <3>4
    <3>8. i # f + h
      BY <3>2, <3>4
    <3> DEFINE z == f + h
    <3>9. z \in 1..q /\ z < i /\ ~(z \in 1..f)
      BY <3>2, <3>6, <3>7, <3>8, <1>2
    <3>10. t[z][1] = u /\ t[z][2] \in 1..(h - 1)
      <4> HIDE DEF z
      <4>1. ~(t[z][1] < u)
        BY <3>9, <1>4
      <4>2. t[z][1] < u \/ (t[z][1] = u /\ t[z][2] < h)
        <5>1. t[z][1] < t[i][1] \/ (t[z][1] = t[i][1] /\ t[z][2] < t[i][2])
          BY <3>9, <1>7
        <5>2. t[i][1] = u /\ t[i][2] = h
          BY <3>4
        <5> QED
          BY <5>1, <5>2
      <4> QED
        BY <4>1, <4>2, <3>6, <3>9, <1>3
    <3> DEFINE g == t[z][2]
    <3>11. g \in 1..(h - 1) /\ Good(g) /\ t[z] = <<u, g>>
      BY <3>3, <3>9, <3>10, <1>3
    <3> HIDE DEF g
    <3>12. f + g \in 1..q /\ t[f + g] = <<u, g>> /\ f + g < z
      BY <3>6, <3>11
    <3> DEFINE y == f + g
    <3> HIDE DEF y, z
    <3>13. t[y][1] < t[z][1] \/ (t[y][1] = t[z][1] /\ t[y][2] < t[z][2])
      BY <3>12, <3>9, <1>7 DEF y
    <3>14. t[y] = t[z]
      BY <3>11, <3>12 DEF y
    <3> QED
      BY <3>13, <3>14, <3>9, <1>3
  <2> QED
    BY <2>1
<1>9. e = f + m
  <2>1. f <= e
    <3>1. SUFFICES ASSUME ~(f <= e) PROVE FALSE
      OBVIOUS
    <3>2. f \in 1..q /\ f \in 1..f /\ ~(f \in 1..e)
      BY <3>1, <1>2
    <3> QED
      BY <3>2, <1>4, <1>5
  <2>2. ASSUME m > 0 PROVE f + m \in 1..e
    <3>1. m \in 1..m
      BY <2>2
    <3>2. f + m \in 1..q /\ t[f + m] = <<u, m>>
      BY <3>1, <1>8
    <3> DEFINE z == f + m
    <3> HIDE DEF z
    <3>3. z \in 1..q /\ t[z] = <<u, m>>
      BY <3>2 DEF z
    <3>4. z \in 1..e
      BY <3>3, <1>5
    <3> QED
      BY <3>4 DEF z
  <2>3. f + m <= e
    BY <2>1, <2>2, <1>2
  <2>4. ASSUME f + m < e PROVE FALSE
    <3>1. e \in 1..q /\ e \in 1..e /\ ~(e \in 1..f)
      BY <2>4, <1>2
    <3>2. t[e][1] = u /\ t[e][2] \in 1..m
      BY <3>1, <1>1, <1>3, <1>4, <1>5
    <3> DEFINE g == t[e][2]
               y == f + g
    <3>3. g \in 1..m /\ t[e] = <<u, g>>
      BY <3>1, <3>2, <1>3
    <3> HIDE DEF g
    <3>4. y \in 1..q /\ t[y] = <<u, g>>
      BY <3>3, <1>8
    <3>5. y < e
      BY <2>4, <3>3, <1>2
    <3> HIDE DEF y
    <3>6. t[y][1] < t[e][1] \/ (t[y][1] = t[e][1] /\ t[y][2] < t[e][2])
      BY <3>1, <3>4, <3>5, <1>7
    <3>7. t[y] = t[e]
      BY <3>3, <3>4
    <3> QED
      BY <3>1, <3>6, <3>7, <1>3
  <2> QED
    BY <2>3, <2>4, <1>2
<1>10. f \in 0..e /\ e \in Nat /\ f \in Nat
  BY <1>9, <1>2
<1>11. Abut(t, f, e, offset)
  <2> SUFFICES ASSUME NEW k \in (f + 1)..e
               PROVE  End(t[k]) = IF k = e THEN offset ELSE Start(t[k + 1])
    BY DEF Abut
  <2> DEFINE h == k - f
  <2>1. h \in 1..m /\ f + h = k /\ k \in Nat
    BY <1>9, <1>10
  <2> HIDE DEF h
  <2>2. t[k] = <<u, h>>
    BY <2>1, <1>8
  <2>3. End(t[k]) = <<u, 2 * h>>
    BY <2>2 DEF End
  <2>4. CASE k = e
    <3>1. h = m
      BY <2>1, <2>4, <1>9, <1>10
    <3> QED
      BY <3>1, <2>3, <2>4
  <2>5. CASE k # e
    <3>1. h + 1 \in 1..m /\ f + (h + 1) = k + 1
      BY <2>1, <2>5, <1>9, <1>10
    <3>2. t[k + 1] = <<u, h + 1>>
      <4> DEFINE g == h + 1
      <4> HIDE DEF g
      <4>1. g \in 1..m /\ f + g = k + 1
        BY <3>1 DEF g
      <4>2. t[f + g] = <<u, g>>
        BY <4>1, <1>8
      <4> QED
        BY <4>1, <4>2 DEF g
    <3>3. Start(t[k + 1]) = <<u, 2 * (h + 1) - 2>>
      BY <3>2 DEF Start
    <3>4. 2 * (h + 1) - 2 = 2 * h
      BY <2>1
    <3> QED
      BY <3>3, <3>4, <2>3, <2>5
  <2> QED
    BY <2>4, <2>5
<1>12. ASSUME NEW g \in 0..e, Abut(t, g, e, offset) PROVE f <= g
  <2> SUFFICES ASSUME g < f PROVE FALSE
    BY <1>10
  <2>1. f \in (g + 1)..e /\ f \in 1..q /\ f \in 1..f
    BY <1>2, <1>10
  <2>2. End(t[f]) = IF f = e THEN offset ELSE Start(t[f + 1])
    BY <1>12, <2>1 DEF Abut
  <2>3. (IF f = e THEN offset ELSE Start(t[f + 1])) = <<u, 0>>
    <3>1. CASE f = e
      BY <3>1, <1>9, <1>10
    <3>2. CASE f # e
      <4>1. 1 \in 1..m
        BY <3>2, <1>9, <1>10
      <4>2. t[f + 1] = <<u, 1>>
        BY <4>1, <1>8
      <4>3. Start(t[f + 1]) = <<u, 2 * 1 - 2>>
        BY <4>2 DEF Start
      <4> QED
        BY <4>3, <3>2
    <3> QED
      BY <3>1, <3>2
  <2>4. t[f][1] < u
    BY <2>1, <1>4
  <2>5. End(t[f])[1] = t[f][1]
    BY DEF End
  <2>6. t[f][1] = u
    BY <2>2, <2>3, <2>5
  <2> QED
    BY <2>4, <2>6, <1>1
<1>13. Before(t, offset) = SubSeq(t, f + 1, e)
  <2> DEFINE Chain(h) == /\ Abut(t, h, e, offset)
                         /\ \A g \in 0..e : Abut(t, g, e, offset) => h <= g
             c == CHOOSE h \in 0..e : Chain(h)
  <2>1. f \in 0..e /\ Chain(f)
    BY <1>10, <1>11, <1>12
  <2>2. c \in 0..e /\ Chain(c)
    <3> HIDE DEF Chain
    <3> QED
      BY <2>1
  <2>3. c <= f /\ f <= c
    BY <2>1, <2>2
  <2> HIDE DEF c
  <2>4. c = f
    BY <2>2, <2>3, <1>10
  <2>5. Before(t, offset) = SubSeq(t, c + 1, e)
    BY DEF Before, e, c
  <2> QED
    BY <2>4, <2>5
<1> HIDE DEF offset
<1>14. SubSeq(t, f + 1, e) = [k \in 1..m |-> <<u, k>>]
  <2>1. SubSeq(t, f + 1, e) = [k \in 1..(e - (f + 1) + 1) |-> t[f + 1 + k - 1]]
    BY <1>10
  <2>2. e - (f + 1) + 1 = m
    BY <1>9, <1>10
  <2>3. ASSUME NEW k \in 1..m PROVE t[f + 1 + k - 1] = <<u, k>>
    <3>1. f + 1 + k - 1 = f + k
      BY <1>10
    <3> QED
      BY <3>1, <1>8
  <2> QED
    BY <2>1, <2>2, <2>3
<1> QED
  BY <1>13, <1>14 DEF offset, FirstRuns

(* before inside a run or a token: nothing ends there.                     *)
LEMMA BeforeInside ==
    ASSUME NEW t, InSourceOrder(t), NEW a \in Nat \X Nat,
           \A i \in 1..Len(t) : End(t[i]) # a
    PROVE  Before(t, a) = <<>>
<1> DEFINE q == Len(t)
           e == Cardinality(EndingBy(t, a))
           Chain(h) == /\ Abut(t, h, e, a)
                       /\ \A g \in 0..e : Abut(t, g, e, a) => h <= g
           c == CHOOSE h \in 0..e : Chain(h)
<1>1. q \in Nat /\ e \in 0..q
  BY PartitionPoints DEF InSourceOrder
<1> HIDE DEF e
<1>2. Abut(t, e, e, a)
  <2>1. (e + 1)..e = {}
    BY <1>1
  <2> QED
    BY <2>1 DEF Abut
<1>3. ASSUME NEW g \in 0..e, Abut(t, g, e, a) PROVE e <= g
  <2> SUFFICES ASSUME g < e PROVE FALSE
    BY <1>1
  <2>1. e \in (g + 1)..e /\ e \in 1..q
    BY <1>1
  <2>2. End(t[e]) = a
    BY <2>1, <1>3 DEF Abut
  <2> QED
    BY <2>1, <2>2
<1>4. e \in 0..e /\ Chain(e)
  BY <1>1, <1>2, <1>3
<1>5. c \in 0..e /\ Chain(c)
  <2> HIDE DEF Chain
  <2> QED
    BY <1>4
<1>6. e <= c /\ c <= e
  BY <1>4, <1>5
<1>7. Before(t, a) = SubSeq(t, c + 1, e)
  BY DEF Before, e, c
<1> HIDE DEF c
<1>8. c = e
  BY <1>1, <1>5, <1>6
<1>9. SubSeq(t, e + 1, e) = <<>>
  BY <1>1
<1> QED
  BY <1>7, <1>8, <1>9

(***************************************************************************)
(* For every source, once it is read to its end or its fault: in_span      *)
(* recovers exactly the runs of any span, and before exactly the runs that *)
(* lead up to any offset -- what the binary searches need of the table is  *)
(* what the lazy capture gives it.                                         *)
(***************************************************************************)
THEOREM TriviaIsRecovered == Spec => []TriviaRecovered
<1>1. IInv /\ TriviaExact => TriviaRecovered
  <2> SUFFICES ASSUME IInv, TriviaExact, reached_eof \/ lex_error, NEW a \in Offsets(source)
               PROVE  /\ \A b \in Offsets(source) : AtMost(a, b) => SpanRecovered(a, b)
                      /\ LeadRecovered(a)
    BY DEF TriviaRecovered
  <2>1. source \in Sources /\ source.n \in Nat /\ source.lead \in Seq(Nat)
        /\ Len(source.lead) = source.n + 1
    BY SourceFacts DEF IInv, TypeOK
  <2>2. scanned = source.n + 1
    BY DEF IInv, Window, EndIsRemembered
  <2>3. InSourceOrder(trivia)
    BY DEF InSourceOrder, TriviaExact, IInv, TypeOK
  <2>4. {trivia[i] : i \in 1..Len(trivia)} = Captured
    BY DEF TriviaExact
  <2>5. ASSUME NEW b \in Offsets(source)
        PROVE  /\ b[1] \in 1..(source.n + 1) /\ b[2] \in 0..(2 * source.lead[b[1]] + 1)
               /\ b = <<b[1], b[2]>> /\ source.lead[b[1]] \in Nat /\ b \in Nat \X Nat
    <3>1. PICK u \in 1..(source.n + 1) : b \in {<<u, k>> : k \in 0..(2 * source.lead[u] + 1)}
      BY DEF Offsets
    <3>2. source.lead[u] \in Nat
      BY <2>1
    <3>3. PICK k \in 0..(2 * source.lead[u] + 1) : b = <<u, k>>
      BY <3>1
    <3> QED
      BY <3>2, <3>3
  <2>6. ASSUME NEW b \in Offsets(source) PROVE SpanRecovered(a, b)
    <3>1. a \in Nat \X Nat /\ b \in Nat \X Nat
      BY <2>5
    <3> QED
      BY <3>1, <2>3, <2>4, InSpanOfTable DEF SpanRecovered
  <2>7. LeadRecovered(a)
    <3>1. CASE capture /\ a[2] % 2 = 0
      <4> DEFINE u == a[1]
                 m == a[2] \div 2
      <4>1. u \in 1..(source.n + 1) /\ m \in Nat /\ m <= source.lead[u] /\ a[2] = 2 * m /\ a = <<u, a[2]>>
        BY <3>1, <2>5
      <4>2. Complete(trivia, source)
        BY <3>1, <2>2, <2>4 DEF Captured, Complete
      <4> HIDE DEF u, m
      <4>3. Before(trivia, <<u, 2 * m>>) = FirstRuns(u, m)
        BY <4>1, <4>2, <2>1, <2>3, BeforeOfTable
      <4>4. a = <<u, 2 * m>>
        BY <4>1
      <4>5. Before(trivia, a) = [k \in 1..m |-> <<u, k>>]
        BY <4>3, <4>4 DEF FirstRuns
      <4> QED
        BY <4>5, <3>1 DEF LeadRecovered, u, m
    <3>2. CASE ~(capture /\ a[2] % 2 = 0)
      <4>1. ASSUME NEW i \in 1..Len(trivia) PROVE End(trivia[i]) # a
        <5>1. capture
          BY <2>4 DEF Captured
        <5>2. a[2] % 2 # 0
          BY <5>1, <3>2
        <5>3. trivia[i] \in Token \X Token
          BY <2>3, ElementOfSeq DEF InSourceOrder
        <5>4. trivia[i][2] \in Nat
          BY <5>3 DEF Token
        <5>5. End(trivia[i])[2] = 2 * trivia[i][2]
          BY DEF End
        <5>6. (2 * trivia[i][2]) % 2 = 0
          BY <5>4
        <5> QED
          BY <5>2, <5>5, <5>6
      <4>2. Before(trivia, a) = <<>>
        BY <4>1, <2>3, <2>5, BeforeInside
      <4> QED
        BY <4>2, <3>2 DEF LeadRecovered
    <3> QED
      BY <3>1, <3>2
  <2> QED
    BY <2>6, <2>7
<1> QED
  BY <1>1, IInvHolds, TriviaIsExact, PTL
=============================================================================
