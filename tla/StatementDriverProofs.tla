----------------------- MODULE StatementDriverProofs -----------------------
(***************************************************************************)
(* Proofs about StatementDriver, for every set of scripts.                 *)
(*                                                                         *)
(* Source order is not inductive: it needs to know where the cursor is     *)
(* relative to what was delivered.  Progress says so, phase by phase; its  *)
(* one subtle case is a statement whose lookahead met the fault while the  *)
(* cursor was still behind it, so that the error lies ahead of the cursor: *)
(* no `;` lies between them, and resynchronizing must run into the fault.  *)
(*                                                                         *)
(* That recovery is exact, and that the entry points agree, each rest on   *)
(* an invariant of their own (RecoveringInv, StoriesInv): what is true of  *)
(* the finished results, said of the part of the script behind the cursor. *)
(***************************************************************************)
EXTENDS StatementDriver, FiniteSetTheorems, NaturalsInduction, WellFoundedInduction, TLAPS

(* An error always says what is at its place.                              *)
ErrorsTruthful == \A i \in 1..Len(errors) : errors[i] = ErrorAt(errors[i].at)

(* Statements and errors lie behind the cursor, or the start of what it is *)
(* in the middle of.                                                       *)
BehindStatements ==
    /\ \A i \in 1..Len(statements) : statements[i][2] <= pos
    /\ phase = "follow" => \A i \in 1..Len(statements) : statements[i][2] <= start

BehindErrors ==
    /\ phase = "separators" => \A i \in 1..Len(errors) : errors[i].at < pos
    /\ phase = "follow" => start < pos /\ \A i \in 1..Len(errors) : errors[i].at < start
    /\ phase = "resync" =>
          /\ errors # <<>>
          /\ \A i \in 1..Len(errors) :
                \/ errors[i].at <= pos
                \/ errors[i].at = N /\ NoSeparator(pos, N)

(* Which entry point can be where.                                         *)
ModePhase ==
    /\ mode = None => phase = "idle"
    /\ phase = "resync" => mode = "recover"
    /\ phase = "idle" /\ mode # None => mode = "iterate"
    /\ mode = "iterate" /\ errors # <<>> => done

Progress == ErrorsTruthful /\ BehindStatements /\ BehindErrors /\ ModePhase

IInv == TypeOK /\ SourceOrder /\ Progress


(* Nothing has been delivered when an entry point starts.                  *)
LEMMA InitEstablishes == Init => IInv
  <1> SUFFICES ASSUME Init PROVE IInv
    OBVIOUS
  <1>1. script \in Script /\ N \in Nat
    BY ScriptsAssumption DEF Init, N, Script
  <1>2. TypeOK
    <2>1. DOMAIN grammar = 0..N /\ \A p \in 0..N : grammar[p] = None
      BY <1>1 DEF Init
    <2>2. pos \in 0..N /\ start \in 0..pos
      BY <1>1 DEF Init
    <2>3. outcome \in [Modes -> Outcome \cup {None}]
      BY DEF Init
    <2>4. statements \in Seq(Nat \X Nat) /\ errors \in Seq(Error) /\ polls \in Nat
      BY DEF Init
    <2>5. mode \in Modes \cup {None} /\ phase = "idle" /\ done \in BOOLEAN /\ script \in Scripts
      BY DEF Init
    <2> QED
      BY <2>1, <2>2, <2>3, <2>4, <2>5 DEF TypeOK
  <1>3. SourceOrder
    BY DEF Init, SourceOrder, StatementsInOrder, ErrorsInOrder
  <1>4. Progress
    BY <1>1 DEF Init, Progress, ErrorsTruthful, BehindStatements, BehindErrors, ModePhase
  <1> QED
    BY <1>2, <1>3, <1>4 DEF IInv

(* An error carries the place it is about.                               *)
LEMMA ErrorPlace ==
    ASSUME NEW p \in Nat
    PROVE  ErrorAt(p) \in Error /\ ErrorAt(p).at = p
  <1>1. CASE Peek(p) = "fault"
    BY <1>1 DEF ErrorAt, Error
  <1>2. CASE Peek(p) # "fault"
    BY <1>2 DEF ErrorAt, Error
  <1> QED
    BY <1>1, <1>2

(* What reading amounts to: a `;` or a token inside the script, its end    *)
(* behind the last.                                                        *)
LEMMA Reading ==
    ASSUME TypeOK, NEW p \in 0..N
    PROVE  /\ N \in Nat
           /\ Peek(p) = ";" => p < N
           /\ Peek(p) = "token" => p < N
           /\ Peek(p) = "fault" => p = N
  <1>1. script \in Script /\ N \in Nat
    BY ScriptsAssumption DEF TypeOK, N, Script
  <1>2. ASSUME p < N PROVE Peek(p) # "fault"
    <2>1. p + 1 \in 1..Len(script.text)
      BY <1>1, <1>2 DEF N
    <2>2. Peek(p) \in TokenKind
      BY <1>1, <1>2, <2>1 DEF Peek, Script
    <2> QED
      BY <2>2 DEF TokenKind
  <1>3. ASSUME p = N PROVE Peek(p) # ";" /\ Peek(p) # "token"
    <2>1. Peek(p) = script.end
      BY <1>1, <1>3 DEF Peek
    <2>2. script.end \in {"eof", "fault"}
      BY <1>1 DEF Script
    <2> QED
      BY <2>1, <2>2
  <1>4. p < N \/ p = N
    BY <1>1
  <1> QED
    BY <1>1, <1>2, <1>3, <1>4

(* A script has a length.                                                *)
LEMMA ScriptLength == TypeOK => N \in Nat
  BY ScriptsAssumption DEF TypeOK, N, Script

(* What a verdict drawn at a position says.                                *)
LEMMA Verdicts ==
    ASSUME TypeOK, NEW s \in 0..N, NEW v \in Verdict(s)
    PROVE  /\ v.stop \in s..N
           /\ v.error = None => s < v.stop
           /\ v.error # None =>
                 /\ v.error \in Error
                 /\ v.error = ErrorAt(v.error.at)
                 /\ v.error.at \in s..N
                 /\ \/ v.error.at <= v.stop
                    \/ v.error.at = N /\ NoSeparator(v.stop, N)
  <1>0. N \in Nat
    BY ScriptLength
  <1>1. v.stop \in s..N /\ v.error \in {ErrorAt(p) : p \in s..N} \cup {None}
    BY DEF Verdict
  <1>2. v.error = None => s < v.stop
    <2>1. v.error = None => v.stop > s
      BY DEF Verdict
    <2> QED
      BY <1>0, <1>1, <2>1
  <1>3. ASSUME v.error # None
        PROVE  /\ v.error \in Error
               /\ v.error = ErrorAt(v.error.at)
               /\ v.error.at \in s..N
    <2>1. PICK p \in s..N : v.error = ErrorAt(p)
      BY <1>1, <1>3
    <2>2. p \in 0..N
      BY <1>0
    <2> QED
      BY <2>1, <2>2, ErrorPlace
  <1>4. ASSUME v.error # None, v.error.kind = "lexical"
        PROVE  v.error.at = N
    <2>1. v.error.at \in 0..N
      BY <1>0, <1>3, <1>4
    <2>2. Peek(v.error.at) = "fault"
      BY <1>3, <1>4 DEF ErrorAt
    <2> QED
      BY <2>1, <2>2, Reading
  <1>5. ASSUME v.error # None
        PROVE  v.error.at <= v.stop \/ (v.error.at = N /\ NoSeparator(v.stop, N))
    <2>1. v.error.at <= v.stop \/ (v.error.kind = "lexical" /\ NoSeparator(v.stop, N))
      BY <1>5 DEF Verdict
    <2> QED
      BY <1>4, <1>5, <2>1
  <1> QED
    BY <1>1, <1>2, <1>3, <1>5

(* A step that leaves the script alone leaves every reading of it alone.   *)
LEMMA SameScript ==
    ASSUME script' = script
    PROVE  /\ N' = N
           /\ \A p : Peek(p)' = Peek(p)
           /\ \A p : ErrorAt(p)' = ErrorAt(p)
           /\ \A a, b : NoSeparator(a, b)' = NoSeparator(a, b)
           /\ \A p : Verdict(p)' = Verdict(p)
  <1>1. N' = N
    BY DEF N
  <1>2. \A p : Peek(p)' = Peek(p)
    BY <1>1 DEF Peek
  <1>3. \A p : ErrorAt(p)' = ErrorAt(p)
    BY <1>2 DEF ErrorAt
  <1>4. \A a, b : NoSeparator(a, b)' = NoSeparator(a, b)
    BY <1>2, Zenon DEF NoSeparator
  <1>5. \A p : Verdict(p)' = Verdict(p)
    BY <1>1, <1>3, <1>4, Zenon DEF Verdict
  <1> QED
    BY <1>1, <1>2, <1>3, <1>4, <1>5

(***************************************************************************)
(* parse_next_statement fails, from a point where everything delivered     *)
(* lies behind the cursor, with an error that does not.                    *)
(***************************************************************************)
LEMMA FailStep ==
    ASSUME IInv,
           script' = script, mode' = mode, mode \in Modes,
           pos' \in pos..N,
           NEW e \in Error, e = ErrorAt(e.at), e.at \in 0..N,
           \A i \in 1..Len(errors) : errors[i].at < e.at /\ errors[i].at < pos,
           e.at <= pos' \/ (e.at = N /\ NoSeparator(pos', N)),
           Fail(e)
    PROVE  /\ errors' \in Seq(Error)
           /\ statements' \in Seq(Nat \X Nat)
           /\ done' \in BOOLEAN
           /\ phase' \in {"idle", "resync", "returned"}
           /\ SourceOrder'
           /\ Progress'
  <1>0. /\ TypeOK
        /\ N \in Nat /\ pos \in Nat /\ pos' \in Nat
        /\ errors \in Seq(Error) /\ statements \in Seq(Nat \X Nat)
    BY ScriptLength DEF IInv, TypeOK
  <1>1. errors' = Append(errors, e) /\ errors' \in Seq(Error)
    BY <1>0 DEF Fail
  <1>2. statements' \in {<<>>, statements} /\ statements' \in Seq(Nat \X Nat)
    BY <1>0 DEF Fail
  <1>3. /\ done' = (mode = "iterate") /\ done' \in BOOLEAN
        /\ mode = "recover" => phase' = "resync"
        /\ mode = "iterate" => phase' = "idle"
        /\ mode = "parse" => phase' = "returned"
    BY DEF Fail
  <1>4. Len(errors') = Len(errors) + 1 /\ errors'[Len(errors) + 1] = e
    BY <1>0, <1>1
  <1>5. \A i \in 1..Len(errors) : errors'[i] = errors[i]
    BY <1>0, <1>1
  <1>6. ErrorsInOrder'
    <2> SUFFICES ASSUME NEW i \in 1..Len(errors'), NEW j \in 1..Len(errors'), i < j
                 PROVE  errors'[i].at < errors'[j].at
      BY DEF ErrorsInOrder
    <2>1. i \in 1..Len(errors) /\ (j \in 1..Len(errors) \/ j = Len(errors) + 1)
      BY <1>0, <1>4
    <2> QED
      BY <2>1, <1>4, <1>5 DEF IInv, SourceOrder, ErrorsInOrder
  <1>7. StatementsInOrder'
    <2>1. CASE statements' = <<>>
      BY <2>1 DEF StatementsInOrder
    <2>2. CASE statements' = statements
      BY <2>2 DEF IInv, SourceOrder, StatementsInOrder
    <2> QED
      BY <1>2, <2>1, <2>2
  <1>8. ErrorsTruthful'
    <2>1. ASSUME NEW i \in 1..Len(errors')
          PROVE  errors'[i] = ErrorAt(errors'[i].at)
      <3>1. i \in 1..Len(errors) \/ i = Len(errors) + 1
        BY <1>0, <1>4
      <3> QED
        BY <3>1, <1>4, <1>5 DEF IInv, Progress, ErrorsTruthful
    <2> QED
      BY <2>1 DEF ErrorsTruthful, ErrorAt, Peek, N
  <1>9. BehindStatements'
    <2>1. \A i \in 1..Len(statements') : statements'[i][2] <= pos
      BY <1>2 DEF IInv, Progress, BehindStatements
    <2>2. \A i \in 1..Len(statements') : statements'[i][2] \in Nat
      BY <1>2
    <2> QED
      BY <1>0, <1>3, <2>1, <2>2 DEF BehindStatements, Modes
  <1>10. ASSUME NEW i \in 1..Len(errors')
         PROVE  errors'[i].at <= pos' \/ (errors'[i].at = N /\ NoSeparator(pos', N))
    <2>1. CASE i \in 1..Len(errors)
      <3>1. errors[i] \in Error /\ errors[i].at < pos
        BY <2>1, <1>0
      <3>2. errors'[i].at \in Nat /\ errors'[i].at < pos
        BY <2>1, <3>1, <1>5 DEF Error
      <3> QED
        BY <3>2, <1>0
    <2>2. CASE i = Len(errors) + 1
      BY <2>2, <1>4
    <2> QED
      BY <1>0, <1>4, <2>1, <2>2
  <1>11. BehindErrors'
    <2>1. errors' # <<>>
      BY <1>0, <1>4
    <2>2. phase' # "separators" /\ phase' # "follow"
      BY <1>3 DEF Modes
    <2> QED
      BY <1>10, <2>1, <2>2 DEF BehindErrors, NoSeparator, Peek, N
  <1>12. ModePhase'
    BY <1>3, NoneAssumption DEF ModePhase, Modes
  <1>13. phase' \in {"idle", "resync", "returned"}
    BY <1>3 DEF Modes
  <1> QED
    BY <1>1, <1>2, <1>3, <1>6, <1>7, <1>8, <1>9, <1>11, <1>12, <1>13 DEF SourceOrder, Progress

(* Delivered errors have places.                                         *)
LEMMA ErrorPlaces == TypeOK => \A i \in 1..Len(errors) : errors[i].at \in Nat
  <1> SUFFICES ASSUME TypeOK, NEW i \in 1..Len(errors) PROVE errors[i].at \in Nat
    OBVIOUS
  <1>1. errors[i] \in Error
    BY DEF TypeOK
  <1> QED
    BY <1>1 DEF Error

(* Delivered results are untouched while the cursor moves forward.         *)
LEMMA ResultsStay ==
    ASSUME IInv, script' = script, UNCHANGED resultVars, pos' \in pos..N
    PROVE  /\ SourceOrder'
           /\ ErrorsTruthful'
           /\ \A i \in 1..Len(statements') : statements'[i][2] <= pos'
  <1>0. N \in Nat /\ pos \in Nat /\ pos' \in Nat /\ statements \in Seq(Nat \X Nat)
    BY ScriptLength DEF IInv, TypeOK
  <1>1. statements' = statements /\ errors' = errors
    BY DEF resultVars
  <1>2. SourceOrder'
    BY <1>1 DEF IInv, SourceOrder, StatementsInOrder, ErrorsInOrder
  <1>3. ErrorsTruthful'
    BY <1>1 DEF IInv, Progress, ErrorsTruthful, ErrorAt, Peek, N
  <1>4. ASSUME NEW i \in 1..Len(statements') PROVE statements'[i][2] <= pos'
    <2>1. statements[i][2] \in Nat /\ statements[i][2] <= pos
      BY <1>0, <1>1, <1>4 DEF IInv, Progress, BehindStatements
    <2> QED
      BY <1>0, <1>1, <2>1
  <1> QED
    BY <1>2, <1>3, <1>4

(* Type correctness of the variables a driver step leaves alone.           *)
LEMMA GrammarStays ==
    ASSUME TypeOK, UNCHANGED <<script, grammar>>
    PROVE  /\ script' \in Scripts
           /\ DOMAIN grammar' = 0..N'
           /\ \A p \in 0..N' : grammar'[p] = None \/ grammar'[p] \in Verdict(p)'
  BY SameScript DEF TypeOK

(* Entering an entry point starts afresh.                                *)
LEMMA BeginStep ==
    ASSUME IInv, NEW m \in Modes, Begin(m)
    PROVE  IInv'
  <1>1. script' = script /\ N' = N /\ N \in Nat
    BY SameScript, ScriptLength DEF Begin, sourceVars, IInv
  <1>2. TypeOK'
    <2>1. pos' \in 0..N' /\ start' \in 0..pos'
      BY <1>1 DEF Begin
    <2>2. phase' \in {"idle", "separators"} /\ done' \in BOOLEAN /\ polls' \in Nat
      BY DEF Begin
    <2>3. statements' \in Seq(Nat \X Nat) /\ errors' \in Seq(Error) /\ mode' \in Modes
      BY DEF Begin
    <2>4. outcome' \in [Modes -> Outcome \cup {None}]
      BY DEF Begin, IInv, TypeOK
    <2> QED
      BY <2>1, <2>2, <2>3, <2>4, GrammarStays DEF TypeOK, IInv, Begin, sourceVars
  <1>3. SourceOrder'
    BY DEF Begin, SourceOrder, StatementsInOrder, ErrorsInOrder
  <1>4. Progress'
    BY NoneAssumption DEF Begin, Progress, ErrorsTruthful, BehindStatements, BehindErrors, ModePhase
  <1> QED
    BY <1>2, <1>3, <1>4 DEF IInv

(* A client's calls and polls deliver nothing by themselves.             *)
LEMMA ClientStep ==
    ASSUME IInv, Return \/ Poll \/ PollDone
    PROVE  IInv'
  <1>1. /\ script' = script /\ UNCHANGED <<sourceVars, resultVars, pos, start, done>>
        /\ N \in Nat /\ pos \in 0..N /\ pos' \in pos..N
    BY ScriptLength DEF Return, Poll, PollDone, sourceVars, IInv, TypeOK
  <1>2. outcome' \in [Modes -> Outcome \cup {None}]
    <2>1. CASE Return
      <3>1. [statements |-> statements, errors |-> errors] \in Outcome
        BY DEF Outcome, IInv, TypeOK
      <3> QED
        BY <2>1, <3>1 DEF Return, IInv, TypeOK
    <2>2. CASE Poll \/ PollDone
      BY <2>2 DEF Poll, PollDone, IInv, TypeOK
    <2> QED
      BY <2>1, <2>2
  <1>3. /\ mode' \in Modes \cup {None} /\ phase' \in {"idle", "separators"} /\ polls' \in Nat
    BY DEF Return, Poll, PollDone, IInv, TypeOK
  <1>4. TypeOK'
    BY <1>1, <1>2, <1>3, GrammarStays, SameScript DEF IInv, TypeOK, sourceVars, resultVars
  <1>5. SourceOrder' /\ ErrorsTruthful' /\ \A i \in 1..Len(statements') : statements'[i][2] <= pos'
    BY <1>1, ResultsStay
  <1>6. BehindStatements'
    BY <1>3, <1>5 DEF BehindStatements
  <1>7. phase' = "separators" => errors' = <<>>
    <2>1. CASE Poll
      BY <1>1, <2>1 DEF Poll, IInv, Progress, ModePhase, resultVars
    <2>2. CASE Return \/ PollDone
      BY <2>2 DEF Return, PollDone
    <2> QED
      BY <2>1, <2>2
  <1>8. BehindErrors'
    BY <1>3, <1>7 DEF BehindErrors
  <1>9. ModePhase'
    <2>1. CASE Return
      BY <2>1, NoneAssumption DEF Return, ModePhase, Modes
    <2>2. CASE Poll
      BY <1>1, <2>2, NoneAssumption DEF Poll, IInv, Progress, ModePhase, Modes, resultVars
    <2>3. CASE PollDone
      BY <1>1, <2>3 DEF PollDone, IInv, Progress, ModePhase, resultVars
    <2> QED
      BY <2>1, <2>2, <2>3
  <1> QED
    BY <1>4, <1>5, <1>6, <1>8, <1>9 DEF IInv, Progress

(* The driver's steps that fail.                                           *)
LEMMA FailingStep ==
    ASSUME IInv, SeparatorFault \/ Trailing
    PROVE  IInv'
  <1>1. /\ script' = script /\ UNCHANGED <<sourceVars, mode, pos, start, polls, outcome>>
        /\ phase \in {"separators", "follow"} /\ Fail(ErrorAt(pos))
    BY DEF SeparatorFault, Trailing, sourceVars
  <1>2. /\ N \in Nat /\ pos \in 0..N /\ start \in 0..pos /\ mode \in Modes
        /\ errors \in Seq(Error)
    BY <1>1, ScriptLength DEF IInv, TypeOK, Progress, ModePhase
  <1>3. /\ ErrorAt(pos) \in Error /\ ErrorAt(pos).at = pos
    BY <1>2, ErrorPlace
  <1>4. \A i \in 1..Len(errors) : errors[i].at < pos
    <2>1. CASE phase = "separators"
      BY <2>1 DEF IInv, Progress, BehindErrors
    <2>2. CASE phase = "follow"
      <3>1. ASSUME NEW i \in 1..Len(errors) PROVE errors[i].at < pos
        <4>1. errors[i].at \in Nat /\ errors[i].at < start
          BY <2>2, ErrorPlaces DEF IInv, Progress, BehindErrors
        <4> QED
          BY <1>2, <4>1
      <3> QED
        BY <3>1
    <2> QED
      BY <1>1, <2>1, <2>2
  <1>5. /\ errors' \in Seq(Error) /\ statements' \in Seq(Nat \X Nat) /\ done' \in BOOLEAN
        /\ phase' \in {"idle", "resync", "returned"} /\ SourceOrder' /\ Progress'
    <2> DEFINE e == ErrorAt(pos)
    <2>1. /\ e \in Error /\ e = ErrorAt(e.at) /\ e.at \in 0..N /\ e.at <= pos'
          /\ \A i \in 1..Len(errors) : errors[i].at < e.at
          /\ pos' \in pos..N /\ mode' = mode
      BY <1>1, <1>2, <1>3, <1>4
    <2> HIDE DEF e
    <2>2. Fail(e)
      BY <1>1 DEF e
    <2> QED
      BY <1>1, <1>2, <1>4, <2>1, <2>2, FailStep
  <1>6. TypeOK'
    BY <1>1, <1>2, <1>5, GrammarStays, SameScript DEF IInv, TypeOK, sourceVars
  <1> QED
    BY <1>5, <1>6 DEF IInv

(* A statement is parsed, or fails, at or after its start.               *)
LEMMA ParseStep ==
    ASSUME IInv, ParseStatement
    PROVE  IInv'
  <1>1. /\ N \in Nat /\ pos \in 0..N /\ phase = "separators" /\ script' = script
        /\ mode' = mode /\ mode \in Modes /\ errors \in Seq(Error)
        /\ \A i \in 1..Len(errors) : errors[i].at < pos /\ errors[i].at \in Nat
    <2>1. phase = "separators" /\ script' = script /\ mode' = mode
      BY DEF ParseStatement
    <2>2. N \in Nat /\ pos \in 0..N /\ mode \in Modes /\ errors \in Seq(Error)
      BY <2>1, ScriptLength DEF IInv, TypeOK, Progress, ModePhase
    <2>3. \A i \in 1..Len(errors) : errors[i].at < pos /\ errors[i].at \in Nat
      BY <2>1, ErrorPlaces DEF IInv, Progress, BehindErrors
    <2> QED
      BY <2>1, <2>2, <2>3
  <1>2. PICK v \in Verdict(pos) :
             /\ grammar' = [grammar EXCEPT ![pos] = v]
             /\ pos' = v.stop
             /\ start' = pos
             /\ IF v.error = None
                THEN phase' = "follow" /\ UNCHANGED <<resultVars, done>>
                ELSE Fail(v.error)
    BY DEF ParseStatement
  <1>3. /\ v.stop \in pos..N
        /\ v.error = None => pos < v.stop
        /\ v.error # None =>
              /\ v.error \in Error
              /\ v.error = ErrorAt(v.error.at)
              /\ v.error.at \in pos..N
              /\ v.error.at <= v.stop \/ (v.error.at = N /\ NoSeparator(v.stop, N))
    BY <1>1, Verdicts DEF IInv
  <1>4. /\ script' \in Scripts /\ DOMAIN grammar' = 0..N'
        /\ \A p \in 0..N' : grammar'[p] = None \/ grammar'[p] \in Verdict(p)'
    BY <1>1, <1>2, SameScript DEF IInv, TypeOK
  <1>5. pos' \in 0..N' /\ start' \in 0..pos' /\ polls' \in Nat /\ mode' \in Modes
    BY <1>1, <1>2, <1>3, SameScript DEF ParseStatement, IInv, TypeOK
  <1>6. outcome' \in [Modes -> Outcome \cup {None}]
    BY DEF ParseStatement, IInv, TypeOK
  <1>7. CASE v.error = None
    <2>1. UNCHANGED <<resultVars, done>> /\ phase' = "follow"
      BY <1>2, <1>7
    <2>2. SourceOrder' /\ ErrorsTruthful' /\ \A i \in 1..Len(statements') : statements'[i][2] <= pos'
      BY <1>1, <1>2, <1>3, <2>1, ResultsStay
    <2>3. BehindStatements'
      BY <1>2, <2>1, <2>2 DEF BehindStatements, IInv, Progress, resultVars
    <2>4. BehindErrors'
      BY <1>1, <1>2, <1>3, <1>7, <2>1 DEF BehindErrors, resultVars
    <2>5. ModePhase'
      BY <1>1, <2>1, NoneAssumption DEF ModePhase, IInv, Progress, resultVars
    <2>6. TypeOK'
      BY <1>4, <1>5, <1>6, <2>1 DEF TypeOK, IInv, resultVars
    <2> QED
      BY <2>2, <2>3, <2>4, <2>5, <2>6 DEF IInv, Progress
  <1>8. CASE v.error # None
    <2>1. \A i \in 1..Len(errors) : errors[i].at < v.error.at /\ errors[i].at < pos
      BY <1>1, <1>3, <1>8
    <2>2. pos' \in pos..N /\ v.error.at \in 0..N /\ Fail(v.error)
      BY <1>1, <1>2, <1>3, <1>8
    <2>3. v.error.at <= pos' \/ (v.error.at = N /\ NoSeparator(pos', N))
      BY <1>2, <1>3, <1>8
    <2>4. /\ errors' \in Seq(Error) /\ statements' \in Seq(Nat \X Nat) /\ done' \in BOOLEAN
          /\ phase' \in {"idle", "resync", "returned"} /\ SourceOrder' /\ Progress'
      BY <1>1, <1>3, <1>8, <2>1, <2>2, <2>3, FailStep
    <2>5. TypeOK'
      BY <1>4, <1>5, <1>6, <2>4 DEF TypeOK
    <2> QED
      BY <2>4, <2>5 DEF IInv
  <1> QED
    BY <1>7, <1>8

(* A parsed statement is delivered behind the earlier ones.              *)
LEMMA DeliverStep ==
    ASSUME IInv, Deliver
    PROVE  IInv'
  <1>1. /\ N \in Nat /\ pos \in 0..N /\ start \in 0..pos /\ phase = "follow" /\ script' = script
        /\ statements \in Seq(Nat \X Nat) /\ errors' = errors /\ pos' = pos /\ start' = start
        /\ statements' = Append(statements, <<start, pos>>)
        /\ phase' \in {"idle", "separators"}
    BY ScriptLength DEF IInv, TypeOK, Deliver, sourceVars
  <1>2. <<start, pos>> \in Nat \X Nat
    BY <1>1
  <1>3. statements' \in Seq(Nat \X Nat)
    BY <1>1, <1>2
  <1>4. TypeOK'
    BY <1>1, <1>3, GrammarStays, SameScript DEF IInv, TypeOK, Deliver, sourceVars
  <1>5. ASSUME NEW i \in 1..Len(statements')
        PROVE  \/ i \in 1..Len(statements) /\ statements'[i] = statements[i]
               \/ i = Len(statements) + 1 /\ statements'[i] = <<start, pos>>
    BY <1>1
  <1>6. \A i \in 1..Len(statements) : statements[i][2] <= start /\ statements[i][2] \in Nat
    BY <1>1 DEF IInv, Progress, BehindStatements
  <1>7. SourceOrder'
    <2>1. ASSUME NEW i \in 1..Len(statements'), NEW j \in 1..Len(statements'), i < j
          PROVE  statements'[i][2] <= statements'[j][1]
      <3>1. i \in 1..Len(statements) /\ statements'[i] = statements[i]
        BY <1>1, <1>5, <2>1
      <3>2. CASE j \in 1..Len(statements)
        <4>1. statements'[j] = statements[j]
          BY <1>1, <3>2
        <4> QED
          BY <2>1, <3>1, <3>2, <4>1 DEF IInv, SourceOrder, StatementsInOrder
      <3>3. CASE j = Len(statements) + 1
        BY <1>1, <1>6, <3>1, <3>3
      <3> QED
        BY <1>5, <3>2, <3>3
    <2> QED
      BY <1>1, <2>1 DEF IInv, SourceOrder, StatementsInOrder, ErrorsInOrder
  <1>8. BehindStatements'
    <2>1. ASSUME NEW i \in 1..Len(statements') PROVE statements'[i][2] <= pos
      <3>1. CASE i \in 1..Len(statements)
        BY <1>1, <1>6, <3>1
      <3>2. CASE i = Len(statements) + 1
        BY <1>1, <3>2
      <3> QED
        BY <1>5, <3>1, <3>2
    <2> QED
      BY <1>1, <2>1 DEF BehindStatements
  <1>9. ErrorsTruthful'
    BY <1>1 DEF IInv, Progress, ErrorsTruthful, ErrorAt, Peek, N
  <1>10. BehindErrors'
    <2>1. ASSUME NEW i \in 1..Len(errors) PROVE errors[i].at < pos
      <3>1. errors[i].at < start /\ errors[i].at \in Nat
        BY <1>1, ErrorPlaces DEF IInv, Progress, BehindErrors
      <3> QED
        BY <1>1, <3>1
    <2> QED
      BY <1>1, <2>1 DEF BehindErrors
  <1>11. ModePhase'
    BY <1>1, NoneAssumption DEF IInv, Progress, ModePhase, Deliver
  <1> QED
    BY <1>4, <1>7, <1>8, <1>9, <1>10, <1>11 DEF IInv, Progress

(* The driver's steps that only move: over a separator, over a token of a  *)
(* broken statement, or out of the loop.                                   *)
LEMMA MovingStep ==
    ASSUME IInv, SkipSeparator \/ EndOfScript \/ ResyncSkip \/ ResyncEnd
    PROVE  IInv'
  <1>1. /\ script' = script /\ UNCHANGED <<sourceVars, resultVars, mode, start, outcome>>
        /\ polls' \in Nat /\ done' \in BOOLEAN /\ mode \in Modes
    <2>1. phase # "idle" /\ UNCHANGED <<sourceVars, resultVars, mode, start, outcome>>
      BY DEF SkipSeparator, EndOfScript, ResyncSkip, ResyncEnd
    <2>2. polls' \in Nat /\ done' \in BOOLEAN
      <3>1. polls' \in {polls, polls + 1}
        BY DEF SkipSeparator, EndOfScript, ResyncSkip, ResyncEnd
      <3>2. done' = done \/ done' = (mode = "iterate")
        BY DEF SkipSeparator, EndOfScript, ResyncSkip, ResyncEnd
      <3>3. done \in BOOLEAN /\ polls \in Nat
        BY DEF IInv, TypeOK
      <3>4. polls' \in Nat
        BY <3>1, <3>3
      <3>5. done' \in BOOLEAN
        BY <3>2, <3>3
      <3> QED
        BY <3>4, <3>5
    <2>3. mode \in Modes
      BY <2>1 DEF IInv, TypeOK, Progress, ModePhase
    <2> QED
      BY <2>1, <2>2, <2>3 DEF sourceVars
  <1>0. N \in Nat /\ pos \in Nat /\ pos <= N
    BY ScriptLength DEF IInv, TypeOK
  <1>2. pos' \in pos..N /\ pos' \in {pos, pos + 1}
    <2>1. CASE SkipSeparator \/ ResyncSkip
      <3>1. pos' = pos + 1
        BY <2>1 DEF SkipSeparator, ResyncSkip
      <3>2. pos < N
        <4>1. Peek(pos) = ";" \/ Peek(pos) = "token"
          BY <2>1 DEF SkipSeparator, ResyncSkip
        <4> QED
          BY <4>1, Reading, Zenon DEF IInv, TypeOK
      <3> QED
        BY <1>0, <3>1, <3>2
    <2>2. CASE EndOfScript \/ ResyncEnd
      BY <1>0, <2>2 DEF EndOfScript, ResyncEnd
    <2> QED
      BY <2>1, <2>2
  <1>3. phase' \in {"idle", "separators", "resync", "returned"}
    BY DEF SkipSeparator, EndOfScript, ResyncSkip, ResyncEnd
  <1>4. TypeOK'
    <2>1. pos' \in 0..N' /\ start' \in 0..pos'
      BY <1>0, <1>1, <1>2, SameScript DEF IInv, TypeOK
    <2> QED
      BY <1>1, <1>3, <2>1, GrammarStays DEF IInv, TypeOK, sourceVars, resultVars
  <1>5. SourceOrder' /\ ErrorsTruthful' /\ \A i \in 1..Len(statements') : statements'[i][2] <= pos'
    BY <1>1, <1>2, ResultsStay
  <1>6. BehindStatements'
    BY <1>3, <1>5 DEF BehindStatements
  <1>7. BehindErrors'
    <2>1. CASE SkipSeparator
      <3>1. phase' = "separators" /\ pos' = pos + 1 /\ errors' = errors
        BY <2>1 DEF SkipSeparator, resultVars
      <3>2. \A i \in 1..Len(errors) : errors[i].at < pos /\ errors[i].at \in Nat
        BY <2>1, ErrorPlaces DEF SkipSeparator, IInv, Progress, BehindErrors
      <3> QED
        BY <1>0, <3>1, <3>2 DEF BehindErrors
    <2>2. CASE EndOfScript \/ ResyncEnd
      BY <2>2 DEF EndOfScript, ResyncEnd, BehindErrors
    <2>3. CASE ResyncSkip
      <3>0. phase' = IF Peek(pos) = ";" THEN "separators" ELSE "resync"
        BY <2>3 DEF ResyncSkip
      <3>1. phase = "resync" /\ pos' = pos + 1 /\ errors' = errors /\ errors # <<>> /\ pos < N
        <4>1. phase = "resync" /\ pos' = pos + 1 /\ errors' = errors
          BY <2>3 DEF ResyncSkip, resultVars
        <4>2. errors # <<>>
          BY <4>1 DEF IInv, Progress, BehindErrors
        <4>3. pos < N
          <5>1. Peek(pos) = ";" \/ Peek(pos) = "token"
            BY <2>3 DEF ResyncSkip
          <5> QED
            BY <5>1, Reading, Zenon DEF IInv, TypeOK
        <4> QED
          BY <4>1, <4>2, <4>3
      <3>2. ASSUME NEW i \in 1..Len(errors)
            PROVE  /\ errors[i].at \in Nat
                   /\ errors[i].at <= pos \/ (errors[i].at = N /\ NoSeparator(pos, N))
        BY <3>1, ErrorPlaces DEF IInv, Progress, BehindErrors
      <3>3. CASE Peek(pos) = ";"
        <4>1. ~ NoSeparator(pos, N)
          <5>1. pos \in pos..(N - 1)
            BY <1>0, <3>1
          <5> QED
            BY <3>3, <5>1 DEF NoSeparator
        <4>2. \A i \in 1..Len(errors) : errors[i].at < pos'
          BY <1>0, <3>1, <3>2, <4>1
        <4> QED
          BY <3>0, <3>1, <3>3, <4>2 DEF BehindErrors
      <3>4. CASE Peek(pos) # ";"
        <4>1. NoSeparator(pos, N) => NoSeparator(pos + 1, N)
          <5>1. ((pos + 1)..(N - 1)) \subseteq pos..(N - 1)
            BY <1>0
          <5> QED
            BY <5>1 DEF NoSeparator
        <4>2. \A i \in 1..Len(errors) :
                 errors[i].at <= pos + 1 \/ (errors[i].at = N /\ NoSeparator(pos + 1, N))
          BY <1>0, <3>2, <4>1
        <4>3. \A i \in 1..Len(errors') :
                 errors'[i].at <= pos' \/ (errors'[i].at = N /\ NoSeparator(pos', N))
          BY <3>1, <4>2
        <4> QED
          <5>1. phase' = "resync"
            BY <3>0, <3>4
          <5> QED
            BY <1>1, <3>1, <4>3, <5>1 DEF BehindErrors, NoSeparator, Peek, N
      <3> QED
        BY <3>3, <3>4
    <2> QED
      BY <2>1, <2>2, <2>3
  <1>8. ModePhase'
    <2>1. CASE SkipSeparator
      BY <1>1, <2>1, NoneAssumption DEF SkipSeparator, IInv, Progress, ModePhase, resultVars
    <2>2. CASE EndOfScript
      BY <1>1, <2>2, NoneAssumption DEF EndOfScript, IInv, Progress, ModePhase, resultVars
    <2>3. CASE ResyncSkip \/ ResyncEnd
      BY <1>1, <2>3, NoneAssumption DEF ResyncSkip, ResyncEnd, IInv, Progress, ModePhase, resultVars
    <2> QED
      BY <2>1, <2>2, <2>3
  <1> QED
    BY <1>4, <1>5, <1>6, <1>7, <1>8 DEF IInv, Progress

(* A fault met while resynchronizing is recorded once, and last.         *)
LEMMA ResyncFaultStep ==
    ASSUME IInv, ResyncFault
    PROVE  IInv'
  <1>0. N \in Nat /\ pos \in 0..N /\ errors \in Seq(Error) /\ statements \in Seq(Nat \X Nat)
    BY ScriptLength DEF IInv, TypeOK
  <1>1. /\ UNCHANGED <<sourceVars, statements, mode, pos, start, done, polls, outcome>>
        /\ script' = script /\ phase = "resync" /\ phase' = "returned"
    BY DEF ResyncFault, sourceVars
  <1>2. pos = N
    <2>1. Peek(pos) = "fault"
      BY DEF ResyncFault
    <2> QED
      BY <1>0, <2>1, Reading, Zenon DEF IInv
  <1>3. ErrorAt(N) \in Error /\ ErrorAt(N).at = N
    BY <1>0, ErrorPlace
  <1>4. errors # <<>> /\ Len(errors) \in 1..Len(errors)
    BY <1>0, <1>1 DEF IInv, Progress, BehindErrors
  <1>5. errors' = IF errors[Len(errors)] = ErrorAt(N) THEN errors ELSE Append(errors, ErrorAt(N))
    BY <1>2 DEF ResyncFault, RecordOnce, Last
  <1>6. \A i \in 1..Len(errors) : errors[i].at \in Nat /\ errors[i].at <= N
    BY <1>0, <1>1, <1>2, ErrorPlaces DEF IInv, Progress, BehindErrors
  <1>7. ASSUME errors[Len(errors)] # ErrorAt(N)
        PROVE  errors[Len(errors)].at # N
    BY <1>4, <1>7 DEF IInv, Progress, ErrorsTruthful
  <1>8. ErrorsInOrder' /\ errors' \in Seq(Error)
    <2>1. CASE errors[Len(errors)] = ErrorAt(N)
      BY <1>0, <1>5, <2>1 DEF IInv, SourceOrder, ErrorsInOrder
    <2>2. CASE errors[Len(errors)] # ErrorAt(N)
      <3>1. errors' = Append(errors, ErrorAt(N)) /\ errors' \in Seq(Error)
        BY <1>0, <1>3, <1>5, <2>2
      <3>2. ASSUME NEW i \in 1..Len(errors) PROVE errors[i].at < N
        <4>1. errors[Len(errors)].at < N
          BY <1>0, <1>4, <1>6, <1>7, <2>2
        <4>2. i = Len(errors) \/ errors[i].at < errors[Len(errors)].at
          BY <1>0, <1>4 DEF IInv, SourceOrder, ErrorsInOrder
        <4> QED
          BY <1>0, <1>4, <1>6, <4>1, <4>2
      <3>3. ASSUME NEW i \in 1..Len(errors'), NEW j \in 1..Len(errors'), i < j
            PROVE  errors'[i].at < errors'[j].at
        <4>1. i \in 1..Len(errors) /\ errors'[i] = errors[i]
          BY <1>0, <3>1, <3>3
        <4>2. CASE j \in 1..Len(errors)
          <5>1. errors'[j] = errors[j]
            BY <1>0, <3>1, <4>2
          <5> QED
            BY <3>3, <4>1, <4>2, <5>1 DEF IInv, SourceOrder, ErrorsInOrder
        <4>3. CASE j = Len(errors) + 1
          BY <1>0, <1>3, <3>1, <3>2, <4>1, <4>3
        <4> QED
          BY <1>0, <3>1, <4>2, <4>3
      <3> QED
        BY <3>1, <3>3 DEF ErrorsInOrder
    <2> QED
      BY <2>1, <2>2
  <1>9. ErrorsTruthful'
    <2>1. ASSUME NEW i \in 1..Len(errors')
          PROVE  errors'[i] = ErrorAt(errors'[i].at)
      <3>1. \/ i \in 1..Len(errors) /\ errors'[i] = errors[i]
            \/ errors'[i] = ErrorAt(N)
        BY <1>0, <1>3, <1>5
      <3> QED
        BY <1>3, <3>1 DEF IInv, Progress, ErrorsTruthful
    <2> QED
      BY <1>1, <2>1 DEF ErrorsTruthful, ErrorAt, Peek, N
  <1>10. StatementsInOrder' /\ BehindStatements'
    BY <1>1 DEF IInv, SourceOrder, StatementsInOrder, Progress, BehindStatements
  <1>11. BehindErrors'
    BY <1>1 DEF BehindErrors
  <1>12. ModePhase'
    BY <1>1, NoneAssumption DEF IInv, Progress, ModePhase, Modes
  <1>13. TypeOK'
    BY <1>0, <1>1, <1>8, GrammarStays, SameScript DEF IInv, TypeOK, sourceVars
  <1> QED
    BY <1>8, <1>9, <1>10, <1>11, <1>12, <1>13 DEF IInv, SourceOrder, Progress

(* Stuttering changes nothing.                                           *)
LEMMA StutterStep ==
    ASSUME IInv, UNCHANGED vars
    PROVE  IInv'
  <1>1. script' = script
    BY DEF vars, sourceVars
  <1>2. TypeOK'
    BY <1>1, GrammarStays, SameScript DEF IInv, TypeOK, vars, sourceVars, resultVars
  <1>3. SourceOrder'
    BY DEF IInv, SourceOrder, StatementsInOrder, ErrorsInOrder, vars, resultVars
  <1>4. Progress'
    BY <1>1 DEF IInv, Progress, ErrorsTruthful, BehindStatements, BehindErrors, ModePhase,
                NoSeparator, ErrorAt, Peek, N, vars, resultVars
  <1> QED
    BY <1>2, <1>3, <1>4 DEF IInv

(* Every step of the loops keeps the invariant.                          *)
LEMMA StepPreserves == IInv /\ [Next]_vars => IInv'
  <1> SUFFICES ASSUME IInv, [Next]_vars PROVE IInv'
    OBVIOUS
  <1>1. CASE Client
    BY <1>1, BeginStep, ClientStep DEF Client
  <1>2. CASE Driver
    BY <1>2, FailingStep, ParseStep, DeliverStep, MovingStep, ResyncFaultStep DEF Driver
  <1>3. CASE UNCHANGED vars
    BY <1>3, StutterStep
  <1> QED
    BY <1>1, <1>2, <1>3 DEF Next

(* The inductive invariant holds of every behaviour.                     *)
LEMMA Inductive == Spec => []IInv
  BY InitEstablishes, StepPreserves, PTL DEF Spec

(* Every variable of the three entry points keeps its type: in particular  *)
(* no step of the statement loop or of resynchronization reads past the    *)
(* end of the script.                                                      *)
THEOREM TypeCorrect == Spec => []TypeOK
  <1>1. IInv => TypeOK
    BY DEF IInv
  <1> QED
    BY <1>1, Inductive, PTL

(* Whatever the grammar does from each position, statements and errors     *)
(* come out in source order, and no error is reported twice.               *)
THEOREM DeliversInSourceOrder == Spec => []SourceOrder
  <1>1. IInv => SourceOrder
    BY DEF IInv
  <1> QED
    BY <1>1, Inductive, PTL

(***************************************************************************)
(* FaultReported: the loop returns only where it has read the end of the   *)
(* input, or where it has just recorded an error.                          *)
(***************************************************************************)
LEMMA EndOfInput ==
    ASSUME TypeOK, Peek(pos) = "eof"
    PROVE  script.end # "fault"
  <1>1. script \in Script /\ N \in Nat /\ pos \in 0..N
    BY ScriptsAssumption DEF TypeOK, N, Script
  <1>2. ASSUME pos < N PROVE FALSE
    <2>1. pos + 1 \in 1..Len(script.text)
      BY <1>1, <1>2 DEF N
    <2>2. Peek(pos) \in TokenKind
      BY <1>1, <1>2, <2>1 DEF Peek, Script
    <2> QED
      BY <2>2 DEF TokenKind
  <1>3. Peek(pos) = script.end
    BY <1>2, Zenon DEF Peek
  <1> QED
    BY <1>3

(* A failure leaves an error.                                            *)
LEMMA FailNotEmpty ==
    ASSUME TypeOK, mode \in Modes, mode' = mode, NEW e \in Error, Fail(e), phase' = "returned"
    PROVE  errors' # <<>> /\ mode' # "recover"
  <1>1. errors \in Seq(Error) /\ errors' = Append(errors, e)
    BY DEF TypeOK, Fail
  <1>2. mode = "recover" => phase' = "resync"
    BY DEF Fail
  <1> QED
    BY <1>1, <1>2

(* Every step keeps a fault from being lost.                             *)
LEMMA FaultStep == IInv /\ FaultReported /\ [Next]_vars => FaultReported'
  <1> SUFFICES ASSUME IInv, FaultReported, [Next]_vars, phase' = "returned", (script.end)' = "fault"
               PROVE  errors' # <<>> /\ (mode' = "recover" => errors'[Len(errors')] = ErrorAt(N)')
    BY DEF FaultReported, Last
  <1>0. TypeOK /\ N \in Nat /\ pos \in 0..N /\ (phase # "idle" => mode \in Modes)
    BY ScriptLength DEF IInv, TypeOK, Progress, ModePhase
  <1>1. script' = script /\ ErrorAt(N)' = ErrorAt(N)
    <2>1. script' = script
      BY DEF Next, Client, Driver, vars, sourceVars, Return, Poll, PollDone, Begin, SkipSeparator,
             SeparatorFault, EndOfScript, ParseStatement, Deliver, Trailing, ResyncSkip,
             ResyncEnd, ResyncFault
    <2> QED
      BY <2>1 DEF ErrorAt, Peek, N
  <1>2. CASE Client
    BY <1>2 DEF Client, Return, Poll, PollDone, Begin, IInv, Progress, ModePhase
  <1>3. CASE SkipSeparator \/ Deliver \/ ResyncSkip
    BY <1>3 DEF SkipSeparator, Deliver, ResyncSkip
  <1>4. CASE EndOfScript \/ ResyncEnd
    <2>1. Peek(pos) = "eof"
      BY <1>4 DEF EndOfScript, ResyncEnd
    <2> QED
      BY <1>0, <1>1, <2>1, EndOfInput
  <1>5. CASE SeparatorFault \/ Trailing
    <2>1. Fail(ErrorAt(pos)) /\ mode' = mode /\ phase # "idle"
      BY <1>5 DEF SeparatorFault, Trailing
    <2>2. ErrorAt(pos) \in Error
      BY <1>0, ErrorPlace
    <2> QED
      BY <1>0, <2>1, <2>2, FailNotEmpty
  <1>6. CASE ParseStatement
    <2>1. mode' = mode /\ phase # "idle"
      BY <1>6 DEF ParseStatement
    <2>2. PICK v \in Verdict(pos) : IF v.error = None THEN phase' = "follow" ELSE Fail(v.error)
      BY <1>6 DEF ParseStatement
    <2>3. v.error # None /\ Fail(v.error)
      BY <2>2
    <2>4. v.error \in Error
      BY <1>0, <2>3, Verdicts
    <2> QED
      BY <1>0, <2>1, <2>3, <2>4, FailNotEmpty
  <1>7. CASE ResyncFault
    <2>1. errors \in Seq(Error) /\ errors # <<>> /\ pos = N
      <3>1. Peek(pos) = "fault" /\ phase = "resync"
        BY <1>7 DEF ResyncFault
      <3>2. pos = N
        BY <1>0, <3>1, Reading, Zenon
      <3> QED
        BY <3>1, <3>2 DEF IInv, TypeOK, Progress, BehindErrors
    <2>2. errors' = IF errors[Len(errors)] = ErrorAt(N) THEN errors ELSE Append(errors, ErrorAt(N))
      BY <1>7, <2>1 DEF ResyncFault, RecordOnce, Last
    <2>3. errors' # <<>> /\ errors'[Len(errors')] = ErrorAt(N)
      BY <1>0, <2>1, <2>2, ErrorPlace
    <2> QED
      BY <1>1, <2>3
  <1>8. CASE UNCHANGED vars
    BY <1>1, <1>8 DEF FaultReported, Last, vars, resultVars
  <1> QED
    BY <1>2, <1>3, <1>4, <1>5, <1>6, <1>7, <1>8 DEF Next, Driver

(* A script that cannot be tokenized is never reported clean: no entry     *)
(* point returns on it without an error, and recovery's last error is the  *)
(* fault itself.                                                           *)
THEOREM FaultIsReported == Spec => []FaultReported
  <1>1. Init => FaultReported
    BY DEF Init, FaultReported
  <1> QED
    BY <1>1, FaultStep, Inductive, PTL DEF Spec

(* The three together, as the model checker states them of an instance:    *)
(* the loop stays in the script, delivers in source order and reports the  *)
(* fault.                                                                  *)
THEOREM DeliveryIsSound == Spec => []Delivery
  <1>1. TypeOK /\ SourceOrder /\ FaultReported => Delivery
    BY DEF Delivery
  <1> QED
    BY <1>1, TypeCorrect, DeliversInSourceOrder, FaultIsReported, PTL

(***************************************************************************)
(* RecoveryExact.  Cut at its separators the script is a set of pieces;    *)
(* the invariant says, of whatever lies behind the cursor, which pieces    *)
(* have been delivered and how many errors the others have cost, and in    *)
(* the middle of a statement that it began where a piece begins.           *)
(***************************************************************************)
AcceptedBy(g, p) ==
    /\ g[p[1]].error = None
    /\ g[p[1]].stop = p[2]
    /\ Peek(p[2]) # "fault"

Taken(g, c) == {p \in Pieces : p[2] <= c /\ AcceptedBy(g, p)}

Missed(g, c) == {p \in Pieces : p[2] <= c /\ ~AcceptedBy(g, p)}

(* What has been delivered is what the grammar took, up to a place, and    *)
(* each piece it did not take has cost one error, with k more outstanding. *)
Settled(g, c, k, st, es) ==
    /\ Range(st) = Taken(g, c)
    /\ script.end = "eof" => Len(es) = Cardinality(Missed(g, c)) + k

(* A separator lies here.                                                  *)
Cuts(c) == Peek(c) = ";"

(* A statement may begin here: a token at the head of a piece.             *)
Opens(s) == Peek(s) = "token" /\ (s = 0 \/ Cuts(s - 1))

Recovering(g, ph, c, s, st, es) ==
    /\ ph = "separators" => (Peek(c) = "token" => Opens(c)) /\ Settled(g, c, 0, st, es)
    /\ ph = "follow" =>
          /\ Opens(s) /\ s < c /\ NoSeparator(s, c)
          /\ g[s].error = None /\ g[s].stop = c
          /\ Settled(g, s, 0, st, es)
    /\ ph = "resync" =>
          \/ Peek(c) = "fault" /\ Range(st) = Taken(g, c)
          \/ /\ Opens(s) /\ NoSeparator(s, c)
             /\ \A e \in 0..N : <<s, e>> \in Pieces => ~AcceptedBy(g, <<s, e>>)
             /\ Settled(g, s, 1, st, es)
    /\ ph = "returned" => Settled(g, N, 0, st, es)

RecoveringInv ==
    mode = "recover" /\ Contained
        => Recovering(grammar, phase, pos, start, statements, errors)

(* A token is read only inside the script, and nothing else is there.      *)
LEMMA Inside ==
    ASSUME TypeOK, NEW p \in 0..N
    PROVE  /\ p < N => Peek(p) \in {";", "token"}
           /\ p = N => Peek(p) \in {"eof", "fault"} /\ Peek(p) = script.end
  <1>1. script \in Script /\ N \in Nat
    BY ScriptsAssumption DEF TypeOK, N, Script
  <1>2. ASSUME p < N PROVE Peek(p) \in {";", "token"}
    <2>1. p + 1 \in 1..Len(script.text)
      BY <1>1, <1>2 DEF N
    <2>2. script.text \in Seq(TokenKind)
      BY <1>1 DEF Script
    <2>3. script.text[p + 1] \in TokenKind
      BY <2>1, <2>2
    <2> QED
      BY <1>2, <2>3 DEF Peek, TokenKind
  <1>3. ASSUME p = N PROVE Peek(p) \in {"eof", "fault"} /\ Peek(p) = script.end
    <2>1. Peek(p) = script.end
      BY <1>1, <1>3 DEF Peek
    <2>2. script.end \in {"eof", "fault"}
      BY <1>1 DEF Script
    <2> QED
      BY <2>1, <2>2
  <1> QED
    BY <1>2, <1>3

(* What a piece is.                                                        *)
LEMMA PieceFacts ==
    ASSUME NEW p \in Pieces
    PROVE  /\ p[1] \in 0..N /\ p[2] \in 0..N /\ p = <<p[1], p[2]>>
           /\ IsPiece(p[1], p[2]) /\ p[1] < p[2]
  <1>1. /\ p[1] \in 0..N /\ p[2] \in 0..N /\ p = <<p[1], p[2]>>
        /\ IsPiece(p[1], p[2])
    BY DEF Pieces
  <1>2. p[1] < p[2]
    BY <1>1, Zenon DEF IsPiece
  <1> QED
    BY <1>1, <1>2

(* No piece ends behind a separator.                                       *)
LEMMA BehindSeparator ==
    ASSUME TypeOK, NEW c \in 0..N, Cuts(c), NEW p \in Pieces
    PROVE  p[2] # c + 1
  <1>0. N \in Nat
    BY ScriptLength
  <1>1. p[1] \in 0..N /\ p[2] \in 0..N /\ IsPiece(p[1], p[2]) /\ p[1] < p[2]
    BY PieceFacts
  <1> SUFFICES ASSUME p[2] = c + 1 PROVE FALSE
    OBVIOUS
  <1>2. c \in p[1]..(p[2] - 1)
    BY <1>0, <1>1
  <1> QED
    BY <1>1, <1>2, Zenon DEF IsPiece, NoSeparator, Cuts

(* From the head of a piece on there is no other piece until a separator.  *)
LEMMA OnePiece ==
    ASSUME TypeOK, NEW s \in 0..N, NEW t \in s..N, Opens(s), NoSeparator(s, t),
           NEW p \in Pieces, s < p[2], p[2] <= t
    PROVE  p = <<s, t>>
  <1>0. N \in Nat
    BY ScriptLength
  <1>1. /\ p[1] \in 0..N /\ p[2] \in 0..N /\ p = <<p[1], p[2]>>
        /\ IsPiece(p[1], p[2]) /\ p[1] < p[2]
    BY PieceFacts
  <1>2. p[1] <= s
    <2> SUFFICES ASSUME s < p[1] PROVE FALSE
      BY <1>0, <1>1
    <2>1. p[1] - 1 \in s..(t - 1) /\ p[1] # 0
      BY <1>0, <1>1
    <2> QED
      BY <1>1, <2>1, Zenon DEF IsPiece, NoSeparator
  <1>3. s <= p[1]
    <2> SUFFICES ASSUME p[1] < s PROVE FALSE
      BY <1>0, <1>1
    <2>1. s - 1 \in p[1]..(p[2] - 1) /\ s # 0
      BY <1>0, <1>1
    <2> QED
      BY <1>1, <2>1, Zenon DEF IsPiece, NoSeparator, Opens, Cuts
  <1>4. t <= p[2]
    <2> SUFFICES ASSUME p[2] < t PROVE FALSE
      BY <1>0, <1>1
    <2>1. p[2] \in s..(t - 1) /\ p[2] < N
      BY <1>0, <1>1
    <2>2. Peek(p[2]) # ";" /\ Peek(p[2]) # "token"
      BY <1>1, <2>1 DEF IsPiece, NoSeparator
    <2> QED
      BY <1>1, <2>1, <2>2, Inside
  <1>5. p[1] = s /\ p[2] = t
    BY <1>0, <1>1, <1>2, <1>3, <1>4
  <1> QED
    BY <1>1, <1>5

(* That piece is one.                                                      *)
LEMMA ThePiece ==
    ASSUME TypeOK, NEW s \in 0..N, NEW t \in s..N, Opens(s), NoSeparator(s, t),
           Peek(t) # "token"
    PROVE  s < t /\ <<s, t>> \in Pieces
  <1>0. N \in Nat
    BY ScriptLength
  <1>1. s < t
    <2>1. s # t
      BY DEF Opens
    <2> QED
      BY <1>0, <2>1
  <1>2. IsPiece(s, t)
    BY <1>1, Zenon DEF IsPiece, Opens, Cuts
  <1> QED
    BY <1>0, <1>1, <1>2 DEF Pieces

(* Crossing a separator settles nothing.                                   *)
LEMMA AcrossSeparator ==
    ASSUME TypeOK, NEW c \in 0..N, Cuts(c), NEW g
    PROVE  Taken(g, c + 1) = Taken(g, c) /\ Missed(g, c + 1) = Missed(g, c)
  <1>0. N \in Nat
    BY ScriptLength
  <1>1. ASSUME NEW p \in Pieces PROVE (p[2] <= c + 1) <=> (p[2] <= c)
    <2>1. p[2] \in 0..N
      BY PieceFacts
    <2>2. p[2] # c + 1
      BY BehindSeparator
    <2>3. c \in Nat /\ p[2] \in Nat
      BY <1>0, <2>1
    <2> QED
      BY <2>2, <2>3
  <1> QED
    BY <1>1, Zenon DEF Taken, Missed

(* Pieces are finitely many.                                               *)
LEMMA FinitePieces ==
    ASSUME TypeOK, NEW g, NEW c
    PROVE  IsFiniteSet(Missed(g, c)) /\ Cardinality(Missed(g, c)) \in Nat
  <1>1. IsFiniteSet(0..N)
    BY ScriptLength, FS_Interval
  <1>2. IsFiniteSet((0..N) \X (0..N))
    BY <1>1, FS_Product
  <1>3. Missed(g, c) \in SUBSET ((0..N) \X (0..N))
    BY DEF Missed, Pieces
  <1>4. IsFiniteSet(Missed(g, c))
    BY <1>2, <1>3, FS_Subset
  <1> QED
    BY <1>4, FS_CardinalityType

(* Passing a piece the grammar took adds it to what was taken; passing one *)
(* it did not take adds it to what was missed.                             *)
LEMMA AcrossPiece ==
    ASSUME TypeOK, NEW s \in 0..N, NEW t \in s..N, Opens(s), NoSeparator(s, t),
           Peek(t) # "token", NEW g
    PROVE  /\ AcceptedBy(g, <<s, t>>) =>
                 /\ Taken(g, t) = Taken(g, s) \cup {<<s, t>>}
                 /\ Missed(g, t) = Missed(g, s)
           /\ ~AcceptedBy(g, <<s, t>>) =>
                 /\ Taken(g, t) = Taken(g, s)
                 /\ Cardinality(Missed(g, t)) = Cardinality(Missed(g, s)) + 1
  <1>0. N \in Nat
    BY ScriptLength
  <1>1. s < t /\ <<s, t>> \in Pieces
    BY ThePiece
  <1>2. ASSUME NEW p \in Pieces PROVE (p[2] <= t) <=> (p[2] <= s \/ p = <<s, t>>)
    <2>1. p[2] \in Nat
      BY <1>0, PieceFacts
    <2>2. p = <<s, t>> => p[2] <= t
      BY <1>0
    <2>3. p[2] <= t => p[2] <= s \/ p = <<s, t>>
      BY <1>0, <2>1, OnePiece
    <2>4. p[2] <= s => p[2] <= t
      BY <1>0, <2>1
    <2> QED
      BY <2>2, <2>3, <2>4
  <1>3. ~(<<s, t>>[2] <= s)
    BY <1>0, <1>1
  <1>4. ASSUME AcceptedBy(g, <<s, t>>)
        PROVE  Taken(g, t) = Taken(g, s) \cup {<<s, t>>} /\ Missed(g, t) = Missed(g, s)
    BY <1>1, <1>2, <1>4, Zenon DEF Taken, Missed
  <1>5. ASSUME ~AcceptedBy(g, <<s, t>>)
        PROVE  /\ Taken(g, t) = Taken(g, s)
               /\ Missed(g, t) = Missed(g, s) \cup {<<s, t>>}
    BY <1>1, <1>2, <1>5, Zenon DEF Taken, Missed
  <1>6. <<s, t>> \notin Missed(g, s)
    BY <1>3, Zenon DEF Missed
  <1> QED
    BY <1>4, <1>5, <1>6, FinitePieces, FS_AddElement

(* Delivering a statement adds it to the statements delivered.             *)
LEMMA RangeOfAppended ==
    ASSUME NEW S, NEW q \in Seq(S), NEW e \in S
    PROVE  Range(Append(q, e)) = Range(q) \cup {e}
  <1> DEFINE r == Append(q, e)
  <1>1. /\ r \in Seq(S) /\ Len(r) = Len(q) + 1 /\ Len(q) \in Nat /\ r[Len(q) + 1] = e
        /\ DOMAIN r = 1..(Len(q) + 1) /\ DOMAIN q = 1..Len(q)
        /\ \A i \in 1..Len(q) : r[i] = q[i]
    OBVIOUS
  <1> HIDE DEF r
  <1>2. ASSUME NEW x \in Range(r) PROVE x \in Range(q) \cup {e}
    <2>1. PICK i \in 1..(Len(q) + 1) : x = r[i]
      BY <1>1 DEF Range
    <2>2. i \in 1..Len(q) \/ i = Len(q) + 1
      BY <1>1
    <2> QED
      BY <1>1, <2>1, <2>2 DEF Range
  <1>3. ASSUME NEW x \in Range(q) PROVE x \in Range(r)
    <2>1. PICK i \in 1..Len(q) : x = q[i]
      BY <1>1 DEF Range
    <2>2. i \in 1..(Len(q) + 1)
      BY <1>1
    <2> QED
      BY <1>1, <2>1, <2>2 DEF Range
  <1>4. e \in Range(r)
    <2>1. Len(q) + 1 \in 1..(Len(q) + 1)
      BY <1>1
    <2> QED
      BY <1>1, <2>1 DEF Range
  <1>5. Range(r) = Range(q) \cup {e}
    BY <1>2, <1>3, <1>4
  <1> QED
    BY <1>5 DEF r

(* A step that leaves the script alone leaves its pieces alone, and what   *)
(* they are judged by is the grammar.                                      *)
LEMMA SamePieces ==
    ASSUME script' = script,
           Recovering(grammar', phase', pos', start', statements', errors')
    PROVE  Recovering(grammar, phase, pos, start, statements, errors)'
  <1>1. /\ N' = N /\ \A p : Peek(p)' = Peek(p)
        /\ \A a, b : NoSeparator(a, b)' = NoSeparator(a, b)
    BY SameScript
  <1>2. Pieces' = Pieces
    BY Zenon DEF Pieces, IsPiece, NoSeparator, Peek, N
  <1>3. \A g, c : Taken(g, c)' = Taken(g, c)
    BY <1>2, Zenon DEF Taken, AcceptedBy, Peek, N
  <1>4. \A g, c : Missed(g, c)' = Missed(g, c)
    BY <1>2, Zenon DEF Missed, AcceptedBy, Peek, N
  <1> QED
    BY <1>1, <1>2, <1>3, <1>4, Zenon DEF Recovering, Settled, AcceptedBy, Opens, Cuts

(* Two grammars that agree on where a statement could have begun before a  *)
(* place agree on the pieces before it.                                    *)
LEMMA SettledBefore ==
    ASSUME TypeOK, NEW c \in 0..N, NEW g, NEW h, \A q \in 0..(c - 1) : h[q] = g[q]
    PROVE  Taken(h, c) = Taken(g, c) /\ Missed(h, c) = Missed(g, c)
  <1>0. N \in Nat
    BY ScriptLength
  <1>1. ASSUME NEW p \in Pieces, p[2] <= c PROVE AcceptedBy(h, p) <=> AcceptedBy(g, p)
    <2>1. p[1] \in 0..N /\ p[2] \in 0..N /\ p[1] < p[2]
      BY PieceFacts
    <2>2. p[1] \in 0..(c - 1)
      BY <1>0, <1>1, <2>1
    <2> QED
      BY <2>2, Zenon DEF AcceptedBy
  <1> QED
    BY <1>1, Zenon DEF Taken, Missed

(* What the recovering loop has settled, carried over a separator, from    *)
(* the head of a piece over one that was accepted, or over one that cost   *)
(* an error.                                                               *)
LEMMA SettledAcross ==
    ASSUME TypeOK, NEW g, NEW st \in Seq(Nat \X Nat), NEW es
    PROVE  /\ \A c \in 0..N : Cuts(c) /\ Settled(g, c, 0, st, es) => Settled(g, c + 1, 0, st, es)
           /\ \A s \in 0..N : \A t \in s..N :
                 /\ Opens(s) /\ NoSeparator(s, t) /\ Peek(t) # "token"
                 /\ AcceptedBy(g, <<s, t>>)
                 /\ Settled(g, s, 0, st, es)
                 => Settled(g, t, 0, Append(st, <<s, t>>), es)
           /\ \A s \in 0..N : \A t \in s..N :
                 /\ Opens(s) /\ NoSeparator(s, t) /\ Peek(t) # "token"
                 /\ ~AcceptedBy(g, <<s, t>>)
                 /\ Settled(g, s, 1, st, es)
                 => Settled(g, t, 0, st, es)
  <1>0. N \in Nat
    BY ScriptLength
  <1>1. ASSUME NEW c \in 0..N, Cuts(c), Settled(g, c, 0, st, es)
        PROVE  Settled(g, c + 1, 0, st, es)
    <2>1. Taken(g, c + 1) = Taken(g, c) /\ Missed(g, c + 1) = Missed(g, c)
      BY <1>1, AcrossSeparator
    <2> QED
      BY <1>1, <2>1, Zenon DEF Settled
  <1>2. ASSUME NEW s \in 0..N, NEW t \in s..N,
               Opens(s), NoSeparator(s, t), Peek(t) # "token", AcceptedBy(g, <<s, t>>),
               Settled(g, s, 0, st, es)
        PROVE  Settled(g, t, 0, Append(st, <<s, t>>), es)
    <2>1. Taken(g, t) = Taken(g, s) \cup {<<s, t>>} /\ Missed(g, t) = Missed(g, s)
      BY <1>2, AcrossPiece
    <2>2. <<s, t>> \in Nat \X Nat
      BY <1>0
    <2>3. Range(Append(st, <<s, t>>)) = Range(st) \cup {<<s, t>>}
      BY <2>2, RangeOfAppended
    <2> QED
      BY <1>2, <2>1, <2>3, Zenon DEF Settled
  <1>3. ASSUME NEW s \in 0..N, NEW t \in s..N,
               Opens(s), NoSeparator(s, t), Peek(t) # "token", ~AcceptedBy(g, <<s, t>>),
               Settled(g, s, 1, st, es)
        PROVE  Settled(g, t, 0, st, es)
    <2>1. Taken(g, t) = Taken(g, s) /\ Cardinality(Missed(g, t)) = Cardinality(Missed(g, s)) + 1
      BY <1>3, AcrossPiece
    <2>2. Cardinality(Missed(g, s)) \in Nat
      BY FinitePieces
    <2>3. Range(st) = Taken(g, s) /\ (script.end = "eof" => Len(es) = Cardinality(Missed(g, s)) + 1)
      BY <1>3, Zenon DEF Settled
    <2>4. script.end = "eof" => Len(es) = Cardinality(Missed(g, t)) + 0
      BY <2>1, <2>2, <2>3
    <2> QED
      BY <2>1, <2>3, <2>4, Zenon DEF Settled
  <1> QED
    BY <1>1, <1>2, <1>3

(* A verdict is not the absence of one.                                    *)
LEMMA VerdictPresent ==
    ASSUME TypeOK, NEW s \in 0..N, NEW v \in Verdict(s)
    PROVE  v # None
  <1>1. v.stop \in Nat
    BY ScriptLength, Verdicts
  <1>2. v.error \in Error \cup {None}
    BY Verdicts
  <1>3. v = [stop |-> v.stop, error |-> v.error]
    BY DEF Verdict
  <1>4. v \in AnyVerdict
    BY <1>1, <1>2, <1>3 DEF AnyVerdict
  <1> QED
    BY <1>4, AbsentAssumption

(* The grammar keeps every verdict it has given.                           *)
LEMMA VerdictsKept ==
    ASSUME IInv, [Next]_vars
    PROVE  script' = script /\ \A p \in 0..N : grammar[p] # None => grammar'[p] = grammar[p]
  <1>1. CASE ParseStatement
    <2>1. script' = script /\ DOMAIN grammar = 0..N
      BY <1>1 DEF ParseStatement, IInv, TypeOK
    <2>2. PICK v \in Verdict(pos) :
             grammar[pos] \in {None, v} /\ grammar' = [grammar EXCEPT ![pos] = v]
      BY <1>1 DEF ParseStatement
    <2> QED
      BY <2>1, <2>2
  <1>2. CASE ~ParseStatement
    <2>1. UNCHANGED sourceVars
      BY <1>2, Zenon DEF Next, Client, Driver, vars, Return, Poll, PollDone, Begin, SkipSeparator,
             SeparatorFault, EndOfScript, Deliver, Trailing, ResyncSkip,
             ResyncEnd, ResyncFault
    <2> QED
      BY <2>1 DEF sourceVars
  <1> QED
    BY <1>1, <1>2

(* The recovering loop between statements.                                 *)
LEMMA RecoverSeparators ==
    ASSUME IInv, mode = "recover", Recovering(grammar, phase, pos, start, statements, errors),
           SkipSeparator \/ SeparatorFault \/ EndOfScript
    PROVE  Recovering(grammar', phase', pos', start', statements', errors')
  <1>0. /\ TypeOK /\ N \in Nat /\ pos \in 0..N /\ statements \in Seq(Nat \X Nat)
        /\ errors \in Seq(Error)
    BY ScriptLength DEF IInv, TypeOK
  <1>1. /\ phase = "separators" /\ grammar' = grammar /\ start' = start
        /\ Peek(pos) = "token" => Opens(pos)
        /\ Settled(grammar, pos, 0, statements, errors)
    BY Zenon DEF SkipSeparator, SeparatorFault, EndOfScript, Recovering, sourceVars
  <1>2. CASE SkipSeparator
    <2>1. /\ Cuts(pos) /\ pos' = pos + 1 /\ phase' = "separators"
          /\ statements' = statements /\ errors' = errors
      BY <1>1, <1>2, Zenon DEF SkipSeparator, Cuts, resultVars
    <2>2. Settled(grammar, pos + 1, 0, statements, errors)
      BY <1>0, <1>1, <2>1, SettledAcross
    <2>3. (pos + 1) - 1 = pos
      BY <1>0
    <2>4. Peek(pos + 1) = "token" => Opens(pos + 1)
      BY <2>1, <2>3, Zenon DEF Opens
    <2> QED
      BY <1>1, <2>1, <2>2, <2>4 DEF Recovering
  <1>3. CASE SeparatorFault
    <2>1. /\ Peek(pos) = "fault" /\ pos' = pos /\ phase' = "resync" /\ statements' = statements
      BY <1>3, Zenon DEF SeparatorFault, Fail
    <2>2. Range(statements') = Taken(grammar', pos')
      BY <1>1, <2>1, Zenon DEF Settled
    <2> QED
      BY <2>1, <2>2 DEF Recovering
  <1>4. CASE EndOfScript
    <2>1. /\ Peek(pos) = "eof" /\ phase' = "returned"
          /\ statements' = statements /\ errors' = errors
      BY <1>4 DEF EndOfScript, resultVars
    <2>2. pos = N
      <3>1. ~(pos < N)
        BY <1>0, <2>1, Inside
      <3> QED
        BY <1>0, <3>1
    <2> QED
      BY <1>1, <2>1, <2>2 DEF Recovering
  <1> QED
    BY <1>2, <1>3, <1>4

(* It runs parse_statement.                                                *)
LEMMA RecoverParse ==
    ASSUME IInv, mode = "recover", Recovering(grammar, phase, pos, start, statements, errors),
           ParseStatement,
           \A p \in 0..N : grammar'[p] # None => NoSeparator(p, grammar'[p].stop)
    PROVE  Recovering(grammar', phase', pos', start', statements', errors')
  <1>0. /\ TypeOK /\ N \in Nat /\ pos \in 0..N /\ statements \in Seq(Nat \X Nat)
        /\ errors \in Seq(Error) /\ DOMAIN grammar = 0..N
    BY ScriptLength DEF IInv, TypeOK
  <1>1. /\ phase = "separators" /\ start' = pos
        /\ Opens(pos)
        /\ Settled(grammar, pos, 0, statements, errors)
    BY Zenon DEF ParseStatement, Recovering
  <1>2. PICK v \in Verdict(pos) :
           /\ grammar' = [grammar EXCEPT ![pos] = v]
           /\ pos' = v.stop
           /\ IF v.error = None
              THEN phase' = "follow" /\ UNCHANGED <<resultVars, done>>
              ELSE Fail(v.error)
    BY DEF ParseStatement
  <1>3. /\ v.stop \in pos..N
        /\ v.error = None => pos < v.stop
    BY <1>0, Verdicts
  <1>4. /\ grammar'[pos] = v
        /\ \A q \in 0..(pos - 1) : grammar'[q] = grammar[q]
    BY <1>0, <1>2
  <1>5. v # None
    BY <1>0, VerdictPresent
  <1>6. NoSeparator(pos, pos')
    BY <1>0, <1>2, <1>4, <1>5
  <1>7. Taken(grammar', pos) = Taken(grammar, pos) /\ Missed(grammar', pos) = Missed(grammar, pos)
    BY <1>0, <1>4, SettledBefore
  <1>8. CASE v.error = None
    <2>1. phase' = "follow" /\ statements' = statements /\ errors' = errors
      BY <1>2, <1>8 DEF resultVars
    <2>2. Settled(grammar', start', 0, statements', errors')
      BY <1>1, <1>7, <2>1, Zenon DEF Settled
    <2>3. start' < pos' /\ grammar'[start'].error = None /\ grammar'[start'].stop = pos'
      BY <1>1, <1>2, <1>3, <1>4, <1>8
    <2> QED
      BY <1>1, <1>6, <2>1, <2>2, <2>3 DEF Recovering
  <1>9. CASE v.error # None
    <2>1. phase' = "resync" /\ statements' = statements /\ errors' = Append(errors, v.error)
      BY <1>2, <1>9 DEF Fail
    <2>2. Len(errors') = Len(errors) + 1 /\ Len(errors) \in Nat
      <3>1. v.error \in Error
        BY <1>0, <1>9, Verdicts
      <3> QED
        BY <1>0, <2>1, <3>1
    <2>3. Settled(grammar', start', 1, statements', errors')
      <3>1. script.end = "eof" => Len(errors) = Cardinality(Missed(grammar, pos)) + 0
        BY <1>1, Zenon DEF Settled
      <3>2. Cardinality(Missed(grammar, pos)) \in Nat
        BY <1>0, FinitePieces
      <3>3. script.end = "eof" => Len(errors') = Cardinality(Missed(grammar', pos)) + 1
        BY <1>7, <2>2, <3>1, <3>2
      <3>4. Range(statements') = Taken(grammar', pos)
        BY <1>1, <1>7, <2>1, Zenon DEF Settled
      <3> QED
        BY <1>1, <3>3, <3>4, Zenon DEF Settled
    <2>4. \A e \in 0..N : ~AcceptedBy(grammar', <<start', e>>)
      BY <1>1, <1>4, <1>9 DEF AcceptedBy
    <2> QED
      BY <1>1, <1>6, <2>1, <2>3, <2>4 DEF Recovering
  <1> QED
    BY <1>8, <1>9

(* A statement has been parsed: it is delivered, or what follows it is not *)
(* an end.                                                                 *)
LEMMA RecoverFollow ==
    ASSUME IInv, mode = "recover", Recovering(grammar, phase, pos, start, statements, errors),
           Deliver \/ Trailing
    PROVE  Recovering(grammar', phase', pos', start', statements', errors')
  <1>0. /\ TypeOK /\ N \in Nat /\ pos \in 0..N /\ statements \in Seq(Nat \X Nat)
        /\ errors \in Seq(Error) /\ start \in 0..N /\ pos \in start..N
    BY ScriptLength DEF IInv, TypeOK
  <1>1. /\ phase = "follow" /\ grammar' = grammar /\ start' = start /\ pos' = pos
        /\ Opens(start) /\ NoSeparator(start, pos)
        /\ grammar[start].error = None /\ grammar[start].stop = pos
        /\ Settled(grammar, start, 0, statements, errors)
    BY Zenon DEF Deliver, Trailing, Recovering, sourceVars
  <1>2. CASE Deliver
    <2>1. /\ Peek(pos) # "token" /\ Peek(pos) # "fault"
          /\ statements' = Append(statements, <<start, pos>>) /\ errors' = errors
          /\ phase' = "separators"
      BY <1>2, Zenon DEF Deliver, StatementEnds
    <2>2. AcceptedBy(grammar, <<start, pos>>)
      BY <1>1, <2>1 DEF AcceptedBy
    <2>3. Settled(grammar, pos, 0, Append(statements, <<start, pos>>), errors)
      BY <1>0, <1>1, <2>1, <2>2, SettledAcross
    <2> QED
      BY <1>1, <2>1, <2>3 DEF Recovering
  <1>3. CASE Trailing
    <2>1. /\ Peek(pos) \notin {";", "eof"} /\ phase' = "resync" /\ statements' = statements
          /\ errors' = Append(errors, ErrorAt(pos))
      BY <1>3, Zenon DEF Trailing, StatementEnds, Fail
    <2>2. Peek(pos) = "token" \/ Peek(pos) = "fault"
      <3>1. pos < N \/ pos = N
        BY <1>0
      <3> QED
        BY <1>0, <2>1, <3>1, Inside, Zenon
    <2>3. ASSUME NEW e \in 0..N, <<start, e>> \in Pieces, AcceptedBy(grammar, <<start, e>>)
          PROVE  FALSE
      <3>1. e = pos
        BY <1>1, <2>3 DEF AcceptedBy
      <3>2. Peek(pos) # "fault"
        BY <2>3, <3>1 DEF AcceptedBy
      <3>3. IsPiece(start, pos)
        BY <2>3, <3>1 DEF Pieces
      <3> QED
        BY <2>2, <3>2, <3>3, Zenon DEF IsPiece
    <2>4. Len(errors') = Len(errors) + 1 /\ Len(errors) \in Nat
      <3>1. ErrorAt(pos) \in Error
        BY <1>0, ErrorPlace
      <3>2. errors' = Append(errors, ErrorAt(pos))
        BY <2>1, Zenon
      <3> QED
        BY <1>0, <3>1, <3>2
    <2>5. Settled(grammar, start, 1, statements', errors')
      <3>1. script.end = "eof" => Len(errors) = Cardinality(Missed(grammar, start)) + 0
        BY <1>1, Zenon DEF Settled
      <3>2. Cardinality(Missed(grammar, start)) \in Nat
        BY <1>0, FinitePieces
      <3>3. script.end = "eof" => Len(errors') = Cardinality(Missed(grammar, start)) + 1
        BY <2>4, <3>1, <3>2
      <3> QED
        BY <1>1, <2>1, <3>3, Zenon DEF Settled
    <2> QED
      BY <1>1, <2>1, <2>3, <2>5, Zenon DEF Recovering
  <1> QED
    BY <1>2, <1>3

(* recover_to_statement_boundary: what is passed over is the rest of the   *)
(* piece that failed.                                                      *)
LEMMA RecoverResync ==
    ASSUME IInv, mode = "recover", Recovering(grammar, phase, pos, start, statements, errors),
           ResyncSkip \/ ResyncEnd \/ ResyncFault
    PROVE  Recovering(grammar', phase', pos', start', statements', errors')
  <1>0. /\ TypeOK /\ N \in Nat /\ pos \in 0..N /\ statements \in Seq(Nat \X Nat)
        /\ errors \in Seq(Error) /\ start \in 0..N /\ pos \in start..N
    BY ScriptLength DEF IInv, TypeOK
  <1> DEFINE Broken == /\ Opens(start) /\ NoSeparator(start, pos)
                       /\ \A e \in 0..N : <<start, e>> \in Pieces
                                            => ~AcceptedBy(grammar, <<start, e>>)
                       /\ Settled(grammar, start, 1, statements, errors)
  <1>1. /\ phase = "resync" /\ grammar' = grammar /\ start' = start /\ statements' = statements
        /\ (Peek(pos) = "fault" /\ Range(statements) = Taken(grammar, pos)) \/ Broken
    BY Zenon DEF ResyncSkip, ResyncEnd, ResyncFault, Recovering, sourceVars, resultVars
  <1>2. ASSUME Broken, Peek(pos) # "token"
        PROVE  Settled(grammar, pos, 0, statements, errors)
    <2>1. <<start, pos>> \in Pieces
      BY <1>0, <1>2, ThePiece
    <2>2. ~AcceptedBy(grammar, <<start, pos>>)
      BY <1>0, <1>2, <2>1
    <2> QED
      BY <1>0, <1>2, <2>2, SettledAcross
  <1>3. CASE ResyncSkip /\ Cuts(pos)
    <2>1. /\ pos' = pos + 1 /\ phase' = "separators" /\ errors' = errors
          /\ Peek(pos) # "token" /\ Peek(pos) # "fault"
      BY <1>3, Zenon DEF ResyncSkip, Cuts, resultVars
    <2>2. Settled(grammar, pos, 0, statements, errors)
      BY <1>1, <1>2, <2>1
    <2>3. Settled(grammar, pos + 1, 0, statements, errors)
      BY <1>0, <1>3, <2>2, SettledAcross
    <2>4. (pos + 1) - 1 = pos
      BY <1>0
    <2>5. Peek(pos + 1) = "token" => Opens(pos + 1)
      BY <1>3, <2>4, Zenon DEF Opens
    <2> QED
      BY <1>1, <2>1, <2>3, <2>5 DEF Recovering
  <1>4. CASE ResyncSkip /\ ~Cuts(pos)
    <2>1. /\ pos' = pos + 1 /\ phase' = "resync" /\ errors' = errors
          /\ Peek(pos) # "fault"
      BY <1>4, Zenon DEF ResyncSkip, Cuts, resultVars
    <2>2. Broken
      BY <1>1, <2>1
    <2>3. NoSeparator(start, pos + 1)
      <3>1. ASSUME NEW i \in start..((pos + 1) - 1) PROVE i \in start..(pos - 1) \/ i = pos
        BY <1>0
      <3> QED
        BY <1>4, <2>2, <3>1, Zenon DEF NoSeparator, Cuts
    <2> QED
      BY <1>1, <2>1, <2>2, <2>3 DEF Recovering
  <1>5. CASE ResyncEnd
    <2>1. Peek(pos) = "eof" /\ phase' = "returned" /\ errors' = errors
      BY <1>5 DEF ResyncEnd, resultVars
    <2>2. pos = N
      <3>1. ~(pos < N)
        BY <1>0, <2>1, Inside
      <3> QED
        BY <1>0, <3>1
    <2>3. Settled(grammar, pos, 0, statements, errors)
      BY <1>1, <1>2, <2>1
    <2> QED
      BY <1>1, <2>1, <2>2, <2>3 DEF Recovering
  <1>6. CASE ResyncFault
    <2>1. Peek(pos) = "fault" /\ phase' = "returned"
      BY <1>6 DEF ResyncFault
    <2>2. pos = N
      BY <1>0, <2>1, Reading, Zenon
    <2>3. script.end # "eof"
      BY <1>0, <2>1, <2>2, Inside
    <2>4. Range(statements) = Taken(grammar, N)
      <3>1. CASE Broken
        BY <1>2, <2>1, <2>2, <3>1 DEF Settled
      <3> QED
        BY <1>1, <2>2, <3>1
    <2>5. Settled(grammar', N, 0, statements', errors')
      BY <1>1, <2>3, <2>4, Zenon DEF Settled
    <2> QED
      BY <2>1, <2>5 DEF Recovering
  <1> QED
    BY <1>3, <1>4, <1>5, <1>6

(* Entering recovery: nothing lies behind the cursor.                      *)
LEMMA RecoverBegins ==
    ASSUME IInv, Begin("recover")
    PROVE  Recovering(grammar', phase', pos', start', statements', errors')
  <1>0. TypeOK /\ N \in Nat
    BY ScriptLength DEF IInv
  <1>1. phase' = "separators" /\ pos' = 0 /\ statements' = <<>> /\ errors' = <<>>
    BY DEF Begin
  <1>2. ASSUME NEW p \in Pieces PROVE ~(p[2] <= 0)
    <2>1. p[1] \in 0..N /\ p[2] \in 0..N /\ p[1] < p[2]
      BY PieceFacts
    <2> QED
      BY <1>0, <2>1
  <1>3. Taken(grammar', 0) = {} /\ Missed(grammar', 0) = {}
    BY <1>2, Zenon DEF Taken, Missed
  <1>4. Range(<<>>) = {} /\ Len(<<>>) = Cardinality({}) + 0
    <2>1. Range(<<>>) = {}
      BY DEF Range
    <2>2. Len(<<>>) = Cardinality({}) + 0
      BY FS_EmptySet
    <2> QED
      BY <2>1, <2>2
  <1>5. Settled(grammar', 0, 0, <<>>, <<>>)
    BY <1>3, <1>4, Zenon DEF Settled
  <1>6. Peek(0) = "token" => Opens(0)
    BY Zenon DEF Opens
  <1> QED
    BY <1>1, <1>5, <1>6 DEF Recovering

(* Every step of the loops keeps what recovery has settled.                *)
LEMMA RecoverStep == IInv /\ RecoveringInv /\ [Next]_vars => RecoveringInv'
  <1>a. IInv /\ [Next]_vars => script' = script
    BY VerdictsKept
  <1> SUFFICES ASSUME IInv, RecoveringInv, [Next]_vars, mode' = "recover", Contained'
               PROVE  Recovering(grammar', phase', pos', start', statements', errors')
    BY <1>a, SamePieces, Zenon DEF RecoveringInv
  <1>0. /\ script' = script /\ N' = N
        /\ \A a, b : NoSeparator(a, b)' = NoSeparator(a, b)
        /\ \A p \in 0..N : grammar[p] # None => grammar'[p] = grammar[p]
    BY VerdictsKept, SameScript
  <1>1. \A p \in 0..N : grammar'[p] # None => NoSeparator(p, grammar'[p].stop)
    BY <1>0, Zenon DEF Contained
  <1>2. Contained
    BY <1>0, <1>1, Zenon DEF Contained
  <1>3. ASSUME mode = "recover" PROVE Recovering(grammar, phase, pos, start, statements, errors)
    BY <1>2, <1>3, Zenon DEF RecoveringInv
  <1>4. CASE Client
    <2>1. CASE Return
      BY <2>1, NoneAssumption DEF Return, Modes
    <2>2. CASE Poll \/ PollDone
      BY <2>2 DEF Poll, PollDone
    <2>3. ASSUME NEW m \in Modes, Begin(m)
          PROVE  Recovering(grammar', phase', pos', start', statements', errors')
      <3>1. m = "recover"
        BY <2>3 DEF Begin
      <3> QED
        BY <2>3, <3>1, RecoverBegins
    <2> QED
      BY <1>4, <2>1, <2>2, <2>3 DEF Client
  <1>5. CASE Driver
    <2>1. mode = "recover"
      BY <1>5, Zenon DEF Driver, SkipSeparator, SeparatorFault, EndOfScript, ParseStatement,
             Deliver, Trailing, ResyncSkip, ResyncEnd, ResyncFault
    <2>2. Recovering(grammar, phase, pos, start, statements, errors)
      BY <1>3, <2>1
    <2>3. CASE SkipSeparator \/ SeparatorFault \/ EndOfScript
      BY <2>1, <2>2, <2>3, RecoverSeparators
    <2>4. CASE ParseStatement
      BY <1>1, <2>1, <2>2, <2>4, RecoverParse
    <2>5. CASE Deliver \/ Trailing
      BY <2>1, <2>2, <2>5, RecoverFollow
    <2>6. CASE ResyncSkip \/ ResyncEnd \/ ResyncFault
      BY <2>1, <2>2, <2>6, RecoverResync
    <2> QED
      BY <1>5, <2>3, <2>4, <2>5, <2>6, Zenon DEF Driver
  <1>6. CASE UNCHANGED vars
    <2>1. UNCHANGED <<grammar, phase, pos, start, statements, errors, mode>>
      BY <1>6 DEF vars, sourceVars, resultVars
    <2> QED
      BY <1>3, <2>1
  <1> QED
    BY <1>4, <1>5, <1>6 DEF Next

(* Where no statement crosses a `;`, whatever the grammar accepts and      *)
(* wherever it gives up on the rest, collect_recovered delivers exactly    *)
(* the pieces between separators that the grammar accepts whole, and one   *)
(* error for each other piece of a script that can be read to its end.     *)
THEOREM RecoveryIsExact == Spec => []RecoveryExact
  <1>1. Init => RecoveringInv
    BY NoneAssumption DEF Init, RecoveringInv, Modes
  <1>2. IInv /\ RecoveringInv => RecoveryExact
    <2> SUFFICES ASSUME IInv, RecoveringInv, phase = "returned", mode = "recover", Contained
                 PROVE  /\ Range(statements) = {p \in Pieces : Accepted(p)}
                        /\ script.end = "eof"
                             => Len(errors) = Cardinality({p \in Pieces : ~Accepted(p)})
      BY Zenon DEF RecoveryExact
    <2>1. Settled(grammar, N, 0, statements, errors)
      BY DEF RecoveringInv, Recovering
    <2>2. N \in Nat
      BY ScriptLength DEF IInv
    <2>3. ASSUME NEW p \in Pieces PROVE p[2] <= N
      BY <2>2, PieceFacts
    <2>4. ASSUME NEW p PROVE AcceptedBy(grammar, p) <=> Accepted(p)
      BY Zenon DEF AcceptedBy, Accepted
    <2>5. Taken(grammar, N) = {p \in Pieces : Accepted(p)}
      BY <2>3, <2>4, Zenon DEF Taken
    <2>6. Missed(grammar, N) = {p \in Pieces : ~Accepted(p)}
      BY <2>3, <2>4, Zenon DEF Missed
    <2>7. Cardinality(Missed(grammar, N)) \in Nat
      BY FinitePieces DEF IInv
    <2>8. script.end = "eof" => Len(errors) = Cardinality(Missed(grammar, N)) + 0
      BY <2>1, Zenon DEF Settled
    <2>9. script.end = "eof" => Len(errors) = Cardinality(Missed(grammar, N))
      BY <2>7, <2>8
    <2> QED
      BY <2>1, <2>5, <2>6, <2>9, Zenon DEF Settled
  <1> QED
    BY <1>1, <1>2, RecoverStep, Inductive, PTL DEF Spec

(***************************************************************************)
(* ModesAgree.  The story of a script under a grammar is a chain: from the *)
(* end of one statement over separators to the next, as long as each ends  *)
(* where a statement may, and then one conclusion, the end of the script   *)
(* or the first error.  There is only one such chain, and each entry point *)
(* has followed it as far as its results say.                              *)
(***************************************************************************)
Skipped(c, s) == c <= s /\ \A j \in c..(s - 1) : Cuts(j)

Reaches(c, s) == Skipped(c, s) /\ ~Cuts(s)

Ends(t) == Cuts(t) \/ Peek(t) = "eof"

ParsedTo(g, s, t) ==
    /\ s \in 0..N /\ t \in 0..N
    /\ Peek(s) = "token"
    /\ g[s] # None /\ g[s].error = None /\ g[s].stop = t

StopOf(st, i) == IF i = 0 THEN 0 ELSE st[i][2]

(* The first n statements are a chain from the start of the script.        *)
ChainTo(g, st, n) ==
    \A i \in 1..n :
        /\ Reaches(StopOf(st, i - 1), st[i][1])
        /\ ParsedTo(g, st[i][1], st[i][2])
        /\ Ends(st[i][2])

(* What parse_next_statement concludes at s: None at the end of the        *)
(* script, or an error.                                                    *)
Concludes(g, s, e) ==
    \/ Peek(s) = "eof" /\ e = None
    \/ Peek(s) = "fault" /\ e = ErrorAt(s)
    \/ /\ Peek(s) = "token" /\ g[s] # None
       /\ g[s].error # None /\ e = g[s].error
    \/ \E t \in 0..N : ParsedTo(g, s, t) /\ ~Ends(t) /\ e = ErrorAt(t)

Concluded(g, st, n, e) ==
    \E s \in 0..N : Reaches(StopOf(st, n), s) /\ Concludes(g, s, e)

Whole(g, st, n, e) == ChainTo(g, st, n) /\ Concluded(g, st, n, e)

FirstOf(es) == IF es = <<>> THEN None ELSE es[1]

(* The results of an entry point that has told its story, or the part of   *)
(* it the client of the iterator asked for.                                *)
Story(g, m, st, es) ==
    /\ m # "recover" => Len(es) <= 1
    /\ m = "parse" =>
          \E clean \in Seq(Nat \X Nat) :
             /\ Whole(g, clean, Len(clean), FirstOf(es))
             /\ st = IF es = <<>> THEN clean ELSE <<>>
    /\ m = "iterate" =>
          /\ ChainTo(g, st, Len(st))
          /\ es # <<>> => Concluded(g, st, Len(st), es[1])
    /\ m = "recover" =>
          \E n \in 0..Len(st) :
             /\ Whole(g, st, n, FirstOf(es))
             /\ es = <<>> => n = Len(st)

(* The results of one that is running: until the first error the cursor    *)
(* is where the chain ends.                                                *)
Running(g, m, ph, c, s, d, st, es) ==
    /\ es = <<>> =>
          /\ ChainTo(g, st, Len(st))
          /\ ph = "separators" \/ (ph = "idle" /\ ~d) => Skipped(StopOf(st, Len(st)), c)
          /\ ph = "follow" => Reaches(StopOf(st, Len(st)), s) /\ ParsedTo(g, s, c)
          /\ ph = "returned" => Story(g, m, st, es)
          /\ ph # "resync"
    /\ es # <<>> =>
          /\ m = "recover" \/ ph \in {"idle", "returned"}
          /\ Story(g, m, st, es)

StoriesInv ==
    /\ mode # None => Running(grammar, mode, phase, pos, start, done, statements, errors)
    /\ \A m \in Modes :
          outcome[m] # None => Story(grammar, m, outcome[m].statements, outcome[m].errors)

(* The loop skips separators to one place.                                 *)
LEMMA ReachesOne ==
    ASSUME NEW c \in Nat, NEW s \in Nat, NEW t \in Nat, Reaches(c, s), Reaches(c, t)
    PROVE  s = t
  <1>1. ASSUME NEW a \in Nat, NEW b \in Nat, Reaches(c, a), Reaches(c, b), a < b
        PROVE  FALSE
    <2>1. c <= a
      BY <1>1 DEF Reaches, Skipped
    <2>2. a \in c..(b - 1)
      BY <1>1, <2>1
    <2> QED
      BY <1>1, <2>2, Zenon DEF Reaches, Skipped
  <1>2. ~(s < t) /\ ~(t < s)
    BY <1>1
  <1> QED
    BY <1>2

(* A statement that ends where a statement may concludes nothing.          *)
LEMMA ParsedOrConcluded ==
    ASSUME NEW g, NEW s \in 0..N, NEW t, NEW e,
           ParsedTo(g, s, t), Ends(t), Concludes(g, s, e)
    PROVE  FALSE
  <1>1. Peek(s) = "token" /\ g[s].error = None /\ g[s].stop = t
    BY DEF ParsedTo
  <1>2. PICK u \in 0..N : ParsedTo(g, s, u) /\ ~Ends(u)
    BY <1>1 DEF Concludes
  <1>3. u = t
    BY <1>1, <1>2 DEF ParsedTo
  <1> QED
    BY <1>2, <1>3

(* What is concluded at a place is one thing.                              *)
LEMMA ConcludesOne ==
    ASSUME NEW g, NEW s, NEW e, NEW f, Concludes(g, s, e), Concludes(g, s, f)
    PROVE  e = f
  <1>1. CASE Peek(s) = "token"
    <2>1. CASE g[s].error # None
      BY <1>1, <2>1 DEF Concludes, ParsedTo
    <2>2. CASE g[s].error = None
      <3>1. PICK t \in 0..N : ParsedTo(g, s, t) /\ e = ErrorAt(t)
        BY <1>1, <2>2 DEF Concludes
      <3>2. PICK u \in 0..N : ParsedTo(g, s, u) /\ f = ErrorAt(u)
        BY <1>1, <2>2 DEF Concludes
      <3>3. t = u
        BY <3>1, <3>2 DEF ParsedTo
      <3> QED
        BY <3>1, <3>2, <3>3
    <2> QED
      BY <2>1, <2>2
  <1>2. CASE Peek(s) # "token"
    BY <1>2 DEF Concludes, ParsedTo
  <1> QED
    BY <1>1, <1>2

(* The stops of a chain are places.                                        *)
LEMMA StopPlace ==
    ASSUME NEW st \in Seq(Nat \X Nat), NEW i \in 0..Len(st)
    PROVE  StopOf(st, i) \in Nat
  <1> DEFINE P == Nat \X Nat
  <1>1. \A q \in P : q[2] \in Nat
    OBVIOUS
  <1> HIDE DEF P
  <1>2. i # 0 => st[i] \in P
    <2>1. i # 0 => i \in 1..Len(st)
      OBVIOUS
    <2>2. st \in Seq(P)
      BY DEF P
    <2> QED
      BY <2>1, <2>2
  <1> QED
    BY <1>1, <1>2 DEF StopOf

(* A set of numbers that is not empty has a least one.                     *)
LEMMA LeastPlace ==
    ASSUME NEW T, T \subseteq Nat, T # {}
    PROVE  \E x \in T : \A y \in T : x <= y
  <1> DEFINE R == OpToRel(<, Nat)
  <1>1. IsWellFoundedOn(R, Nat)
    BY NatLessThanWellFounded
  <1>2. \A x, y \in Nat : x < y => <<x, y>> \in R
    BY DEF OpToRel
  <1> HIDE DEF R
  <1>3. PICK x \in T : \A y \in T : ~(<<y, x>> \in R)
    BY <1>1, WFMin
  <1>4. ASSUME NEW y \in T PROVE x <= y
    <2>1. x \in Nat /\ y \in Nat
      OBVIOUS
    <2>2. ~(y < x)
      BY <1>2, <1>3, <2>1
    <2> QED
      BY <2>1, <2>2
  <1> QED
    BY <1>4

(* What one statement of a chain is.                                       *)
LEMMA LinkOf ==
    ASSUME NEW g, NEW st \in Seq(Nat \X Nat), NEW n \in 0..Len(st), ChainTo(g, st, n),
           NEW i \in 1..n
    PROVE  /\ st[i][1] \in Nat /\ st[i][2] \in Nat /\ st[i] = <<st[i][1], st[i][2]>>
           /\ i - 1 \in 0..Len(st) /\ StopOf(st, i - 1) \in Nat /\ StopOf(st, i) = st[i][2]
           /\ Reaches(StopOf(st, i - 1), st[i][1])
           /\ ParsedTo(g, st[i][1], st[i][2])
           /\ Ends(st[i][2])
  <1> DEFINE P == Nat \X Nat
  <1>1. \A q \in P : q[1] \in Nat /\ q[2] \in Nat /\ q = <<q[1], q[2]>>
    OBVIOUS
  <1>2. st \in Seq(P)
    OBVIOUS
  <1> HIDE DEF P
  <1>3. i \in 1..Len(st) /\ i - 1 \in 0..Len(st) /\ i # 0
    BY <1>2
  <1>4. st[i] \in P
    BY <1>2, <1>3
  <1>5. StopOf(st, i - 1) \in Nat
    BY <1>3, StopPlace
  <1> QED
    BY <1>1, <1>3, <1>4, <1>5, Zenon DEF ChainTo, StopOf

(* Two chains are the same as far as both go.                              *)
LEMMA ChainsAgree ==
    ASSUME NEW g,
           NEW a \in Seq(Nat \X Nat), NEW m \in 0..Len(a), ChainTo(g, a, m),
           NEW b \in Seq(Nat \X Nat), NEW n \in 0..Len(b), ChainTo(g, b, n)
    PROVE  \A i \in 0..m : i <= n => StopOf(a, i) = StopOf(b, i) /\ (i # 0 => a[i] = b[i])
  <1>0. m \in Nat /\ n \in Nat
    OBVIOUS
  <1> DEFINE T == {i \in 1..m : i <= n /\ a[i] # b[i]}
  <1>1. T = {}
    <2> SUFFICES ASSUME T # {} PROVE FALSE
      OBVIOUS
    <2>1. T \subseteq Nat
      BY <1>0
    <2>2. PICK i \in T : \A y \in T : i <= y
      BY <2>1, LeastPlace
    <2>3. i \in 1..m /\ i \in 1..n /\ a[i] # b[i]
      BY <1>0, <2>2
    <2> HIDE DEF T
    <2>4. StopOf(a, i - 1) = StopOf(b, i - 1)
      <3>1. CASE i = 1
        BY <3>1 DEF StopOf
      <3>2. CASE i # 1
        <4>1. i - 1 \in 1..m /\ i - 1 <= n /\ ~(i <= i - 1) /\ i - 1 # 0
          BY <1>0, <2>3, <3>2
        <4>2. a[i - 1] = b[i - 1]
          BY <2>2, <4>1 DEF T
        <4> QED
          BY <4>1, <4>2 DEF StopOf
      <3> QED
        BY <3>1, <3>2
    <2>5. /\ a[i][1] \in Nat /\ a[i][2] \in Nat /\ a[i] = <<a[i][1], a[i][2]>>
          /\ StopOf(a, i - 1) \in Nat
          /\ Reaches(StopOf(a, i - 1), a[i][1]) /\ ParsedTo(g, a[i][1], a[i][2])
      BY <2>3, LinkOf
    <2>6. /\ b[i][1] \in Nat /\ b[i][2] \in Nat /\ b[i] = <<b[i][1], b[i][2]>>
          /\ Reaches(StopOf(b, i - 1), b[i][1]) /\ ParsedTo(g, b[i][1], b[i][2])
      BY <2>3, LinkOf
    <2>7. a[i][1] = b[i][1]
      BY <2>4, <2>5, <2>6, ReachesOne
    <2>8. a[i][2] = b[i][2]
      BY <2>5, <2>6, <2>7 DEF ParsedTo
    <2> QED
      BY <2>3, <2>5, <2>6, <2>7, <2>8
  <1>2. ASSUME NEW i \in 0..m, i <= n, i # 0 PROVE a[i] = b[i]
    <2>1. i \in 1..m
      BY <1>0, <1>2
    <2> QED
      BY <1>1, <1>2, <2>1
  <1> QED
    BY <1>2 DEF StopOf

(* Nothing follows the conclusion of a chain.                              *)
LEMMA ChainStops ==
    ASSUME NEW g, N \in Nat,
           NEW a \in Seq(Nat \X Nat), NEW m \in 0..Len(a), NEW e, Whole(g, a, m, e),
           NEW b \in Seq(Nat \X Nat), NEW n \in 0..Len(b), ChainTo(g, b, n)
    PROVE  n <= m
  <1>0. m \in Nat /\ n \in Nat
    OBVIOUS
  <1> SUFFICES ASSUME m < n PROVE FALSE
    BY <1>0
  <1>1. m + 1 \in 1..n /\ m \in 0..m /\ m <= n /\ (m + 1) - 1 = m
    BY <1>0
  <1>2. StopOf(a, m) = StopOf(b, m)
    BY <1>1, ChainsAgree DEF Whole
  <1>3. PICK s \in 0..N : Reaches(StopOf(a, m), s) /\ Concludes(g, s, e)
    BY DEF Whole, Concluded
  <1>4. /\ b[m + 1][1] \in Nat /\ StopOf(b, m) \in Nat
        /\ Reaches(StopOf(b, m), b[m + 1][1])
        /\ ParsedTo(g, b[m + 1][1], b[m + 1][2]) /\ Ends(b[m + 1][2])
    <2>1. /\ b[m + 1][1] \in Nat /\ StopOf(b, (m + 1) - 1) \in Nat
          /\ Reaches(StopOf(b, (m + 1) - 1), b[m + 1][1])
          /\ ParsedTo(g, b[m + 1][1], b[m + 1][2]) /\ Ends(b[m + 1][2])
      BY <1>1, LinkOf
    <2> QED
      BY <1>1, <2>1
  <1>5. s = b[m + 1][1]
    BY <1>2, <1>3, <1>4, ReachesOne
  <1> QED
    BY <1>3, <1>4, <1>5, ParsedOrConcluded

(* There is one whole chain and it has one conclusion.                     *)
LEMMA WholeOne ==
    ASSUME NEW g, N \in Nat,
           NEW a \in Seq(Nat \X Nat), NEW m \in 0..Len(a), NEW e, Whole(g, a, m, e),
           NEW b \in Seq(Nat \X Nat), NEW n \in 0..Len(b), NEW f, Whole(g, b, n, f)
    PROVE  m = n /\ e = f
  <1>1. m <= n /\ n <= m
    BY ChainStops DEF Whole
  <1>2. m = n /\ m \in 0..m /\ m \in Nat
    BY <1>1
  <1>3. StopOf(a, m) = StopOf(b, m) /\ StopOf(a, m) \in Nat
    BY <1>2, ChainsAgree, StopPlace DEF Whole
  <1>4. PICK s \in 0..N : Reaches(StopOf(a, m), s) /\ Concludes(g, s, e)
    BY DEF Whole, Concluded
  <1>5. PICK t \in 0..N : Reaches(StopOf(b, n), t) /\ Concludes(g, t, f)
    BY DEF Whole, Concluded
  <1>6. s = t
    BY <1>2, <1>3, <1>4, <1>5, ReachesOne
  <1> QED
    BY <1>2, <1>4, <1>5, <1>6, ConcludesOne

(* A first error is the absence of one only where there is none.           *)
LEMMA FirstErrors ==
    ASSUME NEW es \in Seq(Error)
    PROVE  /\ es = <<>> <=> FirstOf(es) = None
           /\ es # <<>> => FirstOf(es) = es[1] /\ Head(es) = es[1] /\ Len(es) >= 1
  <1>1. ASSUME es # <<>> PROVE es[1] \in Error /\ Head(es) = es[1] /\ Len(es) >= 1
    BY <1>1
  <1>2. None \notin Error
    BY NoneAssumption
  <1> QED
    BY <1>1, <1>2 DEF FirstOf

(* A sequence of at most one error.                                        *)
LEMMA OneError ==
    ASSUME NEW es \in Seq(Error), es # <<>>, Len(es) <= 1
    PROVE  es = <<es[1]>>
  <1>a. Len(es) \in Nat /\ Len(es) # 0
    OBVIOUS
  <1>b. Len(es) = 1
    BY <1>a
  <1>1. Len(es) = 1 /\ es[1] \in Error
    BY <1>b
  <1>2. <<es[1]>> \in Seq(Error) /\ Len(<<es[1]>>) = 1 /\ <<es[1]>>[1] = es[1]
    BY <1>1
  <1> DEFINE q == <<es[1]>>
  <1>3. q \in Seq(Error) /\ Len(q) = Len(es) /\ \A i \in 1..Len(es) : es[i] = q[i]
    BY <1>1, <1>2
  <1> HIDE DEF q
  <1>4. es = q
    BY <1>3
  <1> QED
    BY <1>4 DEF q

(* What parse returned, beside what recovery did.                          *)
LEMMA ParseAgrees ==
    ASSUME N \in Nat, NEW g, NEW r \in Outcome, NEW p \in Outcome,
           Story(g, "recover", r.statements, r.errors),
           Story(g, "parse", p.statements, p.errors)
    PROVE  IF r.errors = <<>> THEN p = r
           ELSE p.statements = <<>> /\ p.errors = <<Head(r.errors)>>
  <1>0. /\ r.statements \in Seq(Nat \X Nat) /\ r.errors \in Seq(Error)
        /\ p.statements \in Seq(Nat \X Nat) /\ p.errors \in Seq(Error)
        /\ r = [statements |-> r.statements, errors |-> r.errors]
        /\ p = [statements |-> p.statements, errors |-> p.errors]
    BY DEF Outcome
  <1>1. PICK n \in 0..Len(r.statements) :
           /\ Whole(g, r.statements, n, FirstOf(r.errors))
           /\ r.errors = <<>> => n = Len(r.statements)
    BY DEF Story
  <1>2. PICK clean \in Seq(Nat \X Nat) :
           /\ Whole(g, clean, Len(clean), FirstOf(p.errors))
           /\ p.statements = IF p.errors = <<>> THEN clean ELSE <<>>
    BY Zenon DEF Story
  <1>3. Len(p.errors) <= 1
    BY Zenon DEF Story
  <1>4. Len(clean) \in 0..Len(clean)
    OBVIOUS
  <1>5. n = Len(clean) /\ FirstOf(r.errors) = FirstOf(p.errors)
    <2>1. Whole(g, clean, Len(clean), FirstOf(p.errors))
      BY <1>2
    <2>2. Whole(g, r.statements, n, FirstOf(r.errors))
      BY <1>1
    <2>3. r.statements \in Seq(Nat \X Nat)
      BY <1>0
    <2> QED
      BY <1>4, <2>1, <2>2, <2>3, WholeOne, Zenon
  <1>6. CASE r.errors = <<>>
    <2>1. p.errors = <<>>
      BY <1>0, <1>5, <1>6, FirstErrors
    <2>2. p.statements = clean /\ Len(r.statements) = Len(clean)
      BY <1>1, <1>2, <1>5, <1>6, <2>1
    <2>3. \A i \in 0..n : i <= Len(clean) => (i # 0 => r.statements[i] = clean[i])
      BY <1>0, <1>1, <1>2, <1>4, ChainsAgree DEF Whole
    <2>4. \A i \in 1..Len(clean) : r.statements[i] = clean[i]
      <3>1. ASSUME NEW i \in 1..Len(clean) PROVE i \in 0..n /\ i <= Len(clean) /\ i # 0
        BY <1>5
      <3> QED
        BY <2>3, <3>1
    <2>5. r.statements = clean
      <3> DEFINE P == Nat \X Nat
                 q == r.statements
      <3>1. clean \in Seq(P) /\ q \in Seq(P)
        BY <1>0
      <3>2. Len(q) = Len(clean) /\ \A i \in 1..Len(clean) : q[i] = clean[i]
        BY <2>2, <2>4
      <3> HIDE DEF P, q
      <3>3. q = clean
        BY <3>1, <3>2
      <3> QED
        BY <3>3 DEF q
    <2> QED
      BY <1>0, <1>6, <2>1, <2>2, <2>5
  <1>7. CASE r.errors # <<>>
    <2>1. p.errors # <<>> /\ p.errors[1] = Head(r.errors)
      BY <1>0, <1>5, <1>7, FirstErrors
    <2>2. p.errors = <<p.errors[1]>>
      BY <1>0, <1>3, <2>1, OneError
    <2> QED
      BY <1>2, <1>7, <2>1, <2>2
  <1> QED
    BY <1>6, <1>7

(* A sequence that is another as far as it goes is its prefix.             *)
LEMMA PrefixOf ==
    ASSUME NEW S, NEW a \in Seq(S), NEW b \in Seq(S), Len(a) <= Len(b),
           \A i \in 1..Len(a) : a[i] = b[i]
    PROVE  IsPrefix(a, b)
  <1>1. SubSeq(a, 1, Len(a)) = SubSeq(b, 1, Len(a))
    OBVIOUS
  <1> QED
    BY <1>1 DEF IsPrefix

(* What the iterator has yielded, beside what recovery returned.           *)
LEMMA IterateAgrees ==
    ASSUME N \in Nat, NEW g, NEW r \in Outcome, NEW i \in Outcome,
           Story(g, "recover", r.statements, r.errors),
           Story(g, "iterate", i.statements, i.errors)
    PROVE  /\ IsPrefix(i.statements, r.statements)
           /\ i.errors \in {<<>>} \cup {<<Head(r.errors)>> : e \in Range(r.errors)}
  <1>0. /\ r.statements \in Seq(Nat \X Nat) /\ r.errors \in Seq(Error)
        /\ i.statements \in Seq(Nat \X Nat) /\ i.errors \in Seq(Error)
    BY DEF Outcome
  <1>1. PICK n \in 0..Len(r.statements) : Whole(g, r.statements, n, FirstOf(r.errors))
    BY DEF Story
  <1> DEFINE k == Len(i.statements)
  <1>2. /\ ChainTo(g, i.statements, k)
        /\ i.errors # <<>> => Concluded(g, i.statements, k, i.errors[1])
        /\ Len(i.errors) <= 1
    BY Zenon DEF Story
  <1>3. k \in Nat /\ k \in 0..k /\ n \in Nat /\ Len(r.statements) \in Nat /\ n <= Len(r.statements)
    BY <1>0
  <1>4. k <= n
    BY <1>0, <1>1, <1>2, <1>3, ChainStops
  <1>5. \A j \in 0..k : j <= n => (j # 0 => i.statements[j] = r.statements[j])
    BY <1>0, <1>1, <1>2, <1>3, ChainsAgree DEF Whole
  <1>6. \A j \in 1..k : i.statements[j] = r.statements[j]
    <2>1. ASSUME NEW j \in 1..k PROVE j \in 0..k /\ j <= n /\ j # 0
      BY <1>3, <1>4
    <2> QED
      BY <1>5, <2>1
  <1>7. IsPrefix(i.statements, r.statements)
    <2>1. k <= Len(r.statements)
      BY <1>3, <1>4
    <2> QED
      BY <1>0, <1>6, <2>1, PrefixOf
  <1>8. ASSUME i.errors # <<>>
        PROVE  i.errors \in {<<Head(r.errors)>> : e \in Range(r.errors)}
    <2>1. Whole(g, i.statements, k, i.errors[1])
      BY <1>2, <1>8 DEF Whole
    <2>2. FirstOf(r.errors) = i.errors[1]
      BY <1>0, <1>1, <1>3, <2>1, WholeOne
    <2>3. i.errors[1] # None
      BY <1>0, <1>8, FirstErrors
    <2>4. r.errors # <<>> /\ Head(r.errors) = i.errors[1] /\ Len(r.errors) >= 1
      BY <1>0, <2>2, <2>3, FirstErrors
    <2>5. i.errors = <<i.errors[1]>>
      BY <1>0, <1>2, <1>8, OneError
    <2>6. r.errors[1] \in Range(r.errors)
      BY <1>0, <2>4 DEF Range
    <2> QED
      BY <2>4, <2>5, <2>6
  <1> QED
    BY <1>7, <1>8

(* The stories agree.                                                      *)
LEMMA StoriesAgree == IInv /\ StoriesInv => ModesAgree
  <1> SUFFICES ASSUME IInv, StoriesInv, outcome["recover"] # None
               PROVE  /\ outcome["parse"] # None =>
                            IF outcome["recover"].errors = <<>>
                            THEN outcome["parse"] = outcome["recover"]
                            ELSE /\ outcome["parse"].statements = <<>>
                                 /\ outcome["parse"].errors = <<Head(outcome["recover"].errors)>>
                      /\ outcome["iterate"] # None =>
                            /\ IsPrefix(outcome["iterate"].statements, outcome["recover"].statements)
                            /\ outcome["iterate"].errors
                                 \in {<<>>} \cup {<<Head(outcome["recover"].errors)>> :
                                                    e \in Range(outcome["recover"].errors)}
    BY Zenon DEF ModesAgree
  <1>0. N \in Nat /\ outcome \in [Modes -> Outcome \cup {None}]
    BY ScriptLength DEF IInv, TypeOK
  <1>1. \A m \in Modes : outcome[m] # None =>
           outcome[m] \in Outcome /\ Story(grammar, m, outcome[m].statements, outcome[m].errors)
    BY <1>0 DEF StoriesInv
  <1>2. "recover" \in Modes /\ "parse" \in Modes /\ "iterate" \in Modes
    BY DEF Modes
  <1>3. /\ outcome["recover"] \in Outcome
        /\ Story(grammar, "recover", outcome["recover"].statements, outcome["recover"].errors)
    BY <1>1, <1>2
  <1>4. ASSUME outcome["parse"] # None
        PROVE  IF outcome["recover"].errors = <<>>
               THEN outcome["parse"] = outcome["recover"]
               ELSE /\ outcome["parse"].statements = <<>>
                    /\ outcome["parse"].errors = <<Head(outcome["recover"].errors)>>
    <2>1. /\ outcome["parse"] \in Outcome
          /\ Story(grammar, "parse", outcome["parse"].statements, outcome["parse"].errors)
      BY <1>1, <1>2, <1>4
    <2> QED
      BY <1>0, <1>3, <2>1, ParseAgrees
  <1>5. ASSUME outcome["iterate"] # None
        PROVE  /\ IsPrefix(outcome["iterate"].statements, outcome["recover"].statements)
               /\ outcome["iterate"].errors
                    \in {<<>>} \cup {<<Head(outcome["recover"].errors)>> :
                                       e \in Range(outcome["recover"].errors)}
    <2>1. /\ outcome["iterate"] \in Outcome
          /\ Story(grammar, "iterate", outcome["iterate"].statements, outcome["iterate"].errors)
      BY <1>1, <1>2, <1>5
    <2> QED
      BY <1>0, <1>3, <2>1, IterateAgrees, Zenon
  <1> QED
    BY <1>4, <1>5, Zenon

(* A step that leaves the script alone leaves alone what a story is.       *)
LEMMA SameStories ==
    ASSUME script' = script,
           mode' # None =>
              Running(grammar', mode', phase', pos', start', done', statements', errors'),
           \A m \in Modes : outcome'[m] # None =>
              Story(grammar', m, outcome'[m].statements, outcome'[m].errors)
    PROVE  StoriesInv'
  <1>1. /\ N' = N /\ \A p : Peek(p)' = Peek(p)
        /\ \A p : ErrorAt(p)' = ErrorAt(p)
    BY SameScript
  <1>2. \A c : Cuts(c)' = Cuts(c)
    BY <1>1, Zenon DEF Cuts
  <1>3. \A c, s : Skipped(c, s)' = Skipped(c, s)
    BY <1>2, Zenon DEF Skipped
  <1>4. \A c, s : Reaches(c, s)' = Reaches(c, s)
    BY <1>2, <1>3, Zenon DEF Reaches
  <1>5. \A t : Ends(t)' = Ends(t)
    BY <1>1, <1>2, Zenon DEF Ends
  <1>6. \A g, s, t : ParsedTo(g, s, t)' = ParsedTo(g, s, t)
    BY <1>1, Zenon DEF ParsedTo
  <1>7. \A g, st, n : ChainTo(g, st, n)' = ChainTo(g, st, n)
    BY <1>4, <1>5, <1>6, Zenon DEF ChainTo, StopOf
  <1>8. ASSUME NEW CONSTANT g, NEW CONSTANT s, NEW CONSTANT e, Concludes(g, s, e)
        PROVE  Concludes(g, s, e)'
    BY <1>1, <1>5, <1>6, <1>8 DEF Concludes
  <1>9. \A g, st, n, e : Concluded(g, st, n, e) => Concluded(g, st, n, e)'
    BY <1>1, <1>4, <1>8, Zenon DEF Concluded, StopOf
  <1>10. \A g, st, n, e : Whole(g, st, n, e) => Whole(g, st, n, e)'
    BY <1>7, <1>9, Zenon DEF Whole
  <1>11. ASSUME NEW CONSTANT g, NEW CONSTANT m, NEW CONSTANT st, NEW CONSTANT es,
                Story(g, m, st, es)
         PROVE  Story(g, m, st, es)'
    BY <1>7, <1>9, <1>10, <1>11, Zenon DEF Story, FirstOf
  <1>12. ASSUME NEW CONSTANT g, NEW CONSTANT m, NEW CONSTANT ph, NEW CONSTANT c, NEW CONSTANT s,
                NEW CONSTANT d, NEW CONSTANT st, NEW CONSTANT es,
                Running(g, m, ph, c, s, d, st, es)
         PROVE  Running(g, m, ph, c, s, d, st, es)'
    BY <1>3, <1>4, <1>6, <1>7, <1>11, <1>12, Zenon DEF Running, StopOf
  <1> QED
    BY <1>11, <1>12, Zenon DEF StoriesInv

(* A grammar that keeps every verdict keeps every story.                   *)
LEMMA StoriesKept ==
    ASSUME NEW g, NEW h, \A p \in 0..N : g[p] # None => h[p] = g[p]
    PROVE  /\ \A st, n : ChainTo(g, st, n) => ChainTo(h, st, n)
           /\ \A st, n, e : Concluded(g, st, n, e) => Concluded(h, st, n, e)
           /\ \A m, st, es : Story(g, m, st, es) => Story(h, m, st, es)
  <1>1. \A s, t : ParsedTo(g, s, t) => ParsedTo(h, s, t)
    BY Zenon DEF ParsedTo
  <1>2. \A st, n : ChainTo(g, st, n) => ChainTo(h, st, n)
    BY <1>1, Zenon DEF ChainTo
  <1>3. ASSUME NEW s \in 0..N, NEW e, Concludes(g, s, e) PROVE Concludes(h, s, e)
    BY <1>1, <1>3, Zenon DEF Concludes
  <1>4. \A st, n, e : Concluded(g, st, n, e) => Concluded(h, st, n, e)
    BY <1>3, Zenon DEF Concluded
  <1>5. \A st, n, e : Whole(g, st, n, e) => Whole(h, st, n, e)
    BY <1>2, <1>4, Zenon DEF Whole
  <1>6. ASSUME NEW m, NEW st, NEW es, Story(g, m, st, es) PROVE Story(h, m, st, es)
    BY <1>2, <1>4, <1>5, <1>6, Zenon DEF Story
  <1> QED
    BY <1>2, <1>4, <1>6

(* More errors change nothing of what recovery found up to the first, and  *)
(* nor do the statements it finds beyond.                                  *)
LEMMA RecoveryContinues ==
    ASSUME NEW g, NEW st \in Seq(Nat \X Nat), NEW es \in Seq(Error), es # <<>>,
           Story(g, "recover", st, es)
    PROVE  /\ \A e \in Error : Story(g, "recover", st, Append(es, e)) /\ Append(es, e) # <<>>
           /\ \A x \in Nat \X Nat : Story(g, "recover", Append(st, x), es)
  <1>1. PICK n \in 0..Len(st) : Whole(g, st, n, FirstOf(es))
    BY DEF Story
  <1>2. ASSUME NEW e \in Error PROVE Story(g, "recover", st, Append(es, e)) /\ Append(es, e) # <<>>
    <2>1. Append(es, e) # <<>> /\ Append(es, e)[1] = es[1]
      OBVIOUS
    <2>2. FirstOf(Append(es, e)) = FirstOf(es)
      BY <2>1 DEF FirstOf
    <2>3. Whole(g, st, n, FirstOf(Append(es, e)))
      BY <1>1, <2>2
    <2> QED
      BY <2>1, <2>3 DEF Story
  <1>3. ASSUME NEW x \in Nat \X Nat PROVE Story(g, "recover", Append(st, x), es)
    <2> DEFINE P == Nat \X Nat
               q == Append(st, x)
    <2>1. st \in Seq(P) /\ x \in P
      OBVIOUS
    <2> HIDE DEF P
    <2>2. Len(q) = Len(st) + 1 /\ Len(st) \in Nat /\ \A i \in 1..Len(st) : q[i] = st[i]
      BY <2>1
    <2> HIDE DEF q
    <2>3. \A i \in 1..n : q[i] = st[i]
      BY <2>2
    <2>4. \A i \in 0..n : StopOf(q, i) = StopOf(st, i)
      <3>1. ASSUME NEW i \in 0..n PROVE i = 0 \/ i \in 1..n
        OBVIOUS
      <3> QED
        BY <2>3, <3>1, Zenon DEF StopOf
    <2>5. ChainTo(g, q, n)
      <3>1. ASSUME NEW i \in 1..n PROVE i - 1 \in 0..n
        OBVIOUS
      <3>2. ChainTo(g, st, n)
        BY <1>1 DEF Whole
      <3> QED
        BY <2>3, <2>4, <3>1, <3>2, Zenon DEF ChainTo
    <2>6. n \in 0..n /\ n \in 0..Len(q)
      BY <2>2
    <2>7. Concluded(g, q, n, FirstOf(es))
      BY <1>1, <2>4, <2>6, Zenon DEF Whole, Concluded
    <2>8. Whole(g, q, n, FirstOf(es))
      BY <2>5, <2>7 DEF Whole
    <2>9. Story(g, "recover", q, es)
      BY <2>6, <2>8 DEF Story
    <2> QED
      BY <2>9 DEF q
  <1> QED
    BY <1>2, <1>3

(* parse_next_statement returns an error the chain concludes with, or one  *)
(* after the first.                                                        *)
LEMMA RunningFails ==
    ASSUME TypeOK, mode \in Modes, NEW g, NEW e \in Error, Fail(e), mode' = mode,
           errors = <<>> =>
              ChainTo(g, statements, Len(statements)) /\ Concluded(g, statements, Len(statements), e),
           errors # <<>> => mode = "recover" /\ Story(g, mode, statements, errors)
    PROVE  Running(g, mode', phase', pos', start', done', statements', errors')
  <1>0. statements \in Seq(Nat \X Nat) /\ errors \in Seq(Error)
    BY DEF TypeOK
  <1>1. /\ errors' = Append(errors, e)
        /\ mode = "iterate" => phase' = "idle"
        /\ mode = "parse" => phase' = "returned"
        /\ statements' = IF mode = "parse" THEN <<>> ELSE statements
    BY DEF Fail
  <1>2. errors' # <<>> /\ errors' \in Seq(Error)
    BY <1>0, <1>1
  <1>3. Story(g, mode, statements', errors')
    <2>1. CASE errors # <<>>
      BY <1>0, <1>1, <2>1, RecoveryContinues
    <2>2. CASE errors = <<>>
      <3>1. Len(errors') = 1 /\ errors'[1] = e /\ FirstOf(errors') = e
        BY <1>0, <1>1, <1>2, <2>2 DEF FirstOf
      <3>2. Whole(g, statements, Len(statements), e)
        BY <2>2 DEF Whole
      <3>3. Len(statements) \in 0..Len(statements)
        BY <1>0
      <3>4. CASE mode = "parse"
        BY <1>0, <1>1, <1>2, <3>1, <3>2, <3>4 DEF Story
      <3>5. CASE mode = "iterate"
        BY <1>1, <2>2, <3>1, <3>5 DEF Story
      <3>6. CASE mode = "recover"
        BY <1>1, <1>2, <3>1, <3>2, <3>3, <3>6 DEF Story
      <3> QED
        BY <3>4, <3>5, <3>6 DEF Modes
    <2> QED
      BY <2>1, <2>2
  <1>4. mode = "recover" \/ phase' \in {"idle", "returned"}
    BY <1>1 DEF Modes
  <1> QED
    BY <1>2, <1>3, <1>4 DEF Running

(* The loop between statements walks the chain.                            *)
LEMMA RunningSeparators ==
    ASSUME IInv, mode \in Modes,
           Running(grammar, mode, phase, pos, start, done, statements, errors),
           SkipSeparator \/ SeparatorFault \/ EndOfScript
    PROVE  Running(grammar', mode', phase', pos', start', done', statements', errors')
  <1>0. /\ TypeOK /\ N \in Nat /\ pos \in 0..N /\ statements \in Seq(Nat \X Nat)
        /\ errors \in Seq(Error) /\ Len(statements) \in 0..Len(statements)
    BY ScriptLength DEF IInv, TypeOK
  <1>1. phase = "separators" /\ grammar' = grammar /\ mode' = mode
    BY Zenon DEF SkipSeparator, SeparatorFault, EndOfScript, sourceVars
  <1> DEFINE c == StopOf(statements, Len(statements))
  <1>2. c \in Nat
    BY <1>0, StopPlace
  <1>3. /\ errors = <<>> => ChainTo(grammar, statements, Len(statements)) /\ Skipped(c, pos)
        /\ errors # <<>> => mode = "recover" /\ Story(grammar, mode, statements, errors)
    BY <1>1 DEF Running
  <1> HIDE DEF c
  <1>4. ASSUME ~Cuts(pos), errors = <<>> PROVE Reaches(c, pos)
    BY <1>3, <1>4 DEF Reaches
  <1>5. CASE SkipSeparator
    <2>1. /\ Cuts(pos) /\ pos' = pos + 1 /\ phase' = "separators"
          /\ statements' = statements /\ errors' = errors
      BY <1>1, <1>5, Zenon DEF SkipSeparator, Cuts, resultVars
    <2>2. ASSUME Skipped(c, pos) PROVE Skipped(c, pos + 1)
      <3>1. c <= pos /\ \A j \in c..(pos - 1) : Cuts(j)
        BY <2>2 DEF Skipped
      <3>2. c <= pos + 1 /\ \A j \in c..((pos + 1) - 1) : j \in c..(pos - 1) \/ j = pos
        BY <1>0, <1>2, <3>1
      <3> QED
        BY <2>1, <3>1, <3>2 DEF Skipped
    <2> QED
      BY <1>1, <1>3, <2>1, <2>2, Zenon DEF Running, c
  <1>6. CASE SeparatorFault
    <2>1. Peek(pos) = "fault" /\ ~Cuts(pos) /\ Fail(ErrorAt(pos))
      BY <1>6, Zenon DEF SeparatorFault, Cuts
    <2>2. ErrorAt(pos) \in Error
      BY <1>0, ErrorPlace
    <2>3. Concludes(grammar, pos, ErrorAt(pos))
      BY <2>1 DEF Concludes
    <2>4. errors = <<>> => Concluded(grammar, statements, Len(statements), ErrorAt(pos))
      BY <1>0, <1>4, <2>1, <2>3 DEF Concluded, c
    <2> QED
      BY <1>0, <1>1, <1>3, <2>1, <2>2, <2>4, RunningFails
  <1>7. CASE EndOfScript
    <2>1. /\ Peek(pos) = "eof" /\ ~Cuts(pos) /\ statements' = statements /\ errors' = errors
          /\ mode = "iterate" => phase' = "idle" /\ done'
          /\ mode # "iterate" => phase' = "returned"
      BY <1>7, Zenon DEF EndOfScript, Cuts, resultVars
    <2>2. Concludes(grammar, pos, None)
      BY <2>1 DEF Concludes
    <2>3. ASSUME errors = <<>> PROVE Whole(grammar, statements, Len(statements), None)
      <3>1. Concluded(grammar, statements, Len(statements), None)
        BY <1>0, <1>4, <2>1, <2>2, <2>3 DEF Concluded, c
      <3> QED
        BY <1>3, <2>3, <3>1 DEF Whole
    <2>4. ASSUME errors = <<>> PROVE Story(grammar, mode, statements, errors)
      <3>1. FirstOf(errors) = None /\ Len(errors) <= 1
        BY <2>4 DEF FirstOf
      <3>2. CASE mode = "parse"
        BY <1>0, <2>3, <2>4, <3>1, <3>2 DEF Story
      <3>3. CASE mode = "iterate"
        BY <1>3, <2>4, <3>1, <3>3 DEF Story
      <3>4. CASE mode = "recover"
        BY <1>0, <2>3, <2>4, <3>1, <3>4 DEF Story
      <3> QED
        BY <3>2, <3>3, <3>4 DEF Modes
    <2>5. Story(grammar, mode, statements, errors)
      BY <1>3, <2>4
    <2>6. phase' \in {"idle", "returned"} /\ (phase' = "idle" => done')
      BY <2>1
    <2> QED
      BY <1>1, <1>3, <2>1, <2>5, <2>6 DEF Running
  <1> QED
    BY <1>5, <1>6, <1>7

(* parse_statement runs at the next place of the chain.                    *)
LEMMA RunningParse ==
    ASSUME IInv, mode \in Modes,
           Running(grammar, mode, phase, pos, start, done, statements, errors),
           ParseStatement,
           \A p \in 0..N : grammar[p] # None => grammar'[p] = grammar[p]
    PROVE  Running(grammar', mode', phase', pos', start', done', statements', errors')
  <1>0. /\ TypeOK /\ N \in Nat /\ pos \in 0..N /\ statements \in Seq(Nat \X Nat)
        /\ errors \in Seq(Error) /\ DOMAIN grammar = 0..N
    BY ScriptLength DEF IInv, TypeOK
  <1>1. phase = "separators" /\ Peek(pos) = "token" /\ start' = pos /\ mode' = mode
    BY DEF ParseStatement
  <1> DEFINE c == StopOf(statements, Len(statements))
  <1>2. /\ errors = <<>> => ChainTo(grammar, statements, Len(statements)) /\ Skipped(c, pos)
        /\ errors # <<>> => mode = "recover" /\ Story(grammar, mode, statements, errors)
    BY <1>1 DEF Running
  <1>3. PICK v \in Verdict(pos) :
           /\ grammar' = [grammar EXCEPT ![pos] = v]
           /\ pos' = v.stop
           /\ IF v.error = None
              THEN phase' = "follow" /\ UNCHANGED <<resultVars, done>>
              ELSE Fail(v.error)
    BY DEF ParseStatement
  <1>4. grammar'[pos] = v /\ v # None /\ v.stop \in 0..N
    <2>1. v.stop \in pos..N
      BY <1>0, Verdicts
    <2>2. v.stop \in 0..N
      BY <1>0, <2>1
    <2>3. grammar'[pos] = v
      BY <1>0, <1>3
    <2> QED
      BY <1>0, <2>2, <2>3, VerdictPresent
  <1>5. /\ errors = <<>> => ChainTo(grammar', statements, Len(statements))
        /\ errors # <<>> => mode = "recover" /\ Story(grammar', mode, statements, errors)
    BY <1>2, StoriesKept
  <1>6. errors = <<>> => Reaches(c, pos)
    <2>1. ~Cuts(pos)
      BY <1>1, Zenon DEF Cuts
    <2> QED
      BY <1>2, <2>1 DEF Reaches
  <1>7. CASE v.error = None
    <2>1. phase' = "follow" /\ statements' = statements /\ errors' = errors
      BY <1>3, <1>7 DEF resultVars
    <2>2. ParsedTo(grammar', pos, pos')
      BY <1>0, <1>1, <1>3, <1>4, <1>7 DEF ParsedTo
    <2> QED
      BY <1>1, <1>5, <1>6, <2>1, <2>2 DEF Running
  <1>8. CASE v.error # None
    <2>1. Fail(v.error) /\ v.error \in Error
      BY <1>0, <1>3, <1>8, Verdicts
    <2>2. Concludes(grammar', pos, v.error)
      BY <1>1, <1>4, <1>8 DEF Concludes
    <2>3. errors = <<>> => Concluded(grammar', statements, Len(statements), v.error)
      BY <1>0, <1>6, <2>2 DEF Concluded
    <2> QED
      BY <1>0, <1>1, <1>5, <2>1, <2>3, RunningFails
  <1> QED
    BY <1>7, <1>8

(* A statement delivered is one more of the chain; one that ends nowhere   *)
(* concludes it.                                                           *)
LEMMA RunningFollow ==
    ASSUME IInv, mode \in Modes,
           Running(grammar, mode, phase, pos, start, done, statements, errors),
           Deliver \/ Trailing
    PROVE  Running(grammar', mode', phase', pos', start', done', statements', errors')
  <1>0. /\ TypeOK /\ N \in Nat /\ pos \in 0..N /\ start \in 0..N
        /\ statements \in Seq(Nat \X Nat)
        /\ errors \in Seq(Error) /\ Len(statements) \in Nat
    BY ScriptLength DEF IInv, TypeOK
  <1>1. phase = "follow" /\ grammar' = grammar /\ mode' = mode /\ pos' = pos
    BY Zenon DEF Deliver, Trailing, sourceVars
  <1> DEFINE c == StopOf(statements, Len(statements))
  <1>2. /\ errors = <<>> =>
              /\ ChainTo(grammar, statements, Len(statements))
              /\ Reaches(c, start) /\ ParsedTo(grammar, start, pos)
        /\ errors # <<>> => mode = "recover" /\ Story(grammar, mode, statements, errors)
    BY <1>1 DEF Running
  <1> HIDE DEF c
  <1>3. CASE Deliver
    <2>1. /\ Ends(pos) /\ statements' = Append(statements, <<start, pos>>) /\ errors' = errors
          /\ phase' \in {"idle", "separators"}
      BY <1>3, Zenon DEF Deliver, StatementEnds, Ends, Cuts
    <2>2. <<start, pos>> \in Nat \X Nat
      BY <1>0
    <2>3. ASSUME errors # <<>> PROVE Story(grammar, mode, statements', errors)
      BY <1>0, <1>2, <2>1, <2>2, <2>3, RecoveryContinues
    <2>4. ASSUME errors = <<>>
          PROVE  /\ ChainTo(grammar, statements', Len(statements'))
                 /\ StopOf(statements', Len(statements')) = pos
      <3> DEFINE q == statements'
                 k == Len(statements)
                 P == Nat \X Nat
      <3>1. /\ k \in Nat /\ Len(q) = k + 1 /\ q[k + 1] = <<start, pos>>
            /\ \A i \in 1..k : q[i] = statements[i]
        <4>1. statements \in Seq(P) /\ <<start, pos>> \in P
          BY <1>0, <2>2
        <4> HIDE DEF P
        <4> QED
          BY <2>1, <4>1
      <3>a. q[k + 1][1] = start /\ q[k + 1][2] = pos
        BY <3>1
      <3>2. ChainTo(grammar, statements, k) /\ Reaches(StopOf(statements, k), start)
            /\ ParsedTo(grammar, start, pos)
        BY <1>2, <2>4 DEF c
      <3> HIDE DEF q, k
      <3>3. \A i \in 0..k : StopOf(q, i) = StopOf(statements, i)
        <4>1. ASSUME NEW i \in 0..k PROVE i = 0 \/ i \in 1..k
          BY <3>1
        <4> QED
          BY <3>1, <4>1, Zenon DEF StopOf
      <3>4. ASSUME NEW i \in 1..(k + 1)
            PROVE  /\ Reaches(StopOf(q, i - 1), q[i][1])
                   /\ ParsedTo(grammar, q[i][1], q[i][2])
                   /\ Ends(q[i][2])
        <4>1. CASE i = k + 1
          <5>1. i - 1 = k /\ k \in 0..k
            BY <3>1, <4>1
          <5> QED
            BY <2>1, <3>a, <3>2, <3>3, <4>1, <5>1
        <4>2. CASE i # k + 1
          <5>1. i \in 1..k /\ i - 1 \in 0..k
            BY <3>1, <4>2
          <5> QED
            BY <3>1, <3>2, <3>3, <5>1, Zenon DEF ChainTo
        <4> QED
          BY <4>1, <4>2
      <3>5. ChainTo(grammar, q, Len(q))
        BY <3>1, <3>4 DEF ChainTo
      <3>6. StopOf(q, Len(q)) = pos
        <4>1. k + 1 # 0
          BY <3>1
        <4> QED
          BY <3>1, <3>a, <4>1 DEF StopOf
      <3> QED
        BY <3>5, <3>6 DEF q
    <2>5. Skipped(pos, pos)
      <3>1. pos <= pos /\ pos..(pos - 1) = {}
        BY <1>0
      <3> QED
        BY <3>1 DEF Skipped
    <2> QED
      BY <1>1, <1>2, <2>1, <2>3, <2>4, <2>5, Zenon DEF Running
  <1>4. CASE Trailing
    <2>1. ~Ends(pos) /\ Fail(ErrorAt(pos))
      BY <1>4, Zenon DEF Trailing, StatementEnds, Ends, Cuts
    <2>2. ErrorAt(pos) \in Error
      BY <1>0, ErrorPlace
    <2>3. errors = <<>> => Concludes(grammar, start, ErrorAt(pos))
      BY <1>0, <1>2, <2>1 DEF Concludes
    <2>4. errors = <<>> => Concluded(grammar, statements, Len(statements), ErrorAt(pos))
      BY <1>0, <1>2, <2>3 DEF Concluded, c
    <2> QED
      BY <1>0, <1>1, <1>2, <2>1, <2>2, <2>4, RunningFails
  <1> QED
    BY <1>3, <1>4

(* Resynchronizing comes after the first error.                            *)
LEMMA RunningResync ==
    ASSUME IInv, mode \in Modes,
           Running(grammar, mode, phase, pos, start, done, statements, errors),
           ResyncSkip \/ ResyncEnd \/ ResyncFault
    PROVE  Running(grammar', mode', phase', pos', start', done', statements', errors')
  <1>0. /\ TypeOK /\ N \in Nat /\ pos \in 0..N /\ statements \in Seq(Nat \X Nat)
        /\ errors \in Seq(Error)
    BY ScriptLength DEF IInv, TypeOK
  <1>1. /\ phase = "resync" /\ grammar' = grammar /\ mode' = mode /\ statements' = statements
    BY Zenon DEF ResyncSkip, ResyncEnd, ResyncFault, sourceVars, resultVars
  <1>2. mode = "recover" /\ errors # <<>> /\ Story(grammar, mode, statements, errors)
    BY <1>1 DEF Running, IInv, Progress, ModePhase
  <1>3. \/ errors' = errors
        \/ errors' = Append(errors, ErrorAt(pos))
    <2>1. CASE ResyncSkip \/ ResyncEnd
      BY <2>1, Zenon DEF ResyncSkip, ResyncEnd, resultVars
    <2>2. CASE ResyncFault
      BY <2>2, Zenon DEF ResyncFault, RecordOnce
    <2> QED
      BY <2>1, <2>2
  <1>4. ErrorAt(pos) \in Error
    BY <1>0, ErrorPlace
  <1>5. Story(grammar, "recover", statements, errors') /\ errors' # <<>>
    BY <1>0, <1>2, <1>3, <1>4, RecoveryContinues
  <1> QED
    BY <1>1, <1>2, <1>5 DEF Running

(* An entry point begins at the start of the chain.                        *)
LEMMA RunningBegins ==
    ASSUME IInv, NEW m \in Modes, Begin(m)
    PROVE  Running(grammar', mode', phase', pos', start', done', statements', errors')
  <1>1. /\ mode' = m /\ statements' = <<>> /\ errors' = <<>> /\ pos' = 0
        /\ phase' \in {"idle", "separators"}
    BY DEF Begin
  <1>2. Len(<<>>) = 0 /\ 1..0 = {} /\ 0 <= 0 /\ 0..(0 - 1) = {}
    OBVIOUS
  <1>3. ChainTo(grammar', <<>>, 0) /\ Skipped(StopOf(<<>>, 0), 0)
    BY <1>2, Zenon DEF ChainTo, Skipped, StopOf
  <1>4. phase' # "follow" /\ phase' # "returned" /\ phase' # "resync"
    BY <1>1
  <1> QED
    BY <1>1, <1>2, <1>3, <1>4, Zenon DEF Running

(* What an entry point returns, or the iterator has yielded when the       *)
(* client drops it, is its story.                                          *)
LEMMA StoryReturned ==
    ASSUME IInv, mode \in Modes,
           Running(grammar, mode, phase, pos, start, done, statements, errors),
           phase = "returned" \/ mode = "iterate"
    PROVE  phase \in {"idle", "returned"} => Story(grammar, mode, statements, errors)
  <1>1. CASE errors # <<>>
    BY <1>1 DEF Running
  <1>2. CASE errors = <<>> /\ phase = "returned"
    BY <1>2 DEF Running
  <1>3. CASE errors = <<>> /\ mode = "iterate"
    <2>1. ChainTo(grammar, statements, Len(statements)) /\ Len(errors) <= 1
      BY <1>3 DEF Running
    <2> QED
      BY <1>3, <2>1 DEF Story
  <1> QED
    BY <1>1, <1>2, <1>3

(* Every step keeps the stories.                                           *)
LEMMA StoriesStep == IInv /\ StoriesInv /\ [Next]_vars => StoriesInv'
  <1>1. IInv /\ [Next]_vars => script' = script
    BY VerdictsKept
  <1> SUFFICES ASSUME IInv, StoriesInv, [Next]_vars
               PROVE  /\ mode' # None => Running(grammar', mode', phase', pos', start', done',
                                                 statements', errors')
                      /\ \A m \in Modes : outcome'[m] # None =>
                            Story(grammar', m, outcome'[m].statements, outcome'[m].errors)
    BY <1>1, SameStories, Zenon
  <1>2. \A p \in 0..N : grammar[p] # None => grammar'[p] = grammar[p]
    BY VerdictsKept
  <1>3. \A m \in Modes : outcome[m] # None =>
           Story(grammar', m, outcome[m].statements, outcome[m].errors)
    BY <1>2, StoriesKept, Zenon DEF StoriesInv
  <1>4. mode # None =>
           mode \in Modes /\ Running(grammar, mode, phase, pos, start, done, statements, errors)
    BY DEF StoriesInv, IInv, TypeOK
  <1>5. CASE Return
    <2>1. /\ mode \in Modes /\ mode' = None /\ grammar' = grammar
          /\ outcome' = [outcome EXCEPT ![mode] = [statements |-> statements, errors |-> errors]]
          /\ phase \in {"idle", "returned"} /\ (phase = "returned" \/ mode = "iterate")
      BY <1>4, <1>5 DEF Return, sourceVars
    <2>2. Story(grammar, mode, statements, errors)
      BY <1>4, <2>1, StoryReturned, NoneAssumption
    <2>3. DOMAIN outcome = Modes
      BY DEF IInv, TypeOK
    <2>4. /\ outcome'[mode].statements = statements /\ outcome'[mode].errors = errors
          /\ \A m \in Modes : m # mode => outcome'[m] = outcome[m]
      BY <2>1, <2>3
    <2>5. ASSUME NEW m \in Modes, outcome'[m] # None
          PROVE  Story(grammar', m, outcome'[m].statements, outcome'[m].errors)
      <3>1. CASE m = mode
        BY <2>1, <2>2, <2>4, <3>1
      <3>2. CASE m # mode
        BY <1>3, <2>4, <2>5, <3>2
      <3> QED
        BY <3>1, <3>2
    <2> QED
      BY <2>1, <2>5
  <1>6. CASE Poll
    <2>1. /\ mode = "iterate" /\ phase = "idle" /\ ~done /\ phase' = "separators"
          /\ UNCHANGED <<grammar, mode, pos, start, done, statements, errors, outcome>>
      BY <1>6 DEF Poll, sourceVars, resultVars
    <2>2. errors = <<>> /\ mode # None
      BY <2>1, NoneAssumption DEF IInv, Progress, ModePhase, Modes
    <2>3. /\ ChainTo(grammar, statements, Len(statements))
          /\ Skipped(StopOf(statements, Len(statements)), pos)
      BY <1>4, <2>1, <2>2, Zenon DEF Running
    <2>4. Running(grammar', mode', phase', pos', start', done', statements', errors')
      BY <2>1, <2>2, <2>3 DEF Running
    <2> QED
      BY <1>3, <2>1, <2>4
  <1>7. CASE PollDone \/ UNCHANGED vars
    <2>1. UNCHANGED <<grammar, mode, phase, pos, start, done, statements, errors, outcome>>
      BY <1>7 DEF PollDone, vars, sourceVars, resultVars
    <2> QED
      BY <1>3, <1>4, <2>1
  <1>8. ASSUME NEW m \in Modes, Begin(m)
        PROVE  /\ Running(grammar', mode', phase', pos', start', done', statements', errors')
               /\ outcome' = outcome
    BY <1>8, RunningBegins DEF Begin
  <1>9. CASE Driver
    <2>1. outcome' = outcome /\ mode' = mode /\ phase # "idle"
      BY <1>9, Zenon DEF Driver, SkipSeparator, SeparatorFault, EndOfScript, ParseStatement,
             Deliver, Trailing, ResyncSkip, ResyncEnd, ResyncFault
    <2>2. mode # None
      BY <2>1 DEF IInv, Progress, ModePhase
    <2>3. Running(grammar', mode', phase', pos', start', done', statements', errors')
      <3>0. mode \in Modes /\ Running(grammar, mode, phase, pos, start, done, statements, errors)
        BY <1>4, <2>2
      <3>1. CASE SkipSeparator \/ SeparatorFault \/ EndOfScript
        BY <3>0, <3>1, RunningSeparators
      <3>2. CASE ParseStatement
        BY <1>2, <3>0, <3>2, RunningParse
      <3>3. CASE Deliver \/ Trailing
        BY <3>0, <3>3, RunningFollow
      <3>4. CASE ResyncSkip \/ ResyncEnd \/ ResyncFault
        BY <3>0, <3>4, RunningResync
      <3> QED
        BY <1>9, <3>1, <3>2, <3>3, <3>4, Zenon DEF Driver
    <2> QED
      BY <1>3, <2>1, <2>3
  <1> QED
    BY <1>3, <1>5, <1>6, <1>7, <1>8, <1>9 DEF Next, Client

(* Whatever the script and the grammar, and in whatever order a client     *)
(* calls the entry points, they tell the same story: collect_parsed        *)
(* succeeds exactly where collect_recovered finds no error, and with the   *)
(* same statements; otherwise it fails with recovery's first error; and    *)
(* the iterator yields recovery's statements up to that error.             *)
THEOREM ModesAlwaysAgree == Spec => []ModesAgree
  <1>1. Init => StoriesInv
    BY DEF Init, StoriesInv
  <1> QED
    BY <1>1, StoriesAgree, StoriesStep, Inductive, PTL DEF Spec

(***************************************************************************)
(* Fused.  An iterator that has yielded an error or a None is done, and    *)
(* one that is done is at rest: only PollDone can run.                     *)
(***************************************************************************)
FuseInv ==
    mode = "iterate" =>
        /\ errors # <<>> \/ polls > 0 => done
        /\ done => phase = "idle"

(* Every step keeps a fused iterator fused.                                *)
LEMMA FuseStep == IInv /\ FuseInv /\ [Next]_vars => FuseInv'
  <1> SUFFICES ASSUME IInv, FuseInv, [Next]_vars, mode' = "iterate"
               PROVE  /\ errors' # <<>> \/ polls' > 0 => done'
                      /\ done' => phase' = "idle"
    BY DEF FuseInv
  <1>1. mode = "iterate" =>
           /\ errors # <<>> \/ polls > 0 => done
           /\ done => phase = "idle"
    BY DEF FuseInv
  <1>2. CASE Return
    BY <1>2, NoneAssumption DEF Return, Modes
  <1>3. CASE Poll \/ PollDone
    BY <1>1, <1>3 DEF Poll, PollDone, resultVars
  <1>4. ASSUME NEW m \in Modes, Begin(m)
        PROVE  ~(errors' # <<>>) /\ ~(polls' > 0) /\ ~done'
    BY <1>4 DEF Begin
  <1>5. ASSUME NEW e, Fail(e), mode = "iterate" PROVE done' /\ phase' = "idle"
    BY <1>5 DEF Fail
  <1>6. CASE SkipSeparator \/ Deliver
    <2>1. /\ phase \in {"separators", "follow"}
          /\ UNCHANGED <<mode, errors, done, polls>>
      BY <1>6, Zenon DEF SkipSeparator, Deliver, resultVars
    <2>2. mode = "iterate" /\ phase # "idle" /\ errors' = errors /\ polls' = polls /\ done' = done
      BY <2>1
    <2>3. ~done /\ ~(errors # <<>> \/ polls > 0)
      BY <1>1, <2>2
    <2> QED
      BY <2>2, <2>3
  <1>7. CASE SeparatorFault \/ Trailing
    <2>1. PICK e : Fail(e) /\ mode = "iterate"
      BY <1>7, Zenon DEF SeparatorFault, Trailing
    <2> QED
      BY <1>5, <2>1
  <1>8. CASE EndOfScript
    BY <1>8 DEF EndOfScript
  <1>9. CASE ParseStatement
    <2>1. /\ mode = "iterate" /\ phase = "separators" /\ polls' = polls
      BY <1>9, Zenon DEF ParseStatement
    <2>2. PICK v \in Verdict(pos) :
             IF v.error = None THEN phase' = "follow" /\ UNCHANGED <<resultVars, done>>
             ELSE Fail(v.error)
      BY <1>9 DEF ParseStatement
    <2>3. CASE v.error = None
      BY <1>1, <2>1, <2>2, <2>3 DEF resultVars
    <2>4. CASE v.error # None
      BY <1>5, <2>1, <2>2, <2>4
    <2> QED
      BY <2>3, <2>4
  <1>10. CASE ResyncSkip \/ ResyncEnd \/ ResyncFault
    <2>1. phase = "resync" /\ mode = "iterate"
      BY <1>10, Zenon DEF ResyncSkip, ResyncEnd, ResyncFault
    <2> QED
      BY <2>1 DEF IInv, Progress, ModePhase
  <1>11. CASE UNCHANGED vars
    BY <1>1, <1>11 DEF vars, resultVars
  <1> QED
    BY <1>2, <1>3, <1>4, <1>6, <1>7, <1>8, <1>9, <1>10, <1>11, Zenon DEF Next, Client, Driver

(* Once Statements::next has returned an error or None, no later call adds *)
(* to what the iterator has yielded.                                       *)
THEOREM IteratorIsFused == Spec => Fused
  <1>1. Init => FuseInv
    BY NoneAssumption DEF Init, FuseInv, Modes
  <1>2. ASSUME IInv, FuseInv, [Next]_vars,
               mode = "iterate", mode' = "iterate", errors # <<>> \/ polls > 0
        PROVE  UNCHANGED resultVars
    <2>1. done /\ phase = "idle"
      BY <1>2 DEF FuseInv
    <2>2. ~Driver
      BY <2>1, Zenon DEF Driver, SkipSeparator, SeparatorFault, EndOfScript, ParseStatement,
             Deliver, Trailing, ResyncSkip, ResyncEnd, ResyncFault
    <2>3. ~Begin("parse") /\ \A m \in Modes : ~Begin(m)
      BY <1>2, NoneAssumption DEF Begin, Modes
    <2>4. CASE Return \/ Poll \/ PollDone
      BY <2>4 DEF Return, Poll, PollDone
    <2>5. CASE UNCHANGED vars
      BY <2>5 DEF vars
    <2> QED
      BY <1>2, <2>2, <2>3, <2>4, <2>5 DEF Next, Client
  <1>3. IInv /\ FuseInv /\ [Next]_vars
          => [mode = "iterate" /\ mode' = "iterate" /\ (errors # <<>> \/ polls > 0)
                => UNCHANGED resultVars]_vars
    BY <1>2
  <1> QED
    BY <1>1, <1>3, FuseStep, Inductive, PTL DEF Spec, Fused

(***************************************************************************)
(* The safety half of Returns.  What is left to do is what is left of the  *)
(* script, counted thrice so that the turns that consume nothing are paid  *)
(* for: a delivery, and giving a statement up.                             *)
(***************************************************************************)
Busy == {"separators", "follow", "resync"}

Rank(ph) == IF ph = "follow" THEN 3
            ELSE IF ph = "separators" THEN 2 ELSE IF ph = "resync" THEN 1 ELSE 0

Remaining == 3 * (N - pos) + Rank(phase)

(* The guards of the driver's turns, the choice of a verdict included.     *)
DriverReady ==
    \/ phase = "separators" /\ Peek(pos) \in {";", "fault", "eof"}
    \/ /\ phase = "separators" /\ Peek(pos) = "token"
       /\ \E v \in Verdict(pos) : grammar[pos] \in {None, v}
    \/ phase = "follow"
    \/ phase = "resync" /\ Peek(pos) \in {"token", ";", "eof", "fault"}

(* Each turn of the driver leaves less to do.                              *)
LEMMA DriverAdvances ==
    ASSUME IInv, Driver
    PROVE  Remaining' < Remaining
  <1>1. N \in Nat /\ pos \in 0..N
    BY ScriptLength DEF IInv, TypeOK
  <1>2. script' = script
    BY DEF Driver, SkipSeparator, SeparatorFault, EndOfScript, ParseStatement, Deliver,
           Trailing, ResyncSkip, ResyncEnd, ResyncFault, sourceVars
  <1>3. N' = N
    BY <1>2 DEF N
  <1>4. ASSUME pos' \in pos..N, Rank(phase') < Rank(phase)
        PROVE  Remaining' < Remaining
    <2>1. Rank(phase) \in 0..3 /\ Rank(phase') \in 0..3
      BY DEF Rank
    <2>2. Remaining = 3 * (N - pos) + Rank(phase) /\ Remaining' = 3 * (N - pos') + Rank(phase')
      BY <1>3 DEF Remaining
    <2> QED
      BY <1>1, <1>4, <2>1, <2>2
  <1>5. ASSUME pos' \in (pos + 1)..N, Rank(phase') <= Rank(phase) + 1
        PROVE  Remaining' < Remaining
    <2>1. Rank(phase) \in 0..3 /\ Rank(phase') \in 0..3
      BY DEF Rank
    <2>2. Remaining = 3 * (N - pos) + Rank(phase) /\ Remaining' = 3 * (N - pos') + Rank(phase')
      BY <1>3 DEF Remaining
    <2> QED
      BY <1>1, <1>5, <2>1, <2>2
  <1>6. ASSUME NEW e, Fail(e), phase \in {"separators", "follow"}, mode \in Modes
        PROVE  Rank(phase') < Rank(phase)
    BY <1>6 DEF Fail, Modes, Rank
  <1>7. phase # "idle" => mode \in Modes
    BY DEF IInv, TypeOK, Progress, ModePhase
  <1>8. Peek(pos) \notin {"eof", "fault"} => pos + 1 \in (pos + 1)..N
    <2>1. TypeOK /\ (pos < N \/ pos = N)
      BY <1>1 DEF IInv
    <2>2. pos = N => Peek(pos) \in {"eof", "fault"}
      BY <1>1, <2>1, Inside, Zenon
    <2>3. pos < N => pos + 1 \in (pos + 1)..N
      BY <1>1
    <2> QED
      BY <2>1, <2>2, <2>3, Zenon
  <1>9. CASE SkipSeparator
    <2>1. pos' = pos + 1 /\ phase' = phase /\ Peek(pos) \notin {"eof", "fault"}
      BY <1>9, Zenon DEF SkipSeparator
    <2>2. Rank(phase') <= Rank(phase) + 1
      BY <2>1 DEF Rank
    <2> QED
      BY <1>5, <1>8, <2>1, <2>2, Zenon
  <1>10. CASE SeparatorFault \/ Trailing
    <2>1. PICK e : Fail(e)
      BY <1>10, Zenon DEF SeparatorFault, Trailing
    <2>2. phase \in {"separators", "follow"} /\ pos' = pos
      BY <1>10 DEF SeparatorFault, Trailing
    <2> QED
      BY <1>1, <1>4, <1>6, <1>7, <2>1, <2>2
  <1>11. CASE EndOfScript
    <2>1. phase = "separators" /\ phase' \in {"idle", "returned"} /\ pos' = pos
      BY <1>11 DEF EndOfScript
    <2> QED
      BY <1>1, <1>4, <2>1 DEF Rank
  <1>12. CASE ParseStatement
    <2>1. phase = "separators"
      BY <1>12 DEF ParseStatement
    <2>2. PICK v \in Verdict(pos) :
             /\ pos' = v.stop
             /\ IF v.error = None THEN phase' = "follow" ELSE Fail(v.error)
      BY <1>12 DEF ParseStatement
    <2>3. v.stop \in pos..N /\ (v.error = None => pos < v.stop)
      BY <1>1, Verdicts DEF IInv
    <2>4. CASE v.error = None
      <3>1. Rank(phase') <= Rank(phase) + 1
        BY <2>1, <2>2, <2>4 DEF Rank
      <3> QED
        BY <1>1, <1>5, <2>2, <2>3, <2>4, <3>1
    <2>5. CASE v.error # None
      BY <1>1, <1>4, <1>6, <1>7, <2>1, <2>2, <2>3, <2>5
    <2> QED
      BY <2>4, <2>5
  <1>13. CASE Deliver
    <2>1. phase = "follow" /\ phase' \in {"idle", "separators"} /\ pos' = pos
      BY <1>13 DEF Deliver
    <2> QED
      BY <1>1, <1>4, <2>1 DEF Rank
  <1>14. CASE ResyncSkip
    <2>1. /\ phase = "resync" /\ phase' \in {"separators", "resync"}
          /\ pos' = pos + 1 /\ Peek(pos) \notin {"eof", "fault"}
      BY <1>14, Zenon DEF ResyncSkip
    <2>2. Rank(phase') <= Rank(phase) + 1
      BY <2>1 DEF Rank
    <2> QED
      BY <1>5, <1>8, <2>1, <2>2, Zenon
  <1>15. CASE ResyncEnd \/ ResyncFault
    <2>1. phase = "resync" /\ phase' = "returned" /\ pos' = pos
      BY <1>15 DEF ResyncEnd, ResyncFault
    <2> QED
      BY <1>1, <1>4, <2>1 DEF Rank
  <1> QED
    BY <1>9, <1>10, <1>11, <1>12, <1>13, <1>14, <1>15 DEF Driver

(* Each step while an entry point runs is a turn of it.                    *)
LEMMA OnlyDriverRuns ==
    ASSUME IInv, Next, phase \in Busy
    PROVE  Driver
  <1>1. mode # None /\ phase \notin {"idle", "returned"}
    BY DEF Busy, IInv, Progress, ModePhase
  <1>2. ~Return /\ ~Poll /\ ~PollDone /\ \A m \in Modes : ~Begin(m)
    BY <1>1, Zenon DEF Return, Poll, PollDone, Begin
  <1> QED
    BY <1>2 DEF Next, Client

(* From every place the driver can be in there is a turn it can take.      *)
LEMMA NeverStuck == IInv /\ phase \in Busy => DriverReady
  <1> SUFFICES ASSUME IInv, phase \in Busy PROVE DriverReady
    OBVIOUS
  <1>1. N \in Nat /\ pos \in 0..N /\ TypeOK
    BY ScriptLength DEF IInv, TypeOK
  <1>2. Peek(pos) \in {";", "token", "eof", "fault"} /\ (Peek(pos) = "token" => pos < N)
    <2>1. pos < N \/ pos = N
      BY <1>1
    <2>2. /\ pos < N => Peek(pos) \in {";", "token"}
          /\ pos = N => Peek(pos) \in {"eof", "fault"}
      BY <1>1, Inside, Zenon
    <2> QED
      BY <2>1, <2>2, Zenon
  <1>3. ASSUME Peek(pos) = "token" PROVE \E v \in Verdict(pos) : grammar[pos] \in {None, v}
    <2>1. grammar[pos] = None \/ grammar[pos] \in Verdict(pos)
      BY <1>1 DEF TypeOK
    <2>2. CASE grammar[pos] = None
      <3> DEFINE v == [stop |-> pos + 1, error |-> None]
      <3>1. pos + 1 \in pos..N /\ pos + 1 > pos
        BY <1>1, <1>2, <1>3
      <3>2. v \in [stop : pos..N, error : {ErrorAt(p) : p \in pos..N} \cup {None}]
        BY <3>1
      <3>3. v.error = None /\ v.stop > pos
        BY <3>1
      <3>4. v \in Verdict(pos)
        BY <3>2, <3>3 DEF Verdict
      <3> QED
        BY <2>2, <3>4
    <2> QED
      BY <2>1, <2>2
  <1> QED
    BY <1>2, <1>3, Zenon DEF Busy, DriverReady

(***************************************************************************)
(* On any script and with any grammar no entry point can loop or halt      *)
(* inside parse_next_statement or recover_to_statement_boundary: while one *)
(* runs it has a turn to take, every step is a turn of it, and each leaves *)
(* strictly less to do, so that it returns within 3N + 3 turns.  What is   *)
(* left to Returns is that turns are taken.                                *)
(***************************************************************************)
THEOREM TurnsAreBounded ==
    Spec => /\ [](phase \in Busy => DriverReady /\ Remaining \in 1..(3 * N + 3))
            /\ [][(phase \in Busy) => (Driver /\ (Remaining' < Remaining))]_vars
  <1>1. IInv => (phase \in Busy => DriverReady /\ Remaining \in 1..(3 * N + 3))
    <2> SUFFICES ASSUME IInv, phase \in Busy PROVE Remaining \in 1..(3 * N + 3)
      BY NeverStuck
    <2>1. N \in Nat /\ pos \in 0..N
      BY ScriptLength DEF IInv, TypeOK
    <2>2. Rank(phase) \in 1..3
      BY DEF Busy, Rank
    <2> QED
      BY <2>1, <2>2 DEF Remaining
  <1>2. IInv /\ [Next]_vars => [(phase \in Busy) => (Driver /\ (Remaining' < Remaining))]_vars
    BY DriverAdvances, OnlyDriverRuns
  <1> QED
    BY <1>1, <1>2, Inductive, PTL DEF Spec
=============================================================================
