-------------------------- MODULE StatementDriver --------------------------
(***************************************************************************)
(* The loops that turn a script into statements: parse_next_statement      *)
(* (parser/query.rs), and the three entry points that drive it.            *)
(*                                                                         *)
(*   "parse"    collect_parsed: the first error returns, no tree.          *)
(*   "iterate"  Statements::next: one statement a call, fused by `done`.   *)
(*   "recover"  collect_recovered: an error is recorded, the rest of the   *)
(*              statement is skipped to the next `;`, and parsing resumes. *)
(*                                                                         *)
(* A script is its sequence of `;` and other tokens, ending in the end of  *)
(* the input or in a lexical fault; reading it is the sticky end that      *)
(* BufferedTokenCursor is proved to provide.  What parse_statement does    *)
(* from a position is left to the grammar: any verdict it could give is    *)
(* drawn the first time a position is parsed, and kept, so that the entry  *)
(* points meet the same grammar on the same script.                        *)
(***************************************************************************)
EXTENDS Integers, Sequences, FiniteSets, SequencesExt

CONSTANTS
    Scripts,     \* the scripts to read
    MaxPolls,    \* calls of Statements::next after the iterator has ended
    None

TokenKind == {";", "token"}

Script == [text : Seq(TokenKind), end : {"eof", "fault"}]

Error == [at : Nat, kind : {"syntax", "lexical"}]

ASSUME ScriptsAssumption == Scripts \subseteq Script
ASSUME PollsAssumption == MaxPolls \in Nat
Modes == {"parse", "iterate", "recover"}

(* What parse_statement may report from a position, and what an entry      *)
(* point may return.                                                       *)
AnyVerdict == [stop : Nat, error : Error \cup {None}]

Outcome == [statements : Seq(Nat \X Nat), errors : Seq(Error)]

ASSUME NoneAssumption == None \notin Error \cup Modes
ASSUME AbsentAssumption == None \notin AnyVerdict \cup Outcome

VARIABLES
    script,      \* the script under all three entry points
    grammar,     \* what parse_statement does, by start position, as drawn so far
    mode,        \* the entry point running, or None
    phase,       \* where it is
    pos,         \* the token cursor
    start,       \* where the statement being parsed began
    statements,  \* statements delivered, as <<start, stop>>
    errors,      \* errors delivered
    done,        \* Statements::done
    polls,       \* Nones the iterator has yielded
    outcome      \* what each entry point that has returned delivered

sourceVars == <<script, grammar>>
resultVars == <<statements, errors>>
vars == <<sourceVars, resultVars, mode, phase, pos, start, done, polls, outcome>>

N == Len(script.text)

(* Parser::peek: the token at a position, or the end every later read meets. *)
Peek(p) == IF p < N THEN script.text[p + 1] ELSE script.end

(* Parser::unexpected at a position: a fault there is surfaced as itself.  *)
ErrorAt(p) == [at |-> p, kind |-> IF Peek(p) = "fault" THEN "lexical" ELSE "syntax"]

NoSeparator(a, b) == \A i \in a..(b - 1) : Peek(i) # ";"

(***************************************************************************)
(* What parse_statement may do from a position: parse to some stop; fail   *)
(* with the cursor at stop on a token it has read; or fail with the cursor *)
(* behind a lexical fault its lookahead met.  The grammar looks past no    *)
(* `;` it has not consumed, but it may consume one (a routine body does).  *)
(***************************************************************************)
Verdict(s) ==
    {v \in [stop : s..N, error : {ErrorAt(p) : p \in s..N} \cup {None}] :
        \/ v.error = None /\ v.stop > s
        \/ v.error # None /\ \/ v.error.at <= v.stop
                             \/ v.error.kind = "lexical" /\ NoSeparator(v.stop, N)}

Init ==
    /\ script \in Scripts
    /\ grammar = [p \in 0..N |-> None]
    /\ mode = None
    /\ phase = "idle"
    /\ pos = 0
    /\ start = 0
    /\ statements = <<>>
    /\ errors = <<>>
    /\ done = FALSE
    /\ polls = 0
    /\ outcome = [m \in Modes |-> None]
-----------------------------------------------------------------------------
(* The client calls an entry point on the script, each at most once.       *)
Begin(m) ==
    /\ mode = None
    /\ outcome[m] = None
    /\ mode' = m
    /\ phase' = IF m = "iterate" THEN "idle" ELSE "separators"
    /\ pos' = 0
    /\ start' = 0
    /\ statements' = <<>>
    /\ errors' = <<>>
    /\ done' = FALSE
    /\ polls' = 0
    /\ UNCHANGED <<sourceVars, outcome>>

(* The entry point has returned, or the client finishes the iterator.      *)
Return ==
    /\ mode # None
    /\ \/ phase = "returned"
       \/ mode = "iterate" /\ phase = "idle"
    /\ outcome' = [outcome EXCEPT ![mode] = [statements |-> statements, errors |-> errors]]
    /\ mode' = None
    /\ phase' = "idle"
    /\ UNCHANGED <<sourceVars, resultVars, pos, start, done, polls>>

(* Mutant: an iterator that forgets it has ended.                          *)
PollUnfused ==
    /\ mode = "iterate"
    /\ phase = "idle"
    /\ phase' = "separators"
    /\ UNCHANGED <<sourceVars, resultVars, mode, pos, start, done, polls, outcome>>

(* Statements::next before the end: parse_next_statement begins.           *)
Poll ==
    /\ mode = "iterate"
    /\ phase = "idle"
    /\ ~done
    /\ phase' = "separators"
    /\ UNCHANGED <<sourceVars, resultVars, mode, pos, start, done, polls, outcome>>

(* Statements::next after the end.                                         *)
PollDone ==
    /\ mode = "iterate"
    /\ phase = "idle"
    /\ done
    /\ polls < MaxPolls
    /\ polls' = polls + 1
    /\ UNCHANGED <<sourceVars, resultVars, mode, phase, pos, start, done, outcome>>
-----------------------------------------------------------------------------
(* Mutant: the failing parse hands out the statements it had.              *)
FailKeepsStatements(e) ==
    /\ errors' = Append(errors, e)
    /\ phase' = CASE mode = "recover" -> "resync"
                  [] mode = "iterate" -> "idle"
                  [] mode = "parse" -> "returned"
    /\ done' = (mode = "iterate")
    /\ UNCHANGED statements

(***************************************************************************)
(* parse_next_statement returns Err(e): collect_parsed drops its tree,     *)
(* the iterator yields the error and fuses, collect_recovered records it   *)
(* and goes to resynchronize.                                              *)
(***************************************************************************)
Fail(e) ==
    /\ errors' = Append(errors, e)
    /\ phase' = CASE mode = "recover" -> "resync"
                  [] mode = "iterate" -> "idle"
                  [] mode = "parse" -> "returned"
    /\ done' = (mode = "iterate")
    /\ statements' = IF mode = "parse" THEN <<>> ELSE statements

(* Mutant: separators are looked at but not consumed.                      *)
SkipSeparatorInPlace ==
    /\ phase = "separators"
    /\ Peek(pos) = ";"
    /\ UNCHANGED vars

(* skip_statement_separators, one `;`.                                     *)
SkipSeparator ==
    /\ phase = "separators"
    /\ Peek(pos) = ";"
    /\ pos' = pos + 1
    /\ UNCHANGED <<sourceVars, resultVars, mode, phase, start, done, polls, outcome>>

(* The read behind the last separator meets the fault.                     *)
SeparatorFault ==
    /\ phase = "separators"
    /\ Peek(pos) = "fault"
    /\ Fail(ErrorAt(pos))
    /\ UNCHANGED <<sourceVars, mode, pos, start, polls, outcome>>

(* parse_next_statement returns Ok(None).                                  *)
EndOfScript ==
    /\ phase = "separators"
    /\ Peek(pos) = "eof"
    /\ phase' = IF mode = "iterate" THEN "idle" ELSE "returned"
    /\ done' = (mode = "iterate")
    /\ polls' = IF mode = "iterate" THEN polls + 1 ELSE polls
    /\ UNCHANGED <<sourceVars, resultVars, mode, pos, start, outcome>>

(* Consumed tokens are released and parse_statement runs.                  *)
ParseStatement ==
    /\ phase = "separators"
    /\ Peek(pos) = "token"
    /\ \E v \in Verdict(pos) :
          /\ grammar[pos] \in {None, v}
          /\ grammar' = [grammar EXCEPT ![pos] = v]
          /\ pos' = v.stop
          /\ start' = pos
          /\ IF v.error = None
             THEN phase' = "follow" /\ UNCHANGED <<resultVars, done>>
             ELSE Fail(v.error)
    /\ UNCHANGED <<script, mode, polls, outcome>>

(* Mutant: whatever follows the statement is left to the next call.        *)
StatementEndsAnywhere == Peek(pos) # "fault"

(* What may follow a statement.                                            *)
StatementEnds == Peek(pos) \in {";", "eof"}

(* parse_next_statement returns Ok(Some(statement)).                       *)
Deliver ==
    /\ phase = "follow"
    /\ StatementEnds
    /\ statements' = Append(statements, <<start, pos>>)
    /\ phase' = IF mode = "iterate" THEN "idle" ELSE "separators"
    /\ UNCHANGED <<sourceVars, errors, mode, pos, start, done, polls, outcome>>

(* Trailing input, or a fault, follows the statement.                      *)
Trailing ==
    /\ phase = "follow"
    /\ ~StatementEnds
    /\ Fail(ErrorAt(pos))
    /\ UNCHANGED <<sourceVars, mode, pos, start, polls, outcome>>
-----------------------------------------------------------------------------
(* recover_to_statement_boundary consumes one token.                       *)
ResyncSkip ==
    /\ phase = "resync"
    /\ Peek(pos) \in {"token", ";"}
    /\ pos' = pos + 1
    /\ phase' = IF Peek(pos) = ";" THEN "separators" ELSE "resync"
    /\ UNCHANGED <<sourceVars, resultVars, mode, start, done, polls, outcome>>

(* It returns Ok(false).                                                   *)
ResyncEnd ==
    /\ phase = "resync"
    /\ Peek(pos) = "eof"
    /\ phase' = "returned"
    /\ UNCHANGED <<sourceVars, resultVars, mode, pos, start, done, polls, outcome>>

(* Mutant: the fault is recorded although the statement failed on it.      *)
RecordTwice(e) == errors' = Append(errors, e)

(* The fault is recorded unless the statement already failed on it.        *)
RecordOnce(e) == errors' = IF Last(errors) = e THEN errors ELSE Append(errors, e)

(* It returns Err: nothing past the fault can be read.                     *)
ResyncFault ==
    /\ phase = "resync"
    /\ Peek(pos) = "fault"
    /\ RecordOnce(ErrorAt(pos))
    /\ phase' = "returned"
    /\ UNCHANGED <<sourceVars, statements, mode, pos, start, done, polls, outcome>>
-----------------------------------------------------------------------------
Client == Return \/ Poll \/ PollDone \/ \E m \in Modes : Begin(m)

Driver ==
    \/ SkipSeparator
    \/ SeparatorFault
    \/ EndOfScript
    \/ ParseStatement
    \/ Deliver
    \/ Trailing
    \/ ResyncSkip
    \/ ResyncEnd
    \/ ResyncFault

Next == Client \/ Driver

(* The driver is sequential code: it keeps running until it returns.  The  *)
(* client owes nothing.                                                    *)
Spec == Init /\ [][Next]_vars /\ WF_vars(Driver)
-----------------------------------------------------------------------------
(* Every variable has its type, and the cursor never passes the script.    *)
TypeOK ==
    /\ script \in Scripts
    /\ DOMAIN grammar = 0..N
    /\ \A p \in 0..N : grammar[p] = None \/ grammar[p] \in Verdict(p)
    /\ mode \in Modes \cup {None}
    /\ phase \in {"idle", "separators", "follow", "resync", "returned"}
    /\ pos \in 0..N
    /\ start \in 0..pos
    /\ statements \in Seq(Nat \X Nat)
    /\ errors \in Seq(Error)
    /\ done \in BOOLEAN
    /\ polls \in Nat
    /\ outcome \in [Modes -> Outcome \cup {None}]

(***************************************************************************)
(* recovery.rs documents statements and errors as delivered in source      *)
(* order: statements do not overlap, each error lies strictly behind the   *)
(* one before it (so no fault is reported twice), whichever statement the  *)
(* grammar gave up on and wherever it left the cursor.                     *)
(***************************************************************************)
StatementsInOrder ==
    \A i, j \in 1..Len(statements) : i < j => statements[i][2] <= statements[j][1]

ErrorsInOrder ==
    \A i, j \in 1..Len(errors) : i < j => errors[i].at < errors[j].at

SourceOrder == StatementsInOrder /\ ErrorsInOrder

(***************************************************************************)
(* A script with a lexical fault is never reported clean: a run of         *)
(* collect_recovered over it ends with the fault as its last error, and    *)
(* collect_parsed fails.                                                   *)
(***************************************************************************)
FaultReported ==
    phase = "returned" /\ script.end = "fault"
        => /\ errors # <<>>
           /\ mode = "recover" => Last(errors) = ErrorAt(N)

(* What a caller may rely on in whichever results an entry point has       *)
(* gathered: well-formed, in source order, and no fault missing.           *)
Delivery == TypeOK /\ SourceOrder /\ FaultReported

(***************************************************************************)
(* Where no statement crossed a `;`, recovery agrees with the script cut   *)
(* at its separators: it delivers the pieces the grammar accepts whole,    *)
(* and exactly one error for each of the others.  A broken statement never *)
(* takes a neighbour with it.                                              *)
(***************************************************************************)
IsPiece(a, b) ==
    /\ a < b
    /\ NoSeparator(a, b)
    /\ a = 0 \/ Peek(a - 1) = ";"
    /\ Peek(b) # "token"

Pieces == {p \in (0..N) \X (0..N) : IsPiece(p[1], p[2])}

Contained ==
    \A p \in 0..N : grammar[p] # None => NoSeparator(p, grammar[p].stop)

Accepted(piece) ==
    /\ grammar[piece[1]].error = None
    /\ grammar[piece[1]].stop = piece[2]
    /\ Peek(piece[2]) # "fault"

RecoveryExact ==
    (phase = "returned" /\ mode = "recover" /\ Contained)
        => /\ Range(statements) = {p \in Pieces : Accepted(p)}
           /\ script.end = "eof" => Len(errors) = Cardinality({p \in Pieces : ~Accepted(p)})

(***************************************************************************)
(* The entry points tell the same story of a script: parse succeeds where  *)
(* recovery finds no error, and with its statements; it fails with the     *)
(* first error recovery finds, and without a tree; and the iterator yields *)
(* what recovery found up to that error and nothing of what lies beyond.   *)
(***************************************************************************)
ModesAgree ==
    outcome["recover"] # None =>
        LET r == outcome["recover"]
            p == outcome["parse"]
            i == outcome["iterate"]
        IN  /\ p # None =>
                  IF r.errors = <<>> THEN p = r
                  ELSE p.statements = <<>> /\ p.errors = <<Head(r.errors)>>
            /\ i # None =>
                  /\ IsPrefix(i.statements, r.statements)
                  /\ i.errors \in {<<>>} \cup {<<Head(r.errors)>> : e \in Range(r.errors)}

(* Once the iterator has yielded an error or None it yields only None.     *)
Fused ==
    [][mode = "iterate" /\ mode' = "iterate" /\ (errors # <<>> \/ polls > 0)
        => UNCHANGED resultVars]_vars

(* Every entry point returns, even on a script that cannot be read to its  *)
(* end: recovery does not retry in place what it cannot step over.         *)
Returns == phase = "separators" ~> phase \in {"idle", "returned"}
=============================================================================
