---------------------------- MODULE LexedSource ----------------------------
(***************************************************************************)
(* The sources a token cursor reads, reduced to what a cursor can tell     *)
(* apart.  scan::next_token turns a source text into a run of units: each  *)
(* unit is the trivia skipped in front of it (whitespace and comment runs) *)
(* and then a token, and the last unit is what stands after the last token *)
(* -- the end of the input or a lexical fault.  A token is identified by   *)
(* its ordinal, 1 for the first; its spelling never matters to a cursor.   *)
(***************************************************************************)
EXTENDS Integers, Sequences, FiniteSets

CONSTANTS
    Sources,        \* the texts a cursor may be opened on
    MaxLookahead,   \* the furthest peek_nth the grammar asks for
    None,           \* Ok(None): the end of the input
    LexError        \* Err(_): the lexical fault of the source

ASSUME LookaheadAssumption == MaxLookahead \in Nat

(***************************************************************************)
(* n tokens; lead[k] trivia runs in front of unit k, 1 <= k <= n + 1; and  *)
(* what the last unit is.  "unterminated" is a fault whose scan runs to    *)
(* the end of the text before it reports (a string, a quoted identifier, a *)
(* block comment, a dollar quote); "stray" leaves the byte cursor on the   *)
(* offending byte.                                                         *)
(***************************************************************************)
Ends == {"eof", "unterminated", "stray"}

Source == [n : Nat, lead : Seq(Nat), end : Ends]

ASSUME SourcesAssumption ==
    /\ Sources \subseteq Source
    /\ \A s \in Sources : Len(s.lead) = s.n + 1

ASSUME AnswersAssumption ==
    /\ None # LexError
    /\ None \notin Nat
    /\ LexError \notin Nat

Token == Nat \ {0}
Answer == Token \cup {None, LexError}

IsToken(a) == a \in Token

(* A source that was tokenized eagerly without an error.                   *)
FaultFree(s) == s.end = "eof"

(***************************************************************************)
(* What a reader of the whole source finds at the 0-based token index t:   *)
(* the token, or the end or the fault that stands after the last token.    *)
(***************************************************************************)
TokenAt(s, t) ==
    IF t < s.n THEN t + 1
    ELSE IF FaultFree(s) THEN None ELSE LexError

(* The trivia runs of the first k units, as <<unit, run>> pairs.           *)
Runs(s, k) == UNION {{<<u, r>> : r \in 1..s.lead[u]} : u \in 1..k}

(* One trivia run stands before another in the source.                     *)
Precedes(r, q) == r[1] < q[1] \/ (r[1] = q[1] /\ r[2] < q[2])
=============================================================================
