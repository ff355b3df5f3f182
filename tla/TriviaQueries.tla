--------------------------- MODULE TriviaQueries ---------------------------
(***************************************************************************)
(* TriviaIndex (tokenizer/trivia.rs): the table of trivia runs a finished  *)
(* parse hands over, and its two queries by source offset.                 *)
(*                                                                         *)
(* An offset is a pair <<u, k>> in unit u of the source: k = 2r is the end *)
(* of the unit's run r and the start of the next, an odd k is inside a run *)
(* or, after the last, inside the token.  A token ends where the next unit *)
(* begins.  Offsets are ordered by Precedes.                               *)
(***************************************************************************)
EXTENDS LexedSource

(* The offsets a query may be asked about.                                 *)
Offsets(s) == UNION {{<<u, k>> : k \in 0..(2 * s.lead[u] + 1)} : u \in 1..(s.n + 1)}

(* The span of a run.                                                      *)
Start(run) == <<run[1], 2 * run[2] - 2>>
End(run) == <<run[1], 2 * run[2]>>

(* Offset a is no later than b.                                            *)
AtMost(a, b) == a = b \/ Precedes(a, b)

(* The runs counted by the partition_points of the two queries.            *)
StartingBefore(ranges, a) == {i \in 1..Len(ranges) : Precedes(Start(ranges[i]), a)}
EndingBy(ranges, b) == {i \in 1..Len(ranges) : AtMost(End(ranges[i]), b)}

(* Mutant: a run that straddles the end of the span is returned too.       *)
InSpanStraddling(ranges, a, b) ==
    SubSeq(ranges, Cardinality(StartingBefore(ranges, a)) + 1,
           Cardinality(StartingBefore(ranges, b)))

(* TriviaIndex::in_span of a span of the source (a synthetic span, which   *)
(* has no place in it, recovers nothing).                                  *)
InSpan(ranges, a, b) ==
    SubSeq(ranges, Cardinality(StartingBefore(ranges, a)) + 1, Cardinality(EndingBy(ranges, b)))

(* The runs after the first f, up to run e, meet end to start back from    *)
(* the offset.                                                             *)
Abut(ranges, f, e, offset) ==
    \A k \in (f + 1)..e :
        End(ranges[k]) = IF k = e THEN offset ELSE Start(ranges[k + 1])

(* TriviaIndex::before: its loop walks back for as long as the runs abut.  *)
Before(ranges, offset) ==
    LET e == Cardinality(EndingBy(ranges, offset))
        start == CHOOSE f \in 0..e :
                    /\ Abut(ranges, f, e, offset)
                    /\ \A g \in 0..e : Abut(ranges, g, e, offset) => f <= g
    IN  SubSeq(ranges, start + 1, e)
=============================================================================
