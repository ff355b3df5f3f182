--------------------------- MODULE MCTokenCursor ---------------------------
(* A small instance of BufferedTokenCursor: every source of at most        *)
(* MaxTokens tokens, two trivia runs between two of them, and at most      *)
(* MaxRuns in front of the first and after the last.                       *)
EXTENDS BufferedTokenCursor

CONSTANTS MaxTokens, MaxRuns

Leads(n) ==
    {[k \in 1..(n + 1) |-> IF k \in 2..n THEN 2 ELSE IF k = 1 THEN first ELSE last] :
        first, last \in 0..MaxRuns}

MCSources == UNION {[n : {n}, lead : Leads(n), end : Ends] : n \in 0..MaxTokens}
=============================================================================
