------------------------- MODULE MCStatementDriver -------------------------
(* Every script of at most MaxTokens tokens, with either end.              *)
EXTENDS StatementDriver

CONSTANT MaxTokens

MCScripts ==
    [text : UNION {[1..n -> TokenKind] : n \in 0..MaxTokens}, end : {"eof", "fault"}]
=============================================================================
