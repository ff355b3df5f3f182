--------------------------- MODULE MCParserScopes ---------------------------
(* The productions an instance of ParserScopes explores.                   *)
EXTENDS ParserScopes

(* CONNECT BY and the INTERVAL operator together (Lenient).                *)
LenientProductions == {"query", "expr", "connect_by", "expr_bp", "grouped", "probe"}

(* Statements, routine bodies and FROM, with the speculation they lead to. *)
StatementProductions ==
    {"statement", "body", "query", "cte", "factor", "join", "pattern", "derived",
     "function_body", "procedure_body", "expr", "expr_bp", "probe"}

AllProductions ==
    LenientProductions \cup StatementProductions \cup {"target", "b_expr", "c_expr", "count"}
=============================================================================
