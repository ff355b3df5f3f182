--------------------------- MODULE MCClauseMarks ---------------------------
(* The speculations an instance of ClauseMarks allows.                     *)
EXTENDS ClauseMarks

(* Operand probes, and readings that are kept or undone.                   *)
AllSpeculation == Kinds
=============================================================================
