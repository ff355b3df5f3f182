------------------------- MODULE MCSymbolInterner -------------------------
(* A keyword in two cases, and two ordinary names that fold equal.         *)
EXTENDS SymbolInterner

MCTexts == {"asc", "Asc", "id", "Id"}

MCKeyword == <<"asc">>

MCLookup == [t \in MCTexts |-> IF t \in {"asc", "Asc"} THEN 1 ELSE 0]

MCFold ==
    [casing \in Casings |-> [t \in MCTexts |->
        CASE casing = "lower" /\ t = "Asc" -> "asc"
          [] casing = "lower" /\ t = "Id" -> "id"
          [] casing = "upper" /\ t = "asc" -> "Asc"
          [] casing = "upper" /\ t = "id" -> "Id"
          [] OTHER -> t]]
=============================================================================
