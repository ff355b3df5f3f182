---------------------------- MODULE ScanTriggers ----------------------------
(***************************************************************************)
(* The bytes that several features of a dialect read in their own way      *)
(* (tokenizer/scan.rs, next_token): for each such trigger, the arms of the *)
(* scanner that can take it, in the order the scanner tries them.  A       *)
(* trigger is the lead byte with as much lookahead as its arms look at;    *)
(* `name` is a byte that starts an identifier in every table.              *)
(***************************************************************************)
EXTENDS FeatureFlags

Arm(when, reading) == [when |-> when, reading |-> reading]

\* Readings that no feature asks for: an error, a plain word or punctuation the
\* grammar has no use for there, or an `@` the
\* grammar rejects wherever it does not separate an account from its host.
Fallbacks == {"unclaimed", "stray_at"}

\* The sigil arms of `@` before a byte that starts an identifier.
AtNameArms(F) ==
    << Arm("stage_references" \in F, "stage"),
       Arm("user_variables" \in F, "variable"),
       Arm("named_at" \in F, "parameter") >>

\* What a byte that no arm takes becomes: a word if the byte class table lets
\* it start an identifier.
WordOrStray(F, start) == << Arm(start \in F, "word"), Arm(TRUE, "unclaimed") >>

QuoteArms(F) ==
    [double_quote |-> << Arm("double_quoted_strings" \in F, "string"),
                         Arm("quote_double" \in F, "quoted_identifier"),
                         Arm(TRUE, "unclaimed") >>,
     bracket |-> << Arm("quote_bracket" \in F, "quoted_identifier"),
                    Arm(Meets(F, {"subscript", "array_constructor", "collection_literals",
                                  "table_json_path"}), "bracket"),
                    Arm(TRUE, "unclaimed") >>,
     backtick |-> << Arm("quote_backtick" \in F, "quoted_identifier"),
                     Arm("custom_operators" \in F, "operator"), Arm(TRUE, "unclaimed") >>,
     x_quote |-> << Arm("blob_literals" \in F, "blob"),
                    Arm("bit_string_literals" \in F, "bit_string"), Arm(TRUE, "unclaimed") >>]

\* `$` ends in an error before the byte class is asked: it never starts a word.
DollarArms(F) ==
    [dollar_digit |-> << Arm("money_literals" \in F, "money"),
                         Arm("positional_dollar" \in F, "parameter"),
                         Arm(TRUE, "unclaimed"), Arm("dollar_start" \in F, "word") >>,
     dollar_name |-> << Arm("named_dollar" \in F, "parameter"),
                        Arm("dollar_quoted_strings" \in F, "dollar_string"),
                        Arm(TRUE, "unclaimed"), Arm("dollar_start" \in F, "word") >>]

\* `:` is punctuation to the grammars that use it, after the class check.
ColonArms(F) ==
    [colon_name |-> << Arm("named_colon" \in F, "parameter"),
                       Arm("colon_start" \in F, "word"),
                       Arm(Meets(F, {"subscript", "collection_literals",
                                     "semi_structured_access"}), "colon"),
                       Arm(TRUE, "unclaimed") >>]

\* is_operator_char: `?` and `#` leave the operator runs of a dialect with a
\* sigil for them.
QuestionInRun(F) == "custom_operators" \in F /\ "anonymous_question" \notin F
HashInRun(F) == "custom_operators" \in F /\ "positional_column" \notin F

QuestionArms(F) ==
    LET numbered == << Arm("anonymous_question" \in F, "parameter"),
                       Arm("numbered_question" \in F, "parameter"),
                       Arm("jsonb_operators" \in F, "operator"), Arm(TRUE, "unclaimed") >>
    IN  [question |-> << Arm("anonymous_question" \in F, "parameter"),
                         Arm("jsonb_operators" \in F, "operator"), Arm(TRUE, "unclaimed") >>,
         question_digit |-> numbered,
         less_question_digit |-> << Arm(QuestionInRun(F), "operator") >> \o numbered]

\* A `#` comment is trivia, skipped before the arms are tried.
HashArms(F) ==
    LET named == << Arm("line_comment_hash" \in F, "comment"),
                    Arm("hash_start" \in F, "word"),
                    Arm("hash_bitwise_xor" \in F, "operator"), Arm(TRUE, "unclaimed") >>
    IN  [hash_digit |-> << Arm("line_comment_hash" \in F, "comment"),
                           Arm("hash_start" \in F, "word"),
                           Arm("positional_column" \in F, "column"),
                           Arm("hash_bitwise_xor" \in F, "operator"), Arm(TRUE, "unclaimed") >>,
         hash_name |-> named,
         less_hash_name |-> << Arm(HashInRun(F), "operator") >> \o named]

AtArms(F) ==
    LET At == "at_start" \in F
        OperatorOrAt(flags) == << Arm(Meets(F, flags), "operator"),
                                  Arm("user_variables" \in F, "stray_at") >>
                               \o WordOrStray(F, "at_start")
        Sigil(i) == << Arm(At /\ AtNameArms(F)[i].when, AtNameArms(F)[i].reading) >>
    IN  [at_name |-> AtNameArms(F) \o << Arm("custom_operators" \in F, "operator") >>
                     \o WordOrStray(F, "at_start"),
         \* with `@` an identifier byte, the second `@` is a name to the sigils
         at_at_name |-> Sigil(1)
                        \o << Arm("system_variables" \in F, "system_variable") >>
                        \o Sigil(2) \o Sigil(3)
                        \o OperatorOrAt({"jsonb_operators", "custom_operators"}),
         at_greater |-> OperatorOrAt({"containment_operators", "custom_operators"}),
         at_tilde |-> << Arm("stage_references" \in F, "stage") >>
                      \o OperatorOrAt({"custom_operators"}),
         at_quote |-> << Arm("custom_operators" \in F, "operator"),
                         Arm("user_variables" \in F, "host_separator") >>
                      \o WordOrStray(F, "at_start"),
         less_at_name |-> << Arm(Meets(F, {"containment_operators", "custom_operators"}),
                                 "operator") >>
                          \o AtNameArms(F) \o WordOrStray(F, "at_start"),
         caret_at_name |-> << Arm(Meets(F, {"starts_with_operator", "custom_operators"}),
                                  "operator") >>
                           \o AtNameArms(F) \o WordOrStray(F, "at_start")]

Triggers == {"double_quote", "bracket", "backtick", "x_quote", "dollar_digit",
             "dollar_name", "colon_name", "question", "question_digit",
             "less_question_digit", "hash_digit", "hash_name", "less_hash_name",
             "at_name", "at_at_name", "at_greater", "at_tilde", "at_quote",
             "less_at_name", "caret_at_name"}

Arms(F, t) ==
    CASE t \in {"double_quote", "bracket", "backtick", "x_quote"} -> QuoteArms(F)[t]
      [] t \in {"dollar_digit", "dollar_name"} -> DollarArms(F)[t]
      [] t = "colon_name" -> ColonArms(F)[t]
      [] t \in {"question", "question_digit", "less_question_digit"} -> QuestionArms(F)[t]
      [] t \in {"hash_digit", "hash_name", "less_hash_name"} -> HashArms(F)[t]
      [] OTHER -> AtArms(F)[t]

\* next_token takes the first arm whose guard holds.
Scan(F, t) == LET arms == Arms(F, t)
                  first == CHOOSE i \in DOMAIN arms :
                              arms[i].when /\ \A j \in 1..i - 1 : ~arms[j].when
              IN  arms[first].reading

-----------------------------------------------------------------------------
\* The readings the enabled features ask for, whatever the order of the arms.
Claims(F, t) == LET arms == Arms(F, t)
                IN  {arms[i].reading : i \in {j \in DOMAIN arms : arms[j].when}} \ Fallbacks

\* A feature of F that claims the trigger does not get it.
Shadowed(F, t) == Claims(F, t) # {} /\ Claims(F, t) # {Scan(F, t)}

\* The rivalries the registry does not list, each decided by the order of the
\* arms.
UnlistedRivals ==
    << <<{"stage_references"}, {"user_variables", "named_at", "custom_operators",
                                "containment_operators", "starts_with_operator"}>>,
       <<{"starts_with_operator"}, {"user_variables", "named_at"}>>,
       <<{"at_start"}, {"stage_references", "custom_operators", "jsonb_operators",
                        "containment_operators", "starts_with_operator"}>>,
       <<{"quote_backtick"}, {"custom_operators"}>>,
       <<{"blob_literals"}, {"bit_string_literals"}>>,
       <<{"dollar_start"}, {"dollar_start"}>>,
       <<{"colon_start"}, {"subscript", "collection_literals", "semi_structured_access"}>>,
       <<{"hash_start"}, {"hash_bitwise_xor", "positional_column"}>>,
       <<{"jsonb_operators"}, {"numbered_question"}>> >>

Unlisted(F) == \/ FirstOf(F, UnlistedRivals) # 0
               \/ QuestionInRun(F) /\ "numbered_question" \in F
               \/ HashInRun(F) /\ Meets(F, {"line_comment_hash", "hash_start"})
=============================================================================
