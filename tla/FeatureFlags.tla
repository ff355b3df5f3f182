---------------------------- MODULE FeatureFlags ----------------------------
(***************************************************************************)
(* The self-consistency registries of a FeatureSet (squonk-ast,            *)
(* dialect/conflict.rs).  A FeatureSet is the set of its enabled flags;    *)
(* the identifier quotes and the byte classes that matter are flags too:   *)
(* quote_double, quote_bracket and quote_backtick are the members of       *)
(* identifier_quotes by their opening byte, and dollar_start, at_start,    *)
(* hash_start and colon_start say that the byte class table marks the byte *)
(* as one that starts an identifier.                                       *)
(***************************************************************************)
EXTENDS Naturals, Sequences, FiniteSets

Meets(F, A) == F \cap A # {}

\* The rivals of lexical_conflict, in the order it tests them: a set with a
\* flag of each side is in conflict.
LexicalRivals ==
    << <<{"double_quoted_strings"}, {"quote_double"}>>,
       <<{"quote_bracket"}, {"subscript", "array_constructor",
                             "collection_literals", "table_json_path"}>>,
       <<{"named_colon"}, {"subscript", "collection_literals",
                           "semi_structured_access"}>>,
       <<{"money_literals"}, {"positional_dollar"}>>,
       <<{"named_dollar"}, {"dollar_quoted_strings"}>>,
       <<{"line_comment_hash"}, {"hash_start"}>>,
       <<{"hash_bitwise_xor"}, {"line_comment_hash"}>>,
       <<{"positional_column"}, {"hash_bitwise_xor"}>>,
       <<{"positional_column"}, {"line_comment_hash"}>>,
       <<{"named_at"}, {"user_variables"}>>,
       <<{"containment_operators"}, {"named_at", "user_variables"}>>,
       <<{"jsonb_operators"}, {"anonymous_question"}>>,
       <<{"jsonb_operators"}, {"system_variables"}>>,
       <<{"custom_operators"}, {"named_at", "user_variables"}>>,
       \* tested only with jsonb_operators off, which changes no verdict here:
       \* jsonb_operators with system_variables is already a conflict
       <<{"custom_operators"}, {"system_variables"}>>,
       <<{"dollar_quoted_strings", "positional_dollar", "money_literals"},
         {"dollar_start"}>>,
       <<{"named_at", "user_variables", "system_variables"}, {"at_start"}>>,
       <<{"named_colon"}, {"colon_start"}>> >>

\* The first rivalry of a table both of whose sides are enabled, 0 if none.
FirstOf(F, rivals) ==
    LET hits == {i \in DOMAIN rivals : Meets(F, rivals[i][1]) /\ Meets(F, rivals[i][2])}
    IN  IF hits = {} THEN 0 ELSE CHOOSE i \in hits : \A j \in hits : i <= j

\* Mutant: the bracket quote is not tested.
lexical_conflict_no_bracket(F) ==
    IF FirstOf(F, LexicalRivals) = 2 THEN 0 ELSE FirstOf(F, LexicalRivals)

lexical_conflict(F) == FirstOf(F, LexicalRivals)
is_lexically_consistent(F) == lexical_conflict(F) = 0

\* The rivals of grammar_conflict.
GrammarRivals ==
    << <<{"prefix_colon_alias", "table_prefix_colon_alias"}, {"semi_structured_access"}>>,
       <<{"do_statement"}, {"do_expression_list"}>>,
       <<{"prepared_statements"}, {"prepared_statements_from"}>>,
       <<{"access_control_account_grants"}, {"access_control_extended_objects"}>> >>

grammar_conflict(F) == FirstOf(F, GrammarRivals)

\* The pairs <<dependent, base>> of feature_dependencies, in its order.
Dependencies ==
    << <<"key_lock_strengths", "locking_clauses">>,
       <<"stacked_locking_clauses", "locking_clauses">>,
       <<"unnest_with_offset", "unnest">>,
       <<"slice_step", "subscript">>,
       <<"multidim_array_literals", "array_constructor">>,
       <<"quantified_comparison_lists", "quantified_comparisons">>,
       <<"quantified_arbitrary_operator", "quantified_comparisons">>,
       <<"lambda_expressions", "json_arrow_operators">>,
       <<"cte_before_merge", "merge">>,
       <<"merge_when_not_matched_by", "merge">>,
       <<"merge_insert_default_values", "merge">>,
       <<"merge_insert_overriding", "merge">>,
       <<"alter_existence_guards", "alter_table_extended">>,
       <<"alter_column_set_data_type", "alter_table_extended">>,
       <<"checkpoint_database", "checkpoint">>,
       <<"analyze_columns", "analyze">>,
       <<"load_bare_name", "load_extension">>,
       <<"call_bare_name", "call">>,
       <<"detach_if_exists", "attach">>,
       <<"use_qualified_name", "use_statement">>,
       <<"use_string_literal_name", "use_statement">>,
       <<"access_control_extended_objects", "access_control">>,
       <<"access_control_account_grants", "access_control">>,
       <<"prepare_typed_parameters", "prepared_statements">> >>

Dangles(F, i) == Dependencies[i][1] \in F /\ Dependencies[i][2] \notin F

\* The first violated dependency, 0 if none.
feature_dependencies(F) ==
    LET hits == {i \in DOMAIN Dependencies : Dangles(F, i)}
    IN  IF hits = {} THEN 0 ELSE CHOOSE i \in hits : \A j \in hits : i <= j

\* The three debug assertions at the entry of a parse.
is_self_consistent(F) == /\ is_lexically_consistent(F)
                         /\ feature_dependencies(F) = 0
                         /\ grammar_conflict(F) = 0
=============================================================================
