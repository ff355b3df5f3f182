-------------------------- MODULE MCDialectBuilder --------------------------
(* Presets of squonk-ast, with the flags the model knows, and deltas that  *)
(* set the flags of one contested byte or one statement head together.     *)
EXTENDS DialectBuilder

POSTGRES ==
    {"abort_transaction_alias", "access_control",
     "access_control_extended_objects", "alter_column_set_data_type",
     "alter_existence_guards", "alter_table_extended", "array_constructor",
     "bit_string_literals", "checkpoint", "comment_on",
     "containment_operators", "copy", "cte_before_merge",
     "custom_operators", "do_statement", "dollar_quoted_strings",
     "end_transaction_alias", "explicit_table", "hash_bitwise_xor",
     "json_arrow_operators", "jsonb_operators", "key_lock_strengths",
     "load_extension", "locking_clauses", "materialized_views", "merge",
     "merge_insert_default_values", "merge_insert_overriding",
     "merge_when_not_matched_by", "multidim_array_literals",
     "positional_dollar", "prepare_typed_parameters",
     "prepared_statements", "quantified_arbitrary_operator",
     "quantified_comparison_lists", "quantified_comparisons",
     "session_statements", "set_transaction", "stacked_locking_clauses",
     "start_transaction", "subscript", "transaction_savepoints", "unnest",
     "quote_double"}

MYSQL ==
    {"access_control", "access_control_account_grants",
     "alter_table_extended", "anonymous_question", "binlog",
     "bit_string_literals", "blob_literals", "call", "call_bare_name",
     "clone", "describe", "do_expression_list", "double_quoted_strings",
     "explicit_table", "flush", "handler_statements", "help_statement",
     "import_table", "key_cache_statements", "kill", "line_comment_hash",
     "load_data", "lock_instance", "lock_tables", "locking_clauses",
     "plugin_component_statements", "prepared_statements_from",
     "purge_binary_logs", "quantified_comparisons", "rename_statement",
     "replace_into", "replication_statements", "restart",
     "session_statements", "set_transaction", "show_admin", "show_columns",
     "show_create_table", "show_routine_status", "show_tables", "shutdown",
     "signal_diagnostics", "start_transaction", "system_variables",
     "table_maintenance", "transaction_savepoints", "use_statement",
     "user_variables", "xa_transactions", "quote_backtick"}

SNOWFLAKE ==
    {"access_control", "access_control_extended_objects",
     "alter_column_set_data_type", "alter_existence_guards",
     "alter_table_extended", "copy_into", "explicit_table",
     "materialized_views", "merge", "merge_insert_overriding",
     "quantified_comparisons", "semi_structured_access",
     "session_statements", "set_transaction", "stage_references",
     "start_transaction", "table_json_path", "transaction_savepoints",
     "quote_double"}

LENIENT ==
    {"abort_transaction_alias", "access_control",
     "access_control_extended_objects", "alter_column_set_data_type",
     "alter_existence_guards", "alter_table_extended", "analyze",
     "analyze_columns", "anonymous_question", "attach", "binlog",
     "bit_string_literals", "call", "call_bare_name", "checkpoint",
     "checkpoint_database", "clone", "comment_on", "copy", "copy_into",
     "cte_before_merge", "describe", "describe_summarize",
     "detach_if_exists", "do_statement", "dollar_quoted_strings",
     "end_transaction_alias", "explicit_table", "export_import_database",
     "flush", "from_first", "handler_statements", "help_statement",
     "import_table", "key_cache_statements", "key_lock_strengths", "kill",
     "line_comment_hash", "load_bare_name", "load_data", "load_extension",
     "lock_instance", "lock_tables", "locking_clauses",
     "materialized_views", "merge", "merge_insert_default_values",
     "merge_insert_overriding", "merge_when_not_matched_by", "named_at",
     "named_colon", "numbered_question", "pivot",
     "plugin_component_statements", "positional_dollar", "pragma",
     "prefix_colon_alias", "prepare_typed_parameters",
     "prepared_statements", "purge_binary_logs",
     "quantified_arbitrary_operator", "quantified_comparison_lists",
     "quantified_comparisons", "reindex", "rename_statement",
     "replace_into", "replication_statements", "restart",
     "session_statements", "set_transaction", "show_admin", "show_columns",
     "show_create_table", "show_functions", "show_routine_status",
     "show_tables", "shutdown", "signal_diagnostics",
     "stacked_locking_clauses", "start_transaction", "system_variables",
     "table_maintenance", "table_prefix_colon_alias",
     "transaction_savepoints", "unnest", "unpivot", "update_extensions",
     "use_qualified_name", "use_statement", "use_string_literal_name",
     "vacuum", "vacuum_analyze", "xa_transactions", "quote_double",
     "quote_backtick", "quote_bracket"}

MCPresets == {POSTGRES, MYSQL, SNOWFLAKE, LENIENT}

MCDeltas ==
    {{"double_quoted_strings", "quote_double", "quote_bracket", "quote_backtick",
      "custom_operators", "table_json_path"},
     {"quote_bracket", "subscript", "array_constructor", "collection_literals",
      "semi_structured_access", "named_colon", "colon_start"},
     {"blob_literals", "bit_string_literals"},
     {"money_literals", "positional_dollar", "named_dollar", "dollar_quoted_strings",
      "dollar_start"},
     {"anonymous_question", "numbered_question", "jsonb_operators", "custom_operators"},
     {"line_comment_hash", "hash_start", "hash_bitwise_xor", "positional_column",
      "custom_operators"},
     {"stage_references", "user_variables", "named_at", "system_variables", "at_start",
      "custom_operators", "jsonb_operators", "containment_operators", "starts_with_operator"},
     {"do_statement", "do_expression_list", "prepared_statements",
      "prepared_statements_from", "prepare_typed_parameters"},
     {"access_control", "access_control_extended_objects", "access_control_account_grants"},
     {"replication_statements", "start_transaction", "set_transaction",
      "session_statements", "copy", "copy_into"},
     {"show_tables", "show_columns", "show_create_table", "show_functions",
      "show_routine_status", "show_admin", "session_statements"},
     {"load_data", "key_cache_statements", "load_extension", "load_bare_name",
      "import_table", "export_import_database"},
     {"checkpoint", "checkpoint_database", "table_maintenance", "analyze",
      "analyze_columns", "describe", "describe_summarize"},
     {"key_lock_strengths", "stacked_locking_clauses", "locking_clauses"},
     {"merge", "cte_before_merge", "merge_when_not_matched_by",
      "merge_insert_default_values", "merge_insert_overriding"},
     {"lock_tables", "lock_instance", "call", "call_bare_name", "attach", "detach_if_exists"},
     {"use_statement", "use_qualified_name", "use_string_literal_name",
      "alter_table_extended", "alter_existence_guards", "alter_column_set_data_type"},
     {"unnest", "unnest_with_offset", "subscript", "slice_step", "array_constructor",
      "multidim_array_literals"},
     {"quantified_comparisons", "quantified_comparison_lists", "json_arrow_operators",
      "quantified_arbitrary_operator", "lambda_expressions"}}
=============================================================================
