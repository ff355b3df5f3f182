--------------------------- MODULE StatementHeads ---------------------------
(***************************************************************************)
(* The statement dispatcher (parser/statement_dispatch.rs,                 *)
(* parse_statement_inner): the arms it tries on the first words of a       *)
(* statement, in its order.  An arm needs its flags and matches an opening *)
(* whose first words are in its sets; `parse` names the production it      *)
(* calls.  An opening is a sequence of words; "paren" is an opening        *)
(* parenthesis, "end" the end of a statement, and a word no arm knows is   *)
(* "other".  The dialect hook of the shipped dialects handles nothing.     *)
(***************************************************************************)
EXTENDS FeatureFlags

On(needs, words, parse) == [needs |-> needs, words |-> words, parse |-> parse]

\* SIMPLE_CONTEXTUAL_HEADS: one word, one flag.
SimpleHeads ==
    << On({"comment_on"}, <<{"COMMENT"}>>, "comment"),
       On({"pragma"}, <<{"PRAGMA"}>>, "pragma"), On({"kill"}, <<{"KILL"}>>, "kill"),
       On({"shutdown"}, <<{"SHUTDOWN"}>>, "shutdown"),
       On({"restart"}, <<{"RESTART"}>>, "restart"), On({"clone"}, <<{"CLONE"}>>, "clone"),
       On({"help_statement"}, <<{"HELP"}>>, "help"),
       On({"binlog"}, <<{"BINLOG"}>>, "binlog"), On({"flush"}, <<{"FLUSH"}>>, "flush"),
       On({"purge_binary_logs"}, <<{"PURGE"}>>, "purge"),
       On({"rename_statement"}, <<{"RENAME"}>>, "rename"),
       On({"call"}, <<{"CALL"}>>, "call"), On({"reindex"}, <<{"REINDEX"}>>, "reindex"),
       On({"xa_transactions"}, <<{"XA"}>>, "xa") >>

\* Definitions and mutations, up to the statements behind WITH.
DefinitionHeads ==
    << On({}, <<{"CREATE"}>>, "create"), On({}, <<{"ALTER"}>>, "alter"),
       On({}, <<{"DROP"}>>, "drop"), On({}, <<{"TRUNCATE"}>>, "truncate"),
       On({"materialized_views"}, <<{"REFRESH"}>>, "refresh"),
       On({}, <<{"INSERT"}>>, "insert"),
       On({"update_extensions"}, <<{"UPDATE"}, {"EXTENSIONS"}, {"paren", "end"}>>,
            "update_extensions"),
       On({}, <<{"UPDATE"}>>, "update"), On({}, <<{"DELETE"}>>, "delete"),
       On({"merge"}, <<{"MERGE"}>>, "merge"),
       On({"replace_into"}, <<{"REPLACE"}>>, "replace"), On({}, <<{"WITH"}>>, "with") >>

\* peek_starts_replication_statement and peek_starts_transaction_statement.
TransactionHeads ==
    << On({"replication_statements"}, <<{"CHANGE"}, {"REPLICATION"}>>, "replication"),
       On({"replication_statements"},
            <<{"START", "STOP"}, {"REPLICA", "GROUP_REPLICATION"}>>, "replication"),
       On({}, <<{"BEGIN", "COMMIT", "ROLLBACK"}>>, "transaction"),
       On({"start_transaction"}, <<{"START"}>>, "transaction"),
       On({"end_transaction_alias"}, <<{"END"}>>, "transaction"),
       On({"abort_transaction_alias"}, <<{"ABORT"}>>, "transaction"),
       On({"transaction_savepoints"}, <<{"SAVEPOINT", "RELEASE"}>>, "transaction"),
       On({"set_transaction"}, <<{"SET"}, {"TRANSACTION"}>>, "transaction") >>

\* The catalogue forms of SHOW, then the session statements (peek_starts_show_*,
\* peek_starts_session_statement).  "DATABASES" stands for the lone leads of
\* peek_starts_show_admin but "CREATE" and "INDEX".
TableModifier == {"EXTENDED", "FULL", "ALL"}
ColumnModifier == {"EXTENDED", "FULL"}

ShowHeads ==
    << On({"show_tables"}, <<{"SHOW"}, {"TABLES"}>>, "show_tables"),
       On({"show_tables"}, <<{"SHOW"}, TableModifier, {"TABLES"}>>, "show_tables"),
       On({"show_tables"}, <<{"SHOW"}, TableModifier, TableModifier, {"TABLES"}>>,
            "show_tables"),
       On({"show_columns"}, <<{"SHOW"}, {"COLUMNS", "FIELDS"}>>, "show_columns"),
       On({"show_columns"}, <<{"SHOW"}, ColumnModifier, {"COLUMNS", "FIELDS"}>>,
            "show_columns"),
       On({"show_columns"},
            <<{"SHOW"}, ColumnModifier, ColumnModifier, {"COLUMNS", "FIELDS"}>>,
            "show_columns"),
       On({"show_create_table"}, <<{"SHOW"}, {"CREATE"}, {"TABLE"}>>, "show_create_table"),
       On({"show_functions"}, <<{"SHOW"}, {"FUNCTIONS"}>>, "show_functions"),
       On({"show_functions"}, <<{"SHOW"}, {"USER", "SYSTEM", "ALL"}, {"FUNCTIONS"}>>,
            "show_functions"),
       On({"show_routine_status"}, <<{"SHOW"}, {"FUNCTION", "PROCEDURE"}, {"STATUS"}>>,
            "show_routine_status"),
       On({"show_admin"}, <<{"SHOW"}, {"DATABASES", "CREATE", "INDEX"}>>, "show_admin"),
       On({"show_admin"}, <<{"SHOW"}, {"TABLE"}, {"STATUS"}>>, "show_admin"),
       On({"show_admin"}, <<{"SHOW"}, {"GLOBAL", "SESSION", "LOCAL"},
                              {"STATUS", "VARIABLES"}>>, "show_admin"),
       On({"show_admin"}, <<{"SHOW"}, {"FULL"}, {"TRIGGERS", "PROCESSLIST"}>>, "show_admin"),
       On({"show_admin"}, <<{"SHOW"}, {"STORAGE"}, {"ENGINES"}>>, "show_admin"),
       On({"show_admin"}, <<{"SHOW"}, {"EXTENDED"}, {"INDEX", "INDEXES", "KEYS"}>>,
            "show_admin"),
       On({"show_admin"}, <<{"SHOW"}, {"PROCEDURE", "FUNCTION"}, {"CODE"}>>, "show_admin"),
       On({"session_statements"}, <<{"SET", "RESET", "SHOW"}>>, "session") >>

\* COPY branches inside its production; without `copy` only COPY INTO is left.
AccessHeads ==
    << On({"access_control", "access_control_account_grants"},
            <<{"GRANT", "REVOKE"}>>, "account_grant"),
       On({"access_control"}, <<{"GRANT", "REVOKE"}>>, "grant"),
       On({"copy_into"}, <<{"COPY"}, {"INTO"}>>, "copy_into"),
       On({"copy"}, <<{"COPY"}>>, "copy"),
       On({"copy_into"}, <<{"COPY"}>>, "error"),
       On({"attach"}, <<{"ATTACH"}>>, "attach"), On({"attach"}, <<{"DETACH"}>>, "detach"),
       On({"export_import_database"}, <<{"EXPORT"}>>, "export"),
       On({"import_table"}, <<{"IMPORT"}, {"TABLE"}>>, "import_table"),
       On({"export_import_database"}, <<{"IMPORT"}>>, "import") >>

MaintenanceHeads ==
    << On({"checkpoint"}, <<{"CHECKPOINT"}>>, "checkpoint"),
       On({"checkpoint", "checkpoint_database"}, <<{"FORCE"}, {"CHECKPOINT"}>>, "checkpoint"),
       On({"load_data"}, <<{"LOAD"}, {"DATA", "XML"}>>, "load_data"),
       On({"key_cache_statements"}, <<{"CACHE"}>>, "cache_index"),
       On({"key_cache_statements"}, <<{"LOAD"}, {"INDEX"}>>, "load_index"),
       On({"load_extension"}, <<{"LOAD"}>>, "load"),
       On({"vacuum"}, <<{"VACUUM"}>>, "vacuum"),
       On({"vacuum_analyze"}, <<{"VACUUM"}>>, "vacuum"),
       On({"table_maintenance"}, <<{"ANALYZE", "OPTIMIZE", "REPAIR"},
            {"TABLE", "TABLES", "NO_WRITE_TO_BINLOG", "LOCAL"}>>, "table_maintenance"),
       On({"table_maintenance"}, <<{"CHECK", "CHECKSUM"}, {"TABLE", "TABLES"}>>,
            "table_maintenance"),
       On({"analyze"}, <<{"ANALYZE"}>>, "analyze"),
       On({"use_statement"}, <<{"USE"}>>, "use"),
       On({"handler_statements"}, <<{"HANDLER"}>>, "handler"),
       On({"plugin_component_statements"}, <<{"INSTALL"}>>, "install"),
       On({"plugin_component_statements"}, <<{"UNINSTALL"}>>, "uninstall") >>

\* DEALLOCATE is one production that asks prepared_statements_from first.
ProgramHeads ==
    << On({"prepared_statements"}, <<{"PREPARE"}>>, "prepare"),
       On({"prepared_statements_from"}, <<{"PREPARE"}>>, "prepare_from"),
       On({"prepared_statements"}, <<{"EXECUTE"}>>, "execute"),
       On({"prepared_statements_from"}, <<{"EXECUTE"}>>, "execute_using"),
       On({"prepared_statements_from"}, <<{"DEALLOCATE"}>>, "deallocate_prepare"),
       On({"prepared_statements"}, <<{"DEALLOCATE"}>>, "deallocate"),
       On({"do_statement"}, <<{"DO"}>>, "do_block"),
       On({"do_expression_list"}, <<{"DO"}>>, "do_expressions"),
       On({"lock_tables"}, <<{"LOCK"}, {"TABLE", "TABLES"}>>, "lock_tables"),
       On({"lock_instance"}, <<{"LOCK"}, {"INSTANCE"}>>, "lock_instance"),
       On({"lock_tables"}, <<{"UNLOCK"}, {"TABLE", "TABLES"}>>, "unlock_tables"),
       On({"lock_instance"}, <<{"UNLOCK"}, {"INSTANCE"}>>, "unlock_instance"),
       On({"signal_diagnostics"}, <<{"SIGNAL"}>>, "signal"),
       On({"signal_diagnostics"}, <<{"RESIGNAL"}>>, "resignal"),
       On({"signal_diagnostics"}, <<{"GET"}, {"DIAGNOSTICS", "CURRENT", "STACKED"}>>,
            "get_diagnostics") >>

\* The queries come last (peek_starts_query).
QueryHeads ==
    << On({"pivot"}, <<{"PIVOT"}>>, "pivot"), On({"unpivot"}, <<{"UNPIVOT"}>>, "unpivot"),
       On({}, <<{"EXPLAIN"}>>, "explain"),
       On({"describe"}, <<{"DESCRIBE", "DESC"}>>, "explain"),
       On({"describe_summarize"}, <<{"DESCRIBE", "DESC", "SUMMARIZE"}>>, "summarize"),
       On({}, <<{"SELECT", "VALUES", "paren"}>>, "query"),
       On({"explicit_table"}, <<{"TABLE"}>>, "query"),
       On({"from_first"}, <<{"FROM"}>>, "query") >>

\* Mutant: the session statements are tried before transaction control.
HeadArmsSessionFirst ==
    SimpleHeads \o DefinitionHeads \o ShowHeads \o TransactionHeads
    \o AccessHeads \o MaintenanceHeads \o ProgramHeads \o QueryHeads

\* parse_statement_inner: the arms in their order.
HeadArms == SimpleHeads \o DefinitionHeads \o TransactionHeads \o ShowHeads
                  \o AccessHeads \o MaintenanceHeads \o ProgramHeads \o QueryHeads

\* Mutant: one of the flags of an arm is enough.
MatchesAnyFlag(F, head, opening) ==
    /\ head.needs = {} \/ Meets(F, head.needs)
    /\ Len(head.words) <= Len(opening)
    /\ \A i \in DOMAIN head.words : opening[i] \in head.words[i]

Matches(F, head, opening) ==
    /\ head.needs \subseteq F
    /\ Len(head.words) <= Len(opening)
    /\ \A i \in DOMAIN head.words : opening[i] \in head.words[i]

FirstWords == UNION {HeadArms[i].words[1] : i \in DOMAIN HeadArms}

\* The arms of each first word (a constant, so that TLC searches only them).
HeadsOf == [w \in FirstWords |->
               {i \in DOMAIN HeadArms : w \in HeadArms[i].words[1]}]

\* The arms that would take an opening, and the one the dispatcher takes.
Takers(F, opening) == {i \in IF opening[1] \in FirstWords THEN HeadsOf[opening[1]] ELSE {} :
                          Matches(F, HeadArms[i], opening)}

Dispatch(F, opening) ==
    LET takers == Takers(F, opening)
    IN  IF takers = {} THEN "error"
        ELSE HeadArms[CHOOSE i \in takers : \A j \in takers : i <= j].parse

-----------------------------------------------------------------------------
\* The openings that spell some arm, those with a word after it, and those whose
\* last word is another.
Written(words) == {s \in [DOMAIN words -> UNION {words[i] : i \in DOMAIN words}] :
                      \A i \in DOMAIN words : s[i] \in words[i]}

Openings == LET spelled == UNION {Written(HeadArms[i].words) :
                                     i \in DOMAIN HeadArms}
            IN  spelled \cup {Append(s, "other") : s \in spelled}
                        \cup {[s EXCEPT ![Len(s)] = "other"] : s \in spelled}

\* Arm a is the more specific of two: it asks for more words, or for the same
\* words under more flags.
MoreSpecific(a, b) ==
    LET x == HeadArms[a]  y == HeadArms[b]
    IN  \/ Len(x.words) > Len(y.words)
        \/ Len(x.words) = Len(y.words) /\ y.needs \subseteq x.needs /\ x.needs # y.needs

\* Some production that claims the opening is passed over for one that is not
\* more specific.
PassedOver(F, opening) ==
    LET takers == Takers(F, opening)
        first == CHOOSE i \in takers : \A j \in takers : i <= j
    IN  \E i \in takers : /\ HeadArms[i].parse \notin {HeadArms[first].parse, "error"}
                          /\ ~MoreSpecific(first, i)
=============================================================================
