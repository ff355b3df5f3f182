------------------------ MODULE DialectBuilderProofs ------------------------
(***************************************************************************)
(* Proofs about DialectBuilder, for every collection of presets and of     *)
(* deltas: nothing below depends on which sets of flags the shipped        *)
(* dialects are.  The last part is about the binding powers, which a       *)
(* dialect also has as data.                                               *)
(***************************************************************************)
EXTENDS DialectBuilder, OperatorRanks, SequenceTheorems, FiniteSetTheorems,
        NaturalsInduction, WellFoundedInduction, TLAPS

(* The flags feature_dependencies knows as refinements of another.         *)
Dependents ==
    {"key_lock_strengths", "stacked_locking_clauses", "unnest_with_offset", "slice_step",
     "multidim_array_literals", "quantified_comparison_lists", "quantified_arbitrary_operator",
     "lambda_expressions", "cte_before_merge", "merge_when_not_matched_by",
     "merge_insert_default_values", "merge_insert_overriding", "alter_existence_guards",
     "alter_column_set_data_type", "checkpoint_database", "analyze_columns", "load_bare_name",
     "call_bare_name", "detach_if_exists", "use_qualified_name", "use_string_literal_name",
     "access_control_extended_objects", "access_control_account_grants",
     "prepare_typed_parameters"}

(* No refinement is itself refined: clearing one leaves none dangling that *)
(* did not dangle before.                                                  *)
LEMMA NoChains ==
    \A i \in DOMAIN Dependencies :
        Dependencies[i][1] \in Dependents /\ Dependencies[i][2] \notin Dependents
  BY DEF Dependencies, Dependents

(* A set of places of a table that is not empty has a first.               *)
LEMMA LeastOf ==
    ASSUME NEW T, T \subseteq Nat, T # {}
    PROVE  \E x \in T : \A y \in T : x <= y
  <1> DEFINE R == OpToRel(<, Nat)
  <1>1. IsWellFoundedOn(R, Nat)
    BY NatLessThanWellFounded
  <1>2. \A x, y \in Nat : x < y => <<x, y>> \in R
    BY DEF OpToRel
  <1> HIDE DEF R
  <1>3. PICK x \in T : \A y \in T : ~(<<y, x>> \in R)
    BY <1>1, WFMin
  <1>4. ASSUME NEW y \in T PROVE x <= y
    <2>1. x \in Nat /\ y \in Nat
      OBVIOUS
    <2>2. ~(y < x)
      BY <1>2, <1>3, <2>1
    <2> QED
      BY <2>1, <2>2
  <1> QED
    BY <1>4

(* What feature_dependencies reports: a dependency that dangles, or none.  *)
LEMMA Violations ==
    ASSUME NEW F
    PROVE  /\ feature_dependencies(F) # 0 =>
                 /\ feature_dependencies(F) \in DOMAIN Dependencies
                 /\ Dangles(F, feature_dependencies(F))
           /\ feature_dependencies(F) = 0 => \A i \in DOMAIN Dependencies : ~Dangles(F, i)
  <1> DEFINE hits == {i \in DOMAIN Dependencies : Dangles(F, i)}
  <1>1. DOMAIN Dependencies \subseteq Nat \ {0}
    BY DEF Dependencies
  <1>2. feature_dependencies(F)
          = IF hits = {} THEN 0 ELSE CHOOSE i \in hits : \A j \in hits : i <= j
    BY DEF feature_dependencies
  <1>3. hits # {} => (CHOOSE i \in hits : \A j \in hits : i <= j) \in hits
    <2>1. hits # {} => \E i \in hits : \A j \in hits : i <= j
      BY <1>1, LeastOf
    <2> HIDE DEF hits
    <2> QED
      BY <2>1
  <1> QED
    BY <1>1, <1>2, <1>3

(* While the loop runs, what it has cleared dangled when it began.         *)
Clearing ==
    phase \in {"normalizing", "normalized"} =>
        /\ features \subseteq base
        /\ \A x \in base \ features :
              \E i \in DOMAIN Dependencies : x = Dependencies[i][1] /\ Dangles(base, i)

(* The loop has ended only where nothing dangles.                          *)
Ended == phase = "normalized" => feature_dependencies(features) = 0

IInv == TypeOK /\ Clearing /\ Ended

(* A preset is a set of known flags.                                       *)
LEMMA InitEstablishes == Init => IInv
  <1> SUFFICES ASSUME Init PROVE IInv
    OBVIOUS
  <1>1. TypeOK
    BY MaxDeltasAssumption DEF Init, TypeOK, AllFlags
  <1> QED
    BY <1>1 DEF Init, IInv, Clearing, Ended

(* A delta sets known flags.                                               *)
LEMMA DeltaFlags ==
    ASSUME NEW F, F \subseteq AllFlags, NEW own \in Deltas, NEW on \in SUBSET own
    PROVE  Delta(F, own, on) \subseteq AllFlags
  <1>1. own \subseteq UNION Deltas
    OBVIOUS
  <1>2. own \subseteq AllFlags
    BY <1>1 DEF AllFlags
  <1>3. on \subseteq own
    OBVIOUS
  <1> QED
    BY <1>2, <1>3 DEF Delta

(* Customising a set is done before it is normalized.                      *)
LEMMA DeltaStep ==
    ASSUME IInv, NEW own \in Deltas, NEW on \in SUBSET own, With(own, on) \/ TryWith(own, on)
    PROVE  IInv'
  <1>1. /\ phase = "building" /\ phase' = phase /\ base' = base
        /\ deltas < MaxDeltas /\ deltas' = deltas + 1
        /\ features' \in {features, Delta(features, own, on)}
    BY DEF With, TryWith
  <1>2. features' \subseteq AllFlags
    BY <1>1, DeltaFlags DEF IInv, TypeOK
  <1>3. deltas' \in 0..MaxDeltas
    BY <1>1, MaxDeltasAssumption DEF IInv, TypeOK
  <1>4. TypeOK'
    <2>1. AllFlags' = AllFlags
      BY DEF AllFlags
    <2> QED
      BY <1>1, <1>2, <1>3, <2>1 DEF IInv, TypeOK
  <1> QED
    BY <1>1, <1>4 DEF IInv, Clearing, Ended

(* Clearing the first violation: the base it misses was missing all along, *)
(* since nothing the loop clears is a base.                                *)
LEMMA ClearStep ==
    ASSUME IInv, ClearDangling
    PROVE  IInv'
  <1> DEFINE k == feature_dependencies(features)
  <1>1. /\ phase = "normalizing" /\ k # 0 /\ features' = features \ {Dependencies[k][1]}
        /\ phase' = phase /\ base' = base /\ deltas' = deltas
    BY DEF ClearDangling
  <1>2. k \in DOMAIN Dependencies /\ Dangles(features, k)
    BY <1>1, Violations
  <1> HIDE DEF k
  <1>3. Dangles(base, k)
    <2>1. Dependencies[k][1] \in base /\ Dependencies[k][2] \notin features
      BY <1>1, <1>2 DEF Dangles, IInv, Clearing
    <2>2. Dependencies[k][2] \notin base
      <3> SUFFICES ASSUME Dependencies[k][2] \in base PROVE FALSE
        OBVIOUS
      <3>1. PICK i \in DOMAIN Dependencies : Dependencies[k][2] = Dependencies[i][1]
        BY <1>1, <2>1 DEF IInv, Clearing
      <3> QED
        BY <1>2, <3>1, NoChains
    <2> QED
      BY <2>1, <2>2 DEF Dangles
  <1>4. Clearing'
    <2>1. features' \subseteq base'
      BY <1>1 DEF IInv, Clearing
    <2>2. ASSUME NEW x \in base' \ features'
          PROVE  \E i \in DOMAIN Dependencies : x = Dependencies[i][1] /\ Dangles(base', i)
      <3>1. CASE x = Dependencies[k][1]
        BY <1>1, <1>2, <1>3, <3>1
      <3>2. CASE x # Dependencies[k][1]
        BY <1>1, <2>2, <3>2 DEF IInv, Clearing
      <3> QED
        BY <3>1, <3>2
    <2> QED
      BY <2>1, <2>2 DEF Clearing, Dangles
  <1>5. TypeOK'
    BY <1>1 DEF IInv, TypeOK, AllFlags
  <1> QED
    BY <1>1, <1>4, <1>5 DEF IInv, Ended

(* Every step keeps the invariant.                                         *)
LEMMA StepPreserves == IInv /\ [Next]_vars => IInv'
  <1> SUFFICES ASSUME IInv, [Next]_vars PROVE IInv'
    OBVIOUS
  <1>1. ASSUME NEW own \in Deltas, NEW on \in SUBSET own, With(own, on) \/ TryWith(own, on)
        PROVE  IInv'
    BY <1>1, DeltaStep
  <1>2. CASE BeginNormalize
    BY <1>2 DEF BeginNormalize, IInv, TypeOK, AllFlags, Clearing, Ended
  <1>3. CASE ClearDangling
    BY <1>3, ClearStep
  <1>4. CASE EndNormalize
    BY <1>4 DEF EndNormalize, IInv, TypeOK, AllFlags, Clearing, Ended, Dangles
  <1>5. CASE ParseEntry
    BY <1>5 DEF ParseEntry, IInv, TypeOK, AllFlags, Clearing, Ended
  <1>6. CASE UNCHANGED vars
    BY <1>6 DEF vars, IInv, TypeOK, AllFlags, Clearing, Ended, Dangles
  <1> QED
    BY <1>1, <1>2, <1>3, <1>4, <1>5, <1>6 DEF Next, Normalize

(* The invariant holds of every behaviour.                                 *)
LEMMA Inductive == Spec => []IInv
  BY InitEstablishes, StepPreserves, PTL DEF Spec

(* Whatever the dialect, without_dangling_dependents leaves exactly the    *)
(* flags that did not dangle when it was called, although it looks again   *)
(* at the changed set before each flag it clears.                          *)
THEOREM NormalFormIsExact == Spec => []NormalForm
  <1>1. IInv => NormalForm
    <2> SUFFICES ASSUME IInv, phase = "normalized"
                 PROVE  features = base \ {Dependencies[i][1] :
                                             i \in {j \in DOMAIN Dependencies : Dangles(base, j)}}
      BY DEF IInv, NormalForm
    <2>1. \A i \in DOMAIN Dependencies : ~Dangles(features, i)
      BY Violations DEF IInv, Ended
    <2>2. ASSUME NEW i \in DOMAIN Dependencies, Dangles(base, i)
          PROVE  Dependencies[i][1] \notin features
      BY <2>1, <2>2 DEF Dangles, IInv, Clearing
    <2> QED
      BY <2>2 DEF IInv, Clearing
  <1> QED
    BY <1>1, Inductive, PTL

(***************************************************************************)
(* OutcomePreserved.  The scanner asks for none of the refinements, and    *)
(* the dispatcher asks for one only together with what it refines: a set   *)
(* with a dangling flag scans and dispatches as the same set without it.   *)
(***************************************************************************)
ScanFlags ==
    {"anonymous_question", "array_constructor", "at_start", "bit_string_literals",
     "blob_literals", "collection_literals", "colon_start", "containment_operators",
     "custom_operators", "dollar_quoted_strings", "dollar_start", "double_quoted_strings",
     "hash_bitwise_xor", "hash_start", "jsonb_operators", "line_comment_hash",
     "money_literals", "named_at", "named_colon", "named_dollar", "numbered_question",
     "positional_column", "positional_dollar", "quote_backtick", "quote_bracket",
     "quote_double", "semi_structured_access", "stage_references", "starts_with_operator",
     "subscript", "system_variables", "table_json_path", "user_variables"}

Alike(F, G) == \A x \in ScanFlags : (x \in F) = (x \in G)

(* Sets that agree on the scanner's flags meet the same of them.           *)
LEMMA MeetAlike ==
    ASSUME NEW F, NEW G, Alike(F, G), NEW A, A \subseteq ScanFlags
    PROVE  Meets(F, A) = Meets(G, A)
  BY DEF Alike, Meets

(* They scan `"`, `[`, a backtick and x' alike.                            *)
LEMMA QuotesAlike ==
    ASSUME NEW F, NEW G, Alike(F, G)
    PROVE  QuoteArms(F) = QuoteArms(G)
  <1>1. /\ ("double_quoted_strings" \in F) = ("double_quoted_strings" \in G)
        /\ ("quote_double" \in F) = ("quote_double" \in G)
        /\ ("quote_bracket" \in F) = ("quote_bracket" \in G)
        /\ ("quote_backtick" \in F) = ("quote_backtick" \in G)
        /\ ("custom_operators" \in F) = ("custom_operators" \in G)
        /\ ("blob_literals" \in F) = ("blob_literals" \in G)
        /\ ("bit_string_literals" \in F) = ("bit_string_literals" \in G)
    BY DEF Alike, ScanFlags
  <1>2. Meets(F, {"subscript", "array_constructor", "collection_literals", "table_json_path"})
          = Meets(G, {"subscript", "array_constructor", "collection_literals", "table_json_path"})
    <2>1. {"subscript", "array_constructor", "collection_literals", "table_json_path"}
             \subseteq ScanFlags
      BY DEF ScanFlags
    <2> QED
      BY <2>1, MeetAlike
  <1> QED
    BY <1>1, <1>2, Zenon DEF QuoteArms

(* They scan `$` and `:` alike.                                            *)
LEMMA DollarsAlike ==
    ASSUME NEW F, NEW G, Alike(F, G)
    PROVE  DollarArms(F) = DollarArms(G) /\ ColonArms(F) = ColonArms(G)
  <1>1. /\ ("money_literals" \in F) = ("money_literals" \in G)
        /\ ("positional_dollar" \in F) = ("positional_dollar" \in G)
        /\ ("dollar_start" \in F) = ("dollar_start" \in G)
        /\ ("named_dollar" \in F) = ("named_dollar" \in G)
        /\ ("dollar_quoted_strings" \in F) = ("dollar_quoted_strings" \in G)
    BY DEF Alike, ScanFlags
  <1>2. /\ ("named_colon" \in F) = ("named_colon" \in G)
        /\ ("colon_start" \in F) = ("colon_start" \in G)
    BY DEF Alike, ScanFlags
  <1>3. Meets(F, {"subscript", "collection_literals", "semi_structured_access"})
          = Meets(G, {"subscript", "collection_literals", "semi_structured_access"})
    <2>1. {"subscript", "collection_literals", "semi_structured_access"} \subseteq ScanFlags
      BY DEF ScanFlags
    <2> QED
      BY <2>1, MeetAlike
  <1>4. DollarArms(F) = DollarArms(G)
    BY <1>1, Zenon DEF DollarArms
  <1>5. ColonArms(F) = ColonArms(G)
    BY <1>2, <1>3, Zenon DEF ColonArms
  <1> QED
    BY <1>4, <1>5

(* They scan `?` and `#` alike.                                            *)
LEMMA SigilsAlike ==
    ASSUME NEW F, NEW G, Alike(F, G)
    PROVE  QuestionArms(F) = QuestionArms(G) /\ HashArms(F) = HashArms(G)
  <1>1. /\ ("anonymous_question" \in F) = ("anonymous_question" \in G)
        /\ ("numbered_question" \in F) = ("numbered_question" \in G)
        /\ ("jsonb_operators" \in F) = ("jsonb_operators" \in G)
        /\ ("custom_operators" \in F) = ("custom_operators" \in G)
    BY DEF Alike, ScanFlags
  <1>2. /\ ("line_comment_hash" \in F) = ("line_comment_hash" \in G)
        /\ ("hash_start" \in F) = ("hash_start" \in G)
        /\ ("hash_bitwise_xor" \in F) = ("hash_bitwise_xor" \in G)
        /\ ("positional_column" \in F) = ("positional_column" \in G)
    BY DEF Alike, ScanFlags
  <1>3. QuestionInRun(F) = QuestionInRun(G) /\ HashInRun(F) = HashInRun(G)
    BY <1>1, <1>2 DEF QuestionInRun, HashInRun
  <1>4. QuestionArms(F) = QuestionArms(G)
    BY <1>1, <1>3, Zenon DEF QuestionArms
  <1>5. HashArms(F) = HashArms(G)
    BY <1>2, <1>3, Zenon DEF HashArms
  <1> QED
    BY <1>4, <1>5

(* They scan `@` alike.                                                    *)
LEMMA AtsAlike ==
    ASSUME NEW F, NEW G, Alike(F, G)
    PROVE  AtArms(F) = AtArms(G)
  <1>1. /\ ("stage_references" \in F) = ("stage_references" \in G)
        /\ ("user_variables" \in F) = ("user_variables" \in G)
        /\ ("named_at" \in F) = ("named_at" \in G)
        /\ ("at_start" \in F) = ("at_start" \in G)
        /\ ("custom_operators" \in F) = ("custom_operators" \in G)
        /\ ("system_variables" \in F) = ("system_variables" \in G)
    BY DEF Alike, ScanFlags
  <1>2. /\ {"jsonb_operators", "custom_operators"} \subseteq ScanFlags
        /\ {"containment_operators", "custom_operators"} \subseteq ScanFlags
        /\ {"custom_operators"} \subseteq ScanFlags
        /\ {"starts_with_operator", "custom_operators"} \subseteq ScanFlags
    BY DEF ScanFlags
  <1>3. /\ Meets(F, {"jsonb_operators", "custom_operators"})
             = Meets(G, {"jsonb_operators", "custom_operators"})
        /\ Meets(F, {"containment_operators", "custom_operators"})
             = Meets(G, {"containment_operators", "custom_operators"})
        /\ Meets(F, {"custom_operators"}) = Meets(G, {"custom_operators"})
        /\ Meets(F, {"starts_with_operator", "custom_operators"})
             = Meets(G, {"starts_with_operator", "custom_operators"})
    BY <1>2, MeetAlike, Zenon
  <1>4. AtNameArms(F) = AtNameArms(G)
    BY <1>1, Zenon DEF AtNameArms
  <1>5. WordOrStray(F, "at_start") = WordOrStray(G, "at_start")
    BY <1>1, Zenon DEF WordOrStray
  <1> QED
    BY <1>1, <1>3, <1>4, <1>5, Zenon DEF AtArms

(* They scan alike.                                                        *)
LEMMA ScansAlike ==
    ASSUME NEW F, NEW G, Alike(F, G), NEW t
    PROVE  Scan(F, t) = Scan(G, t)
  <1>1. /\ QuoteArms(F) = QuoteArms(G) /\ AtArms(F) = AtArms(G)
        /\ DollarArms(F) = DollarArms(G) /\ ColonArms(F) = ColonArms(G)
        /\ QuestionArms(F) = QuestionArms(G) /\ HashArms(F) = HashArms(G)
    BY QuotesAlike, DollarsAlike, SigilsAlike, AtsAlike
  <1>2. Arms(F, t) = Arms(G, t)
    BY <1>1, Zenon DEF Arms
  <1> QED
    BY <1>2, Zenon DEF Scan

(* What an arm may ask for: a refinement only with what it refines.        *)
Honest(head) ==
    \A i \in DOMAIN Dependencies :
        Dependencies[i][1] \in head.needs => Dependencies[i][2] \in head.needs

(* An arm that asks for no refinement is honest, and so are the two that   *)
(* do ask for one.                                                         *)
LEMMA HonestArms ==
    /\ \A words, parse : Honest(On({}, words, parse))
    /\ \A f, words, parse : f \notin Dependents => Honest(On({f}, words, parse))
    /\ \A words, parse :
          Honest(On({"access_control", "access_control_account_grants"}, words, parse))
    /\ \A words, parse : Honest(On({"checkpoint", "checkpoint_database"}, words, parse))
  <1>0. \A needs, words, parse : On(needs, words, parse).needs = needs
    BY DEF On
  <1>1. \A words, parse : Honest(On({}, words, parse))
    BY <1>0 DEF Honest
  <1>2. \A f, words, parse : f \notin Dependents => Honest(On({f}, words, parse))
    BY <1>0, NoChains DEF Honest
  <1>3. \A i \in DOMAIN Dependencies :
           Dependencies[i][1] \in {"access_control", "access_control_account_grants"}
             => Dependencies[i][2] \in {"access_control", "access_control_account_grants"}
    BY DEF Dependencies
  <1>4. \A i \in DOMAIN Dependencies :
           Dependencies[i][1] \in {"checkpoint", "checkpoint_database"}
             => Dependencies[i][2] \in {"checkpoint", "checkpoint_database"}
    BY DEF Dependencies
  <1>a. ASSUME NEW needs,
               \A i \in DOMAIN Dependencies :
                  Dependencies[i][1] \in needs => Dependencies[i][2] \in needs
        PROVE  \A words, parse : Honest(On(needs, words, parse))
    BY <1>0, <1>a DEF Honest
  <1>5. \A words, parse :
           Honest(On({"access_control", "access_control_account_grants"}, words, parse))
    BY <1>3, <1>a, Zenon
  <1>6. \A words, parse : Honest(On({"checkpoint", "checkpoint_database"}, words, parse))
    BY <1>4, <1>a, Zenon
  <1> QED
    BY <1>1, <1>2, <1>5, <1>6

(* The arms of each part of the dispatcher are honest.                     *)
LEMMA SimpleHonest == \A i \in DOMAIN SimpleHeads : Honest(SimpleHeads[i])
  <1>1. \A f \in {"comment_on", "pragma", "kill", "shutdown", "restart", "clone",
                  "help_statement", "binlog", "flush", "purge_binary_logs",
                  "rename_statement", "call", "reindex", "xa_transactions"} :
           \A words, parse : Honest(On({f}, words, parse))
    BY HonestArms DEF Dependents
  <1> QED
    BY <1>1 DEF SimpleHeads

(* Those of definitions and mutations.                                     *)
LEMMA DefinitionHonest == \A i \in DOMAIN DefinitionHeads : Honest(DefinitionHeads[i])
  <1>1. \A f \in {"materialized_views", "update_extensions", "merge", "replace_into"} :
           \A words, parse : Honest(On({f}, words, parse))
    BY HonestArms DEF Dependents
  <1> QED
    BY <1>1, HonestArms DEF DefinitionHeads

(* Those of transaction control.                                           *)
LEMMA TransactionHonest == \A i \in DOMAIN TransactionHeads : Honest(TransactionHeads[i])
  <1>1. \A f \in {"replication_statements", "start_transaction", "end_transaction_alias",
                  "abort_transaction_alias", "transaction_savepoints", "set_transaction"} :
           \A words, parse : Honest(On({f}, words, parse))
    BY HonestArms DEF Dependents
  <1> QED
    BY <1>1, HonestArms DEF TransactionHeads

(* Those of SHOW and the session statements.                               *)
LEMMA ShowHonest == \A i \in DOMAIN ShowHeads : Honest(ShowHeads[i])
  <1>1. \A f \in {"show_tables", "show_columns", "show_create_table", "show_functions",
                  "show_routine_status", "show_admin", "session_statements"} :
           \A words, parse : Honest(On({f}, words, parse))
    BY HonestArms DEF Dependents
  <1> QED
    BY <1>1 DEF ShowHeads

(* Those of access control and bulk transfer.                              *)
LEMMA AccessHonest == \A i \in DOMAIN AccessHeads : Honest(AccessHeads[i])
  <1>1. \A f \in {"access_control", "copy_into", "copy", "attach", "export_import_database",
                  "import_table"} :
           \A words, parse : Honest(On({f}, words, parse))
    BY HonestArms DEF Dependents
  <1> QED
    BY <1>1, HonestArms DEF AccessHeads

(* Those of maintenance.                                                   *)
LEMMA MaintenanceHonest == \A i \in DOMAIN MaintenanceHeads : Honest(MaintenanceHeads[i])
  <1>1. \A f \in {"checkpoint", "load_data", "key_cache_statements", "load_extension",
                  "vacuum", "vacuum_analyze", "table_maintenance", "analyze",
                  "use_statement", "handler_statements", "plugin_component_statements"} :
           \A words, parse : Honest(On({f}, words, parse))
    BY HonestArms DEF Dependents
  <1> QED
    BY <1>1, HonestArms DEF MaintenanceHeads

(* Those of prepared statements, locks and diagnostics.                    *)
LEMMA ProgramHonest == \A i \in DOMAIN ProgramHeads : Honest(ProgramHeads[i])
  <1>1. \A f \in {"prepared_statements", "prepared_statements_from", "do_statement",
                  "do_expression_list", "lock_tables", "lock_instance",
                  "signal_diagnostics"} :
           \A words, parse : Honest(On({f}, words, parse))
    BY HonestArms DEF Dependents
  <1> QED
    BY <1>1 DEF ProgramHeads

(* Those of queries.                                                       *)
LEMMA QueryHonest == \A i \in DOMAIN QueryHeads : Honest(QueryHeads[i])
  <1>1. \A f \in {"pivot", "unpivot", "describe", "describe_summarize", "explicit_table",
                  "from_first"} :
           \A words, parse : Honest(On({f}, words, parse))
    BY HonestArms DEF Dependents
  <1> QED
    BY <1>1, HonestArms DEF QueryHeads

(* Every arm of the dispatcher is honest.                                  *)
LEMMA HeadsHonest == \A i \in DOMAIN HeadArms : Honest(HeadArms[i])
  <1> DEFINE Of(part) == {part[i] : i \in DOMAIN part}
             Parts == Of(SimpleHeads) \cup Of(DefinitionHeads) \cup Of(TransactionHeads)
                        \cup Of(ShowHeads) \cup Of(AccessHeads) \cup Of(MaintenanceHeads)
                        \cup Of(ProgramHeads) \cup Of(QueryHeads)
             S == {head \in Parts : Honest(head)}
  <1>1. /\ \A i \in DOMAIN SimpleHeads : SimpleHeads[i] \in S
        /\ \A i \in DOMAIN DefinitionHeads : DefinitionHeads[i] \in S
        /\ \A i \in DOMAIN TransactionHeads : TransactionHeads[i] \in S
        /\ \A i \in DOMAIN ShowHeads : ShowHeads[i] \in S
    BY SimpleHonest, DefinitionHonest, TransactionHonest, ShowHonest
  <1>2. /\ \A i \in DOMAIN AccessHeads : AccessHeads[i] \in S
        /\ \A i \in DOMAIN MaintenanceHeads : MaintenanceHeads[i] \in S
        /\ \A i \in DOMAIN ProgramHeads : ProgramHeads[i] \in S
        /\ \A i \in DOMAIN QueryHeads : QueryHeads[i] \in S
    BY AccessHonest, MaintenanceHonest, ProgramHonest, QueryHonest
  <1>3. \A head \in S : Honest(head)
    OBVIOUS
  <1> HIDE DEF S
  <1>4. SimpleHeads \in Seq(S)
    BY <1>1 DEF SimpleHeads
  <1>5. DefinitionHeads \in Seq(S)
    BY <1>1 DEF DefinitionHeads
  <1>6. TransactionHeads \in Seq(S)
    BY <1>1 DEF TransactionHeads
  <1>7. ShowHeads \in Seq(S)
    BY <1>1 DEF ShowHeads
  <1>8. AccessHeads \in Seq(S)
    BY <1>2 DEF AccessHeads
  <1>9. MaintenanceHeads \in Seq(S)
    BY <1>2 DEF MaintenanceHeads
  <1>10. ProgramHeads \in Seq(S)
    BY <1>2 DEF ProgramHeads
  <1>11. QueryHeads \in Seq(S)
    BY <1>2 DEF QueryHeads
  <1>12. HeadArms \in Seq(S)
    BY <1>4, <1>5, <1>6, <1>7, <1>8, <1>9, <1>10, <1>11 DEF HeadArms
  <1>13. \A i \in DOMAIN HeadArms : HeadArms[i] \in S
    BY <1>12
  <1> QED
    BY <1>3, <1>13

(* A set with a dangling flag dispatches as the same set without it.       *)
LEMMA DispatchesAlike ==
    ASSUME NEW F, NEW k \in DOMAIN Dependencies, Dangles(F, k), NEW o,
           NEW G, G = F \ {Dependencies[k][1]}
    PROVE  Dispatch(G, o) = Dispatch(F, o)
  <1>1. ASSUME NEW i \in DOMAIN HeadArms
        PROVE  (HeadArms[i].needs \subseteq G) <=> (HeadArms[i].needs \subseteq F)
    <2>1. Dependencies[k][1] \in HeadArms[i].needs => Dependencies[k][2] \in HeadArms[i].needs
      BY HeadsHonest DEF Honest
    <2>2. Dependencies[k][2] \notin F
      BY DEF Dangles
    <2> QED
      BY <2>1, <2>2
  <1>2. ASSUME NEW i \in DOMAIN HeadArms
        PROVE  Matches(G, HeadArms[i], o) <=> Matches(F, HeadArms[i], o)
    BY <1>1, Zenon DEF Matches
  <1>3. o[1] \in FirstWords => HeadsOf[o[1]] \subseteq DOMAIN HeadArms
    BY Zenon DEF HeadsOf
  <1>4. Takers(G, o) = Takers(F, o)
    <2>1. CASE o[1] \in FirstWords
      BY <1>2, <1>3, <2>1, Zenon DEF Takers
    <2>2. CASE o[1] \notin FirstWords
      BY <2>2, Zenon DEF Takers
    <2> QED
      BY <2>1, <2>2
  <1> DEFINE First(T) == IF T = {} THEN "error"
                         ELSE HeadArms[CHOOSE i \in T : \A j \in T : i <= j].parse
  <1>5. Dispatch(F, o) = First(Takers(F, o)) /\ Dispatch(G, o) = First(Takers(G, o))
    BY DEF Dispatch
  <1> HIDE DEF First
  <1> QED
    BY <1>4, <1>5, Zenon

(* Whatever the dialect, at every step of without_dangling_dependents the  *)
(* set scans every contested byte and dispatches every opening as it did   *)
(* when the function was called.                                           *)
THEOREM OutcomeIsPreserved == Spec => []OutcomePreserved
  <1>1. Init => OutcomePreserved
    BY DEF Init, OutcomePreserved
  <1>2. ASSUME IInv, OutcomePreserved, [Next]_vars
        PROVE  OutcomePreserved'
    <2>0. phase \in {"normalizing", "normalized"} =>
             /\ \A t \in Triggers : Scan(features, t) = Scan(base, t)
             /\ \A o \in Openings : Dispatch(features, o) = Dispatch(base, o)
      BY <1>2, Zenon DEF OutcomePreserved
    <2>1. CASE ClearDangling
      <3> DEFINE k == feature_dependencies(features)
      <3>1. /\ phase = "normalizing" /\ k # 0 /\ features' = features \ {Dependencies[k][1]}
            /\ base' = base
        BY <2>1 DEF ClearDangling
      <3>2. k \in DOMAIN Dependencies /\ Dangles(features, k)
        BY <3>1, Violations
      <3> HIDE DEF k
      <3>3. Alike(features', features)
        <4>1. Dependencies[k][1] \notin ScanFlags
          BY <3>2, NoChains DEF Dependents, ScanFlags
        <4> QED
          BY <3>1, <4>1 DEF Alike
      <3>4. \A t \in Triggers : Scan(features', t) = Scan(features, t)
        BY <3>3, ScansAlike
      <3>5. \A o \in Openings : Dispatch(features', o) = Dispatch(features, o)
        BY <3>1, <3>2, DispatchesAlike
      <3>6. /\ \A t \in Triggers : Scan(features, t) = Scan(base, t)
            /\ \A o \in Openings : Dispatch(features, o) = Dispatch(base, o)
        BY <2>0, <3>1
      <3> QED
        BY <3>1, <3>4, <3>5, <3>6, Zenon DEF OutcomePreserved
    <2>2. CASE BeginNormalize
      BY <2>2, Zenon DEF BeginNormalize, OutcomePreserved
    <2>3. CASE EndNormalize
      <3>1. phase \in {"normalizing", "normalized"} /\ features' = features /\ base' = base
        BY <2>3 DEF EndNormalize
      <3> QED
        BY <2>0, <3>1, Zenon DEF OutcomePreserved
    <2>4. CASE ParseEntry
      <3>1. phase' \notin {"normalizing", "normalized"}
        BY <2>4 DEF ParseEntry
      <3> QED
        BY <3>1, Zenon DEF OutcomePreserved
    <2>5. ASSUME NEW own \in Deltas, NEW on \in SUBSET own, With(own, on) \/ TryWith(own, on)
          PROVE  OutcomePreserved'
      <3>1. phase' \notin {"normalizing", "normalized"}
        BY <2>5 DEF With, TryWith
      <3> QED
        BY <3>1, Zenon DEF OutcomePreserved
    <2>6. CASE UNCHANGED vars
      <3>1. phase' = phase /\ features' = features /\ base' = base
        BY <2>6 DEF vars
      <3> QED
        BY <2>0, <3>1, Zenon DEF OutcomePreserved
    <2> QED
      BY <1>2, <2>1, <2>2, <2>3, <2>4, <2>5, <2>6 DEF Next, Normalize
  <1> QED
    BY <1>1, <1>2, Inductive, PTL DEF Spec

(***************************************************************************)
(* RegistryExact.  Whether a feature loses a trigger is decided by the     *)
(* first arm that holds; for each trigger that is a formula over a few     *)
(* flags, and the disjunction of these formulas is what the registry and   *)
(* the list of unlisted rivalries say.                                     *)
(***************************************************************************)
Taken(arms, k) ==
    k \in DOMAIN arms /\ arms[k].when /\ \A j \in 1..k - 1 : ~arms[j].when

(* Arm x asks for a reading of its own that arm y does not have.           *)
Disputes(x, y) == x.when /\ x.reading \notin Fallbacks /\ x.reading # y.reading

Loses(arms) == \E k, i \in DOMAIN arms : Taken(arms, k) /\ Disputes(arms[i], arms[k])

(* The scanner takes the first arm that holds, when one does: a feature    *)
(* is shadowed exactly where an arm loses.                                 *)
LEMMA ShadowedLoses ==
    ASSUME NEW F, NEW t, DOMAIN Arms(F, t) \subseteq Nat \ {0},
           \E k : Taken(Arms(F, t), k)
    PROVE  Shadowed(F, t) <=> Loses(Arms(F, t))
  <1> DEFINE arms == Arms(F, t)
             first == CHOOSE i \in DOMAIN arms :
                        arms[i].when /\ \A j \in 1..i - 1 : ~arms[j].when
  <1>1. Taken(arms, first)
    <2>1. \E i \in DOMAIN arms : arms[i].when /\ \A j \in 1..i - 1 : ~arms[j].when
      BY DEF Taken
    <2> QED
      BY <2>1, Zenon DEF Taken
  <1>2. Scan(F, t) = arms[first].reading
    BY DEF Scan
  <1>3. Claims(F, t) = {arms[i].reading : i \in {j \in DOMAIN arms : arms[j].when}} \ Fallbacks
    BY DEF Claims
  <1> HIDE DEF first
  <1>4. ASSUME NEW k, Taken(arms, k) PROVE k = first
    <2>1. /\ k \in Nat \ {0} /\ first \in Nat \ {0}
          /\ k \in DOMAIN arms /\ first \in DOMAIN arms
      BY <1>1, <1>4 DEF Taken
    <2>2. ~(k \in 1..first - 1) /\ ~(first \in 1..k - 1)
      BY <1>1, <1>4 DEF Taken
    <2> QED
      BY <2>1, <2>2
  <1>5. Shadowed(F, t) <=> \E c \in Claims(F, t) : c # Scan(F, t)
    BY DEF Shadowed
  <1>6. Loses(arms) <=> \E i \in DOMAIN arms : Disputes(arms[i], arms[first])
    <2>1. first \in DOMAIN arms
      BY <1>1 DEF Taken
    <2> QED
      BY <1>1, <1>4, <2>1, Zenon DEF Loses
  <1>7. (\E c \in Claims(F, t) : c # Scan(F, t))
          <=> \E i \in DOMAIN arms : Disputes(arms[i], arms[first])
    BY <1>2, <1>3, Zenon DEF Disputes
  <1> QED
    BY <1>5, <1>6, <1>7

(* Which arms lose, of three.                                              *)
LEMMA ThreeArms ==
    ASSUME NEW arms, NEW a, NEW b, NEW c,
           arms = <<a, b, c>>, a.when \/ b.when \/ c.when
    PROVE  /\ DOMAIN arms \subseteq Nat \ {0} /\ \E k : Taken(arms, k)
           /\ Loses(arms) <=>
                \/ a.when /\ (Disputes(b, a) \/ Disputes(c, a))
                \/ ~a.when /\ b.when /\ Disputes(c, b)
  <1>1. DOMAIN arms = 1..3 /\ arms[1] = a /\ arms[2] = b /\ arms[3] = c
    OBVIOUS
  <1>2. /\ Taken(arms, 1) <=> a.when
        /\ Taken(arms, 2) <=> ~a.when /\ b.when
        /\ Taken(arms, 3) <=> ~a.when /\ ~b.when /\ c.when
    BY <1>1 DEF Taken
  <1>3. \E k : Taken(arms, k)
    BY <1>2
  <1>4. \A x, y : Disputes(x, y) => x.when /\ x.reading # y.reading
    BY DEF Disputes
  <1>5. Loses(arms) <=> \E k, i \in 1..3 : Taken(arms, k) /\ Disputes(arms[i], arms[k])
    BY <1>1, Zenon DEF Loses
  <1>6. Loses(arms) <=>
          \E k \in 1..3 : Taken(arms, k) /\
             (Disputes(a, arms[k]) \/ Disputes(b, arms[k]) \/ Disputes(c, arms[k]))
    BY <1>1, <1>5
  <1>7. Loses(arms) <=>
          \/ Taken(arms, 1) /\ (Disputes(a, a) \/ Disputes(b, a) \/ Disputes(c, a))
          \/ Taken(arms, 2) /\ (Disputes(a, b) \/ Disputes(b, b) \/ Disputes(c, b))
          \/ Taken(arms, 3) /\ (Disputes(a, c) \/ Disputes(b, c) \/ Disputes(c, c))
    BY <1>1, <1>6
  <1> QED
    BY <1>1, <1>2, <1>3, <1>4, <1>7

(* Which arms lose, of four.                                               *)
LEMMA FourArms ==
    ASSUME NEW arms, NEW a, NEW b, NEW c, NEW d,
           arms = <<a, b, c, d>>, a.when \/ b.when \/ c.when \/ d.when
    PROVE  /\ DOMAIN arms \subseteq Nat \ {0} /\ \E k : Taken(arms, k)
           /\ Loses(arms) <=>
                \/ a.when /\ (Disputes(b, a) \/ Disputes(c, a) \/ Disputes(d, a))
                \/ ~a.when /\ b.when /\ (Disputes(c, b) \/ Disputes(d, b))
                \/ ~a.when /\ ~b.when /\ c.when /\ Disputes(d, c)
  <1>1. DOMAIN arms = 1..4 /\ arms[1] = a /\ arms[2] = b /\ arms[3] = c /\ arms[4] = d
    OBVIOUS
  <1>2. /\ Taken(arms, 1) <=> a.when
        /\ Taken(arms, 2) <=> ~a.when /\ b.when
        /\ Taken(arms, 3) <=> ~a.when /\ ~b.when /\ c.when
        /\ Taken(arms, 4) <=> ~a.when /\ ~b.when /\ ~c.when /\ d.when
    BY <1>1 DEF Taken
  <1>3. \E k : Taken(arms, k)
    BY <1>2
  <1>4. \A x, y : Disputes(x, y) => x.when /\ x.reading # y.reading
    BY DEF Disputes
  <1>5. Loses(arms) <=> \E k, i \in 1..4 : Taken(arms, k) /\ Disputes(arms[i], arms[k])
    BY <1>1, Zenon DEF Loses
  <1>6. Loses(arms) <=>
          \E k \in 1..4 : Taken(arms, k) /\
             (Disputes(a, arms[k]) \/ Disputes(b, arms[k]) \/ Disputes(c, arms[k])
              \/ Disputes(d, arms[k]))
    BY <1>1, <1>5
  <1>7. Loses(arms) <=>
          \/ Taken(arms, 1) /\ (Disputes(a, a) \/ Disputes(b, a) \/ Disputes(c, a)
              \/ Disputes(d, a))
          \/ Taken(arms, 2) /\ (Disputes(a, b) \/ Disputes(b, b) \/ Disputes(c, b)
              \/ Disputes(d, b))
          \/ Taken(arms, 3) /\ (Disputes(a, c) \/ Disputes(b, c) \/ Disputes(c, c)
              \/ Disputes(d, c))
          \/ Taken(arms, 4) /\ (Disputes(a, d) \/ Disputes(b, d) \/ Disputes(c, d)
              \/ Disputes(d, d))
    BY <1>1, <1>6
  <1> QED
    BY <1>1, <1>2, <1>3, <1>4, <1>7

(* Which arms lose, of five.                                               *)
LEMMA FiveArms ==
    ASSUME NEW arms, NEW a, NEW b, NEW c, NEW d, NEW e,
           arms = <<a, b, c, d, e>>, a.when \/ b.when \/ c.when \/ d.when \/ e.when
    PROVE  /\ DOMAIN arms \subseteq Nat \ {0} /\ \E k : Taken(arms, k)
           /\ Loses(arms) <=>
                \/ a.when /\ (Disputes(b, a) \/ Disputes(c, a) \/ Disputes(d, a)
                      \/ Disputes(e, a))
                \/ ~a.when /\ b.when /\ (Disputes(c, b) \/ Disputes(d, b) \/ Disputes(e, b))
                \/ ~a.when /\ ~b.when /\ c.when /\ (Disputes(d, c) \/ Disputes(e, c))
                \/ ~a.when /\ ~b.when /\ ~c.when /\ d.when /\ Disputes(e, d)
  <1>1. DOMAIN arms = 1..5 /\ arms[1] = a /\ arms[2] = b /\ arms[3] = c /\ arms[4] = d
         /\ arms[5] = e
    OBVIOUS
  <1>2. /\ Taken(arms, 1) <=> a.when
        /\ Taken(arms, 2) <=> ~a.when /\ b.when
        /\ Taken(arms, 3) <=> ~a.when /\ ~b.when /\ c.when
        /\ Taken(arms, 4) <=> ~a.when /\ ~b.when /\ ~c.when /\ d.when
        /\ Taken(arms, 5) <=> ~a.when /\ ~b.when /\ ~c.when /\ ~d.when /\ e.when
    BY <1>1 DEF Taken
  <1>3. \E k : Taken(arms, k)
    BY <1>2
  <1>4. \A x, y : Disputes(x, y) => x.when /\ x.reading # y.reading
    BY DEF Disputes
  <1>5. Loses(arms) <=> \E k, i \in 1..5 : Taken(arms, k) /\ Disputes(arms[i], arms[k])
    BY <1>1, Zenon DEF Loses
  <1>6. Loses(arms) <=>
          \E k \in 1..5 : Taken(arms, k) /\
             (Disputes(a, arms[k]) \/ Disputes(b, arms[k]) \/ Disputes(c, arms[k])
              \/ Disputes(d, arms[k]) \/ Disputes(e, arms[k]))
    BY <1>1, <1>5
  <1>7. Loses(arms) <=>
          \/ Taken(arms, 1) /\ (Disputes(a, a) \/ Disputes(b, a) \/ Disputes(c, a)
              \/ Disputes(d, a) \/ Disputes(e, a))
          \/ Taken(arms, 2) /\ (Disputes(a, b) \/ Disputes(b, b) \/ Disputes(c, b)
              \/ Disputes(d, b) \/ Disputes(e, b))
          \/ Taken(arms, 3) /\ (Disputes(a, c) \/ Disputes(b, c) \/ Disputes(c, c)
              \/ Disputes(d, c) \/ Disputes(e, c))
          \/ Taken(arms, 4) /\ (Disputes(a, d) \/ Disputes(b, d) \/ Disputes(c, d)
              \/ Disputes(d, d) \/ Disputes(e, d))
          \/ Taken(arms, 5) /\ (Disputes(a, e) \/ Disputes(b, e) \/ Disputes(c, e)
              \/ Disputes(d, e) \/ Disputes(e, e))
    BY <1>1, <1>6
  <1> QED
    BY <1>1, <1>2, <1>3, <1>4, <1>7

(* Which arms lose, of six.                                                *)
LEMMA SixArms ==
    ASSUME NEW arms, NEW a, NEW b, NEW c, NEW d, NEW e, NEW f,
           arms = <<a, b, c, d, e, f>>, a.when \/ b.when \/ c.when \/ d.when \/ e.when \/ f.when
    PROVE  /\ DOMAIN arms \subseteq Nat \ {0} /\ \E k : Taken(arms, k)
           /\ Loses(arms) <=>
                \/ a.when /\ (Disputes(b, a) \/ Disputes(c, a) \/ Disputes(d, a)
                      \/ Disputes(e, a) \/ Disputes(f, a))
                \/ ~a.when /\ b.when /\ (Disputes(c, b) \/ Disputes(d, b) \/ Disputes(e, b)
                      \/ Disputes(f, b))
                \/ ~a.when /\ ~b.when /\ c.when /\ (Disputes(d, c) \/ Disputes(e, c)
                      \/ Disputes(f, c))
                \/ ~a.when /\ ~b.when /\ ~c.when /\ d.when /\ (Disputes(e, d) \/ Disputes(f, d))
                \/ ~a.when /\ ~b.when /\ ~c.when /\ ~d.when /\ e.when /\ Disputes(f, e)
  <1>1. DOMAIN arms = 1..6 /\ arms[1] = a /\ arms[2] = b /\ arms[3] = c /\ arms[4] = d
         /\ arms[5] = e /\ arms[6] = f
    OBVIOUS
  <1>2. /\ Taken(arms, 1) <=> a.when
        /\ Taken(arms, 2) <=> ~a.when /\ b.when
        /\ Taken(arms, 3) <=> ~a.when /\ ~b.when /\ c.when
        /\ Taken(arms, 4) <=> ~a.when /\ ~b.when /\ ~c.when /\ d.when
        /\ Taken(arms, 5) <=> ~a.when /\ ~b.when /\ ~c.when /\ ~d.when /\ e.when
        /\ Taken(arms, 6) <=> ~a.when /\ ~b.when /\ ~c.when /\ ~d.when /\ ~e.when /\ f.when
    BY <1>1 DEF Taken
  <1>3. \E k : Taken(arms, k)
    BY <1>2
  <1>4. \A x, y : Disputes(x, y) => x.when /\ x.reading # y.reading
    BY DEF Disputes
  <1>5. Loses(arms) <=> \E k, i \in 1..6 : Taken(arms, k) /\ Disputes(arms[i], arms[k])
    BY <1>1, Zenon DEF Loses
  <1>6. Loses(arms) <=>
          \E k \in 1..6 : Taken(arms, k) /\
             (Disputes(a, arms[k]) \/ Disputes(b, arms[k]) \/ Disputes(c, arms[k])
              \/ Disputes(d, arms[k]) \/ Disputes(e, arms[k]) \/ Disputes(f, arms[k]))
    BY <1>1, <1>5
  <1>7. Loses(arms) <=>
          \/ Taken(arms, 1) /\ (Disputes(a, a) \/ Disputes(b, a) \/ Disputes(c, a)
              \/ Disputes(d, a) \/ Disputes(e, a) \/ Disputes(f, a))
          \/ Taken(arms, 2) /\ (Disputes(a, b) \/ Disputes(b, b) \/ Disputes(c, b)
              \/ Disputes(d, b) \/ Disputes(e, b) \/ Disputes(f, b))
          \/ Taken(arms, 3) /\ (Disputes(a, c) \/ Disputes(b, c) \/ Disputes(c, c)
              \/ Disputes(d, c) \/ Disputes(e, c) \/ Disputes(f, c))
          \/ Taken(arms, 4) /\ (Disputes(a, d) \/ Disputes(b, d) \/ Disputes(c, d)
              \/ Disputes(d, d) \/ Disputes(e, d) \/ Disputes(f, d))
          \/ Taken(arms, 5) /\ (Disputes(a, e) \/ Disputes(b, e) \/ Disputes(c, e)
              \/ Disputes(d, e) \/ Disputes(e, e) \/ Disputes(f, e))
          \/ Taken(arms, 6) /\ (Disputes(a, f) \/ Disputes(b, f) \/ Disputes(c, f)
              \/ Disputes(d, f) \/ Disputes(e, f) \/ Disputes(f, f))
    BY <1>1, <1>6
  <1> QED
    BY <1>1, <1>2, <1>3, <1>4, <1>7

(* Which arms lose, of eight.                                              *)
LEMMA EightArms ==
    ASSUME NEW arms, NEW a, NEW b, NEW c, NEW d, NEW e, NEW f, NEW g, NEW h,
           arms = <<a, b, c, d, e, f, g, h>>,
           a.when \/ b.when \/ c.when \/ d.when \/ e.when \/ f.when \/ g.when \/ h.when
    PROVE  /\ DOMAIN arms \subseteq Nat \ {0} /\ \E k : Taken(arms, k)
           /\ Loses(arms) <=>
                \/ a.when /\ (Disputes(b, a) \/ Disputes(c, a) \/ Disputes(d, a)
                      \/ Disputes(e, a) \/ Disputes(f, a) \/ Disputes(g, a) \/ Disputes(h, a))
                \/ ~a.when /\ b.when /\ (Disputes(c, b) \/ Disputes(d, b) \/ Disputes(e, b)
                      \/ Disputes(f, b) \/ Disputes(g, b) \/ Disputes(h, b))
                \/ ~a.when /\ ~b.when /\ c.when /\ (Disputes(d, c) \/ Disputes(e, c)
                      \/ Disputes(f, c) \/ Disputes(g, c) \/ Disputes(h, c))
                \/ ~a.when /\ ~b.when /\ ~c.when /\ d.when /\ (Disputes(e, d)
                      \/ Disputes(f, d) \/ Disputes(g, d) \/ Disputes(h, d))
                \/ ~a.when /\ ~b.when /\ ~c.when /\ ~d.when /\ e.when /\ (Disputes(f, e)
                      \/ Disputes(g, e) \/ Disputes(h, e))
                \/ ~a.when /\ ~b.when /\ ~c.when /\ ~d.when /\ ~e.when /\ f.when
                      /\ (Disputes(g, f) \/ Disputes(h, f))
                \/ ~a.when /\ ~b.when /\ ~c.when /\ ~d.when /\ ~e.when /\ ~f.when /\ g.when
                      /\ Disputes(h, g)
  <1>1. DOMAIN arms = 1..8 /\ arms[1] = a /\ arms[2] = b /\ arms[3] = c /\ arms[4] = d
         /\ arms[5] = e /\ arms[6] = f /\ arms[7] = g /\ arms[8] = h
    OBVIOUS
  <1>2. /\ Taken(arms, 1) <=> a.when
        /\ Taken(arms, 2) <=> ~a.when /\ b.when
        /\ Taken(arms, 3) <=> ~a.when /\ ~b.when /\ c.when
        /\ Taken(arms, 4) <=> ~a.when /\ ~b.when /\ ~c.when /\ d.when
        /\ Taken(arms, 5) <=> ~a.when /\ ~b.when /\ ~c.when /\ ~d.when /\ e.when
        /\ Taken(arms, 6) <=> ~a.when /\ ~b.when /\ ~c.when /\ ~d.when /\ ~e.when /\ f.when
        /\ Taken(arms, 7) <=> ~a.when /\ ~b.when /\ ~c.when /\ ~d.when /\ ~e.when /\ ~f.when
             /\ g.when
        /\ Taken(arms, 8) <=> ~a.when /\ ~b.when /\ ~c.when /\ ~d.when /\ ~e.when /\ ~f.when
             /\ ~g.when /\ h.when
    BY <1>1 DEF Taken
  <1>3. \E k : Taken(arms, k)
    BY <1>2
  <1>4. \A x, y : Disputes(x, y) => x.when /\ x.reading # y.reading
    BY DEF Disputes
  <1>5. Loses(arms) <=> \E k, i \in 1..8 : Taken(arms, k) /\ Disputes(arms[i], arms[k])
    BY <1>1, Zenon DEF Loses
  <1>6. Loses(arms) <=>
          \E k \in 1..8 : Taken(arms, k) /\
             (Disputes(a, arms[k]) \/ Disputes(b, arms[k]) \/ Disputes(c, arms[k])
              \/ Disputes(d, arms[k]) \/ Disputes(e, arms[k]) \/ Disputes(f, arms[k])
              \/ Disputes(g, arms[k]) \/ Disputes(h, arms[k]))
    BY <1>1, <1>5
  <1>7. Loses(arms) <=>
          \/ Taken(arms, 1) /\ (Disputes(a, a) \/ Disputes(b, a) \/ Disputes(c, a)
              \/ Disputes(d, a) \/ Disputes(e, a) \/ Disputes(f, a) \/ Disputes(g, a)
              \/ Disputes(h, a))
          \/ Taken(arms, 2) /\ (Disputes(a, b) \/ Disputes(b, b) \/ Disputes(c, b)
              \/ Disputes(d, b) \/ Disputes(e, b) \/ Disputes(f, b) \/ Disputes(g, b)
              \/ Disputes(h, b))
          \/ Taken(arms, 3) /\ (Disputes(a, c) \/ Disputes(b, c) \/ Disputes(c, c)
              \/ Disputes(d, c) \/ Disputes(e, c) \/ Disputes(f, c) \/ Disputes(g, c)
              \/ Disputes(h, c))
          \/ Taken(arms, 4) /\ (Disputes(a, d) \/ Disputes(b, d) \/ Disputes(c, d)
              \/ Disputes(d, d) \/ Disputes(e, d) \/ Disputes(f, d) \/ Disputes(g, d)
              \/ Disputes(h, d))
          \/ Taken(arms, 5) /\ (Disputes(a, e) \/ Disputes(b, e) \/ Disputes(c, e)
              \/ Disputes(d, e) \/ Disputes(e, e) \/ Disputes(f, e) \/ Disputes(g, e)
              \/ Disputes(h, e))
          \/ Taken(arms, 6) /\ (Disputes(a, f) \/ Disputes(b, f) \/ Disputes(c, f)
              \/ Disputes(d, f) \/ Disputes(e, f) \/ Disputes(f, f) \/ Disputes(g, f)
              \/ Disputes(h, f))
          \/ Taken(arms, 7) /\ (Disputes(a, g) \/ Disputes(b, g) \/ Disputes(c, g)
              \/ Disputes(d, g) \/ Disputes(e, g) \/ Disputes(f, g) \/ Disputes(g, g)
              \/ Disputes(h, g))
          \/ Taken(arms, 8) /\ (Disputes(a, h) \/ Disputes(b, h) \/ Disputes(c, h)
              \/ Disputes(d, h) \/ Disputes(e, h) \/ Disputes(f, h) \/ Disputes(g, h)
              \/ Disputes(h, h))
    BY <1>1, <1>6
  <1> QED
    BY <1>1, <1>2, <1>3, <1>4, <1>7

(* A table of arms put together of 1, 4.                                   *)
LEMMA Join14 ==
    ASSUME NEW a, NEW b, NEW c, NEW d, NEW e
    PROVE  <<a>> \o <<b, c, d, e>> = <<a, b, c, d, e>>
  <1> DEFINE S == {a, b, c, d, e}
  <1>1. a \in S /\ b \in S /\ c \in S /\ d \in S /\ e \in S
    OBVIOUS
  <1> HIDE DEF S
  <1>2. <<a>> \in Seq(S) /\ <<b, c, d, e>> \in Seq(S) /\ <<a, b, c, d, e>> \in Seq(S)
    BY <1>1
  <1>3. <<a>> \o <<b, c, d, e>> \in Seq(S) /\ Len(<<a>> \o <<b, c, d, e>>) = 5
    BY <1>2
  <1>4. \A i \in 1..5 : (<<a>> \o <<b, c, d, e>>)[i] = <<a, b, c, d, e>>[i]
    BY <1>2
  <1> QED
    BY <1>2, <1>3, <1>4, SeqEqual

(* A table of arms put together of 3, 1, 2.                                *)
LEMMA Join312 ==
    ASSUME NEW a, NEW b, NEW c, NEW d, NEW e, NEW f
    PROVE  <<a, b, c>> \o <<d>> \o <<e, f>> = <<a, b, c, d, e, f>>
  <1> DEFINE S == {a, b, c, d, e, f}
  <1>1. a \in S /\ b \in S /\ c \in S /\ d \in S /\ e \in S /\ f \in S
    OBVIOUS
  <1> HIDE DEF S
  <1>2. <<a, b, c>> \in Seq(S) /\ <<d>> \in Seq(S) /\ <<e, f>> \in Seq(S)
         /\ <<a, b, c, d, e, f>> \in Seq(S)
    BY <1>1
  <1>3. <<a, b, c>> \o <<d>> \o <<e, f>> \in Seq(S) /\ Len(<<a, b, c>> \o <<d>> \o <<e, f>>) = 6
    BY <1>2
  <1>4. \A i \in 1..6 : (<<a, b, c>> \o <<d>> \o <<e, f>>)[i] = <<a, b, c, d, e, f>>[i]
    BY <1>2
  <1> QED
    BY <1>2, <1>3, <1>4, SeqEqual

(* A table of arms put together of 2, 2.                                   *)
LEMMA Join22 ==
    ASSUME NEW a, NEW b, NEW c, NEW d
    PROVE  <<a, b>> \o <<c, d>> = <<a, b, c, d>>
  <1> DEFINE S == {a, b, c, d}
  <1>1. a \in S /\ b \in S /\ c \in S /\ d \in S
    OBVIOUS
  <1> HIDE DEF S
  <1>2. <<a, b>> \in Seq(S) /\ <<c, d>> \in Seq(S) /\ <<a, b, c, d>> \in Seq(S)
    BY <1>1
  <1>3. <<a, b>> \o <<c, d>> \in Seq(S) /\ Len(<<a, b>> \o <<c, d>>) = 4
    BY <1>2
  <1>4. \A i \in 1..4 : (<<a, b>> \o <<c, d>>)[i] = <<a, b, c, d>>[i]
    BY <1>2
  <1> QED
    BY <1>2, <1>3, <1>4, SeqEqual

(* A table of arms put together of 1, 2, 2.                                *)
LEMMA Join122 ==
    ASSUME NEW a, NEW b, NEW c, NEW d, NEW e
    PROVE  <<a>> \o (<<b, c>> \o <<d, e>>) = <<a, b, c, d, e>>
  <1> DEFINE S == {a, b, c, d, e}
  <1>1. a \in S /\ b \in S /\ c \in S /\ d \in S /\ e \in S
    OBVIOUS
  <1> HIDE DEF S
  <1>2. <<a>> \in Seq(S) /\ <<b, c>> \in Seq(S) /\ <<d, e>> \in Seq(S)
         /\ <<a, b, c, d, e>> \in Seq(S)
    BY <1>1
  <1>3. <<a>> \o (<<b, c>> \o <<d, e>>) \in Seq(S) /\ Len(<<a>> \o (<<b, c>> \o <<d, e>>)) = 5
    BY <1>2
  <1>4. \A i \in 1..5 : (<<a>> \o (<<b, c>> \o <<d, e>>))[i] = <<a, b, c, d, e>>[i]
    BY <1>2
  <1> QED
    BY <1>2, <1>3, <1>4, SeqEqual

(* A table of arms put together of 1, 3, 2.                                *)
LEMMA Join132 ==
    ASSUME NEW a, NEW b, NEW c, NEW d, NEW e, NEW f
    PROVE  <<a>> \o <<b, c, d>> \o <<e, f>> = <<a, b, c, d, e, f>>
  <1> DEFINE S == {a, b, c, d, e, f}
  <1>1. a \in S /\ b \in S /\ c \in S /\ d \in S /\ e \in S /\ f \in S
    OBVIOUS
  <1> HIDE DEF S
  <1>2. <<a>> \in Seq(S) /\ <<b, c, d>> \in Seq(S) /\ <<e, f>> \in Seq(S)
         /\ <<a, b, c, d, e, f>> \in Seq(S)
    BY <1>1
  <1>3. <<a>> \o <<b, c, d>> \o <<e, f>> \in Seq(S) /\ Len(<<a>> \o <<b, c, d>> \o <<e, f>>) = 6
    BY <1>2
  <1>4. \A i \in 1..6 : (<<a>> \o <<b, c, d>> \o <<e, f>>)[i] = <<a, b, c, d, e, f>>[i]
    BY <1>2
  <1> QED
    BY <1>2, <1>3, <1>4, SeqEqual

(* `"` is a string or a quoted identifier.                                 *)
LEMMA DoubleQuoteShadowed ==
    ASSUME NEW F
    PROVE  Shadowed(F, "double_quote") <=> "double_quoted_strings" \in F /\ "quote_double" \in F
  <1> DEFINE a == Arm("double_quoted_strings" \in F, "string")
             b == Arm("quote_double" \in F, "quoted_identifier")
             c == Arm(TRUE, "unclaimed")
  <1>1. Arms(F, "double_quote") = <<a, b, c>>
    <2>1. Arms(F, "double_quote") = QuoteArms(F)["double_quote"]
      BY DEF Arms
    <2> QED
      BY <2>1 DEF QuoteArms
  <1>2. /\ (a.when <=> "double_quoted_strings" \in F) /\ a.reading = "string"
        /\ (b.when <=> "quote_double" \in F) /\ b.reading = "quoted_identifier"
        /\ (c.when <=> TRUE) /\ c.reading = "unclaimed"
    BY DEF Arm
  <1> HIDE DEF a, b, c
  <1> QED
    BY <1>1, <1>2, ThreeArms, ShadowedLoses DEF Disputes, Fallbacks

(* `[` quotes an identifier or opens a bracket.                            *)
LEMMA BracketShadowed ==
    ASSUME NEW F
    PROVE  Shadowed(F, "bracket") <=> "quote_bracket" \in F
               /\ Meets(F, {"subscript", "array_constructor", "collection_literals",
               "table_json_path"})
  <1> DEFINE a == Arm("quote_bracket" \in F, "quoted_identifier")
             b == Arm(Meets(F, {"subscript", "array_constructor", "collection_literals",
                        "table_json_path"}), "bracket")
             c == Arm(TRUE, "unclaimed")
  <1>1. Arms(F, "bracket") = <<a, b, c>>
    <2>1. Arms(F, "bracket") = QuoteArms(F)["bracket"]
      BY DEF Arms
    <2> QED
      BY <2>1 DEF QuoteArms
  <1>2. /\ (a.when <=> "quote_bracket" \in F) /\ a.reading = "quoted_identifier"
        /\ (b.when <=> Meets(F, {"subscript", "array_constructor", "collection_literals",
             "table_json_path"})) /\ b.reading = "bracket"
        /\ (c.when <=> TRUE) /\ c.reading = "unclaimed"
    BY DEF Arm
  <1> HIDE DEF a, b, c
  <1> QED
    BY <1>1, <1>2, ThreeArms, ShadowedLoses DEF Disputes, Fallbacks

(* A backtick quotes an identifier or is an operator.                      *)
LEMMA BacktickShadowed ==
    ASSUME NEW F
    PROVE  Shadowed(F, "backtick") <=> "quote_backtick" \in F /\ "custom_operators" \in F
  <1> DEFINE a == Arm("quote_backtick" \in F, "quoted_identifier")
             b == Arm("custom_operators" \in F, "operator")
             c == Arm(TRUE, "unclaimed")
  <1>1. Arms(F, "backtick") = <<a, b, c>>
    <2>1. Arms(F, "backtick") = QuoteArms(F)["backtick"]
      BY DEF Arms
    <2> QED
      BY <2>1 DEF QuoteArms
  <1>2. /\ (a.when <=> "quote_backtick" \in F) /\ a.reading = "quoted_identifier"
        /\ (b.when <=> "custom_operators" \in F) /\ b.reading = "operator"
        /\ (c.when <=> TRUE) /\ c.reading = "unclaimed"
    BY DEF Arm
  <1> HIDE DEF a, b, c
  <1> QED
    BY <1>1, <1>2, ThreeArms, ShadowedLoses DEF Disputes, Fallbacks

(* x' opens a blob or a bit string.                                        *)
LEMMA XQuoteShadowed ==
    ASSUME NEW F
    PROVE  Shadowed(F, "x_quote") <=> "blob_literals" \in F /\ "bit_string_literals" \in F
  <1> DEFINE a == Arm("blob_literals" \in F, "blob")
             b == Arm("bit_string_literals" \in F, "bit_string")
             c == Arm(TRUE, "unclaimed")
  <1>1. Arms(F, "x_quote") = <<a, b, c>>
    <2>1. Arms(F, "x_quote") = QuoteArms(F)["x_quote"]
      BY DEF Arms
    <2> QED
      BY <2>1 DEF QuoteArms
  <1>2. /\ (a.when <=> "blob_literals" \in F) /\ a.reading = "blob"
        /\ (b.when <=> "bit_string_literals" \in F) /\ b.reading = "bit_string"
        /\ (c.when <=> TRUE) /\ c.reading = "unclaimed"
    BY DEF Arm
  <1> HIDE DEF a, b, c
  <1> QED
    BY <1>1, <1>2, ThreeArms, ShadowedLoses DEF Disputes, Fallbacks

(* `$1` is money or a parameter, and never a word.                         *)
LEMMA DollarDigitShadowed ==
    ASSUME NEW F
    PROVE  Shadowed(F, "dollar_digit") <=>
              \/ "money_literals" \in F /\ "positional_dollar" \in F
              \/ "dollar_start" \in F
  <1> DEFINE a == Arm("money_literals" \in F, "money")
             b == Arm("positional_dollar" \in F, "parameter")
             c == Arm(TRUE, "unclaimed")
             d == Arm("dollar_start" \in F, "word")
  <1>1. Arms(F, "dollar_digit") = <<a, b, c, d>>
    <2>1. Arms(F, "dollar_digit") = DollarArms(F)["dollar_digit"]
      BY DEF Arms
    <2> QED
      BY <2>1 DEF DollarArms
  <1>2. /\ (a.when <=> "money_literals" \in F) /\ a.reading = "money"
        /\ (b.when <=> "positional_dollar" \in F) /\ b.reading = "parameter"
        /\ (c.when <=> TRUE) /\ c.reading = "unclaimed"
        /\ (d.when <=> "dollar_start" \in F) /\ d.reading = "word"
    BY DEF Arm
  <1> HIDE DEF a, b, c, d
  <1> QED
    BY <1>1, <1>2, FourArms, ShadowedLoses DEF Disputes, Fallbacks

(* `$a` is a parameter or opens a string, and is never a word.             *)
LEMMA DollarNameShadowed ==
    ASSUME NEW F
    PROVE  Shadowed(F, "dollar_name") <=>
              \/ "named_dollar" \in F /\ "dollar_quoted_strings" \in F
              \/ "dollar_start" \in F
  <1> DEFINE a == Arm("named_dollar" \in F, "parameter")
             b == Arm("dollar_quoted_strings" \in F, "dollar_string")
             c == Arm(TRUE, "unclaimed")
             d == Arm("dollar_start" \in F, "word")
  <1>1. Arms(F, "dollar_name") = <<a, b, c, d>>
    <2>1. Arms(F, "dollar_name") = DollarArms(F)["dollar_name"]
      BY DEF Arms
    <2> QED
      BY <2>1 DEF DollarArms
  <1>2. /\ (a.when <=> "named_dollar" \in F) /\ a.reading = "parameter"
        /\ (b.when <=> "dollar_quoted_strings" \in F) /\ b.reading = "dollar_string"
        /\ (c.when <=> TRUE) /\ c.reading = "unclaimed"
        /\ (d.when <=> "dollar_start" \in F) /\ d.reading = "word"
    BY DEF Arm
  <1> HIDE DEF a, b, c, d
  <1> QED
    BY <1>1, <1>2, FourArms, ShadowedLoses DEF Disputes, Fallbacks

(* `:a` is a parameter, a word or punctuation.                             *)
LEMMA ColonNameShadowed ==
    ASSUME NEW F
    PROVE  Shadowed(F, "colon_name") <=>
              \/ "named_colon" \in F /\ ("colon_start" \in F
                  \/ Meets(F, {"subscript", "collection_literals", "semi_structured_access"}))
              \/ "colon_start" \in F
                  /\ Meets(F, {"subscript", "collection_literals", "semi_structured_access"})
  <1> DEFINE a == Arm("named_colon" \in F, "parameter")
             b == Arm("colon_start" \in F, "word")
             c == Arm(Meets(F, {"subscript", "collection_literals", "semi_structured_access"}),
                        "colon")
             d == Arm(TRUE, "unclaimed")
  <1>1. Arms(F, "colon_name") = <<a, b, c, d>>
    <2>1. Arms(F, "colon_name") = ColonArms(F)["colon_name"]
      BY DEF Arms
    <2> QED
      BY <2>1 DEF ColonArms
  <1>2. /\ (a.when <=> "named_colon" \in F) /\ a.reading = "parameter"
        /\ (b.when <=> "colon_start" \in F) /\ b.reading = "word"
        /\ (c.when <=> Meets(F, {"subscript", "collection_literals",
             "semi_structured_access"})) /\ c.reading = "colon"
        /\ (d.when <=> TRUE) /\ d.reading = "unclaimed"
    BY DEF Arm
  <1> HIDE DEF a, b, c, d
  <1> QED
    BY <1>1, <1>2, FourArms, ShadowedLoses DEF Disputes, Fallbacks

(* `?` is a parameter or an operator.                                      *)
LEMMA QuestionShadowed ==
    ASSUME NEW F
    PROVE  Shadowed(F, "question") <=> "anonymous_question" \in F /\ "jsonb_operators" \in F
  <1> DEFINE a == Arm("anonymous_question" \in F, "parameter")
             b == Arm("jsonb_operators" \in F, "operator")
             c == Arm(TRUE, "unclaimed")
  <1>1. Arms(F, "question") = <<a, b, c>>
    <2>1. Arms(F, "question") = QuestionArms(F)["question"]
      BY DEF Arms
    <2> QED
      BY <2>1 DEF QuestionArms
  <1>2. /\ (a.when <=> "anonymous_question" \in F) /\ a.reading = "parameter"
        /\ (b.when <=> "jsonb_operators" \in F) /\ b.reading = "operator"
        /\ (c.when <=> TRUE) /\ c.reading = "unclaimed"
    BY DEF Arm
  <1> HIDE DEF a, b, c
  <1> QED
    BY <1>1, <1>2, ThreeArms, ShadowedLoses DEF Disputes, Fallbacks

(* `?1` is a parameter, by either feature, or an operator.                 *)
LEMMA QuestionDigitShadowed ==
    ASSUME NEW F
    PROVE  Shadowed(F, "question_digit") <=> "jsonb_operators" \in F
               /\ ("anonymous_question" \in F \/ "numbered_question" \in F)
  <1> DEFINE a == Arm("anonymous_question" \in F, "parameter")
             b == Arm("numbered_question" \in F, "parameter")
             c == Arm("jsonb_operators" \in F, "operator")
             d == Arm(TRUE, "unclaimed")
  <1>1. Arms(F, "question_digit") = <<a, b, c, d>>
    <2>1. Arms(F, "question_digit") = QuestionArms(F)["question_digit"]
      BY DEF Arms
    <2> QED
      BY <2>1 DEF QuestionArms
  <1>2. /\ (a.when <=> "anonymous_question" \in F) /\ a.reading = "parameter"
        /\ (b.when <=> "numbered_question" \in F) /\ b.reading = "parameter"
        /\ (c.when <=> "jsonb_operators" \in F) /\ c.reading = "operator"
        /\ (d.when <=> TRUE) /\ d.reading = "unclaimed"
    BY DEF Arm
  <1> HIDE DEF a, b, c, d
  <1> QED
    BY <1>1, <1>2, FourArms, ShadowedLoses DEF Disputes, Fallbacks

(* `<?1`: the operator run may take the `?`.                               *)
LEMMA LessQuestionDigitShadowed ==
    ASSUME NEW F
    PROVE  Shadowed(F, "less_question_digit") <=>
              \/ QuestionInRun(F) /\ "numbered_question" \in F
              \/ "jsonb_operators" \in F /\ ("anonymous_question" \in F
                  \/ "numbered_question" \in F) /\ ~QuestionInRun(F)
  <1> DEFINE a == Arm(QuestionInRun(F), "operator")
             b == Arm("anonymous_question" \in F, "parameter")
             c == Arm("numbered_question" \in F, "parameter")
             d == Arm("jsonb_operators" \in F, "operator")
             e == Arm(TRUE, "unclaimed")
  <1>1. Arms(F, "less_question_digit") = <<a, b, c, d, e>>
    <2>1. Arms(F, "less_question_digit") = QuestionArms(F)["less_question_digit"]
      BY DEF Arms
    <2>2. Arms(F, "less_question_digit") = <<a>> \o <<b, c, d, e>>
      BY <2>1 DEF QuestionArms
    <2> HIDE DEF a, b, c, d, e
    <2> QED
      BY <2>2, Join14, Zenon
  <1>2. /\ (a.when <=> QuestionInRun(F)) /\ a.reading = "operator"
        /\ (b.when <=> "anonymous_question" \in F) /\ b.reading = "parameter"
        /\ (c.when <=> "numbered_question" \in F) /\ c.reading = "parameter"
        /\ (d.when <=> "jsonb_operators" \in F) /\ d.reading = "operator"
        /\ (e.when <=> TRUE) /\ e.reading = "unclaimed"
    BY DEF Arm
  <1> HIDE DEF a, b, c, d, e
  <1> QED
    BY <1>1, <1>2, FiveArms, ShadowedLoses DEF Disputes, Fallbacks, QuestionInRun

(* `#1` is a comment, a word, a column or an operator.                     *)
LEMMA HashDigitShadowed ==
    ASSUME NEW F
    PROVE  Shadowed(F, "hash_digit") <=>
              \/ "line_comment_hash" \in F /\ ("hash_start" \in F \/ "positional_column" \in F
                  \/ "hash_bitwise_xor" \in F)
              \/ "hash_start" \in F /\ ("positional_column" \in F \/ "hash_bitwise_xor" \in F)
              \/ "positional_column" \in F /\ "hash_bitwise_xor" \in F
  <1> DEFINE a == Arm("line_comment_hash" \in F, "comment")
             b == Arm("hash_start" \in F, "word")
             c == Arm("positional_column" \in F, "column")
             d == Arm("hash_bitwise_xor" \in F, "operator")
             e == Arm(TRUE, "unclaimed")
  <1>1. Arms(F, "hash_digit") = <<a, b, c, d, e>>
    <2>1. Arms(F, "hash_digit") = HashArms(F)["hash_digit"]
      BY DEF Arms
    <2> QED
      BY <2>1 DEF HashArms
  <1>2. /\ (a.when <=> "line_comment_hash" \in F) /\ a.reading = "comment"
        /\ (b.when <=> "hash_start" \in F) /\ b.reading = "word"
        /\ (c.when <=> "positional_column" \in F) /\ c.reading = "column"
        /\ (d.when <=> "hash_bitwise_xor" \in F) /\ d.reading = "operator"
        /\ (e.when <=> TRUE) /\ e.reading = "unclaimed"
    BY DEF Arm
  <1> HIDE DEF a, b, c, d, e
  <1> QED
    BY <1>1, <1>2, FiveArms, ShadowedLoses DEF Disputes, Fallbacks

(* `#a` is a comment, a word or an operator.                               *)
LEMMA HashNameShadowed ==
    ASSUME NEW F
    PROVE  Shadowed(F, "hash_name") <=>
              \/ "line_comment_hash" \in F /\ ("hash_start" \in F \/ "hash_bitwise_xor" \in F)
              \/ "hash_start" \in F /\ "hash_bitwise_xor" \in F
  <1> DEFINE a == Arm("line_comment_hash" \in F, "comment")
             b == Arm("hash_start" \in F, "word")
             c == Arm("hash_bitwise_xor" \in F, "operator")
             d == Arm(TRUE, "unclaimed")
  <1>1. Arms(F, "hash_name") = <<a, b, c, d>>
    <2>1. Arms(F, "hash_name") = HashArms(F)["hash_name"]
      BY DEF Arms
    <2> QED
      BY <2>1 DEF HashArms
  <1>2. /\ (a.when <=> "line_comment_hash" \in F) /\ a.reading = "comment"
        /\ (b.when <=> "hash_start" \in F) /\ b.reading = "word"
        /\ (c.when <=> "hash_bitwise_xor" \in F) /\ c.reading = "operator"
        /\ (d.when <=> TRUE) /\ d.reading = "unclaimed"
    BY DEF Arm
  <1> HIDE DEF a, b, c, d
  <1> QED
    BY <1>1, <1>2, FourArms, ShadowedLoses DEF Disputes, Fallbacks

(* `<#a`: the operator run may take the `#`.                               *)
LEMMA LessHashNameShadowed ==
    ASSUME NEW F
    PROVE  Shadowed(F, "less_hash_name") <=>
              \/ HashInRun(F) /\ ("line_comment_hash" \in F \/ "hash_start" \in F)
              \/ "line_comment_hash" \in F /\ ("hash_start" \in F \/ "hash_bitwise_xor" \in F)
              \/ "hash_start" \in F /\ "hash_bitwise_xor" \in F
  <1> DEFINE a == Arm(HashInRun(F), "operator")
             b == Arm("line_comment_hash" \in F, "comment")
             c == Arm("hash_start" \in F, "word")
             d == Arm("hash_bitwise_xor" \in F, "operator")
             e == Arm(TRUE, "unclaimed")
  <1>1. Arms(F, "less_hash_name") = <<a, b, c, d, e>>
    <2>1. Arms(F, "less_hash_name") = HashArms(F)["less_hash_name"]
      BY DEF Arms
    <2>2. Arms(F, "less_hash_name") = <<a>> \o <<b, c, d, e>>
      BY <2>1 DEF HashArms
    <2> HIDE DEF a, b, c, d, e
    <2> QED
      BY <2>2, Join14, Zenon
  <1>2. /\ (a.when <=> HashInRun(F)) /\ a.reading = "operator"
        /\ (b.when <=> "line_comment_hash" \in F) /\ b.reading = "comment"
        /\ (c.when <=> "hash_start" \in F) /\ c.reading = "word"
        /\ (d.when <=> "hash_bitwise_xor" \in F) /\ d.reading = "operator"
        /\ (e.when <=> TRUE) /\ e.reading = "unclaimed"
    BY DEF Arm
  <1> HIDE DEF a, b, c, d, e
  <1> QED
    BY <1>1, <1>2, FiveArms, ShadowedLoses DEF Disputes, Fallbacks

(* `@a` is a stage, a variable, a parameter, an operator or a word.        *)
LEMMA AtNameShadowed ==
    ASSUME NEW F
    PROVE  Shadowed(F, "at_name") <=>
              \/ "stage_references" \in F /\ ("user_variables" \in F \/ "named_at" \in F
                  \/ "custom_operators" \in F \/ "at_start" \in F)
              \/ "user_variables" \in F /\ ("named_at" \in F \/ "custom_operators" \in F
                  \/ "at_start" \in F)
              \/ "named_at" \in F /\ ("custom_operators" \in F \/ "at_start" \in F)
              \/ "custom_operators" \in F /\ "at_start" \in F
  <1> DEFINE a == Arm("stage_references" \in F, "stage")
             b == Arm("user_variables" \in F, "variable")
             c == Arm("named_at" \in F, "parameter")
             d == Arm("custom_operators" \in F, "operator")
             e == Arm("at_start" \in F, "word")
             f == Arm(TRUE, "unclaimed")
  <1>1. Arms(F, "at_name") = <<a, b, c, d, e, f>>
    <2>1. Arms(F, "at_name") = AtArms(F)["at_name"]
      BY DEF Arms
    <2>2. Arms(F, "at_name") = <<a, b, c>> \o <<d>> \o <<e, f>>
      BY <2>1 DEF AtArms, AtNameArms, WordOrStray
    <2> HIDE DEF a, b, c, d, e, f
    <2> QED
      BY <2>2, Join312
  <1>2. /\ (a.when <=> "stage_references" \in F) /\ a.reading = "stage"
        /\ (b.when <=> "user_variables" \in F) /\ b.reading = "variable"
        /\ (c.when <=> "named_at" \in F) /\ c.reading = "parameter"
        /\ (d.when <=> "custom_operators" \in F) /\ d.reading = "operator"
        /\ (e.when <=> "at_start" \in F) /\ e.reading = "word"
        /\ (f.when <=> TRUE) /\ f.reading = "unclaimed"
    BY DEF Arm
  <1> HIDE DEF a, b, c, d, e, f
  <1> QED
    BY <1>1, <1>2, SixArms, ShadowedLoses DEF Disputes, Fallbacks

(* `@@a`: with `@` an identifier byte the second is a name.                *)
LEMMA AtAtNameShadowed ==
    ASSUME NEW F
    PROVE  Shadowed(F, "at_at_name") <=>
              \/ "system_variables" \in F /\ Meets(F, {"jsonb_operators", "custom_operators"})
              \/ "at_start" \in F /\ ("stage_references" \in F \/ "user_variables" \in F
                  \/ "named_at" \in F \/ "system_variables" \in F
                  \/ Meets(F, {"jsonb_operators", "custom_operators"}))
  <1> DEFINE a == Arm("at_start" \in F /\ AtNameArms(F)[1].when, AtNameArms(F)[1].reading)
             b == Arm("system_variables" \in F, "system_variable")
             c == Arm("at_start" \in F /\ AtNameArms(F)[2].when, AtNameArms(F)[2].reading)
             d == Arm("at_start" \in F /\ AtNameArms(F)[3].when, AtNameArms(F)[3].reading)
             e == Arm(Meets(F, {"jsonb_operators", "custom_operators"}), "operator")
             f == Arm("user_variables" \in F, "stray_at")
             g == Arm("at_start" \in F, "word")
             h == Arm(TRUE, "unclaimed")
  <1>1. Arms(F, "at_at_name") = <<a, b, c, d, e, f, g, h>>
    <2>1. Arms(F, "at_at_name") = AtArms(F)["at_at_name"]
      BY DEF Arms
    <2>2. Arms(F, "at_at_name") = <<a>> \o <<b>> \o <<c>> \o <<d>> \o (<<e, f>> \o <<g, h>>)
      BY <2>1 DEF AtArms, WordOrStray
    <2> HIDE DEF a, b, c, d, e, f, g, h
    <2>3. <<a>> \o <<b>> \o <<c>> \o <<d>> \o (<<e, f>> \o <<g, h>>) = <<a, b, c, d, e, f, g, h>>
      <3> DEFINE S == {a, b, c, d, e, f, g, h}
      <3>1. a \in S /\ b \in S /\ c \in S /\ d \in S /\ e \in S /\ f \in S /\ g \in S /\ h \in S
        OBVIOUS
      <3> HIDE DEF S
      <3>2. <<a>> \in Seq(S) /\ <<b>> \in Seq(S) /\ <<c>> \in Seq(S) /\ <<d>> \in Seq(S)
             /\ <<e, f>> \in Seq(S) /\ <<g, h>> \in Seq(S)
             /\ <<a, b, c, d, e, f, g, h>> \in Seq(S)
        BY <3>1
      <3>3. <<a>> \o <<b>> \o <<c>> \o <<d>> \o (<<e, f>> \o <<g, h>>) \in Seq(S)
             /\ Len(<<a>> \o <<b>> \o <<c>> \o <<d>> \o (<<e, f>> \o <<g, h>>)) = 8
        BY <3>2
      <3>4. \A i \in 1..8 : (<<a>> \o <<b>> \o <<c>> \o <<d>> \o (<<e, f>> \o <<g, h>>))[i]
                             = <<a, b, c, d, e, f, g, h>>[i]
        BY <3>2
      <3> QED
        BY <3>2, <3>3, <3>4, SeqEqual
    <2> QED
      BY <2>2, <2>3, Zenon
  <1>2. /\ (a.when <=> "at_start" \in F /\ "stage_references" \in F) /\ a.reading = "stage"
        /\ (b.when <=> "system_variables" \in F) /\ b.reading = "system_variable"
        /\ (c.when <=> "at_start" \in F /\ "user_variables" \in F) /\ c.reading = "variable"
        /\ (d.when <=> "at_start" \in F /\ "named_at" \in F) /\ d.reading = "parameter"
        /\ (e.when <=> Meets(F, {"jsonb_operators", "custom_operators"}))
             /\ e.reading = "operator"
        /\ (f.when <=> "user_variables" \in F) /\ f.reading = "stray_at"
        /\ (g.when <=> "at_start" \in F) /\ g.reading = "word"
        /\ (h.when <=> TRUE) /\ h.reading = "unclaimed"
    BY DEF Arm, AtNameArms
  <1> HIDE DEF a, b, c, d, e, f, g, h
  <1> QED
    BY <1>1, <1>2, EightArms, ShadowedLoses DEF Disputes, Fallbacks

(* `@>` is an operator, a stray `@` or a word.                             *)
LEMMA AtGreaterShadowed ==
    ASSUME NEW F
    PROVE  Shadowed(F, "at_greater") <=>
              /\ "at_start" \in F
              /\ \/ Meets(F, {"containment_operators", "custom_operators"})
                 \/ "user_variables" \in F
  <1> DEFINE a == Arm(Meets(F, {"containment_operators", "custom_operators"}), "operator")
             b == Arm("user_variables" \in F, "stray_at")
             c == Arm("at_start" \in F, "word")
             d == Arm(TRUE, "unclaimed")
  <1>1. Arms(F, "at_greater") = <<a, b, c, d>>
    <2>1. Arms(F, "at_greater") = AtArms(F)["at_greater"]
      BY DEF Arms
    <2>2. Arms(F, "at_greater") = <<a, b>> \o <<c, d>>
      BY <2>1 DEF AtArms, AtNameArms, WordOrStray
    <2> HIDE DEF a, b, c, d
    <2> QED
      BY <2>2, Join22, Zenon
  <1>2. /\ (a.when <=> Meets(F, {"containment_operators", "custom_operators"}))
             /\ a.reading = "operator"
        /\ (b.when <=> "user_variables" \in F) /\ b.reading = "stray_at"
        /\ (c.when <=> "at_start" \in F) /\ c.reading = "word"
        /\ (d.when <=> TRUE) /\ d.reading = "unclaimed"
    BY DEF Arm
  <1> HIDE DEF a, b, c, d
  <1> QED
    BY <1>1, <1>2, FourArms, ShadowedLoses DEF Disputes, Fallbacks

(* `@~` is a stage, an operator, a stray `@` or a word.                    *)
LEMMA AtTildeShadowed ==
    ASSUME NEW F
    PROVE  Shadowed(F, "at_tilde") <=>
              \/ "stage_references" \in F /\ (Meets(F, {"custom_operators"}) \/ "at_start" \in F)
              \/ Meets(F, {"custom_operators"}) /\ "at_start" \in F
              \/ "at_start" \in F /\ "user_variables" \in F
  <1> DEFINE a == Arm("stage_references" \in F, "stage")
             b == Arm(Meets(F, {"custom_operators"}), "operator")
             c == Arm("user_variables" \in F, "stray_at")
             d == Arm("at_start" \in F, "word")
             e == Arm(TRUE, "unclaimed")
  <1>1. Arms(F, "at_tilde") = <<a, b, c, d, e>>
    <2>1. Arms(F, "at_tilde") = AtArms(F)["at_tilde"]
      BY DEF Arms
    <2>2. Arms(F, "at_tilde") = <<a>> \o (<<b, c>> \o <<d, e>>)
      BY <2>1 DEF AtArms, AtNameArms, WordOrStray
    <2> HIDE DEF a, b, c, d, e
    <2> QED
      BY <2>2, Join122, Zenon
  <1>2. /\ (a.when <=> "stage_references" \in F) /\ a.reading = "stage"
        /\ (b.when <=> Meets(F, {"custom_operators"})) /\ b.reading = "operator"
        /\ (c.when <=> "user_variables" \in F) /\ c.reading = "stray_at"
        /\ (d.when <=> "at_start" \in F) /\ d.reading = "word"
        /\ (e.when <=> TRUE) /\ e.reading = "unclaimed"
    BY DEF Arm
  <1> HIDE DEF a, b, c, d, e
  <1> QED
    BY <1>1, <1>2, FiveArms, ShadowedLoses DEF Disputes, Fallbacks

(* `@'` is an operator, separates a host or is a word.                     *)
LEMMA AtQuoteShadowed ==
    ASSUME NEW F
    PROVE  Shadowed(F, "at_quote") <=>
              \/ "custom_operators" \in F /\ ("user_variables" \in F \/ "at_start" \in F)
              \/ "user_variables" \in F /\ "at_start" \in F
  <1> DEFINE a == Arm("custom_operators" \in F, "operator")
             b == Arm("user_variables" \in F, "host_separator")
             c == Arm("at_start" \in F, "word")
             d == Arm(TRUE, "unclaimed")
  <1>1. Arms(F, "at_quote") = <<a, b, c, d>>
    <2>1. Arms(F, "at_quote") = AtArms(F)["at_quote"]
      BY DEF Arms
    <2>2. Arms(F, "at_quote") = <<a, b>> \o <<c, d>>
      BY <2>1 DEF AtArms, AtNameArms, WordOrStray
    <2> HIDE DEF a, b, c, d
    <2> QED
      BY <2>2, Join22, Zenon
  <1>2. /\ (a.when <=> "custom_operators" \in F) /\ a.reading = "operator"
        /\ (b.when <=> "user_variables" \in F) /\ b.reading = "host_separator"
        /\ (c.when <=> "at_start" \in F) /\ c.reading = "word"
        /\ (d.when <=> TRUE) /\ d.reading = "unclaimed"
    BY DEF Arm
  <1> HIDE DEF a, b, c, d
  <1> QED
    BY <1>1, <1>2, FourArms, ShadowedLoses DEF Disputes, Fallbacks

(* `<@a`: the operator may take the `@`.                                   *)
LEMMA LessAtNameShadowed ==
    ASSUME NEW F
    PROVE  Shadowed(F, "less_at_name") <=>
              \/ Meets(F, {"containment_operators", "custom_operators"})
                  /\ ("stage_references" \in F \/ "user_variables" \in F \/ "named_at" \in F
                  \/ "at_start" \in F)
              \/ "stage_references" \in F /\ ("user_variables" \in F \/ "named_at" \in F
                  \/ "at_start" \in F)
              \/ "user_variables" \in F /\ ("named_at" \in F \/ "at_start" \in F)
              \/ "named_at" \in F /\ "at_start" \in F
  <1> DEFINE a == Arm(Meets(F, {"containment_operators", "custom_operators"}), "operator")
             b == Arm("stage_references" \in F, "stage")
             c == Arm("user_variables" \in F, "variable")
             d == Arm("named_at" \in F, "parameter")
             e == Arm("at_start" \in F, "word")
             f == Arm(TRUE, "unclaimed")
  <1>1. Arms(F, "less_at_name") = <<a, b, c, d, e, f>>
    <2>1. Arms(F, "less_at_name") = AtArms(F)["less_at_name"]
      BY DEF Arms
    <2>2. Arms(F, "less_at_name") = <<a>> \o <<b, c, d>> \o <<e, f>>
      BY <2>1 DEF AtArms, AtNameArms, WordOrStray
    <2> HIDE DEF a, b, c, d, e, f
    <2> QED
      BY <2>2, Join132
  <1>2. /\ (a.when <=> Meets(F, {"containment_operators", "custom_operators"}))
             /\ a.reading = "operator"
        /\ (b.when <=> "stage_references" \in F) /\ b.reading = "stage"
        /\ (c.when <=> "user_variables" \in F) /\ c.reading = "variable"
        /\ (d.when <=> "named_at" \in F) /\ d.reading = "parameter"
        /\ (e.when <=> "at_start" \in F) /\ e.reading = "word"
        /\ (f.when <=> TRUE) /\ f.reading = "unclaimed"
    BY DEF Arm
  <1> HIDE DEF a, b, c, d, e, f
  <1> QED
    BY <1>1, <1>2, SixArms, ShadowedLoses DEF Disputes, Fallbacks

(* `^@a`: the operator may take the `@`.                                   *)
LEMMA CaretAtNameShadowed ==
    ASSUME NEW F
    PROVE  Shadowed(F, "caret_at_name") <=>
              \/ Meets(F, {"starts_with_operator", "custom_operators"})
                  /\ ("stage_references" \in F \/ "user_variables" \in F \/ "named_at" \in F
                  \/ "at_start" \in F)
              \/ "stage_references" \in F /\ ("user_variables" \in F \/ "named_at" \in F
                  \/ "at_start" \in F)
              \/ "user_variables" \in F /\ ("named_at" \in F \/ "at_start" \in F)
              \/ "named_at" \in F /\ "at_start" \in F
  <1> DEFINE a == Arm(Meets(F, {"starts_with_operator", "custom_operators"}), "operator")
             b == Arm("stage_references" \in F, "stage")
             c == Arm("user_variables" \in F, "variable")
             d == Arm("named_at" \in F, "parameter")
             e == Arm("at_start" \in F, "word")
             f == Arm(TRUE, "unclaimed")
  <1>1. Arms(F, "caret_at_name") = <<a, b, c, d, e, f>>
    <2>1. Arms(F, "caret_at_name") = AtArms(F)["caret_at_name"]
      BY DEF Arms
    <2>2. Arms(F, "caret_at_name") = <<a>> \o <<b, c, d>> \o <<e, f>>
      BY <2>1 DEF AtArms, AtNameArms, WordOrStray
    <2> HIDE DEF a, b, c, d, e, f
    <2> QED
      BY <2>2, Join132
  <1>2. /\ (a.when <=> Meets(F, {"starts_with_operator", "custom_operators"}))
             /\ a.reading = "operator"
        /\ (b.when <=> "stage_references" \in F) /\ b.reading = "stage"
        /\ (c.when <=> "user_variables" \in F) /\ c.reading = "variable"
        /\ (d.when <=> "named_at" \in F) /\ d.reading = "parameter"
        /\ (e.when <=> "at_start" \in F) /\ e.reading = "word"
        /\ (f.when <=> TRUE) /\ f.reading = "unclaimed"
    BY DEF Arm
  <1> HIDE DEF a, b, c, d, e, f
  <1> QED
    BY <1>1, <1>2, SixArms, ShadowedLoses DEF Disputes, Fallbacks

(* FirstOf reports some rivalry of a table exactly when there is one.      *)
LEMMA FirstOfReports ==
    ASSUME NEW F, NEW rivals, DOMAIN rivals \subseteq Nat \ {0}
    PROVE  FirstOf(F, rivals) # 0 <=>
              \E i \in DOMAIN rivals : Meets(F, rivals[i][1]) /\ Meets(F, rivals[i][2])
  <1> DEFINE hits == {i \in DOMAIN rivals : Meets(F, rivals[i][1]) /\ Meets(F, rivals[i][2])}
  <1>1. FirstOf(F, rivals) = IF hits = {} THEN 0 ELSE CHOOSE i \in hits : \A j \in hits : i <= j
    BY DEF FirstOf
  <1>2. hits # {} => (CHOOSE i \in hits : \A j \in hits : i <= j) \in hits
    <2>1. hits # {} => \E i \in hits : \A j \in hits : i <= j
      BY LeastOf
    <2> HIDE DEF hits
    <2> QED
      BY <2>1
  <1> QED
    BY <1>1, <1>2

(* What the registry reports, flag by flag.                                *)
LEMMA ListedFlags ==
    ASSUME NEW F
    PROVE  FirstOf(F, LexicalRivals) # 0 <=>
              \/ "double_quoted_strings" \in F /\ "quote_double" \in F
              \/ "quote_bracket" \in F /\ ("subscript" \in F \/ "array_constructor" \in F
                    \/ "collection_literals" \in F \/ "table_json_path" \in F)
              \/ "named_colon" \in F /\ ("subscript" \in F \/ "collection_literals" \in F
                    \/ "semi_structured_access" \in F)
              \/ "money_literals" \in F /\ "positional_dollar" \in F
              \/ "named_dollar" \in F /\ "dollar_quoted_strings" \in F
              \/ "line_comment_hash" \in F /\ "hash_start" \in F
              \/ "hash_bitwise_xor" \in F /\ "line_comment_hash" \in F
              \/ "positional_column" \in F /\ "hash_bitwise_xor" \in F
              \/ "positional_column" \in F /\ "line_comment_hash" \in F
              \/ "named_at" \in F /\ "user_variables" \in F
              \/ "containment_operators" \in F /\ ("named_at" \in F \/ "user_variables" \in F)
              \/ "jsonb_operators" \in F /\ "anonymous_question" \in F
              \/ "jsonb_operators" \in F /\ "system_variables" \in F
              \/ "custom_operators" \in F /\ ("named_at" \in F \/ "user_variables" \in F)
              \/ "custom_operators" \in F /\ "system_variables" \in F
              \/ ("dollar_quoted_strings" \in F \/ "positional_dollar" \in F
                    \/ "money_literals" \in F) /\ "dollar_start" \in F
              \/ ("named_at" \in F \/ "user_variables" \in F \/ "system_variables" \in F)
                    /\ "at_start" \in F
              \/ "named_colon" \in F /\ "colon_start" \in F
  <1> DEFINE Hit(i) == Meets(F, LexicalRivals[i][1]) /\ Meets(F, LexicalRivals[i][2])
  <1>1. DOMAIN LexicalRivals = 1..18
    BY DEF LexicalRivals
  <1>2. Hit(1) <=> "double_quoted_strings" \in F /\ "quote_double" \in F
    <2>1. LexicalRivals[1] = <<{"double_quoted_strings"}, {"quote_double"}>>
      BY DEF LexicalRivals
    <2> QED
      BY <2>1 DEF Meets
  <1>3. Hit(2) <=> "quote_bracket" \in F /\ ("subscript" \in F \/ "array_constructor" \in F
             \/ "collection_literals" \in F \/ "table_json_path" \in F)
    <2>1. LexicalRivals[2] = <<{"quote_bracket"},
                        {"subscript", "array_constructor", "collection_literals",
                         "table_json_path"}>>
      BY DEF LexicalRivals
    <2> QED
      BY <2>1 DEF Meets
  <1>4. Hit(3) <=> "named_colon" \in F /\ ("subscript" \in F \/ "collection_literals" \in F
             \/ "semi_structured_access" \in F)
    <2>1. LexicalRivals[3] = <<{"named_colon"},
                        {"subscript", "collection_literals", "semi_structured_access"}>>
      BY DEF LexicalRivals
    <2> QED
      BY <2>1 DEF Meets
  <1>5. Hit(4) <=> "money_literals" \in F /\ "positional_dollar" \in F
    <2>1. LexicalRivals[4] = <<{"money_literals"}, {"positional_dollar"}>>
      BY DEF LexicalRivals
    <2> QED
      BY <2>1 DEF Meets
  <1>6. Hit(5) <=> "named_dollar" \in F /\ "dollar_quoted_strings" \in F
    <2>1. LexicalRivals[5] = <<{"named_dollar"}, {"dollar_quoted_strings"}>>
      BY DEF LexicalRivals
    <2> QED
      BY <2>1 DEF Meets
  <1>7. Hit(6) <=> "line_comment_hash" \in F /\ "hash_start" \in F
    <2>1. LexicalRivals[6] = <<{"line_comment_hash"}, {"hash_start"}>>
      BY DEF LexicalRivals
    <2> QED
      BY <2>1 DEF Meets
  <1>8. Hit(7) <=> "hash_bitwise_xor" \in F /\ "line_comment_hash" \in F
    <2>1. LexicalRivals[7] = <<{"hash_bitwise_xor"}, {"line_comment_hash"}>>
      BY DEF LexicalRivals
    <2> QED
      BY <2>1 DEF Meets
  <1>9. Hit(8) <=> "positional_column" \in F /\ "hash_bitwise_xor" \in F
    <2>1. LexicalRivals[8] = <<{"positional_column"}, {"hash_bitwise_xor"}>>
      BY DEF LexicalRivals
    <2> QED
      BY <2>1 DEF Meets
  <1>10. Hit(9) <=> "positional_column" \in F /\ "line_comment_hash" \in F
    <2>1. LexicalRivals[9] = <<{"positional_column"}, {"line_comment_hash"}>>
      BY DEF LexicalRivals
    <2> QED
      BY <2>1 DEF Meets
  <1>11. Hit(10) <=> "named_at" \in F /\ "user_variables" \in F
    <2>1. LexicalRivals[10] = <<{"named_at"}, {"user_variables"}>>
      BY DEF LexicalRivals
    <2> QED
      BY <2>1 DEF Meets
  <1>12. Hit(11) <=> "containment_operators" \in F /\ ("named_at" \in F \/ "user_variables" \in F)
    <2>1. LexicalRivals[11] = <<{"containment_operators"}, {"named_at", "user_variables"}>>
      BY DEF LexicalRivals
    <2> QED
      BY <2>1 DEF Meets
  <1>13. Hit(12) <=> "jsonb_operators" \in F /\ "anonymous_question" \in F
    <2>1. LexicalRivals[12] = <<{"jsonb_operators"}, {"anonymous_question"}>>
      BY DEF LexicalRivals
    <2> QED
      BY <2>1 DEF Meets
  <1>14. Hit(13) <=> "jsonb_operators" \in F /\ "system_variables" \in F
    <2>1. LexicalRivals[13] = <<{"jsonb_operators"}, {"system_variables"}>>
      BY DEF LexicalRivals
    <2> QED
      BY <2>1 DEF Meets
  <1>15. Hit(14) <=> "custom_operators" \in F /\ ("named_at" \in F \/ "user_variables" \in F)
    <2>1. LexicalRivals[14] = <<{"custom_operators"}, {"named_at", "user_variables"}>>
      BY DEF LexicalRivals
    <2> QED
      BY <2>1 DEF Meets
  <1>16. Hit(15) <=> "custom_operators" \in F /\ "system_variables" \in F
    <2>1. LexicalRivals[15] = <<{"custom_operators"}, {"system_variables"}>>
      BY DEF LexicalRivals
    <2> QED
      BY <2>1 DEF Meets
  <1>17. Hit(16) <=> ("dollar_quoted_strings" \in F \/ "positional_dollar" \in F
             \/ "money_literals" \in F) /\ "dollar_start" \in F
    <2>1. LexicalRivals[16] = <<{"dollar_quoted_strings", "positional_dollar", "money_literals"},
                        {"dollar_start"}>>
      BY DEF LexicalRivals
    <2> QED
      BY <2>1 DEF Meets
  <1>18. Hit(17) <=> ("named_at" \in F \/ "user_variables" \in F \/ "system_variables" \in F)
             /\ "at_start" \in F
    <2>1. LexicalRivals[17] = <<{"named_at", "user_variables", "system_variables"}, {"at_start"}>>
      BY DEF LexicalRivals
    <2> QED
      BY <2>1 DEF Meets
  <1>19. Hit(18) <=> "named_colon" \in F /\ "colon_start" \in F
    <2>1. LexicalRivals[18] = <<{"named_colon"}, {"colon_start"}>>
      BY DEF LexicalRivals
    <2> QED
      BY <2>1 DEF Meets
  <1> HIDE DEF Hit
  <1>20. (\E i \in 1..18 : Hit(i)) <=> Hit(1) \/ Hit(2) \/ Hit(3) \/ Hit(4) \/ Hit(5)
             \/ Hit(6) \/ Hit(7) \/ Hit(8) \/ Hit(9) \/ Hit(10) \/ Hit(11) \/ Hit(12)
             \/ Hit(13) \/ Hit(14) \/ Hit(15) \/ Hit(16) \/ Hit(17) \/ Hit(18)
    OBVIOUS
  <1>21. FirstOf(F, LexicalRivals) # 0 <=> \E i \in 1..18 : Hit(i)
    <2>1. DOMAIN LexicalRivals \subseteq Nat \ {0}
      BY <1>1
    <2> QED
      BY <1>1, <2>1, FirstOfReports DEF Hit
  <1> QED
    BY <1>2, <1>3, <1>4, <1>5, <1>6, <1>7, <1>8, <1>9, <1>10,
       <1>11, <1>12, <1>13, <1>14, <1>15, <1>16, <1>17, <1>18, <1>19, <1>20, <1>21

(* What it does not list, flag by flag.                                    *)
LEMMA UnlistedFlags ==
    ASSUME NEW F
    PROVE  FirstOf(F, UnlistedRivals) # 0 <=>
              \/ "stage_references" \in F /\ ("user_variables" \in F \/ "named_at" \in F
                    \/ "custom_operators" \in F \/ "containment_operators" \in F
                    \/ "starts_with_operator" \in F)
              \/ "starts_with_operator" \in F /\ ("user_variables" \in F \/ "named_at" \in F)
              \/ "at_start" \in F /\ ("stage_references" \in F \/ "custom_operators" \in F
                    \/ "jsonb_operators" \in F \/ "containment_operators" \in F
                    \/ "starts_with_operator" \in F)
              \/ "quote_backtick" \in F /\ "custom_operators" \in F
              \/ "blob_literals" \in F /\ "bit_string_literals" \in F
              \/ "dollar_start" \in F
              \/ "colon_start" \in F /\ ("subscript" \in F \/ "collection_literals" \in F
                    \/ "semi_structured_access" \in F)
              \/ "hash_start" \in F /\ ("hash_bitwise_xor" \in F \/ "positional_column" \in F)
              \/ "jsonb_operators" \in F /\ "numbered_question" \in F
  <1> DEFINE Hit(i) == Meets(F, UnlistedRivals[i][1]) /\ Meets(F, UnlistedRivals[i][2])
  <1>1. DOMAIN UnlistedRivals = 1..9
    BY DEF UnlistedRivals
  <1>2. Hit(1) <=> "stage_references" \in F /\ ("user_variables" \in F \/ "named_at" \in F
             \/ "custom_operators" \in F \/ "containment_operators" \in F
             \/ "starts_with_operator" \in F)
    <2>1. UnlistedRivals[1] = <<{"stage_references"},
                        {"user_variables", "named_at", "custom_operators",
                         "containment_operators", "starts_with_operator"}>>
      BY DEF UnlistedRivals
    <2> QED
      BY <2>1 DEF Meets
  <1>3. Hit(2) <=> "starts_with_operator" \in F /\ ("user_variables" \in F \/ "named_at" \in F)
    <2>1. UnlistedRivals[2] = <<{"starts_with_operator"}, {"user_variables", "named_at"}>>
      BY DEF UnlistedRivals
    <2> QED
      BY <2>1 DEF Meets
  <1>4. Hit(3) <=> "at_start" \in F /\ ("stage_references" \in F \/ "custom_operators" \in F
             \/ "jsonb_operators" \in F \/ "containment_operators" \in F
             \/ "starts_with_operator" \in F)
    <2>1. UnlistedRivals[3] = <<{"at_start"},
                        {"stage_references", "custom_operators", "jsonb_operators",
                         "containment_operators", "starts_with_operator"}>>
      BY DEF UnlistedRivals
    <2> QED
      BY <2>1 DEF Meets
  <1>5. Hit(4) <=> "quote_backtick" \in F /\ "custom_operators" \in F
    <2>1. UnlistedRivals[4] = <<{"quote_backtick"}, {"custom_operators"}>>
      BY DEF UnlistedRivals
    <2> QED
      BY <2>1 DEF Meets
  <1>6. Hit(5) <=> "blob_literals" \in F /\ "bit_string_literals" \in F
    <2>1. UnlistedRivals[5] = <<{"blob_literals"}, {"bit_string_literals"}>>
      BY DEF UnlistedRivals
    <2> QED
      BY <2>1 DEF Meets
  <1>7. Hit(6) <=> "dollar_start" \in F
    <2>1. UnlistedRivals[6] = <<{"dollar_start"}, {"dollar_start"}>>
      BY DEF UnlistedRivals
    <2> QED
      BY <2>1 DEF Meets
  <1>8. Hit(7) <=> "colon_start" \in F /\ ("subscript" \in F \/ "collection_literals" \in F
             \/ "semi_structured_access" \in F)
    <2>1. UnlistedRivals[7] = <<{"colon_start"},
                        {"subscript", "collection_literals", "semi_structured_access"}>>
      BY DEF UnlistedRivals
    <2> QED
      BY <2>1 DEF Meets
  <1>9. Hit(8) <=> "hash_start" \in F /\ ("hash_bitwise_xor" \in F \/ "positional_column" \in F)
    <2>1. UnlistedRivals[8] = <<{"hash_start"}, {"hash_bitwise_xor", "positional_column"}>>
      BY DEF UnlistedRivals
    <2> QED
      BY <2>1 DEF Meets
  <1>10. Hit(9) <=> "jsonb_operators" \in F /\ "numbered_question" \in F
    <2>1. UnlistedRivals[9] = <<{"jsonb_operators"}, {"numbered_question"}>>
      BY DEF UnlistedRivals
    <2> QED
      BY <2>1 DEF Meets
  <1> HIDE DEF Hit
  <1>11. (\E i \in 1..9 : Hit(i)) <=> Hit(1) \/ Hit(2) \/ Hit(3) \/ Hit(4) \/ Hit(5) \/ Hit(6)
             \/ Hit(7) \/ Hit(8) \/ Hit(9)
    OBVIOUS
  <1>12. FirstOf(F, UnlistedRivals) # 0 <=> \E i \in 1..9 : Hit(i)
    <2>1. DOMAIN UnlistedRivals \subseteq Nat \ {0}
      BY <1>1
    <2> QED
      BY <1>1, <2>1, FirstOfReports DEF Hit
  <1> QED
    BY <1>2, <1>3, <1>4, <1>5, <1>6, <1>7, <1>8, <1>9, <1>10,
       <1>11, <1>12

(* A feature loses a trigger of the scanner exactly in the sets the        *)
(* registry reports and in the unlisted ones, whatever the set of flags.   *)
LEMMA RegistryComplete ==
    ASSUME NEW F
    PROVE  (\E t \in Triggers : Shadowed(F, t)) <=> (~is_lexically_consistent(F) \/ Unlisted(F))
  <1>1. (\E t \in Triggers : Shadowed(F, t)) <=>
          \/ Shadowed(F, "double_quote")
          \/ Shadowed(F, "bracket")
          \/ Shadowed(F, "backtick")
          \/ Shadowed(F, "x_quote")
          \/ Shadowed(F, "dollar_digit")
          \/ Shadowed(F, "dollar_name")
          \/ Shadowed(F, "colon_name")
          \/ Shadowed(F, "question")
          \/ Shadowed(F, "question_digit")
          \/ Shadowed(F, "less_question_digit")
          \/ Shadowed(F, "hash_digit")
          \/ Shadowed(F, "hash_name")
          \/ Shadowed(F, "less_hash_name")
          \/ Shadowed(F, "at_name")
          \/ Shadowed(F, "at_at_name")
          \/ Shadowed(F, "at_greater")
          \/ Shadowed(F, "at_tilde")
          \/ Shadowed(F, "at_quote")
          \/ Shadowed(F, "less_at_name")
          \/ Shadowed(F, "caret_at_name")
    BY DEF Triggers
  <1>2. /\ Meets(F, {"subscript", "array_constructor", "collection_literals",
             "table_json_path"}) <=> "subscript" \in F \/ "array_constructor" \in F
             \/ "collection_literals" \in F \/ "table_json_path" \in F
        /\ Meets(F, {"subscript", "collection_literals",
             "semi_structured_access"}) <=> "subscript" \in F \/ "collection_literals" \in F
             \/ "semi_structured_access" \in F
        /\ Meets(F, {"jsonb_operators", "custom_operators"}) <=> "jsonb_operators" \in F
             \/ "custom_operators" \in F
        /\ Meets(F, {"containment_operators",
             "custom_operators"}) <=> "containment_operators" \in F \/ "custom_operators" \in F
        /\ Meets(F, {"custom_operators"}) <=> "custom_operators" \in F
        /\ Meets(F, {"starts_with_operator",
             "custom_operators"}) <=> "starts_with_operator" \in F \/ "custom_operators" \in F
    BY DEF Meets
  <1>3. ~is_lexically_consistent(F) <=> FirstOf(F, LexicalRivals) # 0
    BY DEF is_lexically_consistent, lexical_conflict
  <1>4. Unlisted(F) <=> \/ FirstOf(F, UnlistedRivals) # 0
                        \/ QuestionInRun(F) /\ "numbered_question" \in F
                        \/ HashInRun(F) /\ ("line_comment_hash" \in F \/ "hash_start" \in F)
    BY DEF Unlisted, Meets
  <1> QED
    BY <1>1, <1>2, <1>3, <1>4, ListedFlags, UnlistedFlags, DoubleQuoteShadowed,
       BracketShadowed, BacktickShadowed, XQuoteShadowed, DollarDigitShadowed,
       DollarNameShadowed, ColonNameShadowed, QuestionShadowed, QuestionDigitShadowed,
       LessQuestionDigitShadowed, HashDigitShadowed, HashNameShadowed, LessHashNameShadowed,
       AtNameShadowed, AtAtNameShadowed, AtGreaterShadowed, AtTildeShadowed, AtQuoteShadowed,
       LessAtNameShadowed, CaretAtNameShadowed
       DEF QuestionInRun, HashInRun

(* lexical_conflict reports a set exactly when the order of the scanner's  *)
(* arms decides between two features, but for the unlisted rivalries: for  *)
(* every set of flags that presets and deltas can build, not only those of *)
(* the shipped dialects.                                                   *)
THEOREM RegistryIsExact == Spec => []RegistryExact
  <1>1. RegistryExact
    BY RegistryComplete DEF RegistryExact
  <1> QED
    BY <1>1, PTL

(***************************************************************************)
(* HeadsExact.  Two arms of the dispatcher that can take one opening share *)
(* its first word.  The few pairs that do are the one more specific than   *)
(* the other, the same production, told apart by a later word, or one of   *)
(* the three rivalries.                                                    *)
(***************************************************************************)
Rivalries ==
    {{"do_statement", "do_expression_list"},
     {"prepared_statements", "prepared_statements_from"},
     {"describe", "describe_summarize"}}

(* Some word tells the arms apart: no opening fits both.                   *)
Apart(x, y) ==
    \E k \in DOMAIN x.words : k \in DOMAIN y.words /\ x.words[k] \cap y.words[k] = {}

(* The earlier arm x may take what the later arm y would.                  *)
Settled(x, y) ==
    \/ x.parse = y.parse \/ y.parse = "error"
    \/ Len(x.words) > Len(y.words)
    \/ Len(x.words) = Len(y.words) /\ y.needs \subseteq x.needs /\ x.needs # y.needs
    \/ Apart(x, y)
    \/ \E R \in Rivalries : R \subseteq x.needs \cup y.needs

(* The fields of an arm.                                                   *)
LEMMA OnFields ==
    \A needs, words, parse :
        /\ On(needs, words, parse).needs = needs
        /\ On(needs, words, parse).words = words
        /\ On(needs, words, parse).parse = parse
  BY DEF On

(* A table in an order that no opening can upset.                          *)
InOrder(s) == \A i, j \in DOMAIN s : i < j => Settled(s[i], s[j])

(* Every arm of one table may stand before every arm of another.           *)
Before(s, t) == \A i \in DOMAIN s, j \in DOMAIN t : Settled(s[i], t[j])

(* The arms of a table ask for one of the words W first.                   *)
Leads(s, W) == \A i \in DOMAIN s : 1 \in DOMAIN s[i].words /\ s[i].words[1] \subseteq W

(* Arms x and y, one behind the other, are the table's arms for word w.    *)
Twins(s, w, x, y) ==
    \E p \in DOMAIN s :
        /\ p + 1 \in DOMAIN s /\ s[p] = x /\ s[p + 1] = y
        /\ \A i \in DOMAIN s : w \in s[i].words[1] => i \in {p, p + 1}

(* Where the members of two sequences stand in their concatenation.        *)
LEMMA Splice ==
    ASSUME NEW S, NEW s \in Seq(S), NEW t \in Seq(S)
    PROVE  /\ s \o t \in Seq(S)
           /\ DOMAIN s = 1..Len(s) /\ DOMAIN t = 1..Len(t) /\ Len(s) \in Nat /\ Len(t) \in Nat
           /\ DOMAIN (s \o t) = 1..Len(s) + Len(t)
           /\ \A i \in 1..Len(s) : (s \o t)[i] = s[i]
           /\ \A i \in Len(s) + 1..Len(s) + Len(t) :
                 i - Len(s) \in 1..Len(t) /\ (s \o t)[i] = t[i - Len(s)]
           /\ \A i \in 1..Len(t) : (s \o t)[Len(s) + i] = t[i]
  OBVIOUS

(* Two tables in order are in order together.                              *)
LEMMA JoinOrder ==
    ASSUME NEW S, NEW s \in Seq(S), NEW t \in Seq(S), InOrder(s), InOrder(t), Before(s, t)
    PROVE  InOrder(s \o t)
  <1> DEFINE u == s \o t
             m == Len(s)
             n == Len(t)
  <1>1. /\ m \in Nat /\ n \in Nat /\ DOMAIN s = 1..m /\ DOMAIN t = 1..n /\ DOMAIN u = 1..m + n
        /\ \A i \in 1..m : u[i] = s[i]
        /\ \A i \in m + 1..m + n : i - m \in 1..n /\ u[i] = t[i - m]
    BY Splice
  <1> HIDE DEF u, m, n
  <1> SUFFICES ASSUME NEW i \in DOMAIN u, NEW j \in DOMAIN u, i < j
               PROVE  Settled(u[i], u[j])
    BY DEF InOrder, u
  <1>2. i \in 1..m \/ i \in m + 1..m + n
    BY <1>1
  <1>3. j \in 1..m \/ j \in m + 1..m + n
    BY <1>1
  <1>4. CASE i \in 1..m /\ j \in 1..m
    BY <1>1, <1>4 DEF InOrder
  <1>5. CASE i \in 1..m /\ j \in m + 1..m + n
    BY <1>1, <1>5 DEF Before
  <1>6. CASE i \in m + 1..m + n /\ j \in m + 1..m + n
    <2>1. i - m \in DOMAIN t /\ j - m \in DOMAIN t /\ i - m < j - m
      BY <1>1, <1>6
    <2> QED
      BY <1>1, <1>6, <2>1 DEF InOrder
  <1> QED
    BY <1>1, <1>2, <1>3, <1>4, <1>5, <1>6

(* The first words of two tables.                                          *)
LEMMA JoinLeads ==
    ASSUME NEW S, NEW s \in Seq(S), NEW t \in Seq(S), NEW W, NEW V, Leads(s, W), Leads(t, V)
    PROVE  Leads(s \o t, W \cup V)
  BY Splice DEF Leads

(* Two tables both before a third.                                         *)
LEMMA JoinBefore ==
    ASSUME NEW S, NEW s \in Seq(S), NEW t \in Seq(S), NEW u, Before(s, u), Before(t, u)
    PROVE  Before(s \o t, u)
  BY Splice DEF Before

(* Tables with no first word in common stand in any order.                 *)
LEMMA LeadsBefore ==
    ASSUME NEW s, NEW t, NEW W, NEW V, Leads(s, W), Leads(t, V), W \cap V = {}
    PROVE  Before(s, t)
  <1> SUFFICES ASSUME NEW i \in DOMAIN s, NEW j \in DOMAIN t PROVE Apart(s[i], t[j])
    BY DEF Before, Settled
  <1>1. /\ 1 \in DOMAIN s[i].words /\ s[i].words[1] \subseteq W
        /\ 1 \in DOMAIN t[j].words /\ t[j].words[1] \subseteq V
    BY DEF Leads
  <1>2. s[i].words[1] \cap t[j].words[1] = {}
    BY <1>1
  <1> QED
    BY <1>1, <1>2 DEF Apart

(* Twins of one of two tables are twins of both together.                  *)
LEMMA JoinTwins ==
    ASSUME NEW S, NEW s \in Seq(S), NEW t \in Seq(S), NEW W, NEW V, Leads(s, W), Leads(t, V),
           NEW w, NEW x, NEW y
    PROVE  /\ Twins(s, w, x, y) /\ w \notin V => Twins(s \o t, w, x, y)
           /\ Twins(t, w, x, y) /\ w \notin W => Twins(s \o t, w, x, y)
  <1> DEFINE u == s \o t
             m == Len(s)
             n == Len(t)
  <1>1. /\ m \in Nat /\ n \in Nat /\ DOMAIN s = 1..m /\ DOMAIN t = 1..n /\ DOMAIN u = 1..m + n
        /\ \A i \in 1..m : u[i] = s[i]
        /\ \A i \in m + 1..m + n : i - m \in 1..n /\ u[i] = t[i - m]
        /\ \A i \in 1..n : u[m + i] = t[i]
    BY Splice
  <1> HIDE DEF u, m, n
  <1>2. ASSUME Twins(s, w, x, y), w \notin V PROVE Twins(u, w, x, y)
    <2>1. PICK p \in DOMAIN s :
             /\ p + 1 \in DOMAIN s /\ s[p] = x /\ s[p + 1] = y
             /\ \A i \in DOMAIN s : w \in s[i].words[1] => i \in {p, p + 1}
      BY <1>2 DEF Twins
    <2>2. p \in DOMAIN u /\ p + 1 \in DOMAIN u /\ u[p] = x /\ u[p + 1] = y
      BY <1>1, <2>1
    <2>3. ASSUME NEW i \in DOMAIN u, w \in u[i].words[1] PROVE i \in {p, p + 1}
      <3>1. CASE i \in 1..m
        BY <1>1, <2>1, <2>3, <3>1
      <3>2. CASE i \in m + 1..m + n
        <4>1. w \in t[i - m].words[1] /\ i - m \in DOMAIN t
          BY <1>1, <2>3, <3>2
        <4> QED
          BY <1>2, <4>1 DEF Leads
      <3> QED
        BY <1>1, <3>1, <3>2
    <2> QED
      BY <2>2, <2>3 DEF Twins
  <1>3. ASSUME Twins(t, w, x, y), w \notin W PROVE Twins(u, w, x, y)
    <2>1. PICK p \in DOMAIN t :
             /\ p + 1 \in DOMAIN t /\ t[p] = x /\ t[p + 1] = y
             /\ \A i \in DOMAIN t : w \in t[i].words[1] => i \in {p, p + 1}
      BY <1>3 DEF Twins
    <2> DEFINE q == m + p
    <2>2. q \in DOMAIN u /\ q + 1 \in DOMAIN u /\ u[q] = x /\ u[q + 1] = y
      <3>1. p \in 1..n /\ p + 1 \in 1..n
        BY <1>1, <2>1
      <3>2. u[m + p] = t[p] /\ u[m + (p + 1)] = t[p + 1]
        BY <1>1, <3>1
      <3>3. m \in Nat /\ n \in Nat /\ p \in Int /\ 1 <= p /\ p + 1 <= n
        BY <1>1, <3>1
      <3>4. m + (p + 1) = q + 1 /\ q \in 1..m + n /\ q + 1 \in 1..m + n
        BY <3>3
      <3> QED
        BY <1>1, <2>1, <3>2, <3>4
    <2>3. ASSUME NEW i \in DOMAIN u, w \in u[i].words[1] PROVE i \in {q, q + 1}
      <3>1. CASE i \in 1..m
        <4>1. w \in s[i].words[1] /\ i \in DOMAIN s
          BY <1>1, <2>3, <3>1
        <4> QED
          BY <1>3, <4>1 DEF Leads
      <3>2. CASE i \in m + 1..m + n
        <4>1. w \in t[i - m].words[1] /\ i - m \in DOMAIN t
          BY <1>1, <2>3, <3>2
        <4>2. i - m \in {p, p + 1}
          BY <2>1, <4>1
        <4> QED
          BY <1>1, <2>1, <3>2, <4>2
      <3> QED
        BY <1>1, <3>1, <3>2
    <2> HIDE DEF q
    <2> QED
      BY <2>2, <2>3 DEF Twins
  <1> QED
    BY <1>2, <1>3 DEF u

(* The first words of the statements of one word and one flag.             *)
SimpleWords ==
    {"BINLOG", "CALL", "CLONE", "COMMENT", "FLUSH", "HELP", "KILL", "PRAGMA", "PURGE",
     "REINDEX", "RENAME", "RESTART", "SHUTDOWN", "XA"}

(* Their order is sound.                                                   *)
LEMMA SimpleInOrder == InOrder(SimpleHeads) /\ Leads(SimpleHeads, SimpleWords)
  <1>1. \A i \in DOMAIN SimpleHeads :
           1 \in DOMAIN SimpleHeads[i].words /\ SimpleHeads[i].words[1] \subseteq SimpleWords
    BY OnFields DEF SimpleHeads, SimpleWords
  <1>2. \A i, j \in DOMAIN SimpleHeads :
           i < j => SimpleHeads[i].words[1] \cap SimpleHeads[j].words[1] = {}
    BY OnFields DEF SimpleHeads
  <1>3. ASSUME NEW i \in DOMAIN SimpleHeads, NEW j \in DOMAIN SimpleHeads,
               SimpleHeads[i].words[1] \cap SimpleHeads[j].words[1] = {}
        PROVE  Settled(SimpleHeads[i], SimpleHeads[j])
    BY <1>1, <1>3 DEF Settled, Apart
  <1> QED
    BY <1>1, <1>2, <1>3 DEF InOrder, Leads

(* The first words of definitions and mutations.                           *)
DefinitionWords ==
    {"ALTER", "CREATE", "DELETE", "DROP", "INSERT", "MERGE", "REFRESH", "REPLACE", "TRUNCATE",
     "UPDATE", "WITH"}

(* Their order is sound.                                                   *)
LEMMA DefinitionInOrder == InOrder(DefinitionHeads) /\ Leads(DefinitionHeads, DefinitionWords)
  <1>1. \A i \in DOMAIN DefinitionHeads :
           /\ 1 \in DOMAIN DefinitionHeads[i].words
           /\ DefinitionHeads[i].words[1] \subseteq DefinitionWords
    BY OnFields DEF DefinitionHeads, DefinitionWords
  <1>2. \A i, j \in DOMAIN DefinitionHeads :
           i < j => \/ DefinitionHeads[i].words[1] \cap DefinitionHeads[j].words[1] = {}
                    \/ i = 7 /\ j = 8
    BY OnFields DEF DefinitionHeads
  <1>3. Settled(DefinitionHeads[7], DefinitionHeads[8])
    BY OnFields DEF DefinitionHeads, Settled, Apart, Rivalries
  <1>4. ASSUME NEW i \in DOMAIN DefinitionHeads, NEW j \in DOMAIN DefinitionHeads,
               DefinitionHeads[i].words[1] \cap DefinitionHeads[j].words[1] = {}
        PROVE  Settled(DefinitionHeads[i], DefinitionHeads[j])
    BY <1>1, <1>4 DEF Settled, Apart
  <1> QED
    BY <1>1, <1>2, <1>3, <1>4 DEF InOrder, Leads

(* The first words of replication and transaction control.                 *)
TransactionWords ==
    {"ABORT", "BEGIN", "CHANGE", "COMMIT", "END", "RELEASE", "ROLLBACK", "SAVEPOINT", "SET",
     "START", "STOP"}

(* Their order is sound.                                                   *)
LEMMA TransactionInOrder == InOrder(TransactionHeads) /\ Leads(TransactionHeads, TransactionWords)
  <1>1. \A i \in DOMAIN TransactionHeads :
           /\ 1 \in DOMAIN TransactionHeads[i].words
           /\ TransactionHeads[i].words[1] \subseteq TransactionWords
    BY OnFields DEF TransactionHeads, TransactionWords
  <1>2. \A i, j \in DOMAIN TransactionHeads :
           i < j => \/ TransactionHeads[i].words[1] \cap TransactionHeads[j].words[1] = {}
                    \/ i = 2 /\ j = 4
    BY OnFields DEF TransactionHeads
  <1>3. Settled(TransactionHeads[2], TransactionHeads[4])
    BY OnFields DEF TransactionHeads, Settled, Apart, Rivalries
  <1>4. ASSUME NEW i \in DOMAIN TransactionHeads, NEW j \in DOMAIN TransactionHeads,
               TransactionHeads[i].words[1] \cap TransactionHeads[j].words[1] = {}
        PROVE  Settled(TransactionHeads[i], TransactionHeads[j])
    BY <1>1, <1>4 DEF Settled, Apart
  <1> QED
    BY <1>1, <1>2, <1>3, <1>4 DEF InOrder, Leads

(* The first words of access control and data transfer.                    *)
AccessWords ==
    {"ATTACH", "COPY", "DETACH", "EXPORT", "GRANT", "IMPORT", "REVOKE"}

(* Their order is sound.                                                   *)
LEMMA AccessInOrder == InOrder(AccessHeads) /\ Leads(AccessHeads, AccessWords)
  <1>1. \A i \in DOMAIN AccessHeads :
           1 \in DOMAIN AccessHeads[i].words /\ AccessHeads[i].words[1] \subseteq AccessWords
    BY OnFields DEF AccessHeads, AccessWords
  <1>2. \A i, j \in DOMAIN AccessHeads :
           i < j => \/ AccessHeads[i].words[1] \cap AccessHeads[j].words[1] = {}
                    \/ i = 1 /\ j = 2
                    \/ i = 3 /\ j \in {4, 5}
                    \/ i = 4 /\ j = 5
                    \/ i = 9 /\ j = 10
    BY OnFields DEF AccessHeads
  <1>3. Settled(AccessHeads[1], AccessHeads[2])
    BY OnFields DEF AccessHeads, Settled, Apart, Rivalries
  <1>4. Settled(AccessHeads[3], AccessHeads[4])
    BY OnFields DEF AccessHeads, Settled, Apart, Rivalries
  <1>5. Settled(AccessHeads[3], AccessHeads[5])
    BY OnFields DEF AccessHeads, Settled, Apart, Rivalries
  <1>6. Settled(AccessHeads[4], AccessHeads[5])
    BY OnFields DEF AccessHeads, Settled, Apart, Rivalries
  <1>7. Settled(AccessHeads[9], AccessHeads[10])
    BY OnFields DEF AccessHeads, Settled, Apart, Rivalries
  <1>8. ASSUME NEW i \in DOMAIN AccessHeads, NEW j \in DOMAIN AccessHeads,
               AccessHeads[i].words[1] \cap AccessHeads[j].words[1] = {}
        PROVE  Settled(AccessHeads[i], AccessHeads[j])
    BY <1>1, <1>8 DEF Settled, Apart
  <1> QED
    BY <1>1, <1>2, <1>3, <1>4, <1>5, <1>6, <1>7, <1>8 DEF InOrder, Leads

(* The first words of maintenance.                                         *)
MaintenanceWords ==
    {"ANALYZE", "CACHE", "CHECK", "CHECKPOINT", "CHECKSUM", "FORCE", "HANDLER", "INSTALL",
     "LOAD", "OPTIMIZE", "REPAIR", "UNINSTALL", "USE", "VACUUM"}

(* Their order is sound.                                                   *)
LEMMA MaintenanceInOrder == InOrder(MaintenanceHeads) /\ Leads(MaintenanceHeads, MaintenanceWords)
  <1>1. \A i \in DOMAIN MaintenanceHeads :
           /\ 1 \in DOMAIN MaintenanceHeads[i].words
           /\ MaintenanceHeads[i].words[1] \subseteq MaintenanceWords
    BY OnFields DEF MaintenanceHeads, MaintenanceWords
  <1>2. \A i, j \in DOMAIN MaintenanceHeads :
           i < j => \/ MaintenanceHeads[i].words[1] \cap MaintenanceHeads[j].words[1] = {}
                    \/ i = 3 /\ j \in {5, 6}
                    \/ i = 5 /\ j = 6
                    \/ i = 7 /\ j = 8
                    \/ i = 9 /\ j = 11
    BY OnFields DEF MaintenanceHeads
  <1>3. Settled(MaintenanceHeads[3], MaintenanceHeads[5])
    BY OnFields DEF MaintenanceHeads, Settled, Apart, Rivalries
  <1>4. Settled(MaintenanceHeads[3], MaintenanceHeads[6])
    BY OnFields DEF MaintenanceHeads, Settled, Apart, Rivalries
  <1>5. Settled(MaintenanceHeads[5], MaintenanceHeads[6])
    BY OnFields DEF MaintenanceHeads, Settled, Apart, Rivalries
  <1>6. Settled(MaintenanceHeads[7], MaintenanceHeads[8])
    BY OnFields DEF MaintenanceHeads, Settled, Apart, Rivalries
  <1>7. Settled(MaintenanceHeads[9], MaintenanceHeads[11])
    BY OnFields DEF MaintenanceHeads, Settled, Apart, Rivalries
  <1>8. ASSUME NEW i \in DOMAIN MaintenanceHeads, NEW j \in DOMAIN MaintenanceHeads,
               MaintenanceHeads[i].words[1] \cap MaintenanceHeads[j].words[1] = {}
        PROVE  Settled(MaintenanceHeads[i], MaintenanceHeads[j])
    BY <1>1, <1>8 DEF Settled, Apart
  <1> QED
    BY <1>1, <1>2, <1>3, <1>4, <1>5, <1>6, <1>7, <1>8 DEF InOrder, Leads

(* The first words of prepared statements, locks and diagnostics.          *)
ProgramWords ==
    {"DEALLOCATE", "DO", "EXECUTE", "GET", "LOCK", "PREPARE", "RESIGNAL", "SIGNAL", "UNLOCK"}

(* Their order is sound.                                                   *)
LEMMA ProgramInOrder == InOrder(ProgramHeads) /\ Leads(ProgramHeads, ProgramWords)
  <1>1. \A i \in DOMAIN ProgramHeads :
           1 \in DOMAIN ProgramHeads[i].words /\ ProgramHeads[i].words[1] \subseteq ProgramWords
    BY OnFields DEF ProgramHeads, ProgramWords
  <1>2. \A i, j \in DOMAIN ProgramHeads :
           i < j => \/ ProgramHeads[i].words[1] \cap ProgramHeads[j].words[1] = {}
                    \/ i = 1 /\ j = 2
                    \/ i = 3 /\ j = 4
                    \/ i = 5 /\ j = 6
                    \/ i = 7 /\ j = 8
                    \/ i = 9 /\ j = 10
                    \/ i = 11 /\ j = 12
    BY OnFields DEF ProgramHeads
  <1>3. Settled(ProgramHeads[1], ProgramHeads[2])
    BY OnFields DEF ProgramHeads, Settled, Apart, Rivalries
  <1>4. Settled(ProgramHeads[3], ProgramHeads[4])
    BY OnFields DEF ProgramHeads, Settled, Apart, Rivalries
  <1>5. Settled(ProgramHeads[5], ProgramHeads[6])
    BY OnFields DEF ProgramHeads, Settled, Apart, Rivalries
  <1>6. Settled(ProgramHeads[7], ProgramHeads[8])
    BY OnFields DEF ProgramHeads, Settled, Apart, Rivalries
  <1>7. Settled(ProgramHeads[9], ProgramHeads[10])
    BY OnFields DEF ProgramHeads, Settled, Apart, Rivalries
  <1>8. Settled(ProgramHeads[11], ProgramHeads[12])
    BY OnFields DEF ProgramHeads, Settled, Apart, Rivalries
  <1>9. ASSUME NEW i \in DOMAIN ProgramHeads, NEW j \in DOMAIN ProgramHeads,
               ProgramHeads[i].words[1] \cap ProgramHeads[j].words[1] = {}
        PROVE  Settled(ProgramHeads[i], ProgramHeads[j])
    BY <1>1, <1>9 DEF Settled, Apart
  <1> QED
    BY <1>1, <1>2, <1>3, <1>4, <1>5, <1>6, <1>7, <1>8, <1>9 DEF InOrder, Leads

(* The first words of the queries.                                         *)
QueryWords ==
    {"DESC", "DESCRIBE", "EXPLAIN", "FROM", "PIVOT", "SELECT", "SUMMARIZE", "TABLE", "UNPIVOT",
     "VALUES", "paren"}

(* Their order is sound.                                                   *)
LEMMA QueryInOrder == InOrder(QueryHeads) /\ Leads(QueryHeads, QueryWords)
  <1>1. \A i \in DOMAIN QueryHeads :
           1 \in DOMAIN QueryHeads[i].words /\ QueryHeads[i].words[1] \subseteq QueryWords
    BY OnFields DEF QueryHeads, QueryWords
  <1>2. \A i, j \in DOMAIN QueryHeads :
           i < j => \/ QueryHeads[i].words[1] \cap QueryHeads[j].words[1] = {}
                    \/ i = 4 /\ j = 5
    BY OnFields DEF QueryHeads
  <1>3. Settled(QueryHeads[4], QueryHeads[5])
    BY OnFields DEF QueryHeads, Settled, Apart, Rivalries
  <1>4. ASSUME NEW i \in DOMAIN QueryHeads, NEW j \in DOMAIN QueryHeads,
               QueryHeads[i].words[1] \cap QueryHeads[j].words[1] = {}
        PROVE  Settled(QueryHeads[i], QueryHeads[j])
    BY <1>1, <1>4 DEF Settled, Apart
  <1> QED
    BY <1>1, <1>2, <1>3, <1>4 DEF InOrder, Leads

(* The first words of SHOW and the session statements.                     *)
ShowWords == {"RESET", "SET", "SHOW"}

(* Their order is sound: two forms of SHOW are told apart by the second    *)
(* word or, behind a modifier, by the third or the fourth.                 *)
LEMMA ShowInOrder == InOrder(ShowHeads) /\ Leads(ShowHeads, ShowWords)
  <1> DEFINE H == ShowHeads
  <1>1. \A i \in DOMAIN H :
           1 \in DOMAIN H[i].words /\ H[i].words[1] \subseteq ShowWords
    BY OnFields DEF ShowHeads, ShowWords
  <1>2. DOMAIN H = 1..18 /\ \A i \in 1..17 : Len(H[i].words) > Len(H[18].words)
    <2>1. DOMAIN H = 1..18
      BY DEF ShowHeads
    <2>2. Len(H[18].words) = 1
      BY OnFields DEF ShowHeads
    <2>3. \A i \in 1..17 : Len(H[i].words) \in {2, 3, 4}
      BY OnFields DEF ShowHeads
    <2>4. ASSUME NEW i \in 1..17 PROVE Len(H[i].words) > Len(H[18].words)
      <3>1. Len(H[i].words) \in {2, 3, 4}
        BY <2>3
      <3>2. \A a, b : a \in {2, 3, 4} /\ b = 1 => a > b
        OBVIOUS
      <3> QED
        BY <2>2, <3>1, <3>2, Zenon
    <2> QED
      BY <2>1, <2>4
  <1>3. \A i \in 1..17 : 2 \in DOMAIN H[i].words
    BY OnFields DEF ShowHeads
  <1>4. \A i \in {2, 3, 5, 6, 9, 10, 14, 16, 17} : 3 \in DOMAIN H[i].words
    BY OnFields DEF ShowHeads
  <1>5. /\ \A i \in 1..3 : H[i].parse = "show_tables"
        /\ \A i \in 4..6 : H[i].parse = "show_columns"
        /\ \A i \in 8..9 : H[i].parse = "show_functions"
        /\ \A i \in 11..17 : H[i].parse = "show_admin"
    BY OnFields DEF ShowHeads
  <1>6. /\ H[1].words[2] = {"TABLES"}
        /\ H[2].words[2] = {"EXTENDED", "FULL", "ALL"}
        /\ H[3].words[2] = {"EXTENDED", "FULL", "ALL"}
        /\ H[4].words[2] = {"COLUMNS", "FIELDS"}
        /\ H[5].words[2] = {"EXTENDED", "FULL"}
        /\ H[6].words[2] = {"EXTENDED", "FULL"}
        /\ H[7].words[2] = {"CREATE"}
        /\ H[8].words[2] = {"FUNCTIONS"}
        /\ H[9].words[2] = {"USER", "SYSTEM", "ALL"}
        /\ H[10].words[2] = {"FUNCTION", "PROCEDURE"}
        /\ H[11].words[2] = {"DATABASES", "CREATE", "INDEX"}
        /\ H[12].words[2] = {"TABLE"}
        /\ H[13].words[2] = {"GLOBAL", "SESSION", "LOCAL"}
        /\ H[14].words[2] = {"FULL"}
        /\ H[15].words[2] = {"STORAGE"}
        /\ H[16].words[2] = {"EXTENDED"}
        /\ H[17].words[2] = {"PROCEDURE", "FUNCTION"}
    BY OnFields DEF ShowHeads, TableModifier, ColumnModifier
  <1> HIDE DEF H
  <1>7. ASSUME NEW i \in 1..17, NEW j \in 1..17, i < j, H[i].parse # H[j].parse
        PROVE  \/ H[i].words[2] \cap H[j].words[2] = {}
               \/ i = 2 /\ j \in {5, 6, 9, 14, 16}
               \/ i = 3 /\ j \in {5, 6, 9, 14, 16}
               \/ i \in {5, 6} /\ j \in {14, 16}
               \/ i = 7 /\ j = 11
               \/ i = 10 /\ j = 17
    BY <1>5, <1>6, <1>7
  <1> USE DEF H
  <1>8. \A i \in {2, 5, 10}, j \in {5, 6, 9, 14, 16, 17} :
           i < j => H[i].words[3] \cap H[j].words[3] = {}
    BY OnFields DEF ShowHeads, TableModifier, ColumnModifier
  <1>9. /\ \A i \in {3, 6} : Len(H[i].words) = 4
        /\ \A j \in {5, 7, 9, 14, 16} : Len(H[j].words) = 3
        /\ Len(H[11].words) = 2
    BY OnFields DEF ShowHeads
  <1>10. /\ 4 \in DOMAIN H[3].words /\ 4 \in DOMAIN H[6].words
         /\ H[3].words[4] \cap H[6].words[4] = {}
    BY OnFields DEF ShowHeads
  <1>11. \A i, j \in DOMAIN H :
            (\E k \in DOMAIN H[i].words :
               k \in DOMAIN H[j].words /\ H[i].words[k] \cap H[j].words[k] = {})
            => Settled(H[i], H[j])
    BY DEF Settled, Apart
  <1>12. \A i, j \in DOMAIN H :
            \/ H[i].parse = H[j].parse
            \/ Len(H[i].words) > Len(H[j].words)
            => Settled(H[i], H[j])
    BY DEF Settled
  <1> HIDE DEF H
  <1>13. ASSUME NEW i \in DOMAIN H, NEW j \in DOMAIN H, i < j
         PROVE  Settled(H[i], H[j])
    <2>1. CASE j = 18
      <3>1. i \in 1..17
        BY <1>2, <1>13, <2>1
      <3> QED
        BY <1>2, <1>12, <2>1, <3>1
    <2>2. CASE H[i].parse = H[j].parse
      BY <1>12, <2>2
    <2>3. CASE j # 18 /\ H[i].parse # H[j].parse
      <3>0. i \in 1..17 /\ j \in 1..17
        <4>1. i \in 1..18 /\ j \in 1..18
          BY <1>2
        <4> QED
          BY <1>13, <2>3, <4>1
      <3>1. CASE H[i].words[2] \cap H[j].words[2] = {}
        BY <1>3, <1>11, <3>0, <3>1
      <3>2. CASE (i = 2 /\ j \in {5, 6, 9, 14, 16}) \/ (i = 5 /\ j \in {14, 16})
                 \/ (i = 10 /\ j = 17)
        BY <1>2, <1>4, <1>8, <1>11, <1>13, <3>2
      <3>3. CASE (i = 3 /\ j \in {5, 9, 14, 16}) \/ (i = 6 /\ j \in {14, 16})
                 \/ (i = 7 /\ j = 11)
        <4>1. \/ Len(H[i].words) = 4 /\ Len(H[j].words) = 3
              \/ Len(H[i].words) = 3 /\ Len(H[j].words) = 2
          BY <1>9, <3>3
        <4>2. \A a, b : (a = 4 /\ b = 3) \/ (a = 3 /\ b = 2) => a > b
          OBVIOUS
        <4>3. Len(H[i].words) > Len(H[j].words)
          BY <4>1, <4>2, Zenon
        <4> QED
          BY <1>12, <4>3
      <3>4. CASE i = 3 /\ j = 6
        BY <1>10, <1>11, <3>4
      <3> QED
        BY <1>7, <1>13, <2>3, <3>0, <3>1, <3>2, <3>3, <3>4
    <2> QED
      BY <2>1, <2>2, <2>3
  <1> QED
    BY <1>1, <1>13 DEF InOrder, Leads, H

(* SET TRANSACTION asks for more words than the session statements.        *)
LEMMA TransactionBeforeShow == Before(TransactionHeads, ShowHeads)
  <1> DEFINE T == TransactionHeads
             H == ShowHeads
  <1>1. DOMAIN T = 1..8 /\ \A i \in 1..7 : T[i].words[1] \cap ShowWords = {}
    BY OnFields DEF TransactionHeads, ShowWords
  <1>2. T[8].words[1] = {"SET"} /\ Len(T[8].words) = 2
    BY OnFields DEF TransactionHeads
  <1>3. DOMAIN H = 1..18 /\ \A j \in 1..17 : H[j].words[1] = {"SHOW"}
    BY OnFields DEF ShowHeads
  <1>4. Len(H[18].words) = 1
    BY OnFields DEF ShowHeads
  <1>5. \A i \in DOMAIN T, j \in DOMAIN H :
           T[i].words[1] \cap H[j].words[1] = {} => Settled(T[i], H[j])
    BY TransactionInOrder, ShowInOrder DEF Leads, Settled, Apart
  <1>6. Settled(T[8], H[18])
    <2>1. \A a, b : a = 2 /\ b = 1 => a > b
      OBVIOUS
    <2>2. Len(T[8].words) > Len(H[18].words)
      BY <1>2, <1>4, <2>1, Zenon
    <2> QED
      BY <2>2, Zenon DEF Settled
  <1>7. \A j \in DOMAIN H : H[j].words[1] \subseteq ShowWords
    BY ShowInOrder DEF Leads
  <1> HIDE DEF T, H
  <1>8. ASSUME NEW i \in DOMAIN T, NEW j \in DOMAIN H PROVE Settled(T[i], H[j])
    <2>1. CASE i \in 1..7
      <3>1. T[i].words[1] \cap H[j].words[1] = {}
        BY <1>1, <1>7, <2>1
      <3> QED
        BY <1>5, <3>1
    <2>2. CASE i = 8 /\ j \in 1..17
      <3>1. T[i].words[1] \cap H[j].words[1] = {}
        BY <1>2, <1>3, <2>2
      <3> QED
        BY <1>5, <3>1
    <2>3. CASE i = 8 /\ j = 18
      BY <1>6, <2>3
    <2> QED
      BY <1>1, <1>3, <2>1, <2>2, <2>3
  <1> QED
    BY <1>8 DEF Before, T, H

(* The parts of the dispatcher are sequences of arms.                      *)
LEMMA HeadSeqs ==
    \E S : /\ SimpleHeads \in Seq(S) /\ DefinitionHeads \in Seq(S)
           /\ TransactionHeads \in Seq(S) /\ ShowHeads \in Seq(S)
           /\ AccessHeads \in Seq(S) /\ MaintenanceHeads \in Seq(S)
           /\ ProgramHeads \in Seq(S) /\ QueryHeads \in Seq(S)
  <1> DEFINE Of(part) == {part[i] : i \in DOMAIN part}
             S == Of(SimpleHeads) \cup Of(DefinitionHeads) \cup Of(TransactionHeads)
                    \cup Of(ShowHeads) \cup Of(AccessHeads) \cup Of(MaintenanceHeads)
                    \cup Of(ProgramHeads) \cup Of(QueryHeads)
  <1>1. /\ \A i \in DOMAIN SimpleHeads : SimpleHeads[i] \in S
        /\ \A i \in DOMAIN DefinitionHeads : DefinitionHeads[i] \in S
        /\ \A i \in DOMAIN TransactionHeads : TransactionHeads[i] \in S
        /\ \A i \in DOMAIN ShowHeads : ShowHeads[i] \in S
        /\ \A i \in DOMAIN AccessHeads : AccessHeads[i] \in S
        /\ \A i \in DOMAIN MaintenanceHeads : MaintenanceHeads[i] \in S
        /\ \A i \in DOMAIN ProgramHeads : ProgramHeads[i] \in S
        /\ \A i \in DOMAIN QueryHeads : QueryHeads[i] \in S
    OBVIOUS
  <1> HIDE DEF S
  <1>2. SimpleHeads \in Seq(S) /\ DefinitionHeads \in Seq(S)
    BY <1>1 DEF SimpleHeads, DefinitionHeads
  <1>3. TransactionHeads \in Seq(S) /\ ShowHeads \in Seq(S)
    <2>1. TransactionHeads \in Seq(S)
      BY <1>1 DEF TransactionHeads
    <2>2. ShowHeads \in Seq(S)
      BY <1>1 DEF ShowHeads
    <2> QED
      BY <2>1, <2>2
  <1>4. AccessHeads \in Seq(S) /\ MaintenanceHeads \in Seq(S)
    BY <1>1 DEF AccessHeads, MaintenanceHeads
  <1>5. ProgramHeads \in Seq(S) /\ QueryHeads \in Seq(S)
    BY <1>1 DEF ProgramHeads, QueryHeads
  <1> QED
    BY <1>2, <1>3, <1>4, <1>5

(* Each rivalry is one of two arms for a word, one behind the other.       *)
LEMMA PartTwins ==
    /\ Twins(ProgramHeads, "PREPARE", ProgramHeads[1], ProgramHeads[2])
    /\ Twins(ProgramHeads, "DO", ProgramHeads[7], ProgramHeads[8])
    /\ Twins(QueryHeads, "DESCRIBE", QueryHeads[4], QueryHeads[5])
  <1>1. DOMAIN ProgramHeads = 1..15 /\ DOMAIN QueryHeads = 1..8
    BY DEF ProgramHeads, QueryHeads
  <1>2. \A i \in 1..15 : "PREPARE" \in ProgramHeads[i].words[1] => i \in {1, 2}
    BY OnFields DEF ProgramHeads
  <1>3. \A i \in 1..15 : "DO" \in ProgramHeads[i].words[1] => i \in {7, 8}
    BY OnFields DEF ProgramHeads
  <1>4. \A i \in 1..8 : "DESCRIBE" \in QueryHeads[i].words[1] => i \in {4, 5}
    BY OnFields DEF QueryHeads
  <1>5. Twins(ProgramHeads, "PREPARE", ProgramHeads[1], ProgramHeads[2])
    <2>1. /\ 1 \in DOMAIN ProgramHeads /\ 1 + 1 \in DOMAIN ProgramHeads
          /\ ProgramHeads[1 + 1] = ProgramHeads[2]
          /\ \A i \in DOMAIN ProgramHeads :
                "PREPARE" \in ProgramHeads[i].words[1] => i \in {1, 1 + 1}
      BY <1>1, <1>2
    <2> QED
      BY <2>1, Zenon DEF Twins
  <1>6. Twins(ProgramHeads, "DO", ProgramHeads[7], ProgramHeads[8])
    <2>1. /\ 7 \in DOMAIN ProgramHeads /\ 7 + 1 \in DOMAIN ProgramHeads
          /\ ProgramHeads[7 + 1] = ProgramHeads[8]
          /\ \A i \in DOMAIN ProgramHeads :
                "DO" \in ProgramHeads[i].words[1] => i \in {7, 7 + 1}
      BY <1>1, <1>3
    <2> QED
      BY <2>1, Zenon DEF Twins
  <1>7. Twins(QueryHeads, "DESCRIBE", QueryHeads[4], QueryHeads[5])
    <2>1. /\ 4 \in DOMAIN QueryHeads /\ 4 + 1 \in DOMAIN QueryHeads
          /\ QueryHeads[4 + 1] = QueryHeads[5]
          /\ \A i \in DOMAIN QueryHeads :
                "DESCRIBE" \in QueryHeads[i].words[1] => i \in {4, 4 + 1}
      BY <1>1, <1>4
    <2> QED
      BY <2>1, Zenon DEF Twins
  <1> QED
    BY <1>5, <1>6, <1>7

(* The dispatcher's arms as a whole.                                       *)
LEMMA HeadsInOrder ==
    /\ InOrder(HeadArms)
    /\ Twins(HeadArms, "PREPARE", ProgramHeads[1], ProgramHeads[2])
    /\ Twins(HeadArms, "DO", ProgramHeads[7], ProgramHeads[8])
    /\ Twins(HeadArms, "DESCRIBE", QueryHeads[4], QueryHeads[5])
    /\ \E S : HeadArms \in Seq(S)
  <1>1. PICK S : /\ SimpleHeads \in Seq(S) /\ DefinitionHeads \in Seq(S)
                 /\ TransactionHeads \in Seq(S) /\ ShowHeads \in Seq(S)
                 /\ AccessHeads \in Seq(S) /\ MaintenanceHeads \in Seq(S)
                 /\ ProgramHeads \in Seq(S) /\ QueryHeads \in Seq(S)
    BY HeadSeqs
  <1> DEFINE A == SimpleHeads \o DefinitionHeads
             B == A \o TransactionHeads
             C == B \o ShowHeads
             D == C \o AccessHeads
             E == D \o MaintenanceHeads
             G == E \o ProgramHeads
             WA == SimpleWords \cup DefinitionWords
             WB == WA \cup TransactionWords
             WC == WB \cup ShowWords
             WD == WC \cup AccessWords
             WE == WD \cup MaintenanceWords
             WG == WE \cup ProgramWords
  <1>2. A \in Seq(S) /\ InOrder(A) /\ Leads(A, WA)
    <2>1. SimpleWords \cap DefinitionWords = {}
      BY DEF SimpleWords, DefinitionWords
    <2>2. Before(SimpleHeads, DefinitionHeads)
      BY <2>1, LeadsBefore, SimpleInOrder, DefinitionInOrder
    <2> QED
      BY <1>1, <2>2, Splice, JoinOrder, JoinLeads, SimpleInOrder, DefinitionInOrder
  <1>3. WA \cap TransactionWords = {} /\ WA \cap ShowWords = {}
    BY DEF SimpleWords, DefinitionWords, TransactionWords, ShowWords
  <1>4. WB \cap AccessWords = {}
    BY DEF SimpleWords, DefinitionWords, TransactionWords, AccessWords
  <1>5. WC \cap AccessWords = {}
    BY <1>4 DEF ShowWords, AccessWords
  <1>6. WD \cap MaintenanceWords = {}
    BY DEF SimpleWords, DefinitionWords, TransactionWords, ShowWords, AccessWords,
           MaintenanceWords
  <1>7. WE \cap ProgramWords = {} /\ "DO" \notin WE /\ "PREPARE" \notin WE
    BY DEF SimpleWords, DefinitionWords, TransactionWords, ShowWords, AccessWords,
           MaintenanceWords, ProgramWords
  <1>8. WG \cap QueryWords = {} /\ "DESCRIBE" \notin WG /\ "DO" \notin QueryWords
          /\ "PREPARE" \notin QueryWords
    BY DEF SimpleWords, DefinitionWords, TransactionWords, ShowWords, AccessWords,
           MaintenanceWords, ProgramWords, QueryWords
  <1> HIDE DEF A, WA
  <1>9. B \in Seq(S) /\ InOrder(B) /\ Leads(B, WB)
    <2>1. Before(A, TransactionHeads)
      BY <1>2, <1>3, LeadsBefore, TransactionInOrder
    <2> QED
      BY <1>1, <1>2, <2>1, Splice, JoinOrder, JoinLeads, TransactionInOrder
  <1>10. C \in Seq(S) /\ InOrder(C) /\ Leads(C, WC)
    <2>1. Before(A, ShowHeads)
      BY <1>2, <1>3, LeadsBefore, ShowInOrder
    <2>2. Before(B, ShowHeads)
      BY <1>1, <1>2, <2>1, JoinBefore, TransactionBeforeShow
    <2> HIDE DEF B, WB
    <2> QED
      BY <1>1, <1>9, <2>2, Splice, JoinOrder, JoinLeads, ShowInOrder
  <1> HIDE DEF B, WB, C, WC
  <1>11. D \in Seq(S) /\ InOrder(D) /\ Leads(D, WD)
    <2>1. Before(C, AccessHeads)
      BY <1>5, <1>10, LeadsBefore, AccessInOrder
    <2> QED
      BY <1>1, <1>10, <2>1, Splice, JoinOrder, JoinLeads, AccessInOrder
  <1> HIDE DEF D, WD
  <1>12. E \in Seq(S) /\ InOrder(E) /\ Leads(E, WE)
    <2>1. Before(D, MaintenanceHeads)
      BY <1>6, <1>11, LeadsBefore, MaintenanceInOrder
    <2> QED
      BY <1>1, <1>11, <2>1, Splice, JoinOrder, JoinLeads, MaintenanceInOrder
  <1> HIDE DEF E, WE
  <1>13. /\ G \in Seq(S) /\ InOrder(G) /\ Leads(G, WG)
         /\ Twins(G, "PREPARE", ProgramHeads[1], ProgramHeads[2])
         /\ Twins(G, "DO", ProgramHeads[7], ProgramHeads[8])
    <2>1. Before(E, ProgramHeads)
      BY <1>7, <1>12, LeadsBefore, ProgramInOrder
    <2>2. G \in Seq(S) /\ InOrder(G) /\ Leads(G, WG)
      BY <1>1, <1>12, <2>1, Splice, JoinOrder, JoinLeads, ProgramInOrder
    <2>3. /\ Twins(G, "PREPARE", ProgramHeads[1], ProgramHeads[2])
          /\ Twins(G, "DO", ProgramHeads[7], ProgramHeads[8])
      BY <1>1, <1>7, <1>12, JoinTwins, PartTwins, ProgramInOrder
    <2> QED
      BY <2>2, <2>3
  <1> HIDE DEF G, WG
  <1>14. HeadArms = G \o QueryHeads
    BY DEF HeadArms, G, E, D, C, B, A
  <1>15. InOrder(HeadArms) /\ HeadArms \in Seq(S)
    <2>1. Before(G, QueryHeads)
      BY <1>8, <1>13, LeadsBefore, QueryInOrder
    <2> QED
      BY <1>1, <1>13, <1>14, <2>1, Splice, JoinOrder, QueryInOrder
  <1>16. /\ Twins(HeadArms, "PREPARE", ProgramHeads[1], ProgramHeads[2])
         /\ Twins(HeadArms, "DO", ProgramHeads[7], ProgramHeads[8])
         /\ Twins(HeadArms, "DESCRIBE", QueryHeads[4], QueryHeads[5])
    BY <1>1, <1>8, <1>13, <1>14, JoinTwins, PartTwins, QueryInOrder
  <1> QED
    BY <1>15, <1>16

(* The arms that take an opening fit it.                                   *)
LEMMA TakersFit ==
    ASSUME NEW F, NEW o
    PROVE  /\ Takers(F, o) \subseteq DOMAIN HeadArms
           /\ \A i \in Takers(F, o) : Matches(F, HeadArms[i], o)
  BY DEF Takers, HeadsOf

(* Arms that some word tells apart take no opening in common.              *)
LEMMA ApartNeverMeet ==
    ASSUME NEW F, NEW o, NEW x, NEW y, Matches(F, x, o), Matches(F, y, o)
    PROVE  ~Apart(x, y)
  BY DEF Matches, Apart

(* An opening is passed over only in the three rivalries.                  *)
LEMMA PassedOverOnly ==
    ASSUME NEW F, NEW o, PassedOver(F, o)
    PROVE  \E R \in Rivalries : R \subseteq F
  <1> DEFINE T == Takers(F, o)
             first == CHOOSE i \in T : \A j \in T : i <= j
  <1>1. PICK i \in T : /\ HeadArms[i].parse \notin {HeadArms[first].parse, "error"}
                       /\ ~MoreSpecific(first, i)
    BY DEF PassedOver
  <1>2. DOMAIN HeadArms \subseteq Nat
    BY HeadsInOrder
  <1>3. T \subseteq DOMAIN HeadArms /\ \A j \in T : Matches(F, HeadArms[j], o)
    BY TakersFit
  <1> HIDE DEF T
  <1>4. \E j \in T : \A k \in T : j <= k
    BY <1>1, <1>2, <1>3, LeastOf
  <1>5. first \in T /\ first <= i
    BY <1>1, <1>4
  <1> HIDE DEF first
  <1>6. first < i /\ first \in DOMAIN HeadArms /\ i \in DOMAIN HeadArms
    BY <1>1, <1>2, <1>3, <1>5
  <1> DEFINE x == HeadArms[first]
             y == HeadArms[i]
  <1>7. Settled(x, y)
    BY <1>6, HeadsInOrder DEF InOrder
  <1>8. ~Apart(x, y)
    BY <1>1, <1>3, <1>5, ApartNeverMeet
  <1>9. x.needs \subseteq F /\ y.needs \subseteq F
    BY <1>1, <1>3, <1>5 DEF Matches
  <1>10. ~(Len(x.words) > Len(y.words)) /\
         ~(Len(x.words) = Len(y.words) /\ y.needs \subseteq x.needs /\ x.needs # y.needs)
    BY <1>1, Zenon DEF MoreSpecific
  <1>11. x.parse # y.parse /\ y.parse # "error"
    BY <1>1
  <1> HIDE DEF x, y
  <1>12. \E R \in Rivalries : R \subseteq x.needs \cup y.needs
    BY <1>7, <1>8, <1>10, <1>11, Zenon DEF Settled
  <1> QED
    BY <1>9, <1>12

(* Two enabled arms of one word, neither more specific than the other:     *)
(* the first takes the opening and the second is passed over.              *)
LEMMA TwinsPassOver ==
    ASSUME NEW F, NEW w, NEW x, NEW y, NEW W, NEW V, Twins(HeadArms, w, x, y),
           x.words = <<W>>, y.words = <<V>>, w \in W, w \in V,
           x.needs \subseteq F, y.needs \subseteq F, ~(y.needs \subseteq x.needs),
           y.parse # x.parse, y.parse # "error"
    PROVE  PassedOver(F, <<w>>)
  <1> DEFINE o == <<w>>
             T == Takers(F, o)
             first == CHOOSE i \in T : \A j \in T : i <= j
  <1>1. PICK p \in DOMAIN HeadArms :
           /\ p + 1 \in DOMAIN HeadArms /\ HeadArms[p] = x /\ HeadArms[p + 1] = y
           /\ \A i \in DOMAIN HeadArms : w \in HeadArms[i].words[1] => i \in {p, p + 1}
    BY DEF Twins
  <1>2. p \in Nat
    BY HeadsInOrder
  <1>3. Matches(F, x, o) /\ Matches(F, y, o)
    BY DEF Matches
  <1>4. o[1] = w
    OBVIOUS
  <1>5. w \in FirstWords /\ p \in HeadsOf[w] /\ p + 1 \in HeadsOf[w]
    <2>1. x.words[1] = W /\ y.words[1] = V
      OBVIOUS
    <2>2. w \in FirstWords
      BY <1>1, <2>1, Zenon DEF FirstWords
    <2> QED
      BY <1>1, <2>1, <2>2, Zenon DEF HeadsOf
  <1>6. p \in T /\ p + 1 \in T
    BY <1>1, <1>3, <1>4, <1>5, Zenon DEF Takers
  <1>7. T \subseteq {p, p + 1}
    <2>1. \A i \in HeadsOf[w] : i \in DOMAIN HeadArms /\ w \in HeadArms[i].words[1]
      BY <1>5, Zenon DEF HeadsOf
    <2> QED
      BY <1>1, <1>4, <1>5, <2>1, Zenon DEF Takers
  <1>8. PassedOver(F, o) <=>
          \E i \in T : /\ HeadArms[i].parse \notin {HeadArms[first].parse, "error"}
                       /\ ~MoreSpecific(first, i)
    BY DEF PassedOver
  <1> HIDE DEF T, o
  <1>9. first = p
    <2>1. \A j \in T : p <= j
      BY <1>2, <1>7
    <2>2. first \in T /\ \A j \in T : first <= j
      BY <1>6, <2>1
    <2> HIDE DEF first
    <2>3. first \in {p, p + 1} /\ first <= p
      BY <1>6, <1>7, <2>2
    <2> QED
      BY <1>2, <2>3
  <1> HIDE DEF first
  <1>10. ~MoreSpecific(p, p + 1)
    <2>1. Len(x.words) = 1 /\ Len(y.words) = 1
      OBVIOUS
    <2>2. \A a, b : a = 1 /\ b = 1 => ~(a > b)
      OBVIOUS
    <2>3. ~(Len(x.words) > Len(y.words))
      BY <2>1, <2>2, Zenon
    <2> QED
      BY <1>1, <2>3, Zenon DEF MoreSpecific
  <1> QED
    BY <1>1, <1>6, <1>8, <1>9, <1>10, Zenon DEF o

(* The word of an arm of one word is an opening.                           *)
LEMMA OneWordOpening ==
    ASSUME NEW i \in DOMAIN HeadArms, NEW W, NEW w \in W, HeadArms[i].words = <<W>>
    PROVE  <<w>> \in Openings
  <1> DEFINE words == HeadArms[i].words
             U == UNION {words[k] : k \in DOMAIN words}
             spelled == UNION {Written(HeadArms[k].words) : k \in DOMAIN HeadArms}
  <1>1. DOMAIN words = {1} /\ words[1] = W
    OBVIOUS
  <1>2. w \in U
    BY <1>1
  <1>3. DOMAIN <<w>> = {1} /\ <<w>>[1] = w
    OBVIOUS
  <1>4. <<w>> \in [DOMAIN words -> U]
    <2> HIDE DEF U, words
    <2>1. <<w>> = [k \in {1} |-> w]
      OBVIOUS
    <2> QED
      BY <1>1, <1>2, <2>1
  <1>5. \A k \in DOMAIN words : <<w>>[k] \in words[k]
    BY <1>1, <1>3
  <1>6. <<w>> \in Written(words)
    BY <1>4, <1>5, Zenon DEF Written
  <1>7. <<w>> \in spelled
    BY <1>6, Zenon
  <1> HIDE DEF spelled
  <1> QED
    BY <1>7 DEF Openings, spelled

(* Each of the three rivalries passes an opening over.                     *)
LEMMA RivalriesPassOver ==
    ASSUME NEW F, NEW R \in Rivalries, R \subseteq F
    PROVE  \E o \in Openings : PassedOver(F, o)
  <1>1. ASSUME NEW w, NEW x, NEW y, NEW W, NEW V, Twins(HeadArms, w, x, y),
               x.words = <<W>>, y.words = <<V>>, w \in W, w \in V,
               x.needs \subseteq F, y.needs \subseteq F, ~(y.needs \subseteq x.needs),
               y.parse # x.parse, y.parse # "error"
        PROVE  \E o \in Openings : PassedOver(F, o)
    <2>1. PassedOver(F, <<w>>)
      BY <1>1, TwinsPassOver
    <2>2. PICK p \in DOMAIN HeadArms : HeadArms[p] = x
      BY <1>1 DEF Twins
    <2>3. <<w>> \in Openings
      BY <1>1, <2>2, OneWordOpening
    <2> QED
      BY <2>1, <2>3
  <1>2. CASE R = {"do_statement", "do_expression_list"}
    <2> DEFINE x == ProgramHeads[7]
               y == ProgramHeads[8]
    <2>1. /\ x.words = <<{"DO"}>> /\ y.words = <<{"DO"}>>
          /\ x.needs = {"do_statement"} /\ y.needs = {"do_expression_list"}
          /\ x.parse = "do_block" /\ y.parse = "do_expressions"
      BY OnFields DEF ProgramHeads
    <2>2. Twins(HeadArms, "DO", x, y)
      BY HeadsInOrder
    <2> HIDE DEF x, y
    <2>3. /\ x.needs \subseteq F /\ y.needs \subseteq F /\ ~(y.needs \subseteq x.needs)
          /\ y.parse # x.parse /\ y.parse # "error" /\ "DO" \in {"DO"}
      BY <1>2, <2>1
    <2> QED
      BY <1>1, <2>1, <2>2, <2>3
  <1>3. CASE R = {"prepared_statements", "prepared_statements_from"}
    <2> DEFINE x == ProgramHeads[1]
               y == ProgramHeads[2]
    <2>1. /\ x.words = <<{"PREPARE"}>> /\ y.words = <<{"PREPARE"}>>
          /\ x.needs = {"prepared_statements"} /\ y.needs = {"prepared_statements_from"}
          /\ x.parse = "prepare" /\ y.parse = "prepare_from"
      BY OnFields DEF ProgramHeads
    <2>2. Twins(HeadArms, "PREPARE", x, y)
      BY HeadsInOrder
    <2> HIDE DEF x, y
    <2>3. /\ x.needs \subseteq F /\ y.needs \subseteq F /\ ~(y.needs \subseteq x.needs)
          /\ y.parse # x.parse /\ y.parse # "error" /\ "PREPARE" \in {"PREPARE"}
      BY <1>3, <2>1
    <2> QED
      BY <1>1, <2>1, <2>2, <2>3
  <1>4. CASE R = {"describe", "describe_summarize"}
    <2> DEFINE x == QueryHeads[4]
               y == QueryHeads[5]
    <2>1. /\ x.words = <<{"DESCRIBE", "DESC"}>>
          /\ y.words = <<{"DESCRIBE", "DESC", "SUMMARIZE"}>>
          /\ x.needs = {"describe"} /\ y.needs = {"describe_summarize"}
          /\ x.parse = "explain" /\ y.parse = "summarize"
      BY OnFields DEF QueryHeads
    <2>2. Twins(HeadArms, "DESCRIBE", x, y)
      BY HeadsInOrder
    <2> HIDE DEF x, y
    <2>3. /\ x.needs \subseteq F /\ y.needs \subseteq F /\ ~(y.needs \subseteq x.needs)
          /\ y.parse # x.parse /\ y.parse # "error"
          /\ "DESCRIBE" \in {"DESCRIBE", "DESC"}
          /\ "DESCRIBE" \in {"DESCRIBE", "DESC", "SUMMARIZE"}
      BY <1>4, <2>1
    <2> QED
      BY <1>1, <2>1, <2>2, <2>3
  <1> QED
    BY <1>2, <1>3, <1>4 DEF Rivalries

(* Whatever the dialect, the order of parse_statement_inner's arms passes  *)
(* over no production for a less specific one, but in the two pairs of     *)
(* flags grammar_conflict reports and in DESCRIBE with SUMMARIZE.          *)
THEOREM HeadsAreExact == Spec => []HeadsExact
  <1>1. (\E o \in Openings : PassedOver(features, o)) <=> \E R \in Rivalries : R \subseteq features
    BY PassedOverOnly, RivalriesPassOver
  <1>2. (\E R \in Rivalries : R \subseteq features) <=>
           \/ {"do_statement", "do_expression_list"} \subseteq features
           \/ {"prepared_statements", "prepared_statements_from"} \subseteq features
           \/ {"describe", "describe_summarize"} \subseteq features
    BY Zenon DEF Rivalries
  <1>3. HeadsExact
    BY <1>1, <1>2, Zenon DEF HeadsExact
  <1> QED
    BY <1>3, PTL

(***************************************************************************)
(* The safety half of NormalizeTerminates.  What the loop has left to do   *)
(* is the set of dependencies that dangle.                                 *)
(***************************************************************************)
Loose(F) == {i \in DOMAIN Dependencies : Dangles(F, i)}

(* feature_dependencies lists 24 pairs, and no refinement twice.           *)
LEMMA DependencyTable ==
    /\ DOMAIN Dependencies = 1..24
    /\ \A i, j \in 1..24 : Dependencies[i][1] = Dependencies[j][1] => i = j
  BY DEF Dependencies

(* The dependencies that dangle can be counted.                            *)
LEMMA LooseIsFinite ==
    ASSUME NEW F
    PROVE  IsFiniteSet(Loose(F)) /\ Cardinality(Loose(F)) \in 0..24
  <1>1. IsFiniteSet(1..24) /\ Cardinality(1..24) = 24
    <2> DEFINE n == 24
    <2>1. 1 \in Int /\ n \in Int /\ ~(1 > n) /\ n - 1 + 1 = 24
      OBVIOUS
    <2> HIDE DEF n
    <2>2. IsFiniteSet(1..n) /\ Cardinality(1..n) = n - 1 + 1
      BY <2>1, FS_Interval
    <2> QED
      BY <2>1, <2>2 DEF n
  <1>2. Loose(F) \in SUBSET (1..24)
    BY DependencyTable DEF Loose
  <1>3. IsFiniteSet(Loose(F)) /\ Cardinality(Loose(F)) <= 24
    BY <1>1, <1>2, FS_Subset
  <1> QED
    BY <1>3, FS_CardinalityType

(* The dependency reported is one of those that dangle, and there is one   *)
(* to report exactly while some dangle.                                    *)
LEMMA ReportedIsLoose ==
    ASSUME NEW F
    PROVE  /\ feature_dependencies(F) # 0 => feature_dependencies(F) \in Loose(F)
           /\ feature_dependencies(F) = 0 <=> Loose(F) = {}
  <1>1. 0 \notin DOMAIN Dependencies
    BY DependencyTable
  <1> QED
    BY <1>1, Violations DEF Loose

(* Clearing a refinement settles its own dependency and disturbs no other: *)
(* nothing that is cleared is a base, and no refinement is listed twice.   *)
LEMMA ClearsOne ==
    ASSUME NEW F, NEW k \in Loose(F)
    PROVE  Loose(F \ {Dependencies[k][1]}) = Loose(F) \ {k}
  <1>1. k \in DOMAIN Dependencies /\ Dependencies[k][1] \in Dependents
    BY NoChains DEF Loose
  <1>2. ASSUME NEW i \in DOMAIN Dependencies
        PROVE  Dangles(F \ {Dependencies[k][1]}, i) <=> (Dangles(F, i) /\ i # k)
    <2>1. Dependencies[i][2] # Dependencies[k][1]
      BY <1>1, NoChains
    <2>2. Dependencies[i][1] = Dependencies[k][1] <=> i = k
      BY <1>1, DependencyTable
    <2> QED
      BY <2>1, <2>2 DEF Dangles
  <1> QED
    BY <1>2 DEF Loose

(***************************************************************************)
(* Whatever the set it is called on, the loop of without_dangling_         *)
(* dependents cannot run for ever or spin on a flag: while it runs nothing *)
(* else does, each turn settles exactly one of the dependencies that       *)
(* dangle, it has one to clear until none dangles, and so it ends after as *)
(* many turns as dependencies dangled, at most 24.  What is left to        *)
(* NormalizeTerminates is that turns are taken.                            *)
(***************************************************************************)
THEOREM NormalizeIsShort ==
    Spec => /\ [](Cardinality(Loose(features)) \in 0..24)
            /\ [][phase = "normalizing" =>
                    \/ /\ ClearDangling
                       /\ Cardinality(Loose(features')) = Cardinality(Loose(features)) - 1
                    \/ EndNormalize /\ Cardinality(Loose(features)) = 0]_vars
  <1>1. Cardinality(Loose(features)) \in 0..24
    BY LooseIsFinite
  <1>2. ASSUME ClearDangling
        PROVE  Cardinality(Loose(features')) = Cardinality(Loose(features)) - 1
    <2> DEFINE k == feature_dependencies(features)
    <2>1. k \in Loose(features) /\ features' = features \ {Dependencies[k][1]}
      BY <1>2, ReportedIsLoose DEF ClearDangling
    <2> HIDE DEF k
    <2>2. Loose(features') = Loose(features) \ {k}
      BY <2>1, ClearsOne
    <2> QED
      BY <2>1, <2>2, LooseIsFinite, FS_RemoveElement
  <1>3. ASSUME EndNormalize
        PROVE  Cardinality(Loose(features)) = 0
    <2>1. Loose(features) = {}
      BY <1>3, ReportedIsLoose DEF EndNormalize
    <2> QED
      BY <2>1, FS_EmptySet
  <1>4. ASSUME Next, phase = "normalizing"
        PROVE  ClearDangling \/ EndNormalize
    BY <1>4 DEF Next, With, TryWith, BeginNormalize, Normalize, ParseEntry
  <1>5. [Next]_vars =>
          [phase = "normalizing" =>
              \/ /\ ClearDangling
                 /\ Cardinality(Loose(features')) = Cardinality(Loose(features)) - 1
              \/ EndNormalize /\ Cardinality(Loose(features)) = 0]_vars
    BY <1>2, <1>3, <1>4
  <1> QED
    BY <1>1, <1>5, PTL DEF Spec

-----------------------------------------------------------------------------
(***************************************************************************)
(* The binding powers: the parentheses of the renderer and the climb of    *)
(* the parser read the same table by different rules.  Here the two rules  *)
(* are compared for one operator and its operand, whatever is below them.  *)
(***************************************************************************)
Binary(e) == \/ Kind(e) = "infix" /\ Op(e) \in InfixOps
             \/ Kind(e) = "between" /\ Op(e) = "between"
Prefix(e) == Kind(e) = "prefix" /\ Op(e) \in PrefixOps
Postfix(e) == Kind(e) = "postfix" /\ Op(e) \in PostfixOps

Climbed == InfixOps \cup PostfixOps \cup {"between"}

(* The operator's rank is just above the operand's.                        *)
Adjacent(d, operand, operator) == Power(d, operator).left = Power(d, operand).left + 1

(* needs_parens_between decides as the climb does, for any two ranks whose *)
(* right power is one above the left, unless the ranks are adjacent.       *)
LEMMA RuleIsExact ==
    ASSUME NEW p, NEW c, p.left \in Int, c.left \in Int,
           p.right = p.left + 1, c.right = c.left + 1,
           p.assoc \in {"Left", "NonAssoc"},
           p.left = c.left => p.assoc = c.assoc
    PROVE  /\ p.left # c.left + 1 =>
                 (NeedsParensBetween(p, c, "left")
                    <=> \/ p.left >= c.right
                        \/ /\ p.assoc = "NonAssoc" /\ c.assoc = "NonAssoc"
                           /\ c.left = p.left)
           /\ NeedsParensBetween(p, c, "right") <=> c.left < p.right
  BY DEF NeedsParensBetween

(* A table's ranks are on the levels L, and those of N do not associate.   *)
Ranked(d, L, N) ==
    \A op \in Climbed :
        /\ Power(d, op).left \in L
        /\ Power(d, op).right = Power(d, op).left + 1
        /\ Power(d, op).assoc = IF Power(d, op).left \in N THEN "NonAssoc" ELSE "Left"
        /\ op = "zone" => Power(d, op).left = 70
        /\ op \in InfixOps \ {"zone"} => Power(d, op).left < 70

(* The ranks of each table.                                                *)
LEMMA AnsiRanks ==
    Ranked("ansi", {10, 15, 20, 40, 45, 50, 60, 65, 70, 74, 84, 88}, {40})
  BY DEF Ranked, Climbed, InfixOps, PostfixOps, Power, Table, STANDARD, Rank

(* The fields of the standard table.                                       *)
LEMMA StandardFields ==
    /\ DOMAIN STANDARD = {"or", "xor", "and", "cmp", "is", "range", "eqeq", "concat", "arrow",
                          "bitor", "bitand", "shift", "bitxor", "add", "mul", "exp", "zone",
                          "collate", "subscript", "cast"}
    /\ STANDARD = [f \in DOMAIN STANDARD |-> STANDARD[f]]
  BY DEF STANDARD

(* PostgreSQL ranks the IS family below and the range family above.        *)
LEMMA PostgresRanks ==
    Ranked("postgres", {10, 15, 20, 35, 40, 42, 45, 50, 60, 65, 70, 74, 84, 88}, {35, 40, 42})
  <1>1. /\ POSTGRES["is"] = Rank(35, "NonAssoc")
        /\ POSTGRES["range"] = Rank(42, "NonAssoc")
        /\ \A f \in DOMAIN STANDARD \ {"is", "range"} : POSTGRES[f] = STANDARD[f]
    BY StandardFields DEF POSTGRES, IS_PREDICATE_BELOW_COMPARISON,
                          RANGE_PREDICATE_ABOVE_COMPARISON
  <1>2. Table("postgres") = POSTGRES /\ Table("ansi") = STANDARD
    BY DEF Table
  <1>3. \A op \in Climbed :
          Power("postgres", op) = CASE op \in {"isnull", "isjson", "distinct"} -> Rank(35, "NonAssoc")
                                    [] op = "between" -> Rank(42, "NonAssoc")
                                    [] OTHER -> Power("ansi", op)
    BY <1>1, <1>2, StandardFields DEF Power, Climbed, InfixOps, PostfixOps
  <1> QED
    BY <1>3, AnsiRanks DEF Ranked, Rank

(* DuckDB ranks the IS family as PostgreSQL does, and the arrow lowest.    *)
LEMMA DuckdbRanks ==
    Ranked("duckdb", {4, 10, 15, 20, 35, 40, 45, 50, 60, 65, 70, 74, 84, 88}, {35, 40})
  <1>1. /\ DUCKDB["is"] = Rank(35, "NonAssoc")
        /\ DUCKDB["arrow"] = Rank(4, "Left")
        /\ \A f \in DOMAIN STANDARD \ {"is", "eqeq", "arrow"} : DUCKDB[f] = STANDARD[f]
    BY StandardFields DEF DUCKDB, IS_PREDICATE_BELOW_COMPARISON
  <1>2. Table("duckdb") = DUCKDB /\ Table("ansi") = STANDARD
    BY DEF Table
  <1>3. \A op \in Climbed :
          Power("duckdb", op) = CASE op \in {"isnull", "isjson", "distinct"} -> Rank(35, "NonAssoc")
                                  [] op = "arrow" -> Rank(4, "Left")
                                  [] OTHER -> Power("ansi", op)
    BY <1>1, <1>2, StandardFields DEF Power, Climbed, InfixOps, PostfixOps
  <1> QED
    BY <1>3, AnsiRanks DEF Ranked, Rank

Comparisons == {"cmp", "anylist", "isnull", "isjson", "distinct", "between"}

(* SQLite associates comparisons to the left.                              *)
LEMMA SqliteRanks ==
    /\ \A op \in Climbed : Power("sqlite", op) = IF op \in Comparisons THEN Rank(40, "Left")
                                                ELSE Power("ansi", op)
    /\ Ranked("sqlite", {10, 15, 20, 40, 45, 50, 60, 65, 70, 74, 84, 88}, {})
  <1>1. /\ \A f \in {"cmp", "is", "range"} : SQLITE[f] = Rank(40, "Left")
        /\ \A f \in DOMAIN STANDARD \ {"cmp", "is", "range", "eqeq"} : SQLITE[f] = STANDARD[f]
    BY StandardFields DEF SQLITE
  <1>2. Table("sqlite") = SQLITE /\ Table("ansi") = STANDARD
    BY DEF Table
  <1>3. \A op \in Climbed : Power("sqlite", op) = IF op \in Comparisons THEN Rank(40, "Left")
                                                 ELSE Power("ansi", op)
    BY <1>1, <1>2, StandardFields DEF Power, Climbed, InfixOps, PostfixOps, Comparisons
  <1>4. \A op \in Climbed \ Comparisons : Power("ansi", op).left # 40
    BY DEF Climbed, InfixOps, PostfixOps, Comparisons, Power, Table, STANDARD, Rank
  <1>5. \A op \in Comparisons : op # "zone" /\ Rank(40, "Left").left = 40
                                /\ Rank(40, "Left").right = 41 /\ Rank(40, "Left").assoc = "Left"
    BY DEF Comparisons, Rank
  <1>6. Ranked("sqlite", {10, 15, 20, 40, 45, 50, 60, 65, 70, 74, 84, 88}, {})
    BY <1>3, <1>4, <1>5, AnsiRanks DEF Ranked
  <1> QED
    BY <1>3, <1>6

(* MySQL has a rank for each bitwise operator besides, one of them next to *)
(* the rank of `||` and `->`.                                              *)
LEMMA MysqlRanks ==
    /\ Ranked("mysql", {10, 15, 20, 40, 42, 44, 45, 47, 50, 60, 65, 70, 74, 84, 88}, {})
    /\ \A op \in Climbed : /\ Power("mysql", op).left = 44 <=> op = "bitand"
                           /\ Power("mysql", op).left = 45 <=> op \in {"concat", "arrow"}
  <1>1. /\ MYSQL["bitor"] = Rank(42, "Left") /\ MYSQL["bitand"] = Rank(44, "Left")
        /\ MYSQL["shift"] = Rank(47, "Left") /\ MYSQL["bitxor"] = Rank(65, "Left")
        /\ \A f \in DOMAIN STANDARD \ {"bitor", "bitand", "shift", "bitxor"} : MYSQL[f] = SQLITE[f]
    BY StandardFields DEF MYSQL, SQLITE
  <1>2. Table("mysql") = MYSQL /\ Table("sqlite") = SQLITE
    BY DEF Table
  <1>3. \A op \in Climbed :
          Power("mysql", op) = CASE op = "bitor" -> Rank(42, "Left")
                                 [] op = "bitand" -> Rank(44, "Left")
                                 [] op = "shift" -> Rank(47, "Left")
                                 [] op = "bitxor" -> Rank(65, "Left")
                                 [] OTHER -> Power("sqlite", op)
    BY <1>1, <1>2, StandardFields DEF Power, Climbed, InfixOps, PostfixOps
  <1>4. Ranked("mysql", {10, 15, 20, 40, 42, 44, 45, 47, 50, 60, 65, 70, 74, 84, 88}, {})
    BY <1>3, SqliteRanks DEF Ranked, Rank
  <1>5. \A op \in Climbed : /\ Power("sqlite", op).left # 44
                            /\ Power("sqlite", op).left = 45
                                 <=> op \in {"concat", "arrow", "bitor", "bitand", "shift", "bitxor"}
    <2>1. \A op \in Climbed : Power("ansi", op).left = 45
                                <=> op \in {"concat", "arrow", "bitor", "bitand", "shift", "bitxor"}
      BY DEF Climbed, InfixOps, PostfixOps, Power, Table, STANDARD, Rank
    <2> QED
      BY <2>1, SqliteRanks DEF Ranked, Rank, Comparisons
  <1>6. ASSUME NEW op \in Climbed
        PROVE  /\ Power("mysql", op).left = 44 <=> op = "bitand"
               /\ Power("mysql", op).left = 45 <=> op \in {"concat", "arrow"}
    <2>1. CASE op \in {"bitor", "bitand", "shift", "bitxor"}
      BY <1>3, <2>1 DEF Rank
    <2>2. CASE op \notin {"bitor", "bitand", "shift", "bitxor"}
      <3>1. Power("mysql", op) = Power("sqlite", op)
        BY <1>3, <2>2
      <3> QED
        BY <1>5, <2>2, <3>1
    <2> QED
      BY <2>1, <2>2
  <1> QED
    BY <1>4, <1>6

(* What the tables have in common.                                         *)
LEMMA TablesAlike ==
    ASSUME NEW d \in Dialects, NEW p \in Climbed, NEW c \in Climbed
    PROVE  /\ Power(d, p).left \in Int /\ Power(d, p).right = Power(d, p).left + 1
           /\ Power(d, p).assoc \in {"Left", "NonAssoc"}
           /\ Power(d, p).left = Power(d, c).left => Power(d, p).assoc = Power(d, c).assoc
           /\ Power(d, p).left \notin {30, 46, 80}
           /\ p = "zone" => Power(d, p).left = 70 /\ Power(d, p).assoc = "Left"
           /\ p \in InfixOps \ {"zone"} => Power(d, p).left < 70
           /\ Adjacent(d, c, p) <=> (d = "mysql" /\ c = "bitand" /\ p \in {"concat", "arrow"})
  <1>1. CASE d = "ansi"
    BY <1>1, AnsiRanks DEF Ranked, Adjacent
  <1>2. CASE d = "postgres"
    BY <1>2, PostgresRanks DEF Ranked, Adjacent
  <1>3. CASE d = "duckdb"
    BY <1>3, DuckdbRanks DEF Ranked, Adjacent
  <1>4. CASE d = "sqlite"
    BY <1>4, SqliteRanks DEF Ranked, Adjacent
  <1>5. CASE d = "mysql"
    BY <1>5, MysqlRanks DEF Ranked, Adjacent
  <1> QED
    BY <1>1, <1>2, <1>3, <1>4, <1>5 DEF Dialects

(* The prefix powers are on no level of a table.                           *)
LEMMA PrefixPowers ==
    ASSUME NEW d \in Dialects, NEW op \in PrefixOps
    PROVE  PrefixTable(d)[op] \in {30, 46, 80}
  BY DEF PrefixOps, PrefixTable, STANDARD_PREFIX

(***************************************************************************)
(* Whatever the operands contain, the renderer writes parentheses around a *)
(* binary or prefix operand exactly where the climb would otherwise give   *)
(* part of the text to the wrong operator, or refuse the chain: on the     *)
(* left where the operand takes its parent, on the right where the parent  *)
(* leaves the operand.  The rule for the left needs ranks that are not     *)
(* adjacent; the one adjacent pair of the shipped tables is MySQL's `&`    *)
(* under `||` or `->`, which its lexer does not give.                      *)
(***************************************************************************)
THEOREM ParenthesesAgree ==
    \A d \in Dialects : \A parent, child :
        /\ (Binary(parent) \/ Postfix(parent)) /\ (Binary(child) \/ Prefix(child))
            /\ (Binary(child) => ~Adjacent(d, Op(child), Op(parent)))
            => (ChildNeedsParens(d, parent, child, "left")
                  <=> Takes(d, Op(child), Op(parent)) \/ Chains(d, Op(parent), child))
        /\ Binary(parent) /\ Binary(child)
            => /\ ChildNeedsParens(d, parent, child, "right")
                    <=> Power(d, Op(child)).left < RightPower(d, Op(parent))
               /\ Adjacent(d, Op(child), Op(parent))
                    <=> /\ d = "mysql" /\ Op(child) = "bitand"
                        /\ Op(parent) \in {"concat", "arrow"}
  <1> SUFFICES ASSUME NEW d \in Dialects, NEW parent, NEW child,
                      Binary(parent) \/ Postfix(parent), Binary(child) \/ Prefix(child)
               PROVE  /\ (Binary(child) => ~Adjacent(d, Op(child), Op(parent)))
                          => (ChildNeedsParens(d, parent, child, "left")
                                <=> Takes(d, Op(child), Op(parent)) \/ Chains(d, Op(parent), child))
                      /\ Binary(parent) /\ Binary(child)
                          => /\ ChildNeedsParens(d, parent, child, "right")
                                  <=> Power(d, Op(child)).left < RightPower(d, Op(parent))
                             /\ Adjacent(d, Op(child), Op(parent))
                                  <=> /\ d = "mysql" /\ Op(child) = "bitand"
                                      /\ Op(parent) \in {"concat", "arrow"}
    OBVIOUS
  <1> DEFINE p == Power(d, Op(parent))
             c == Power(d, Op(child))
  <1>1. Op(parent) \in Climbed /\ Op(parent) \notin PrefixOps
    BY DEF Binary, Postfix, Climbed, InfixOps, PostfixOps, PrefixOps
  <1>2. /\ p.left \in Int /\ p.right = p.left + 1 /\ p.assoc \in {"Left", "NonAssoc"}
        /\ p.left \notin {30, 46, 80}
    BY <1>1, TablesAlike
  <1>3. CASE Prefix(child)
    <2>1. Op(child) \in PrefixOps /\ Kind(child) = "prefix" /\ Op(child) # "cast"
          /\ ~ReportsRank(child) /\ ~Binary(child)
          /\ Op(child) \notin {"isjson", "anylist", "zone", "collate", "cast", "subscript"}
      BY <1>3 DEF Prefix, PrefixOps, ReportsRank, Binary
    <2>2. PrefixTable(d)[Op(child)] \in {30, 46, 80}
      BY <2>1, PrefixPowers
    <2>3. ChildNeedsParens(d, parent, child, "left") <=> PrefixTable(d)[Op(child)] < p.left
      <3>1. OperandNeedsParens(d, p, child, "left") <=> PrefixTable(d)[Op(child)] < p.left
        BY <2>1, Zenon DEF OperandNeedsParens
      <3> QED
        BY <2>1, <3>1 DEF ChildNeedsParens, BinaryChildNeedsParens, Binary, Postfix, PrefixOps
    <2>4. Takes(d, Op(child), Op(parent)) <=> p.left >= PrefixTable(d)[Op(child)]
      BY <2>1 DEF Takes, RightPower
    <2>5. ~Chains(d, Op(parent), child)
      BY <2>1 DEF Chains
    <2> HIDE DEF p
    <2>6. PrefixTable(d)[Op(child)] < p.left <=> p.left >= PrefixTable(d)[Op(child)]
      BY <1>2, <2>2
    <2> QED
      BY <2>1, <2>3, <2>4, <2>5, <2>6
  <1>4. CASE Binary(child)
    <2>1. Op(child) \in Climbed /\ Op(child) \notin PrefixOps /\ Op(child) # "cast"
          /\ Kind(child) \in {"infix", "between"}
          /\ Op(child) \notin {"isjson", "anylist", "collate", "subscript"}
      BY <1>4 DEF Binary, Climbed, InfixOps, PrefixOps
    <2>2. /\ c.left \in Int /\ c.right = c.left + 1 /\ (p.left = c.left => p.assoc = c.assoc)
          /\ Adjacent(d, Op(child), Op(parent))
               <=> (d = "mysql" /\ Op(child) = "bitand" /\ Op(parent) \in {"concat", "arrow"})
      BY <1>1, <2>1, TablesAlike
    <2>3. ASSUME NEW side \in {"left", "right"}
          PROVE  ChildNeedsParens(d, parent, child, side) <=> NeedsParensBetween(p, c, side)
      <3>1. OperandNeedsParens(d, p, child, side) <=> NeedsParensBetween(p, c, side)
        BY <2>1 DEF OperandNeedsParens
      <3>2. CASE Kind(parent) = "infix" /\ Op(parent) # "zone" /\ Op(child) = "zone"
        <4>1. ~ChildNeedsParens(d, parent, child, side)
          BY <3>2 DEF ChildNeedsParens, BinaryChildNeedsParens
        <4>2. c.left = 70 /\ p.left < 70
          BY <1>1, <2>1, <3>2, TablesAlike DEF Binary, Postfix
        <4> HIDE DEF p, c
        <4>3. ~NeedsParensBetween(p, c, side)
          BY <1>2, <2>2, <4>2 DEF NeedsParensBetween
        <4> QED
          BY <4>1, <4>3
      <3>3. CASE ~(Kind(parent) = "infix" /\ Op(parent) # "zone" /\ Op(child) = "zone")
        BY <2>1, <3>1, <3>3 DEF ChildNeedsParens, BinaryChildNeedsParens, Binary, Postfix
      <3> QED
        BY <3>2, <3>3
    <2>4. /\ Takes(d, Op(child), Op(parent)) <=> p.left >= c.right
          /\ RightPower(d, Op(parent)) = p.right
      BY <1>1, <2>1 DEF Takes, RightPower
    <2>5. Chains(d, Op(parent), child)
            <=> p.assoc = "NonAssoc" /\ c.assoc = "NonAssoc" /\ c.left = p.left
      <3>1. CASE Op(child) = "zone"
        BY <2>1, <3>1, TablesAlike DEF Chains
      <3>2. CASE Op(child) # "zone"
        BY <2>1, <3>2 DEF Chains, ReportsRank
      <3> QED
        BY <3>1, <3>2
    <2>6. Adjacent(d, Op(child), Op(parent)) <=> p.left = c.left + 1
      BY DEF Adjacent
    <2> HIDE DEF p, c
    <2>7. /\ p.left # c.left + 1 =>
                 (NeedsParensBetween(p, c, "left")
                    <=> \/ p.left >= c.right
                        \/ /\ p.assoc = "NonAssoc" /\ c.assoc = "NonAssoc"
                           /\ c.left = p.left)
          /\ NeedsParensBetween(p, c, "right") <=> c.left < p.right
      BY <1>2, <2>2, RuleIsExact
    <2>8. Power(d, Op(child)).left = c.left
      BY DEF c
    <2> QED
      BY <1>4, <2>2, <2>3, <2>4, <2>5, <2>6, <2>7, <2>8
  <1> QED
    BY <1>3, <1>4
=============================================================================
