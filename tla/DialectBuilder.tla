--------------------------- MODULE DialectBuilder ---------------------------
(***************************************************************************)
(* How a dialect's FeatureSet is built and used: a preset is customised    *)
(* with deltas (with, try_with), its dangling refinements are cleared      *)
(* (without_dangling_dependents), and a parser is constructed over it      *)
(* (engine.rs, from_cursor), which asserts its consistency in a debug      *)
(* build and then scans and dispatches by it.                              *)
(***************************************************************************)
EXTENDS ScanTriggers, StatementHeads

CONSTANTS Presets,          \* the flag sets of shipped presets
          Deltas,           \* sets of flags a delta sets together
          MaxDeltas,        \* bound on the deltas of one set
          DebugAssertions   \* whether the build has debug assertions

ASSUME PresetsAssumption == \A p \in Presets : is_self_consistent(p)
ASSUME MaxDeltasAssumption == MaxDeltas \in Nat
ASSUME DebugAssertionsAssumption == DebugAssertions \in BOOLEAN

VARIABLES features,   \* the set being built
          base,       \* the set without_dangling_dependents was called on
          phase,      \* "building", "normalizing", "normalized", "parsing", "panicked"
          deltas      \* deltas applied so far

vars == <<features, base, phase, deltas>>

Init == /\ features \in Presets
        /\ base = {}
        /\ phase = "building"
        /\ deltas = 0

\* FeatureSet::with: the delta gives its own flags new values.
Delta(F, own, on) == (F \ own) \cup on

With(own, on) ==
    /\ phase = "building" /\ deltas < MaxDeltas
    /\ features' = Delta(features, own, on)
    /\ deltas' = deltas + 1
    /\ UNCHANGED <<base, phase>>

\* FeatureSet::try_with: a conflicted candidate is an error and is not built.
TryWith(own, on) ==
    /\ phase = "building" /\ deltas < MaxDeltas
    /\ features' = IF is_lexically_consistent(Delta(features, own, on))
                   THEN Delta(features, own, on) ELSE features
    /\ deltas' = deltas + 1
    /\ UNCHANGED <<base, phase>>

\* without_dangling_dependents: its loop clears the dependent of the first
\* violation until there is none.
BeginNormalize ==
    /\ phase = "building"
    /\ phase' = "normalizing"
    /\ base' = features
    /\ UNCHANGED <<features, deltas>>

\* Mutant: the base of the violation is cleared.
ClearDanglingBase ==
    /\ phase = "normalizing"
    /\ feature_dependencies(features) # 0
    /\ features' = features \ {Dependencies[feature_dependencies(features)][2]}
    /\ UNCHANGED <<base, phase, deltas>>

ClearDangling ==
    /\ phase = "normalizing"
    /\ feature_dependencies(features) # 0
    /\ features' = features \ {Dependencies[feature_dependencies(features)][1]}
    /\ UNCHANGED <<base, phase, deltas>>

\* Mutant: the loop runs at most once.
EndNormalizeEarly ==
    /\ phase = "normalizing"
    /\ phase' = "normalized"
    /\ UNCHANGED <<features, base, deltas>>

EndNormalize ==
    /\ phase = "normalizing"
    /\ feature_dependencies(features) = 0
    /\ phase' = "normalized"
    /\ UNCHANGED <<features, base, deltas>>

\* Parser::from_cursor: the three assertions, then the parse.
ParseEntry ==
    /\ phase \in {"building", "normalized"}
    /\ phase' = IF DebugAssertions /\ ~is_self_consistent(features)
                THEN "panicked" ELSE "parsing"
    /\ UNCHANGED <<features, base, deltas>>

Normalize == ClearDangling \/ EndNormalize

Next == \/ \E own \in Deltas : \E on \in SUBSET own : With(own, on) \/ TryWith(own, on)
        \/ BeginNormalize \/ Normalize \/ ParseEntry

\* The loop is a function call: it runs to its end.
Spec == Init /\ [][Next]_vars /\ WF_vars(Normalize)

-----------------------------------------------------------------------------
(* Properties                                                              *)

AllFlags == (UNION Presets) \cup (UNION Deltas)

TypeOK == /\ features \subseteq AllFlags
          /\ base \subseteq AllFlags
          /\ phase \in {"building", "normalizing", "normalized", "parsing", "panicked"}
          /\ deltas \in 0..MaxDeltas

\* lexical_conflict (conflict.rs:86) reports a set exactly when some trigger of
\* the scanner is claimed by a feature that does not get it, apart from the
\* rivalries listed in UnlistedRivals.
RegistryExact ==
    (\E t \in Triggers : Shadowed(features, t))
        <=> (~is_lexically_consistent(features) \/ Unlisted(features))

\* The order of the dispatcher's arms (statement_dispatch.rs:153) passes over no
\* production for a less specific one; productions equal in that respect meet
\* only in the sets grammar_conflict reports, and in DESCRIBE.
HeadsExact ==
    (\E o \in Openings : PassedOver(features, o))
        <=> \/ {"do_statement", "do_expression_list"} \subseteq features
            \/ {"prepared_statements", "prepared_statements_from"} \subseteq features
            \/ {"describe", "describe_summarize"} \subseteq features

\* without_dangling_dependents (conflict.rs:447) clears exactly the flags that
\* dangled when it was called, although it works one violation at a time.
NormalForm ==
    /\ TypeOK
    /\ (phase = "normalized") =>
        features = base \ {Dependencies[i][1] : i \in {j \in DOMAIN Dependencies : Dangles(base, j)}}

\* "turning it off cannot change any parse" (conflict.rs:430): at every step of
\* that loop the set scans every trigger and dispatches every opening as before.
OutcomePreserved ==
    (phase \in {"normalizing", "normalized"}) =>
        /\ \A t \in Triggers : Scan(features, t) = Scan(base, t)
        /\ \A o \in Openings : Dispatch(features, o) = Dispatch(base, o)

\* The loop of without_dangling_dependents (conflict.rs:453) ends.
NormalizeTerminates == (phase = "normalizing") ~> (phase = "normalized")
=============================================================================
