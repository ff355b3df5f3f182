-------------------------- MODULE MCSetOperations --------------------------
(* Tokens written in each preset: the ones it reads and some it refuses.   *)
EXTENDS SetOperations

MCVocabulary ==
    [sqlite     |-> {"union", "intersect", "except all", "order"},
     mysql      |-> {"union all", "ties", "lock", "skip locked"},
     postgres   |-> {"except", "intersect all", "order", "ties", "lock", "skip locked"},
     duckdb     |-> {"union by name", "intersect", "pivot", "order", "limit"},
     clickhouse |-> {"union all", "intersect", "limit by", "limit", "settings", "format"},
     mssql      |-> {"except", "union by name", "order", "for xml"},
     lenient    |-> {"union all by name", "pivot", "limit by", "lock", "for xml"},
     piped      |-> {"union", "order", "pipe"}]
=============================================================================
