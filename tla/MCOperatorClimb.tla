-------------------------- MODULE MCOperatorClimb --------------------------
(* Operator classes of each preset, one per rank that the preset tells     *)
(* apart, for OperatorClimb.                                               *)
EXTENDS OperatorClimb

MCVocabulary ==
    [ansi     |-> {"or", "and", "cmp", "concat", "add", "not", "sign", "isnull", "between"},
     postgres |-> {"and", "cmp", "distinct", "concat", "add", "zone", "not", "sign", "tilde",
                   "isnull", "isjson", "anylist", "between", "collate", "cast", "subscript"},
     duckdb   |-> {"arrow", "and", "cmp", "add", "not", "sign", "isnull", "between", "cast"},
     sqlite   |-> {"and", "cmp", "concat", "add", "not", "tilde", "isnull", "between", "collate"},
     mysql    |-> {"xor", "cmp", "bitor", "bitand", "shift", "bitxor", "not", "tilde", "between"}]
=============================================================================
