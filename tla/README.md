# TLA+ models of squonk

`squonk` is a SQL parser library: a zero-copy tokenizer, a recursive-descent
parser with a Pratt expression core, an interned and owned AST, and renderers,
formatters and language bindings around it. Nothing in the parser runs
concurrently; the one concurrent part is the browser loader. What makes it hard is
that a sequential parser keeps a good deal of state *outside* its call stack — a lazily filled token window, a lookahead memo,
a depth counter, context flags, one-shot flags, a counter of pending brackets, a
side table of clause keywords, an interner — and then speculates, fails, rewinds
and recovers, at every point of the grammar. Each of those fields is correct only
if every one of those paths keeps it in step. That is what these models are about.

## Inventory

Paths are relative to `crates/squonk/src/` unless they say otherwise.

| Component | State it keeps | Operations | Talks to | What makes it correct |
| --- | --- | --- | --- | --- |
| Scanner, `tokenizer/scan.rs` | byte cursor, small lexer state | `next_token`, `skip_trivia` | fills the token cursors | one token per call; ends at the end of the input or at one fault |
| Token cursors, `tokenizer/mod.rs` | buffered window, position, end and fault, trivia | `peek_nth`, `advance`, `seek`, `discard_consumed` | scanner below, parser above | reads as if the whole text had been tokenized first |
| Trivia index, `tokenizer/trivia.rs` | the captured runs | `in_span`, `before` | token cursor, formatter | finds exactly the runs of a span, or in front of an offset |
| Peek memo, `parser/engine.rs` | one position and its answer | `peek` | token cursor | never stale |
| Statement loop, `parser/query.rs`, `streaming.rs`, `recovery.rs` | position, `done`, results | `parse`, `Statements::next`, `parse_recovering` | grammar, cursor | source order, no statement or fault lost, always returns, entry points agree |
| Parser engine, `parser/engine.rs` | depth, four context flags, one-shot grouping flag | guards, save/restore, arm/take | every production | scoped to its production, on every path out |
| Clause marks, `parser/clause_marks.rs` | table of marks, node ids | record, patch, truncate, take, `in_span` | SELECT and query productions, formatter | each keyword once, owned by its node, in order |
| Types, `parser/ty.rs` | `angle_gt_pending` | open, close, suffix, list | constructor expressions, column lists | the parser's nesting is the text's |
| Interner, `interner/mod.rs`, roots, `parser/parsed.rs` | map, strings, folded identities | intern (four paths), freeze, save, load, fold | tokens, serde, renderers | one symbol per text; symbols survive a round trip |
| Expression climb, `parser/expr/core.rs` | none of its own | `parse_expr_bp`, `fold_infix` | binding-power table, renderer | groups as the table says, refuses non-associative chains; a rendering parses back |
| Set operations and tails, `parser/query.rs` | none of its own | `parse_set_expr_bp`, operands in parentheses, tails | binding-power table, renderer, formatter | returns what was written; renderings and formattings parse back |
| Renderer, `crates/squonk-ast/src/render/` | none | one spelling per node, parentheses by rank | binding-power table | round trip (ADR-0008) |
| Formatter, `format.rs`, `format/` | the set `emitted` of comments written | attach, lay out, fall back, no-drop net | clause marks, trivia, renderer | each comment once, in its place, ending its line |
| Dialects, `crates/squonk-ast/src/dialect/` | a `FeatureSet` being built | `with`, `try_with`, `without_dangling_dependents`, three registries | scanner, dispatcher | the registries report exactly the sets whose arms collide |
| Statement dispatcher, `parser/statement_dispatch.rs` | none of its own | about ninety arms in order | feature flags, statement families | the most specific production gets the statement |
| Statement families, `parser/ddl.rs`, `dml.rs`, … | none of their own | one production per clause | engine | accept what the engine accepts (tested by the conformance suite) |
| Browser loader, `crates/squonk-wasm/ts/runtime.ts` | one shared promise | create, settle, clear, retry | JavaScript event loop, wasm bindings | one initialization; a failure can be retried |
| AST and generated walks; other bindings | none | pure functions, marshalling | consumers | drift-tested against the schema |
| Code generation, tooling, benches, conformance, website | — | — | — | not part of the parser |

How they interact: an entry point owns a `Parser`, which owns one token cursor, one
interner, and the fields above. The statement loop asks the grammar for a
statement; the grammar reads tokens through the memo, interns identifiers, records
clause marks and sets flags; any production may return an error, which unwinds to
the nearest production that speculates (it rewinds the *cursor* and goes on) or to
the loop (which, when recovering, skips to the next `;` and goes on with the same
parser). At the end the interner is frozen and the side tables handed to the root.

The hard behaviours are therefore rewinding (what is not rewound with the
cursor?), errors (what is not restored on the way out?), refusals (the recursion
limit turns any call into an error), laziness (what has been read, dropped,
memoized?), a text whose fault lies ahead of the cursor, and statement boundaries
under recovery (what does the next statement inherit?). A second family of hazards
lies in tables that must agree with code far away: binding powers read by parser
and renderer, feature registries and the scanner's arm order, the dispatcher's
order. The `hazards` of
`PROJECT.json` list the lines where they bite.

## Modules

**`LexedSource`** — sources as a cursor sees them: `n` tokens, trivia in front of
each, and an end that is the end of the input, an unterminated construct (the byte
cursor runs to the end before the fault is reported) or a stray byte. A token is
its ordinal. Faults come last because nothing can be scanned behind one.

**`TriviaQueries`** — the two queries of the trivia index over places in such a
source: each boundary of a run, and a place inside every run and token.

**`TokenCursor`** — the abstract cursor: the whole source tokenized beforehand.
`PeekNth`, `Advance`, `Checkpoint`, `Rewind`, `Preceding`, `NextStatement`.

**`BufferedTokenCursor`** — the implementation. An operation answered from the
buffer is one step; one that has to scan becomes the call in flight, and `Scan`
takes one turn of `scan_loop` per step. Variables carry the names of the fields
(`buffer`, `buffer_start`, `reached_eof`, `lex_error`, `peeked`). `marks` and
`stmt_start` stand for what its caller, the grammar, holds: checkpoints of the
current statement. `Eager` is the refinement mapping.

**`StatementDriver`** — `parse_next_statement` and its three drivers over one
script, in any order and repeatedly polled. What `parse_statement` does from a
position (stop where, with success or an error) is drawn the first time that
position is parsed and remembered, so the drivers are compared on the same
grammar. It reads the script through the sticky end that `BufferedTokenCursor`
provides.

**`ParserScopes`** — a stack of the productions that touch `recursion_depth`, the
flags or the one-shot flag; everything else in the grammar is a nondeterministic
call, return or failure. An error unwinds one frame per step, restoring what that
frame's code restores; a speculating frame (a nested parenthesis, a LIMIT count or
LIMIT BY head, an INTERVAL amount) catches it and takes its other reading.
`refused` remembers whether the recursion limit has refused a query since the
parser was made, and is read by properties only.

**`ClauseMarks`** — the side table with nodes that record, claim and nest, and the
speculation around them: the operand probe, which truncates the table, and every
other reading that begins with a checkpoint, which is kept or is rewound *without*
truncating. Those are a nested parenthesis read as a query, a LIMIT BY head, a LIMIT
count, an INTERVAL amount, and the first argument of SUBSTRING, CEIL, FLOOR,
OVERLAY, TRIM or a JSON member. `reread` remembers that such a rewind has left
marks behind, for properties.

**`SymbolInterner`** — the interning paths a token kind selects, freezing, saving,
loading a document of this or any other origin entry by entry, the checks of the
load, and the construction of folded identities symbol by symbol. Each identifier
carries, as history, the text it was made from. A tree has a nesting depth, which
the climb can raise past any limit of the parser's, and a load has a budget for it;
a refused document can be loaded again with a larger one. Limits of the data format
itself are the format's.

**`AngleTypes`** — types in angle brackets over a text produced token by token,
with `angle_gt_pending` surviving statements. `chars` counts the brackets of the
text and is the reference; `carried` is what a statement inherited. It is the
grammar of dialects without liberal type names (BigQuery).

**`BindingPowers`** — the tables of ANSI, PostgreSQL, DuckDB, SQLite and MySQL as
deltas of `STANDARD`, and the ranks of the set operators.

**`OperatorRanks`** — what parser and renderer each read from those tables of one
operator and its operand: which operand takes the operator behind it, which chains
are refused, and the renderer's parenthesis rules. It has no recursive operator, so
that it can be proved about.

**`OperatorClimb`** — a tree of operators is rendered (bare, canonically or fully
parenthesized), lexed with the operator runs that PostgreSQL and DuckDB fuse, and
climbed again. `Grouped` is the reference: which bare texts mean which tree by the
powers and associativities alone.

**`FeatureFlags`, `ScanTriggers`, `StatementHeads`** — the three registries of
`dialect/conflict.rs` over a set of flags; for every byte sequence that two
features can claim, the arms of `next_token` in order; and the arms of the
statement dispatcher in order, with their flags and their words.

**`DialectBuilder`** — composes them: a preset, a delta, the loop of
`without_dangling_dependents`, and the debug assertions at the construction of a
parser.

**`SetOperations`** — queries as they are written (operators, parentheses, WITH,
tails), what the parser makes of them, and what the renderer or the formatter
writes for the result, parsed again. Eight dialects: seven presets, and ANSI with
`pipe_syntax`. `MeaningOfQuery` and `LegalQuery` are the reference.

**`LoaderContract`, `BrowserLoader`** — the contract the package documents
(`docs/release/npm-distribution.md:20`) and its implementation with one action per
event-loop job: a call, `initWasm` settling, the `.then` and the `.catch` handler,
and each awaiting caller's continuation.

**`FormatterComments`** — comments are written into a document, attached, and
formatted. A node is its path, so that spans are prefixes. The render functions
thread `emitted` exactly as the code does, including through layouts that are given
up halfway. In the output the keyword of each clause and the start of each item
carry their path, so that a property can say what a comment stands before.

`MC…` modules only give constants their values. `…Proofs` modules hold theorems.

Composition is mostly by promise, not by product: `StatementDriver` assumes of
reading exactly what `LazyIsEager` proves of the cursor (a sticky end and a sticky
fault), `ParserScopes` assumes of the loop what `StatementDriver` shows (a failed
statement is followed by another on the same parser), and `FormatterComments` reads
the clause keywords that `ClauseMarks` shows to be found by span. `DialectBuilder`,
`OperatorClimb` and `SetOperations` compose parser and renderer, or registry,
scanner and dispatcher, in one state space.

## Runs

Passing runs. Every one explores its bounds completely.

| Run | Bounds | Distinct states | Shows |
| --- | --- | --- | --- |
| `token_cursor` | ≤ 3 tokens, 3 kinds of end, lookahead ≤ 2, trivia 2 between tokens and 0–1 at the ends | 212 040 | The lazy cursor refines the eager one (`ImplementsTokenCursor`); checkpoints stay in the window, which keeps the current statement and no more, and the memo is never stale (`CursorSafe`); trivia are captured once, in order, none lost (`TriviaExact`), and found again by span and by offset (`TriviaRecovered`); every call answers (`CallReturns`) |
| `statement_driver` | ≤ 4 tokens, `;` or other, either end; 2 polls after the end | 81 290 | Source order, no error twice, faults reported (`Delivery`); recovery loses and invents nothing (`RecoveryExact`); the drivers agree (`ModesAgree`); a finished iterator stays finished (`Fused`); every driver returns (`Returns`) |
| `parser_scopes` | recursion limit 5; all productions; SQLite's operands | 1 361 622 | Every operand reads the flags of its own place (`FlagsScoped`); depth is the number of live guards (`DepthIsLiveGuards`); a statement starts with the flags and the depth of a fresh parser, whatever became of those before it, and with the grouping flag down unless the limit has refused a query (`StatementsIndependent`); PRIOR and the grouping context are exact until a query is refused (`ScopedUnlessRefused`) |
| `clause_marks` | 4 offsets, 3 nodes, 2 speculations of any of the three kinds | 1 579 264 | Each keyword is claimed by the node that ate it, and by no other (`MarksOwned`); `in_span` returns one run of the table, exactly the marks in the span (`InSpanExact`); the table is sorted and behind the cursor until a text is rewound without truncating it (`SortedUnlessReread`) |
| `symbol_interner` | 4 texts (a keyword in two cases, two names that fold equal), 3 dynamic symbols, nesting and budget ≤ 2 | 1 319 370 | Symbols resolve to their text (`StoreSound`), one text has one symbol (`SameTextSameSymbol`), an own document is refused exactly when it nests past the budget of the load (`OwnDocumentsLoad`), folding is exact (`FoldedIdentity`), and a loaded table gives two symbols only to keyword spellings (`TwinsAreKeywords`) |
| `angle_types` | nesting 5, 3 statements | 51 782 | The counter accounts for every bracket (`ClosesAccounted`); texts without a shift token are read as bracketed (`SpacedTypesExact`) |
| `operator_climb` | ≤ 3 operators, one operator per rank of 5 tables | 167 958 | The climb groups as the powers say and refuses exactly the non-associative chains (`ClimbExact`); a rendering is read back as its tree, exactly but for four named shapes (`RoundTripExact`) |
| `dialect_builder` | 4 presets, 1 delta from 19 groups of rival flags | 30 226 | `lexical_conflict` reports exactly the sets in which arm order decides, but for named rivalries (`RegistryExact`); the dispatcher passes over no more specific arm (`HeadsExact`); clearing dangling flags ends (`NormalizeTerminates`), in the right set (`NormalForm`), and changes no token and no dispatch (`OutcomePreserved`) |
| `set_operations` | ≤ 4 operators, parentheses, WITHs and tails; 8 dialects; in and out of a grouping context | 322 982 | The parser returns what was written, exactly but for named losses (`ReadExact`); rendering and formatting are read back, exactly but for named shapes (`ReadBack`) |
| `browser_loader` | 3 callers, 2 sources, 3 loads | 7 047 | One load and one runtime (`OneRuntime`); a retry joins no failed load (`RetryStartsFresh`); every caller is told (`EveryCallerAnswered`); the loader implements its contract (`ImplementsContract`) |
| `formatter_comments` | ≤ 2 comments, 99 documents | 238 917 | Each comment is written once, with its statement, except that exactly those no item claims go to the end of the document and exactly those a given-up layout leaves marked are lost (`CommentsAccounted`); a line comment ends its line but in named cases (`LineCommentSafe`); a comment after a clause keyword, or on its own line before a clause or an item, comes out on a line of its own and the next keyword or item after it is that one (`ClauseComments`) |

Where a property names shapes as exceptions it states them as an equivalence: they
are exactly the shapes for which the code does something else, so a fix or a new
defect both make the run fail. `LineCommentSafe` is only an implication (its cases
are where a line comment *may* be followed by something), and so are the properties
that hold "unless" or "until" something has happened (`StatementsIndependent`,
`ScopedUnlessRefused`, `SortedUnlessReread`, `MarksOwned`, `InSpanExact`,
`SpacedTypesExact`): after it they claim nothing.

Why the bounds are enough. The cursor's state is relative: window, position, memo
and scan head differ by at most the lookahead plus a statement, so three tokens
with lookahead two reach a fault ahead of, at and behind each of them, and a
discard with tokens buffered ahead. A script of four tokens has a statement, a
separator, a failing statement and a fault in it. Scope errors need a setter, a
nested clearer and a failure between them: four frames, and one more for the
guard that refuses. Two nested nodes and a speculation in each position exhaust
the overlaps of mark ranges. Nesting and budgets of up to two put a tree below, at
and above its budget. A shift token needs two types to close and a third to
inherit. A grouping error between parser and renderer needs a parent, a child and
an operator at the child's open edge: three operators. Rival flags meet in one
byte or one statement head, and a delta sets all flags of one of those at once. A
lost tail needs an operand, its parentheses, a tail, and an operator or a second
tail around it. Three callers are one that fails, one that joined it and one that
retries. Two comments are the least that can swallow or overtake one another. The
theorems remove the bounds where they apply.

`CHECK_DEADLOCK FALSE` appears where the program really stops: the client of the
drivers has finished, the script's bound is used up, the table has been taken, a
text has been parsed back, a dialect is in use, every caller has its answer, a
document is formatted. The scope run and the cursor run do check deadlock.

### Where the code and its documentation differ

`never_dropped` is a violation run of its own. `format.rs:80` says that the pretty
path never drops a comment. When `try_query` gives a layout up
(`format/render.rs:288`), the comments its first parts have written are already in
`emitted`; the fallback fragment and the no-drop net both skip them. TLC finds it
in a set operation whose left operand has a comment and whose right one is not laid
out, as in `SELECT /*c*/ a UNION VALUES (1)`.

The others are exact exceptions inside passing properties:

* `ScopedUnlessRefused`. `parse_query` clears `in_connect_by`, and its caller arms
  `paren_query_grouping`, before the recursion limit can refuse it
  (`parser/query.rs:167`). A refusal inside a caught speculation leaves PRIOR off
  for the rest of the condition (`parser/engine.rs:151` says it stays live) and
  leaves the grouping context for a later query (`parser/query.rs:1266` rejects
  bare operands outside it). The first needs a production that catches errors
  around an operand of the condition: the MySQL INTERVAL operator, which the
  Lenient dialect has together with CONNECT BY.
* `StatementsIndependent`. The armed grouping flag also survives the statement in
  which the query was refused: under recovery the first query of the next statement
  takes it (`parser/query.rs:183`) and is read as a grouped one.
* `SortedUnlessReread`. A text that is read speculatively and rewound leaves its
  marks in the table and records them again: a nested parenthesis
  (`parser/expr/primary.rs:400`, `parser/from.rs:482`), a LIMIT BY head
  (`parser/query.rs:2004`), a LIMIT count (`query.rs:2412`), an INTERVAL amount
  (`parser/ty.rs:1196`), and the first argument of a string function
  (`parser/expr/string_funcs.rs:104`), as in
  `substring((SELECT a FROM t WHERE b), 1)`. `parser/clause_marks.rs:35` calls the
  table sorted by construction. `in_span` and ownership are unharmed while the copies lie in
  the same node.
* `ClosesAccounted`. The second half of a `>>` lives in `angle_gt_pending`, which
  the comma list (`parser/ty.rs:771`), the typed constructor
  (`parser/expr/collections.rs:490`) and the statement boundary do not know of:
  the next column becomes a struct's field, an unclosed list is accepted after a
  surplus close, and a constructor with nested closers is refused (against
  `ty.rs:768`, `parser/expr/tests.rs:9904` and `ty.rs:735`).
* `RoundTripExact`. Canonical rendering loses parentheses that ADR-0008's round
  trip needs in four shapes: a loose prefix operator at the open end of a left
  operand; a sign applied to COLLATE or AT TIME ZONE; IS JSON and `= ANY (array)`,
  which the parenthesis rules do not rank; and prefixes such as `~(-a)` that the
  scanner of PostgreSQL and DuckDB fuses into one operator. The parenthesized mode
  has none of them.
* `ReadExact`. An operand in parentheses keeps its query only for five tails
  (`parser/query.rs:1299`); one with only LIMIT BY, SETTINGS, FORMAT, FOR XML or
  pipe operators loses them, where `query.rs:1184` says any clause counts.
* `ReadBack`. The formatter writes no parentheses around set operands
  (`format/render.rs:373`; `format.rs:42` promises equivalence), a PIVOT takes the
  tails behind it, and SQLite does not read the parentheses the renderer needs.
* `CommentsAccounted`. In a statement that is laid out, a comment between set
  operands, after the parenthesis of a nested query, in the head of a CTE, in LIMIT
  or on its own line before it, or on the line of the last clause before ORDER BY or
  LIMIT belongs to no item; only the no-drop net writes it, at the end of the
  document (`Relocated`). `format.rs:81` says that the pretty path "no longer
  relocates one to the tail", and `format.rs:65` that every comment renders near its
  source.
* `LineCommentSafe`. A second comment of the same item, or at the end of a
  document, can follow a line comment on its line, and so can the `;` behind a
  statement that ends in an item with a comment inside its fragment.
* `RegistryExact`. `ScanTriggers!UnlistedRivals` are pairs of flags that contend
  for a byte and that `lexical_conflict` does not list. Of the four presets modelled
  only MySQL has one, `X'…'` as a blob and as a bit string.
* `HeadsExact`. DESCRIBE is claimed by two flags with arms of equal length; the
  grammar registry lists the other two such pairs. The ledger of statement heads
  (`conflict.rs`) also omits START, SHOW and SET, which several arms share and
  whose order the model checks.

Three more statements are recorded here only. `recover_to_statement_boundary`
(`parser/engine.rs:688`) says that after `peek` has reported a fault `advance`
reports the end: `scan_loop` remembers the fault and reports it again, and the loop
is right either way. `Recovered::errors` (`parser/recovery.rs:68`) promises one
error per failed statement: a statement failing in front of a lexical fault
contributes two (`Delivery` requires the second). `intern_nonkeyword`
(`interner/mod.rs:121`) must not be given a canonical keyword: loading a document
gives it whatever the document lists, and exactly such texts then have two symbols
(`TwinsAreKeywords`).

That an own document can be refused for its depth is no such difference:
`parser/parsed.rs:521` documents it, and `OwnDocumentsLoad` says that it is the only
reason.

## Fairness

`BufferedTokenCursor` assumes weak fairness of `Scan \/ ScanDone`,
`StatementDriver` of its driver steps, and `DialectBuilder` of the loop of
`without_dangling_dependents`: all are the remaining turns of a loop in a function
that has been called, in a single thread, with nothing to wait for. The client (the
grammar calling the cursor, the user polling the iterator) owes nothing.
`BrowserLoader` assumes that the event loop runs each promise job that is ready
(`RunThen`, `RunCatch` and each `Settle`); nothing makes `initWasm` settle, so the
liveness property begins where it has. No other module states liveness.

## Refinement

`BufferedTokenCursor` implements `TokenCursor` (`Eager`, with the position and the
answer kept and the buffer, the memo and the call in flight hidden).
`BrowserLoader` implements `LoaderContract` (`Contract`): the owner and the load
are read off the stage of `active`, a caller is doomed once the load whose promise
it holds was rejected, and `initWasm` settling is a stutter. Both are checked by
TLC and proved.

## Proofs

All theorems hold for every value of the constants, from the `ASSUME`s of the
modules that declare them, which TLC evaluates on the runs.

* `BufferedTokenCursorProofs` (from `SourcesAssumption`, `AnswersAssumption`,
  `LookaheadAssumption`, `NoCallAssumption`): `TypeCorrect`, `RewindIsSafe`,
  `MemoIsSound`, `StatementIsKept`, their conjunction `CursorIsSafe`, and
  `LazyIsEager`. The invariant
  says that the buffer is a copy of the source from `buffer_start` to the scan head,
  that the window begins at or before the statement, that an end that has been
  reached is remembered as what it is, and that a call in flight still lacks its
  token. The refinement needs all of it: an answer agrees with the whole source only
  because the window is a copy and the end is remembered. `StatementIsKept` follows
  the one place where the window is trimmed, the start of a statement.
  `TriviaIsExact` needs no more of the state than the scan head: trivia are captured
  by `Scan` alone, in front of the unit the head passes, and the head never goes
  back, whatever the cursor above it does. `TriviaIsRecovered` follows from it, once
  the end or the fault is reached: a table in source order is split by each search
  at one place (`PartitionPoints`), which settles `in_span`; for `before`, the runs
  of a unit stand one after the other behind those of the units before it, so that
  walking back from the end of run *m* passes exactly *m* of them and stops, because
  the run before ends in an earlier unit. `CallsAreShort` counts the turns a call in
  flight still needs at most: one for each token from the end of the window to the
  one it asks for, and one for the answer.
* `StatementDriverProofs` (from `ScriptsAssumption`, `PollsAssumption`,
  `NoneAssumption`, and `AbsentAssumption`, that the mark of a missing verdict or
  outcome is itself neither): `TypeCorrect`, `DeliversInSourceOrder`,
  `FaultIsReported`, `DeliveryIsSound`, `RecoveryIsExact`, `ModesAlwaysAgree` and
  `IteratorIsFused`. Source order is not inductive; `Progress` adds, phase by phase,
  where the cursor is relative to what was delivered. The subtle case is an error
  ahead of the cursor, raised by lookahead into the fault: there is then no `;` in
  between, so skipping must meet the fault and not resume behind the error.
  `RecoveryIsExact` compares a finished run with the script; `RecoveringInv` keeps
  the account piece by piece: behind the cursor the accepted pieces are the
  statements and there are as many errors as other pieces, with one error more
  while a failed piece is being skipped, unless the fault has been met.
  `ModesAlwaysAgree` compares runs made one after the other. `StoriesInv` describes
  what each has delivered as a chain of statements, each starting at the first token
  behind the separators after the one before, and up to the first error the cursor
  is where that chain ends. The grammar is remembered, so there is only one chain:
  two of them agree as far as both go (`ChainsAgree`) and stop at the same place
  with the same error (`ChainStops`, `WholeOne`). `FuseInv` says that an iterator
  which has yielded an error or None is done, and that one that is done is at rest.
  `TurnsAreBounded` takes as measure three for each token left and a rank for the
  phase. Two turns consume nothing, delivering a statement and giving one up; the
  first leads from what follows the statement to the separators, the second from the
  separators to skipping, each to a lower rank, and every way back up takes a token.
* `ParserScopesProofs` (from `LimitAssumption`, `OperandsAssumption`,
  `ExploredAssumption`): `TypeCorrect`, `DepthIsExact`, `SpineFlagsAreScoped`,
  `PriorIsConfined`, `ReturnIsScoped`, together `FlagsAreScoped`,
  `StatementsAreIndependent` and `ScopedUntilRefused`. Besides the current flags, the flags each frame saved
  must be those that belong outside it; otherwise leaving it would restore something
  wrong. Of `in_connect_by` only one direction is true unconditionally; the other,
  and the grouping context, hold until a query is refused. `UnrefusedInv` adds for
  them that the one-shot flag is down between steps (it is armed and taken within
  one unless the guard refuses in between), and that the flag a frame saved reaches
  as far as the condition around that frame does. `StatementsAreIndependent` rests
  on both invariants: with no frame left nothing owns a flag, and the one-shot flag
  is down unless a query was refused.
* `ClauseMarksProofs` (from `BoundsAssumption`, `SpeculationAssumption`):
  `MarksAreOwned`, `SortedUntilReread`, `InSpanIsExact`. `FramesInv`, which holds
  always, says that frames nest in the text and in the table, and that the ids
  minted and the nodes open are no more than the nodes opened. `MarksInv` holds
  until a rewind leaves marks behind: what a frame found in the table is of text before it, and the
  recorder of an unclaimed mark is still open, the innermost frame that found fewer
  marks than that one. So the node that closes claims what it ate and nothing else,
  and nothing is unclaimed when no node is open. In a sorted table each search of
  `in_span` is the least index of its kind, and the two bound one run.
* `SymbolInternerProofs` (from `KeywordAssumption`, `FoldAssumption`,
  `BoundAssumption`, `TextAssumption`): `TypeCorrect`, `SymbolsResolve`,
  `StoreIsSound`, `IdentityIsText`, `RoundTripLoads`, `FoldingIsExact`,
  `OnlyKeywordsHaveTwins`. The map inverts the strings while interning; strings are
  distinct, and none is a canonical keyword unless the table came from elsewhere;
  while loading, the strings are the document's prefix exactly as long as no entry
  has repeated. For `RoundTripLoads` the document of an own tree keeps that tree's
  depth, and what is being loaded, or was accepted, is within the budget.
* `AngleTypesProofs` (from `BoundsAssumption`): `TypeCorrect`,
  `BracketsAreCounted`, `ClosesAreAccounted`, `SpacedTypesAreExact`. A list is at
  the bottom of the stack and only types above it, so a close never empties the
  stack, and a list of columns ends with nothing open; nothing is pending before the
  first shift token.
* `BrowserLoaderProofs` (from `LoaderAssumption`): `OneRuntimeOnly`, `RetryIsFresh`,
  `LoaderKeepsContract`, `NoCallerForgotten`. `OneRuntime` is not inductive: it does not say that a load
  which ended was rejected or is in `active`. The invariant adds that `active` is
  the one load that was not rejected, that the bindings hold its source exactly from
  the moment `initWasm` resolved, and that a resolved caller's load was fulfilled.
  The refinement then goes step by step; the case that needs the invariant is the
  `.catch` handler, which must doom exactly the callers that wait. For
  `NoCallerForgotten` the stages of a load are numbered: each step moves the load a
  caller waits for to the next stage or leaves it, a stage other than `initWasm` has
  a job ready, and only the caller's own continuation ends its wait.
* `DialectBuilderProofs` (from `PresetsAssumption`, `MaxDeltasAssumption`,
  `DebugAssertionsAssumption`): `NormalFormIsExact`, `OutcomeIsPreserved`,
  `RegistryIsExact` and `HeadsAreExact`, for any presets and deltas, so for every
  set of flags where the run takes four presets and one delta.
  `without_dangling_dependents` looks again at the changed set before it clears a
  flag; that it ends with what did not dangle at the start rests on a fact about the
  table, that no flag which depends on another has a third depending on it
  (`NoChains`), and on the invariant that what is cleared dangled at the start
  (`Clearing`) and that the loop ends only where nothing dangles (`Ended`). Clearing
  changes no token because the scanner reads no such flag, and no dispatch because
  an arm that asks for one also asks for the flag it depends on (`HeadsHonest`).
  For the registry, each trigger's arms are turned into a formula over the few flags
  they read (`…Shadowed`), and so are the registry's entries (`ListedFlags`) and the
  rivalries it leaves out (`UnlistedFlags`); the theorem is the equivalence of the
  disjunctions. For the dispatcher, of two arms that can take one opening the
  earlier is the more specific, or both are one production, or a later word tells
  them apart, or they are one of the three rivalries (`HeadsInOrder`, part by part
  of the table, since parts with no first word in common cannot meet); and in each
  rivalry there is an opening for which the later arm is passed over.
  `NormalizeIsShort` measures the loop by the dependencies that dangle: since there
  are no chains, a turn removes exactly one of them, and there are 24 in the table.
  `ParenthesesAgree` is about `OperatorRanks`, which the same module extends: for an
  operand of any shape, in all five tables, the renderer's rule for a left operand is
  exactly that the climb would let the operand take its parent, or refuse the chain,
  and its rule for a right operand exactly that the climb would stop before it.
  `RuleIsExact` shows it for any two ranks that are not adjacent. For adjacent ones,
  where the parent's left power is the child's right, the climb lets the child take
  its parent (`>=`) and the renderer writes no parentheses (`<`,
  `precedence/mod.rs:694`). MySQL's `&` under `||` or `->` is the only such pair, and MySQL reads
  neither of those as that operator (`||` is OR, and `->` is off), so no shipped
  dialect meets it. A new rank placed next to another would.

Where a proof needs an induction over positions (the chains of statements, the first
arm that holds, a binary search), it takes the least element of a set of naturals
instead, from the well-foundedness of `<`.

Model-checked only: liveness (`CallReturns`, `Returns`, `NormalizeTerminates`,
`EveryCallerAnswered`), which is out of the prover's reach. What is proved of each is
its safety half (`CallsAreShort`, `TurnsAreBounded`, `NormalizeIsShort`,
`NoCallerForgotten`): what is under way always has a step it can take and every step
it takes leaves less to do. That an enabled step is taken is the fairness, which only
TLC's runs use. Model-checked only are also the properties of
`OperatorClimb` (`ClimbExact`, `RoundTripExact`), `SetOperations` (`ReadExact`,
`ReadBack`) and `FormatterComments` (`CommentsAccounted`, `LineCommentSafe`,
`ClauseComments`). These are statements about what recursive functions compute from
trees of any size: their modules need RECURSIVE operators, with which the prover
does not work, and structural induction over the trees, which it cannot apply. Of
`RoundTripExact` the step at one node, the agreement of the two rules, is
`ParenthesesAgree`.

## Not modelled

The repository has about 300 000 lines, of which the models stand for
a few thousand, and most of the rest cannot be modelled as anything but itself:

* Generated walks, schemas and render skeletons (`squonk-ast/src/generated`, more
  than 50 000 lines) and the AST definitions: data, drift-tested.
* Statement families, other data types, expression atoms (`ddl.rs`, `dml.rs`,
  `util.rs`, `from.rs`, most of `render/nodes.rs`): long sequences of optional
  clauses transcribed from the engines' grammars, with no state of their own beyond
  the fields modelled here. To the models they are nondeterministic verdicts, calls
  and failures; a model of their spelling would be a copy of it, and the
  conformance suite compares them with the engines.
* Dialect presets and keyword tables beyond the flags two readers contend for:
  data.
* The byte loops inside a scanner arm (nested and versioned comments, dollar
  quotes, numbers).
* The liberal type names of SQLite and Lenient, which rewind the cursor and not
  `angle_gt_pending` (`parser/ty.rs:62`), and the stack depth of nested types, which
  no guard counts (`parser/ty.rs:755`).
* The formatter's widths and its Doc solver: a group is a soft line that may break.
* The bindings apart from the browser loader: marshalling, synchronous.
* Code generation, tooling, benches, conformance, website: not part of the parser.
* Within modelled parts: node contents, error wording, allocation, buffer
  capacities; documents beyond their symbol table, identifiers and depth.

## Plan

Every invariant and every refinement of a module without recursive operators has a
theorem, and every liveness property there has its measure. What would come next is
a larger model rather than a further proof: the liberal type names in `AngleTypes`,
which would show what the rewind at `parser/ty.rs:62` leaves pending, and the
versioned comments of MySQL in `LexedSource`.
