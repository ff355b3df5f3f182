-------------------------- MODULE SymbolInterner --------------------------
(***************************************************************************)
(* Symbols of identifiers, from the parse to a reloaded document           *)
(* (interner/mod.rs, parser/engine.rs, parser/parsed.rs).  Keywords own    *)
(* the low symbols; any other text is given the next one when first met.   *)
(* A token takes the interning path its kind selects, and every path must  *)
(* agree on a text.  Freezing drops the dedup map; a serialized root       *)
(* carries only the dynamic strings, and loading one rebuilds the table by *)
(* re-interning them, unless the document nests deeper than the caller's   *)
(* budget.  A consumer may build a table of folded identities.             *)
(***************************************************************************)
EXTENDS Integers, Sequences, FiniteSets, TLC

CONSTANTS
    Texts,          \* spellings of identifiers
    Keyword,        \* Keyword::ALL, the canonical spellings in slot order
    Lookup,         \* lookup_keyword: the slot of a spelling, 0 for None
    Fold,           \* fold_unquoted_identifier, per casing
    MaxStrings,     \* bound: dynamic symbols, and entries of a document
    MaxDepth        \* bound: nesting of a tree, and the budget of a load

(* A canonical spelling is looked up as its own keyword.                   *)
ASSUME KeywordAssumption ==
    /\ Keyword \in Seq(Texts)
    /\ Lookup \in [Texts -> 0..Len(Keyword)]
    /\ \A k \in 1..Len(Keyword) : Lookup[Keyword[k]] = k

Casings == {"lower", "upper", "preserve"}

ASSUME FoldAssumption == Fold \in [Casings -> [Texts -> Texts]]

ASSUME BoundAssumption == MaxStrings \in Nat /\ MaxDepth \in Nat

KeywordCount == Len(Keyword)

Symbol == 1..(KeywordCount + MaxStrings)

VARIABLES
    phase,      \* of the resolver in hand
    map,        \* Interner.map: text -> symbol
    strings,    \* Interner.strings, then FrozenResolver.strings
    idents,     \* the tree's identifiers, each with the text it stands for
    depth,      \* how deep that tree nests, as serde counts
    document,   \* a serialized root: its symbol table, its tree, its origin
    max_depth,  \* the budget of the last load (MaxDepth before the first)
    loaded,     \* entries of the document interned so far
    origin,     \* where the tables in hand come from
    folded      \* FoldedSymbols under construction, or complete

vars == <<phase, map, strings, idents, depth, document, max_depth, loaded, origin, folded>>

Phases == {"parsing", "frozen", "loading", "rejected"}

Origins == {"parse", "elsewhere"}

(* What a symbol outside the table stands for.                             *)
NoText == "no text"

ASSUME TextAssumption == NoText \notin Texts

Ident == [text : Texts \cup {NoText}, symbol : Symbol]

(* No side table has been asked for.                                       *)
Unfolded == [casing |-> "none", ids |-> <<>>, next_id |-> 1, folded |-> <<>>]

NoDocument == [symbols |-> <<>>, idents |-> {}, depth |-> 0, origin |-> "parse"]

Init ==
    /\ phase = "parsing"
    /\ map = <<>>
    /\ strings = <<>>
    /\ idents = {}
    /\ depth = 0
    /\ document = NoDocument
    /\ max_depth = MaxDepth
    /\ loaded = 0
    /\ origin = "parse"
    /\ folded = Unfolded
-----------------------------------------------------------------------------
(* resolve_symbol                                                          *)
Resolve(table, symbol) ==
    IF symbol <= KeywordCount THEN Keyword[symbol]
    ELSE IF symbol - KeywordCount <= Len(table) THEN table[symbol - KeywordCount]
    ELSE NoText

(* Mutant: a text met before is stored again.                              *)
InternDynamicAlways(text) ==
    /\ strings' = Append(strings, text)
    /\ map' = [t \in DOMAIN map \cup {text} |->
                  IF t = text THEN KeywordCount + Len(strings) + 1 ELSE map[t]]

(* intern_dynamic: what it does to the stores.  The next key overflowing   *)
(* u32 panics; MaxStrings stands for that limit.                           *)
InternDynamic(text) ==
    IF text \in DOMAIN map
    THEN UNCHANGED <<map, strings>>
    ELSE /\ strings' = Append(strings, text)
         /\ map' = [t \in DOMAIN map \cup {text} |->
                       IF t = text THEN KeywordCount + Len(strings) + 1 ELSE map[t]]

Fits(text) == text \in DOMAIN map \/ Len(strings) < MaxStrings

(* The identifier joins the tree with the symbol it was answered.          *)
Mint(text, symbol) ==
    /\ idents' = idents \cup {[text |-> text, symbol |-> symbol]}
    /\ UNCHANGED <<phase, depth, document, max_depth, loaded, origin, folded>>

Dynamic(text) ==
    /\ Fits(text)
    /\ InternDynamic(text)
    /\ Mint(text, map'[text])

Fixed(text, k) ==
    /\ Mint(text, k)
    /\ UNCHANGED <<map, strings>>

(* A word token: scan_word has looked it up and found no keyword.          *)
InternWord(text) ==
    /\ phase = "parsing"
    /\ Lookup[text] = 0
    /\ Dynamic(text)

(* intern_keyword_ident                                                    *)
KeywordIdent(kw, text) ==
    \/ /\ text = Keyword[kw]
       /\ Fixed(text, kw)
    \/ /\ text # Keyword[kw]
       /\ Dynamic(text)

(* A keyword token in identifier position.                                 *)
InternKeyword(text) ==
    /\ phase = "parsing"
    /\ Lookup[text] # 0
    /\ KeywordIdent(Lookup[text], text)

(* Mutant: the body of a quoted identifier skips the keyword check.        *)
InternUnchecked(text) == Dynamic(text)

(* intern                                                                  *)
Intern(text) ==
    \/ /\ Lookup[text] # 0
       /\ Keyword[Lookup[text]] = text
       /\ Fixed(text, Lookup[text])
    \/ /\ ~(Lookup[text] # 0 /\ Keyword[Lookup[text]] = text)
       /\ Dynamic(text)

(* intern_text: a quoted identifier, or a name carved out of a token.      *)
InternText(text) ==
    /\ phase = "parsing"
    /\ Intern(text)

(* The tree grows by a level.  An operator chain is folded in a loop, so   *)
(* that the recursion limit of the parser does not bound it.               *)
Nest ==
    /\ phase = "parsing"
    /\ depth < MaxDepth
    /\ depth' = depth + 1
    /\ UNCHANGED <<phase, map, strings, idents, document, max_depth, loaded, origin, folded>>

(* Interner::freeze                                                        *)
Freeze ==
    /\ phase = "parsing"
    /\ phase' = "frozen"
    /\ map' = <<>>
    /\ UNCHANGED <<strings, idents, depth, document, max_depth, loaded, origin, folded>>
-----------------------------------------------------------------------------
(* Parsed::serialize, into a document that replaces the one in hand.       *)
Serialize ==
    /\ phase = "frozen"
    /\ document' = [symbols |-> strings, idents |-> idents, depth |-> depth, origin |-> origin]
    /\ UNCHANGED <<phase, map, strings, idents, depth, max_depth, loaded, origin, folded>>

(* A document from elsewhere: its identifiers stand for what its own table *)
(* says, which for a symbol past the table is nothing.                     *)
Receive ==
    /\ phase = "frozen"
    /\ document = NoDocument
    /\ \E n \in 0..MaxStrings, s \in Symbol, d \in 0..MaxDepth : \E table \in [1..n -> Texts] :
           document' = [symbols |-> table,
                        idents |-> {[text |-> Resolve(table, s), symbol |-> s]},
                        depth |-> d, origin |-> "elsewhere"]
    /\ UNCHANGED <<phase, map, strings, idents, depth, max_depth, loaded, origin, folded>>

(* DepthLimited: each level of the document spends one of the budget.      *)
WithinDepth(budget) == document.depth <= budget

(* deserialize_with_depth begins: the document is read before anything is  *)
(* interned, and one that nests past the budget goes no further.  After a  *)
(* refusal the caller still has the document, to load it with a larger.    *)
Deserialize(budget) ==
    /\ phase \in {"frozen", "rejected"}
    /\ document # NoDocument
    /\ phase' = IF WithinDepth(budget) THEN "loading" ELSE "rejected"
    /\ max_depth' = budget
    /\ map' = <<>>
    /\ strings' = <<>>
    /\ idents' = document.idents
    /\ depth' = document.depth
    /\ loaded' = 0
    /\ origin' = document.origin
    /\ folded' = Unfolded
    /\ UNCHANGED document

(* One turn of its loop: intern_nonkeyword.                                *)
LoadEntry ==
    /\ phase = "loading"
    /\ loaded < Len(document.symbols)
    /\ InternDynamic(document.symbols[loaded + 1])
    /\ loaded' = loaded + 1
    /\ UNCHANGED <<phase, idents, depth, document, max_depth, origin, folded>>

(* Mutant: a shorter table than declared is accepted.                      *)
ValidAnyLength ==
    \A i \in document.idents : Resolve(strings, i.symbol) # NoText

(* Mutant: the fixed keyword slots are not counted as part of the table.   *)
ValidDynamicOnly ==
    /\ Len(strings) = Len(document.symbols)
    /\ \A i \in document.idents : i.symbol - KeywordCount \in 1..Len(strings)

(* No entry collapsed into an earlier one, and DocumentValidator finds     *)
(* every symbol of the tree in the table.                                  *)
Valid ==
    /\ Len(strings) = Len(document.symbols)
    /\ \A i \in document.idents : Resolve(strings, i.symbol) # NoText

Loaded == phase = "loading" /\ loaded = Len(document.symbols)

LoadAccepts ==
    /\ Loaded
    /\ Valid
    /\ phase' = "frozen"
    /\ map' = <<>>
    /\ UNCHANGED <<strings, idents, depth, document, max_depth, loaded, origin, folded>>

LoadRejects ==
    /\ Loaded
    /\ ~Valid
    /\ phase' = "rejected"
    /\ map' = <<>>
    /\ UNCHANGED <<strings, idents, depth, document, max_depth, loaded, origin, folded>>
-----------------------------------------------------------------------------
(* FoldedSymbols::build begins, for the casing of a dialect.               *)
FoldSymbols(casing) ==
    /\ phase = "frozen"
    /\ folded = Unfolded
    /\ folded' = [Unfolded EXCEPT !.casing = casing]
    /\ UNCHANGED <<phase, map, strings, idents, depth, document, max_depth, loaded, origin>>

FoldKey(symbol) == Fold[folded.casing][Resolve(strings, symbol)]

(* Mutant: a spelling is given a new identity unless the last one had it.  *)
FoldedWithNextIgnoringIds(key) ==
    [folded EXCEPT
        !.ids = [k \in DOMAIN @ \cup {key} |-> IF k = key THEN folded.next_id ELSE @[k]],
        !.next_id = @ + 1,
        !.folded = Append(@, folded.next_id)]

(* The entry API: the identity of a folded spelling met before, or a new.  *)
FoldedWithNext(key) ==
    IF key \in DOMAIN folded.ids
    THEN [folded EXCEPT !.folded = Append(@, folded.ids[key])]
    ELSE [folded EXCEPT
             !.ids = [k \in DOMAIN @ \cup {key} |-> IF k = key THEN folded.next_id ELSE @[k]],
             !.next_id = @ + 1,
             !.folded = Append(@, folded.next_id)]

(* One turn of its loop over every symbol, keywords first.                 *)
FoldNext ==
    /\ phase = "frozen"
    /\ folded.casing # "none"
    /\ Len(folded.folded) < KeywordCount + Len(strings)
    /\ folded' = FoldedWithNext(FoldKey(Len(folded.folded) + 1))
    /\ UNCHANGED <<phase, map, strings, idents, depth, document, max_depth, loaded, origin>>
-----------------------------------------------------------------------------
Next ==
    \/ \E text \in Texts : InternWord(text)
    \/ \E text \in Texts : InternKeyword(text)
    \/ \E text \in Texts : InternText(text)
    \/ Nest
    \/ Freeze
    \/ Serialize
    \/ Receive
    \/ \E budget \in 0..MaxDepth : Deserialize(budget)
    \/ LoadEntry
    \/ LoadAccepts
    \/ LoadRejects
    \/ \E casing \in Casings : FoldSymbols(casing)
    \/ FoldNext

Spec == Init /\ [][Next]_vars
-----------------------------------------------------------------------------
(* The stores keep their types; a rejected or frozen table has no map.     *)
TypeOK ==
    /\ phase \in Phases
    /\ DOMAIN map \subseteq Texts
    /\ map \in [DOMAIN map -> Symbol]
    /\ phase \in {"frozen", "rejected"} => map = <<>>
    /\ strings \in Seq(Texts) /\ Len(strings) <= MaxStrings
    /\ idents \subseteq Ident
    /\ depth \in 0..MaxDepth
    /\ document.symbols \in Seq(Texts) /\ Len(document.symbols) <= MaxStrings
    /\ document.idents \subseteq Ident
    /\ document.depth \in 0..MaxDepth
    /\ document.origin \in Origins
    /\ max_depth \in 0..MaxDepth
    /\ loaded \in 0..MaxStrings
    /\ origin \in Origins
    /\ folded.casing \in Casings \cup {"none"}
    /\ folded.next_id \in Nat \ {0}
    /\ folded.folded \in Seq(Nat \ {0})

(* Every symbol of a tree in use resolves, and to the text it was minted   *)
(* or written for: while later identifiers are interned, after the map is  *)
(* dropped, after a round trip through a document, and in any document     *)
(* that is accepted, whoever wrote it (resolve_symbol, freeze,             *)
(* deserialize_with_depth).                                                *)
ResolvesToSource ==
    phase \in {"parsing", "frozen"} =>
        \A i \in idents : i.text # NoText /\ Resolve(strings, i.symbol) = i.text

(* A tree in hand is sound: the stores have their types, and every symbol  *)
(* of it stands for the text it was made from.                             *)
StoreSound == TypeOK /\ ResolvesToSource

(* Whichever path a text took (word, keyword in any case, quoted), it has  *)
(* one symbol, and no other text has it: identity is an integer compare    *)
(* (intern, intern_nonkeyword, intern_keyword_ident).                      *)
SameTextSameSymbol ==
    origin = "parse" =>
        \A i, j \in idents : i.text = j.text <=> i.symbol = j.symbol

(***************************************************************************)
(* What this parser wrote, any number of times over, is refused on loading *)
(* for its depth and for nothing else: exactly when it nests past the      *)
(* budget of that load, so that a larger one takes it.  The checks for     *)
(* duplicate entries and absent symbols never strike it                    *)
(* (deserialize_with_depth, which documents the asymmetry).                *)
(***************************************************************************)
OwnDocumentsLoad == origin = "parse" => (phase = "rejected" <=> depth > max_depth)

(***************************************************************************)
(* Symbol equality misjudges texts in one case only.  Where two symbols of *)
(* a table resolve to one text, one of them is the fixed slot of that      *)
(* keyword, and the table was loaded from a document that lists the        *)
(* canonical spelling, which no parse does and which intern_nonkeyword     *)
(* asks its caller to rule out: two dynamic entries never agree, whoever   *)
(* wrote them (intern_dynamic, the length check of deserialize_with_depth).*)
(***************************************************************************)
TwinsAreKeywords ==
    phase = "frozen" =>
        \A s, t \in 1..(KeywordCount + Len(strings)) :
            (s < t /\ Resolve(strings, s) = Resolve(strings, t))
                => s <= KeywordCount /\ KeywordCount < t /\ origin = "elsewhere"

(* Two symbols share a folded identity exactly when their texts fold       *)
(* equal, at every point of the build (FoldedSymbols::build).              *)
FoldedIdentity ==
    phase = "frozen" =>
        \A s, t \in 1..Len(folded.folded) :
            folded.folded[s] = folded.folded[t] <=> FoldKey(s) = FoldKey(t)
=============================================================================
