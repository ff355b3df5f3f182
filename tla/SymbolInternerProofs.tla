----------------------- MODULE SymbolInternerProofs -----------------------
(***************************************************************************)
(* Proofs about SymbolInterner, for every keyword list, every folding and  *)
(* every number of symbols.  What holds of the map and the strings while   *)
(* interning is kept apart from what holds of the tree, the document and   *)
(* the loop that loads it.                                                 *)
(***************************************************************************)
EXTENDS SymbolInterner, TLAPS, SequenceTheorems

K == KeywordCount

(* The spelling a keyword's fixed slot resolves to.                        *)
Canonical(t) == Lookup[t] # 0 /\ Keyword[Lookup[t]] = t

Distinct(table) ==
    \A i, j \in 1..Len(table) : table[i] = table[j] => i = j

NoneCanonical(table) == \A i \in 1..Len(table) : ~Canonical(table[i])

(* The map is the inverse of the strings.                                  *)
MapInverts(m, table) ==
    /\ \A t \in DOMAIN m : m[t] - K \in 1..Len(table) /\ table[m[t] - K] = t
    /\ \A i \in 1..Len(table) : table[i] \in DOMAIN m /\ m[table[i]] = K + i

Extends(a, b) == Len(a) <= Len(b) /\ \A i \in 1..Len(a) : b[i] = a[i]

(* Every identifier of a tree resolves in a table to its own text.         *)
Resolved(tree, table) == \A i \in tree : Resolve(table, i.symbol) = i.text

AllMeant(tree) == \A i \in tree : i.text # NoText

StoreInv ==
    /\ phase \in {"parsing", "loading"} => MapInverts(map, strings)
    /\ Distinct(strings)
    /\ origin = "parse" => NoneCanonical(strings)

TreeInv == phase \in {"parsing", "frozen"} => Resolved(idents, strings) /\ AllMeant(idents)

DocumentInv ==
    /\ Resolved(document.idents, document.symbols)
    /\ document.origin = "parse" =>
           /\ Distinct(document.symbols)
           /\ NoneCanonical(document.symbols)
           /\ AllMeant(document.idents)

LoadInv ==
    /\ phase = "loading" =>
           /\ idents = document.idents
           /\ origin = document.origin
           /\ Len(strings) <= loaded
           /\ loaded <= Len(document.symbols)
           /\ Len(strings) = loaded => \A i \in 1..loaded : strings[i] = document.symbols[i]
           /\ origin = "parse" => Len(strings) = loaded
    /\ phase = "rejected" =>
           /\ idents = document.idents
           /\ origin = document.origin
           /\ origin = "parse" => depth > max_depth
    /\ phase # "rejected" => depth <= max_depth
    /\ phase = "parsing" => max_depth = MaxDepth

(* The folded table so far is what the build's map says of each symbol.    *)
FoldInv ==
    /\ folded = [casing |-> folded.casing, ids |-> folded.ids,
                 next_id |-> folded.next_id, folded |-> folded.folded]
    /\ phase # "frozen" => folded = Unfolded
    /\ folded.casing = "none" => folded = Unfolded
    /\ \A s \in 1..Len(folded.folded) :
           /\ FoldKey(s) \in DOMAIN folded.ids
           /\ folded.folded[s] = folded.ids[FoldKey(s)]
    /\ Len(folded.folded) <= K + Len(strings)
    /\ \A k \in DOMAIN folded.ids :
           folded.ids[k] \in Nat \ {0} /\ folded.ids[k] < folded.next_id
    /\ \A k, l \in DOMAIN folded.ids : folded.ids[k] = folded.ids[l] => k = l

IInv == TypeOK /\ StoreInv /\ TreeInv /\ DocumentInv /\ LoadInv /\ FoldInv
-----------------------------------------------------------------------------
(* Keyword slots resolve to canonical spellings.                         *)
LEMMA KeywordFacts ==
    /\ K \in Nat
    /\ \A k \in 1..K : Keyword[k] \in Texts /\ Lookup[Keyword[k]] = k
    /\ \A k \in 1..K : Canonical(Keyword[k])
    /\ \A t \in Texts : Lookup[t] \in 0..K
    /\ Symbol = 1..(K + MaxStrings)
    /\ MaxStrings \in Nat /\ MaxDepth \in Nat
  BY KeywordAssumption, BoundAssumption DEF K, KeywordCount, Canonical, Symbol

(* What the resolver answers in each of its three cases.                   *)
LEMMA ResolveCases ==
    ASSUME NEW a \in Seq(Texts), NEW s \in Symbol
    PROVE  /\ s <= K => Resolve(a, s) = Keyword[s] /\ Resolve(a, s) \in Texts
           /\ s > K /\ s - K <= Len(a) => Resolve(a, s) = a[s - K] /\ Resolve(a, s) \in Texts
           /\ s > K /\ s - K > Len(a) => Resolve(a, s) = NoText
  <1>1. K \in Nat /\ Len(a) \in Nat /\ s \in Nat /\ s >= 1
    BY KeywordFacts
  <1>2. CASE s <= K
    BY <1>1, <1>2, KeywordFacts DEF Resolve, K
  <1>3. CASE s > K /\ s - K <= Len(a)
    <2>1. a[s - K] \in Texts
      BY <1>1, <1>3, ElementOfSeq
    <2> QED
      BY <1>1, <1>3, <2>1 DEF Resolve, K
  <1>4. CASE s > K /\ s - K > Len(a)
    BY <1>1, <1>4 DEF Resolve, K
  <1> QED
    BY <1>1, <1>2, <1>3, <1>4

(* A table that grows goes on resolving what it resolved.                  *)
LEMMA ResolveExtends ==
    ASSUME NEW a \in Seq(Texts), NEW b \in Seq(Texts), Extends(a, b),
           NEW s \in Symbol, Resolve(a, s) # NoText
    PROVE  Resolve(b, s) = Resolve(a, s)
  <1>1. K \in Nat /\ Len(a) \in Nat /\ Len(b) \in Nat /\ s \in Nat /\ s >= 1
    BY KeywordFacts
  <1>2. CASE s <= K
    BY <1>2, ResolveCases
  <1>3. CASE s > K
    <2>1. s - K <= Len(a)
      BY <1>1, <1>3, ResolveCases
    <2>2. s - K <= Len(b) /\ b[s - K] = a[s - K]
      BY <1>1, <1>3, <2>1 DEF Extends
    <2> QED
      BY <1>3, <2>1, <2>2, ResolveCases
  <1> QED
    BY <1>1, <1>2, <1>3

(* In a table without repetitions and canonical spellings no two symbols   *)
(* resolve to one text.                                                    *)
LEMMA ResolveInjective ==
    ASSUME NEW a \in Seq(Texts), Distinct(a), NoneCanonical(a),
           NEW s \in Symbol, NEW t \in Symbol,
           Resolve(a, s) = Resolve(a, t), Resolve(a, s) # NoText
    PROVE  s = t
  <1>1. /\ K \in Nat /\ Len(a) \in Nat
        /\ s \in Nat /\ s >= 1 /\ t \in Nat /\ t >= 1
    BY KeywordFacts
  <1>2. CASE s <= K /\ t <= K
    BY <1>1, <1>2, ResolveCases, KeywordFacts
  <1>3. CASE s <= K /\ t > K
    <2>1. t - K \in 1..Len(a) /\ a[t - K] = Keyword[s]
      BY <1>1, <1>3, ResolveCases
    <2> QED
      BY <1>1, <1>3, <2>1, KeywordFacts DEF NoneCanonical
  <1>4. CASE s > K /\ t <= K
    <2>1. s - K \in 1..Len(a) /\ a[s - K] = Keyword[t]
      BY <1>1, <1>4, ResolveCases
    <2>2. Canonical(Keyword[t])
      BY <1>1, <1>4, KeywordFacts
    <2> QED
      BY <2>1, <2>2 DEF NoneCanonical
  <1>5. CASE s > K /\ t > K
    <2>1. s - K \in 1..Len(a) /\ t - K \in 1..Len(a) /\ a[s - K] = a[t - K]
      BY <1>1, <1>5, ResolveCases
    <2> QED
      BY <1>1, <2>1 DEF Distinct
  <1> QED
    BY <1>1, <1>2, <1>3, <1>4, <1>5

(* What appending a new text does to the stores.                           *)
LEMMA InternDynamicStores ==
    ASSUME strings \in Seq(Texts), DOMAIN map \subseteq Texts,
           map \in [DOMAIN map -> Symbol], Len(strings) <= MaxStrings,
           MapInverts(map, strings),
           NEW text \in Texts, Fits(text), InternDynamic(text)
    PROVE  /\ strings' \in Seq(Texts) /\ Len(strings') <= MaxStrings
           /\ DOMAIN map' \subseteq Texts /\ map' \in [DOMAIN map' -> Symbol]
           /\ MapInverts(map', strings')
           /\ Extends(strings, strings')
           /\ text \in DOMAIN map'
           /\ \A i \in 1..Len(strings') : i > Len(strings) => strings'[i] = text
           /\ text \in DOMAIN map => strings' = strings
           /\ text \notin DOMAIN map =>
                  Len(strings') = Len(strings) + 1 /\ strings'[Len(strings) + 1] = text
  <1>0. K \in Nat /\ Len(strings) \in Nat /\ MaxStrings \in Nat
    BY KeywordFacts
  <1>1. CASE text \in DOMAIN map
    <2>1. map' = map /\ strings' = strings
      BY <1>1 DEF InternDynamic
    <2> QED
      BY <1>0, <1>1, <2>1 DEF Extends
  <1>2. CASE text \notin DOMAIN map
    <2> DEFINE n == Len(strings) + 1
    <2> DEFINE new == [t \in DOMAIN map \cup {text} |->
                   IF t = text THEN K + Len(strings) + 1 ELSE map[t]]
    <2>1. strings' = Append(strings, text) /\ n <= MaxStrings /\ n \in Nat
      BY <1>0, <1>2 DEF InternDynamic, Fits
    <2>2. map' = new
      BY <1>2 DEF InternDynamic, K
    <2>3. /\ strings' \in Seq(Texts) /\ Len(strings') = n /\ strings'[n] = text
          /\ \A i \in 1..Len(strings) : strings'[i] = strings[i]
      BY <1>0, <2>1
    <2>4. DOMAIN map' = DOMAIN map \cup {text} /\ map'[text] = K + n
      BY <1>0, <2>2
    <2>5. \A t \in DOMAIN map : t # text /\ map'[t] = map[t]
      BY <1>2, <2>2
    <2>6. K + n \in Symbol
      BY <1>0, <2>1, KeywordFacts
    <2>7. map' \in [DOMAIN map' -> Symbol]
      BY <1>0, <2>2, <2>4, <2>5, <2>6
    <2>8. \A t \in DOMAIN map' : map'[t] - K \in 1..Len(strings') /\ strings'[map'[t] - K] = t
      <3> SUFFICES ASSUME NEW t \in DOMAIN map'
                   PROVE  map'[t] - K \in 1..Len(strings') /\ strings'[map'[t] - K] = t
        OBVIOUS
      <3>1. CASE t = text
        BY <1>0, <2>1, <2>3, <2>4, <3>1
      <3>2. CASE t \in DOMAIN map
        <4>1. map[t] - K \in 1..Len(strings) /\ strings[map[t] - K] = t
          BY <3>2 DEF MapInverts
        <4>2. map[t] \in Nat
          BY <3>2, KeywordFacts
        <4> QED
          BY <1>0, <2>1, <2>3, <2>5, <3>2, <4>1, <4>2
      <3> QED
        BY <2>4, <3>1, <3>2
    <2>9. \A i \in 1..Len(strings') : strings'[i] \in DOMAIN map' /\ map'[strings'[i]] = K + i
      <3> SUFFICES ASSUME NEW i \in 1..Len(strings')
                   PROVE  strings'[i] \in DOMAIN map' /\ map'[strings'[i]] = K + i
        OBVIOUS
      <3>1. CASE i = n
        BY <2>3, <2>4, <3>1
      <3>2. CASE i \in 1..Len(strings)
        BY <2>3, <2>4, <2>5, <3>2 DEF MapInverts
      <3> QED
        BY <1>0, <2>1, <2>3, <3>1, <3>2
    <2>10. MapInverts(map', strings')
      BY <2>8, <2>9 DEF MapInverts
    <2>11. Extends(strings, strings')
      BY <1>0, <2>1, <2>3 DEF Extends
    <2>12. \A i \in 1..Len(strings') : i > Len(strings) => strings'[i] = text
      BY <1>0, <2>1, <2>3
    <2> HIDE DEF new
    <2> QED
      BY <1>2, <2>1, <2>3, <2>4, <2>7, <2>10, <2>11, <2>12
  <1> QED
    BY <1>1, <1>2

(* An inverted table has no repetition.                                    *)
LEMMA InvertedIsDistinct ==
    ASSUME NEW m, NEW table \in Seq(Texts), MapInverts(m, table)
    PROVE  Distinct(table)
  BY KeywordFacts DEF MapInverts, Distinct

(* A longer table resolves what a shorter one did.                       *)
LEMMA ExtendsKeepsResolved ==
    ASSUME NEW a \in Seq(Texts), NEW b \in Seq(Texts), Extends(a, b),
           NEW tree \in SUBSET Ident, Resolved(tree, a), AllMeant(tree)
    PROVE  Resolved(tree, b)
  BY ResolveExtends DEF Resolved, AllMeant, Ident
-----------------------------------------------------------------------------
(* A new interner is empty.                                              *)
LEMMA InitInv == Init => IInv
  <1> SUFFICES ASSUME Init PROVE IInv
    OBVIOUS
  <1> USE DEF Init
  <1>0. K \in Nat /\ MaxStrings \in Nat /\ MaxDepth \in Nat
    BY KeywordFacts
  <1>1. TypeOK
    BY <1>0 DEF TypeOK, Phases, Origins, NoDocument, Unfolded
  <1>2. StoreInv
    BY DEF StoreInv, MapInverts, Distinct, NoneCanonical
  <1>3. TreeInv /\ DocumentInv /\ LoadInv
    BY <1>0 DEF TreeInv, DocumentInv, LoadInv, NoDocument, Resolved, AllMeant, Distinct, NoneCanonical
  <1>4. FoldInv
    BY <1>0 DEF FoldInv, Unfolded
  <1> QED
    BY <1>1, <1>2, <1>3, <1>4 DEF IInv

(* A text that is no canonical spelling is interned.                       *)
LEMMA DynamicStep ==
    ASSUME IInv, phase = "parsing", NEW text \in Texts, ~Canonical(text), Dynamic(text)
    PROVE  IInv'
  <1> DEFINE id == [text |-> text, symbol |-> map'[text]]
  <1>0. /\ UNCHANGED <<phase, depth, document, max_depth, loaded, origin, folded>>
        /\ idents' = idents \cup {id}
    BY DEF Dynamic, Mint
  <1>1. /\ strings' \in Seq(Texts) /\ Len(strings') <= MaxStrings
        /\ DOMAIN map' \subseteq Texts /\ map' \in [DOMAIN map' -> Symbol]
        /\ MapInverts(map', strings')
        /\ Extends(strings, strings')
        /\ text \in DOMAIN map'
        /\ \A i \in 1..Len(strings') : i > Len(strings) => strings'[i] = text
    <2>1. /\ strings \in Seq(Texts) /\ DOMAIN map \subseteq Texts
          /\ map \in [DOMAIN map -> Symbol] /\ Len(strings) <= MaxStrings
          /\ MapInverts(map, strings) /\ Fits(text) /\ InternDynamic(text)
      BY DEF IInv, TypeOK, StoreInv, Dynamic
    <2> QED
      BY <2>1, InternDynamicStores
  <1>2. map'[text] \in Symbol /\ Resolve(strings', map'[text]) = text /\ text # NoText
    <2>1. map'[text] \in Symbol /\ map'[text] - K \in 1..Len(strings')
                                /\ strings'[map'[text] - K] = text
      BY <1>1 DEF MapInverts
    <2>2. map'[text] \in Nat /\ K \in Nat /\ Len(strings') \in Nat
      BY <1>1, <2>1, KeywordFacts
    <2>3. map'[text] > K /\ map'[text] - K <= Len(strings')
      BY <2>1, <2>2
    <2> QED
      BY <1>1, <2>1, <2>3, ResolveCases, TextAssumption
  <1>3. id \in Ident
    BY <1>2 DEF Ident
  <1>4. TypeOK'
    BY <1>0, <1>1, <1>3 DEF IInv, TypeOK
  <1>5. StoreInv'
    <2>1. Distinct(strings')
      BY <1>1, InvertedIsDistinct
    <2>2. origin = "parse" => NoneCanonical(strings')
      <3>1. Len(strings) \in Nat /\ Len(strings') \in Nat
        BY <1>1 DEF IInv, TypeOK
      <3> QED
        BY <1>1, <3>1 DEF IInv, StoreInv, NoneCanonical, Extends
    <2> QED
      BY <1>0, <1>1, <2>1, <2>2 DEF StoreInv
  <1>6. TreeInv'
    <2>1. Resolved(idents, strings) /\ AllMeant(idents) /\ idents \in SUBSET Ident
          /\ strings \in Seq(Texts)
      BY DEF IInv, TypeOK, TreeInv
    <2>2. Resolved(idents, strings')
      BY <1>1, <2>1, ExtendsKeepsResolved
    <2> QED
      BY <1>0, <1>2, <2>1, <2>2 DEF TreeInv, Resolved, AllMeant
  <1>7. DocumentInv' /\ LoadInv'
    BY <1>0 DEF IInv, DocumentInv, LoadInv
  <1>8. FoldInv'
    <2>1. folded = Unfolded /\ folded' = Unfolded /\ phase' = "parsing"
      BY <1>0 DEF IInv, FoldInv
    <2>2. Len(strings') \in Nat /\ K \in Nat
      BY <1>1, KeywordFacts
    <2> QED
      BY <2>1, <2>2 DEF FoldInv, Unfolded
  <1> QED
    BY <1>4, <1>5, <1>6, <1>7, <1>8 DEF IInv

(* A canonical spelling keeps its keyword's slot.                          *)
LEMMA FixedStep ==
    ASSUME IInv, phase = "parsing", NEW k \in 1..K, Fixed(Keyword[k], k)
    PROVE  IInv'
  <1> DEFINE id == [text |-> Keyword[k], symbol |-> k]
  <1>0. /\ UNCHANGED <<phase, map, strings, depth, document, max_depth, loaded, origin, folded>>
        /\ idents' = idents \cup {id}
    BY DEF Fixed, Mint
  <1>1. k \in Symbol /\ Keyword[k] \in Texts /\ Keyword[k] # NoText /\ k <= K
    BY KeywordFacts, TextAssumption
  <1>2. strings \in Seq(Texts) /\ Resolve(strings, k) = Keyword[k]
    <2>1. strings \in Seq(Texts)
      BY DEF IInv, TypeOK
    <2> QED
      BY <1>1, <2>1, ResolveCases
  <1>3. TypeOK'
    <2>1. id \in Ident
      BY <1>1 DEF Ident
    <2> QED
      BY <1>0, <2>1 DEF IInv, TypeOK
  <1>4. TreeInv'
    BY <1>0, <1>1, <1>2 DEF IInv, TreeInv, Resolved, AllMeant
  <1>5. StoreInv' /\ DocumentInv' /\ LoadInv'
    BY <1>0 DEF IInv, StoreInv, DocumentInv, LoadInv
  <1>6. FoldInv'
    BY <1>0 DEF IInv, FoldInv, FoldKey
  <1> QED
    BY <1>3, <1>4, <1>5, <1>6 DEF IInv

(* A word that is no keyword is interned without a keyword lookup.       *)
LEMMA InternWordStep ==
    ASSUME IInv, NEW text \in Texts, InternWord(text)
    PROVE  IInv'
  <1>1. phase = "parsing" /\ ~Canonical(text) /\ Dynamic(text)
    BY DEF InternWord, Canonical
  <1> QED
    BY <1>1, DynamicStep

(* A keyword token in its canonical spelling takes its fixed slot.       *)
LEMMA InternKeywordStep ==
    ASSUME IInv, NEW text \in Texts, InternKeyword(text)
    PROVE  IInv'
  <1> DEFINE kw == Lookup[text]
  <1>1. phase = "parsing" /\ kw \in 1..K /\ KeywordIdent(kw, text)
    BY KeywordFacts DEF InternKeyword
  <1>2. CASE text = Keyword[kw] /\ Fixed(text, kw)
    BY <1>1, <1>2, FixedStep
  <1>3. CASE text # Keyword[kw] /\ Dynamic(text)
    <2>1. ~Canonical(text)
      BY <1>3 DEF Canonical
    <2> QED
      BY <1>1, <1>3, <2>1, DynamicStep
  <1> QED
    BY <1>1, <1>2, <1>3 DEF KeywordIdent

(* A text of any kind takes the path that looks everything up.           *)
LEMMA InternTextStep ==
    ASSUME IInv, NEW text \in Texts, InternText(text)
    PROVE  IInv'
  <1> DEFINE kw == Lookup[text]
  <1>1. phase = "parsing" /\ Intern(text) /\ kw \in 0..K /\ K \in Nat
    BY KeywordFacts DEF InternText
  <1>2. CASE kw # 0 /\ Keyword[kw] = text /\ Fixed(text, kw)
    <2>1. kw \in 1..K
      BY <1>1, <1>2
    <2> QED
      BY <1>1, <1>2, <2>1, FixedStep
  <1>3. CASE ~Canonical(text) /\ Dynamic(text)
    BY <1>1, <1>3, DynamicStep
  <1> QED
    BY <1>1, <1>2, <1>3 DEF Intern, Canonical

(* A deeper tree has the same identifiers.                                 *)
LEMMA NestStep ==
    ASSUME IInv, Nest
    PROVE  IInv'
  <1>0. /\ phase = "parsing" /\ depth < MaxDepth /\ depth' = depth + 1
        /\ UNCHANGED <<phase, map, strings, idents, document, max_depth, loaded, origin, folded>>
    BY DEF Nest
  <1>1. depth \in 0..MaxDepth /\ MaxDepth \in Nat
    BY KeywordFacts DEF IInv, TypeOK
  <1>2. TypeOK'
    BY <1>0, <1>1 DEF IInv, TypeOK
  <1>3. LoadInv'
    BY <1>0, <1>1 DEF IInv, LoadInv
  <1>4. StoreInv' /\ TreeInv' /\ DocumentInv'
    BY <1>0 DEF IInv, StoreInv, TreeInv, DocumentInv
  <1>5. FoldInv'
    BY <1>0 DEF IInv, FoldInv, FoldKey
  <1> QED
    BY <1>2, <1>3, <1>4, <1>5 DEF IInv

(* Freezing drops the map and keeps the strings.                         *)
LEMMA FreezeStep ==
    ASSUME IInv, Freeze
    PROVE  IInv'
  <1> USE DEF Freeze, IInv
  <1>1. TypeOK'
    BY DEF TypeOK, Phases
  <1>2. StoreInv' /\ TreeInv' /\ DocumentInv' /\ LoadInv'
    BY DEF StoreInv, TreeInv, DocumentInv, LoadInv
  <1>3. FoldInv'
    BY DEF FoldInv, FoldKey
  <1> QED
    BY <1>1, <1>2, <1>3

(* A saved document carries the strings in symbol order.                 *)
LEMMA SerializeStep ==
    ASSUME IInv, Serialize
    PROVE  IInv'
  <1> USE DEF Serialize, IInv
  <1>1. TypeOK'
    BY DEF TypeOK
  <1>2. StoreInv' /\ TreeInv' /\ LoadInv'
    BY DEF StoreInv, TreeInv, LoadInv
  <1>3. DocumentInv'
    BY DEF DocumentInv, TreeInv, StoreInv
  <1>4. FoldInv'
    BY DEF FoldInv, FoldKey
  <1> QED
    BY <1>1, <1>2, <1>3, <1>4

(* A document from elsewhere may be anything.                            *)
LEMMA ReceiveStep ==
    ASSUME IInv, Receive
    PROVE  IInv'
  <1>1. PICK n \in 0..MaxStrings, s \in Symbol, d \in 0..MaxDepth : \E table \in [1..n -> Texts] :
           document' = [symbols |-> table,
                        idents |-> {[text |-> Resolve(table, s), symbol |-> s]},
                        depth |-> d, origin |-> "elsewhere"]
    BY DEF Receive
  <1>2. PICK table \in [1..n -> Texts] :
           document' = [symbols |-> table,
                        idents |-> {[text |-> Resolve(table, s), symbol |-> s]},
                        depth |-> d, origin |-> "elsewhere"]
    BY <1>1
  <1>3. phase = "frozen" /\ UNCHANGED <<phase, map, strings, idents, depth, max_depth, loaded, origin, folded>>
    BY DEF Receive
  <1>4. n \in Nat /\ n <= MaxStrings
    BY KeywordFacts
  <1>5. table \in Seq(Texts) /\ Len(table) = n
    BY <1>4
  <1>6. Resolve(table, s) \in Texts \cup {NoText}
    <2>1. K \in Nat /\ s \in Nat /\ Len(table) \in Nat
      BY <1>5, KeywordFacts
    <2> QED
      BY <1>5, <2>1, ResolveCases
  <1>7. [text |-> Resolve(table, s), symbol |-> s] \in Ident
    BY <1>6 DEF Ident
  <1>8. TypeOK'
    BY <1>2, <1>3, <1>4, <1>5, <1>7 DEF IInv, TypeOK, Origins
  <1>9. DocumentInv'
    BY <1>2 DEF DocumentInv, Resolved
  <1>10. StoreInv' /\ TreeInv' /\ LoadInv'
    BY <1>3 DEF IInv, StoreInv, TreeInv, LoadInv
  <1>11. FoldInv'
    BY <1>3 DEF IInv, FoldInv, FoldKey
  <1> QED
    BY <1>8, <1>9, <1>10, <1>11 DEF IInv

(* Loading starts from an empty interner.                                *)
LEMMA DeserializeStep ==
    ASSUME IInv, NEW budget \in 0..MaxDepth, Deserialize(budget)
    PROVE  IInv'
  <1> USE DEF Deserialize
  <1>0. K \in Nat /\ MaxStrings \in Nat /\ MaxDepth \in Nat
    BY KeywordFacts
  <1>1. TypeOK'
    BY <1>0 DEF IInv, TypeOK, Phases, Unfolded
  <1>2. StoreInv'
    BY DEF StoreInv, MapInverts, Distinct, NoneCanonical
  <1>3. DocumentInv' /\ TreeInv'
    BY DEF IInv, DocumentInv, TreeInv
  <1>4. LoadInv'
    <2>1. Len(document.symbols) \in Nat /\ document.depth \in Nat /\ budget \in Nat
      BY <1>0 DEF IInv, TypeOK
    <2> QED
      BY <2>1 DEF LoadInv, WithinDepth
  <1>5. FoldInv'
    BY <1>0 DEF FoldInv, Unfolded
  <1> QED
    BY <1>1, <1>2, <1>3, <1>4, <1>5 DEF IInv

(* An entry is given the next symbol, or an earlier one's if it repeats. *)
LEMMA LoadEntryStep ==
    ASSUME IInv, LoadEntry
    PROVE  IInv'
  <1> DEFINE text == document.symbols[loaded + 1]
  <1>0. /\ phase = "loading" /\ loaded < Len(document.symbols)
        /\ InternDynamic(text) /\ loaded' = loaded + 1
        /\ UNCHANGED <<phase, idents, depth, document, max_depth, origin, folded>>
    BY DEF LoadEntry
  <1>1. /\ strings \in Seq(Texts) /\ Len(strings) \in Nat /\ Len(strings) <= MaxStrings
        /\ DOMAIN map \subseteq Texts /\ map \in [DOMAIN map -> Symbol]
        /\ document.symbols \in Seq(Texts) /\ Len(document.symbols) \in Nat
        /\ Len(document.symbols) <= MaxStrings /\ loaded \in Nat
        /\ MaxStrings \in Nat
    BY KeywordFacts DEF IInv, TypeOK
  <1>2. /\ MapInverts(map, strings)
        /\ idents = document.idents /\ origin = document.origin
        /\ Len(strings) <= loaded
        /\ Len(strings) = loaded => \A i \in 1..loaded : strings[i] = document.symbols[i]
        /\ origin = "parse" => Len(strings) = loaded
        /\ depth <= max_depth
    BY <1>0 DEF IInv, StoreInv, LoadInv
  <1>3. text \in Texts /\ loaded + 1 \in 1..Len(document.symbols)
    BY <1>0, <1>1, ElementOfSeq
  <1>4. Fits(text)
    BY <1>0, <1>1, <1>2 DEF Fits
  <1> HIDE DEF text
  <1>5. /\ strings' \in Seq(Texts) /\ Len(strings') <= MaxStrings
        /\ DOMAIN map' \subseteq Texts /\ map' \in [DOMAIN map' -> Symbol]
        /\ MapInverts(map', strings')
        /\ Extends(strings, strings')
        /\ \A i \in 1..Len(strings') : i > Len(strings) => strings'[i] = text
        /\ text \in DOMAIN map => strings' = strings
        /\ text \notin DOMAIN map =>
               Len(strings') = Len(strings) + 1 /\ strings'[Len(strings) + 1] = text
    BY <1>0, <1>1, <1>2, <1>3, <1>4, InternDynamicStores
  <1>6. Len(strings') \in Nat
    BY <1>5
  <1>7. TypeOK'
    <2>1. loaded' \in 0..MaxStrings
      BY <1>0, <1>1
    <2> QED
      BY <1>0, <1>5, <2>1 DEF IInv, TypeOK
  <1>8. StoreInv'
    <2>1. Distinct(strings')
      BY <1>5, InvertedIsDistinct
    <2>2. origin = "parse" => NoneCanonical(strings')
      <3> SUFFICES ASSUME origin = "parse", NEW i \in 1..Len(strings')
                   PROVE  ~Canonical(strings'[i])
        BY DEF NoneCanonical
      <3>1. ~Canonical(text)
        BY <1>2, <1>3 DEF text, IInv, DocumentInv, NoneCanonical
      <3>2. CASE i > Len(strings)
        BY <1>5, <3>1, <3>2
      <3>3. CASE i \in 1..Len(strings)
        BY <1>5, <3>3 DEF IInv, StoreInv, NoneCanonical, Extends
      <3> QED
        BY <1>1, <1>6, <3>2, <3>3
    <2> QED
      BY <1>0, <1>5, <2>1, <2>2 DEF StoreInv
  <1>9. LoadInv'
    <2>1. CASE text \in DOMAIN map
      <3>1. strings' = strings
        BY <1>5, <2>1
      <3>2. origin # "parse"
        <4> SUFFICES ASSUME origin = "parse" PROVE FALSE
          OBVIOUS
        <4>1. PICK i \in 1..Len(strings) : strings[i] = text
          BY <1>2, <2>1 DEF MapInverts
        <4>2. i \in 1..Len(document.symbols) /\ document.symbols[i] = document.symbols[loaded + 1]
          BY <1>0, <1>1, <1>2, <4>1 DEF text
        <4>3. i = loaded + 1
          BY <1>2, <1>3, <4>2 DEF IInv, DocumentInv, Distinct
        <4> QED
          BY <1>1, <1>2, <4>1, <4>3
      <3> QED
        BY <1>0, <1>1, <1>2, <3>1, <3>2 DEF LoadInv
    <2>2. CASE text \notin DOMAIN map
      <3>1. Len(strings') = Len(strings) + 1 /\ strings'[Len(strings) + 1] = text
        BY <1>5, <2>2
      <3>2. Len(strings') = loaded' => \A i \in 1..loaded' : strings'[i] = document'.symbols[i]
        <4> SUFFICES ASSUME Len(strings') = loaded', NEW i \in 1..loaded'
                     PROVE  strings'[i] = document.symbols[i]
          BY <1>0
        <4>1. Len(strings) = loaded
          BY <1>0, <1>1, <3>1
        <4>2. CASE i = loaded + 1
          BY <3>1, <4>1, <4>2 DEF text
        <4>3. CASE i \in 1..loaded
          BY <1>2, <1>5, <4>1, <4>3 DEF Extends
        <4> QED
          BY <1>0, <1>1, <4>2, <4>3
      <3>3. Len(strings') <= loaded' /\ loaded' <= Len(document'.symbols)
        BY <1>0, <1>1, <1>2, <3>1
      <3>4. origin' = "parse" => Len(strings') = loaded'
        BY <1>0, <1>1, <1>2, <3>1
      <3> QED
        BY <1>0, <1>2, <3>2, <3>3, <3>4 DEF LoadInv
    <2> QED
      BY <2>1, <2>2
  <1>10. DocumentInv' /\ TreeInv'
    BY <1>0 DEF IInv, DocumentInv, TreeInv
  <1>11. FoldInv'
    <2>1. folded = Unfolded /\ folded' = Unfolded /\ K \in Nat
      BY <1>0, KeywordFacts DEF IInv, FoldInv
    <2> QED
      BY <1>0, <1>6, <2>1 DEF FoldInv, Unfolded
  <1> QED
    BY <1>7, <1>8, <1>9, <1>10, <1>11 DEF IInv

(* A table as long as the document's is the document's.                    *)
LEMMA LoadedTable ==
    ASSUME IInv, Loaded, Len(strings) = Len(document.symbols)
    PROVE  /\ strings \in Seq(Texts) /\ document.symbols \in Seq(Texts)
           /\ Extends(strings, document.symbols) /\ Extends(document.symbols, strings)
  BY DEF IInv, TypeOK, Loaded, LoadInv, Extends

(* A table without repetitions is taken as it stands.                    *)
LEMMA LoadAcceptsStep ==
    ASSUME IInv, LoadAccepts
    PROVE  IInv'
  <1> USE DEF LoadAccepts
  <1>1. TypeOK'
    BY DEF IInv, TypeOK, Phases
  <1>2. StoreInv' /\ DocumentInv' /\ LoadInv'
    BY DEF IInv, StoreInv, DocumentInv, LoadInv, Loaded
  <1>3. TreeInv'
    <2>1. idents = document.idents /\ idents \subseteq Ident
      BY DEF IInv, TypeOK, LoadInv, Loaded
    <2>2. \A i \in idents : i.symbol \in Symbol /\ Resolve(strings, i.symbol) # NoText
      BY <2>1 DEF Valid, Ident
    <2>3. \A i \in idents : Resolve(document.symbols, i.symbol) = Resolve(strings, i.symbol)
      BY <2>2, LoadedTable, ResolveExtends DEF Valid
    <2>4. \A i \in idents : Resolve(document.symbols, i.symbol) = i.text
      BY <2>1 DEF IInv, DocumentInv, Resolved
    <2> QED
      BY <2>2, <2>3, <2>4 DEF TreeInv, Resolved, AllMeant
  <1>4. FoldInv'
    BY DEF IInv, FoldInv, FoldKey
  <1> QED
    BY <1>1, <1>2, <1>3, <1>4 DEF IInv

(* What the checks behind the depth limit reject was not an own document.  *)
LEMMA LoadRejectsStep ==
    ASSUME IInv, LoadRejects
    PROVE  IInv'
  <1> USE DEF LoadRejects
  <1>1. TypeOK'
    BY DEF IInv, TypeOK, Phases
  <1>2. origin # "parse"
    <2> SUFFICES ASSUME origin = "parse" PROVE Valid
      OBVIOUS
    <2>1. /\ Len(strings) = Len(document.symbols) /\ document.origin = "parse"
          /\ document.idents \subseteq Ident
      BY DEF IInv, TypeOK, LoadInv, Loaded
    <2>2. \A i \in document.idents :
             i.symbol \in Symbol /\ Resolve(document.symbols, i.symbol) # NoText
      BY <2>1 DEF IInv, DocumentInv, Resolved, AllMeant, Ident
    <2> QED
      BY <2>1, <2>2, LoadedTable, ResolveExtends DEF Valid
  <1>3. StoreInv' /\ DocumentInv' /\ LoadInv' /\ TreeInv'
    BY <1>2 DEF IInv, StoreInv, DocumentInv, LoadInv, TreeInv, Loaded
  <1>4. FoldInv'
    BY DEF IInv, FoldInv, FoldKey, Loaded
  <1> QED
    BY <1>1, <1>3, <1>4 DEF IInv

(* A folded table starts empty.                                          *)
LEMMA FoldSymbolsStep ==
    ASSUME IInv, NEW casing \in Casings, FoldSymbols(casing)
    PROVE  IInv'
  <1>0. /\ phase = "frozen" /\ UNCHANGED <<phase, map, strings, idents, depth, document, max_depth, loaded, origin>>
        /\ folded' = [casing |-> casing, ids |-> <<>>, next_id |-> 1, folded |-> <<>>]
    BY DEF FoldSymbols, Unfolded
  <1>1. TypeOK'
    BY <1>0 DEF IInv, TypeOK
  <1>2. StoreInv' /\ DocumentInv' /\ LoadInv' /\ TreeInv'
    BY <1>0 DEF IInv, StoreInv, DocumentInv, LoadInv, TreeInv
  <1>3. FoldInv'
    <2>1. casing # "none"
      BY DEF Casings
    <2>2. Len(strings) \in Nat /\ K \in Nat
      BY KeywordFacts DEF IInv, TypeOK
    <2> QED
      BY <1>0, <2>1, <2>2 DEF FoldInv, Unfolded
  <1> QED
    BY <1>1, <1>2, <1>3 DEF IInv

(* Each symbol in turn takes the identity of its folded text.            *)
LEMMA FoldNextStep ==
    ASSUME IInv, FoldNext
    PROVE  IInv'
  <1> DEFINE s0 == Len(folded.folded) + 1
             key == FoldKey(s0)
             old == folded.folded
  <1>0. /\ phase = "frozen" /\ folded.casing # "none"
        /\ UNCHANGED <<phase, map, strings, idents, depth, document, max_depth, loaded, origin>>
        /\ Len(old) < K + Len(strings)
        /\ folded' = FoldedWithNext(key)
    BY DEF FoldNext, K
  <1>1. /\ folded = [casing |-> folded.casing, ids |-> folded.ids,
                     next_id |-> folded.next_id, folded |-> old]
        /\ old \in Seq(Nat \ {0}) /\ Len(old) \in Nat /\ s0 \in Nat
        /\ folded.next_id \in Nat \ {0}
        /\ Len(strings) \in Nat /\ K \in Nat
        /\ \A s \in 1..Len(old) : FoldKey(s) \in DOMAIN folded.ids
                                   /\ old[s] = folded.ids[FoldKey(s)]
        /\ \A k \in DOMAIN folded.ids :
               folded.ids[k] \in Nat \ {0} /\ folded.ids[k] < folded.next_id
        /\ \A k, l \in DOMAIN folded.ids : folded.ids[k] = folded.ids[l] => k = l
    BY KeywordFacts DEF IInv, TypeOK, FoldInv
  <1>2. StoreInv' /\ DocumentInv' /\ LoadInv' /\ TreeInv'
    BY <1>0 DEF IInv, StoreInv, DocumentInv, LoadInv, TreeInv
  <1>3. CASE key \in DOMAIN folded.ids
    <2> DEFINE new == Append(old, folded.ids[key])
    <2>1. folded' = [casing |-> folded.casing, ids |-> folded.ids,
                     next_id |-> folded.next_id, folded |-> new]
      BY <1>0, <1>1, <1>3 DEF FoldedWithNext
    <2>2. /\ new \in Seq(Nat \ {0}) /\ Len(new) = s0 /\ new[s0] = folded.ids[key]
          /\ \A s \in 1..Len(old) : new[s] = old[s]
      BY <1>1, <1>3
    <2>3. \A s : FoldKey(s)' = FoldKey(s)
      BY <1>0, <2>1 DEF FoldKey
    <2> HIDE DEF new, key
    <2>4. TypeOK'
      BY <1>0, <2>1, <2>2 DEF IInv, TypeOK
    <2>5. \A s \in 1..s0 : FoldKey(s) \in DOMAIN folded.ids /\ new[s] = folded.ids[FoldKey(s)]
      <3> SUFFICES ASSUME NEW s \in 1..s0
                   PROVE  FoldKey(s) \in DOMAIN folded.ids /\ new[s] = folded.ids[FoldKey(s)]
        OBVIOUS
      <3>1. CASE s = s0
        BY <1>3, <2>2, <3>1 DEF key
      <3>2. CASE s \in 1..Len(old)
        BY <1>1, <2>2, <3>2
      <3> QED
        BY <1>1, <3>1, <3>2
    <2>6. Len(new) <= K + Len(strings)
      BY <1>0, <1>1, <2>2
    <2>7. FoldInv'
      BY <1>0, <1>1, <2>1, <2>2, <2>3, <2>5, <2>6 DEF FoldInv
    <2> QED
      BY <1>2, <2>4, <2>7 DEF IInv
  <1>4. CASE key \notin DOMAIN folded.ids
    <2> DEFINE new == Append(old, folded.next_id)
               ids == [k \in DOMAIN folded.ids \cup {key} |->
                           IF k = key THEN folded.next_id ELSE folded.ids[k]]
    <2>1. folded' = [casing |-> folded.casing, ids |-> ids,
                     next_id |-> folded.next_id + 1, folded |-> new]
      BY <1>0, <1>1, <1>4 DEF FoldedWithNext
    <2>2. /\ new \in Seq(Nat \ {0}) /\ Len(new) = s0 /\ new[s0] = folded.next_id
          /\ \A s \in 1..Len(old) : new[s] = old[s]
      BY <1>1
    <2>3. \A s : FoldKey(s)' = FoldKey(s)
      BY <1>0, <2>1 DEF FoldKey
    <2>4. /\ DOMAIN ids = DOMAIN folded.ids \cup {key} /\ ids[key] = folded.next_id
          /\ \A k \in DOMAIN folded.ids : k # key /\ ids[k] = folded.ids[k]
      BY <1>4
    <2> HIDE DEF new, ids, key
    <2>5. TypeOK'
      BY <1>0, <1>1, <2>1, <2>2 DEF IInv, TypeOK
    <2>6. \A s \in 1..s0 : FoldKey(s) \in DOMAIN ids /\ new[s] = ids[FoldKey(s)]
      <3> SUFFICES ASSUME NEW s \in 1..s0
                   PROVE  FoldKey(s) \in DOMAIN ids /\ new[s] = ids[FoldKey(s)]
        OBVIOUS
      <3>1. CASE s = s0
        BY <2>2, <2>4, <3>1 DEF key
      <3>2. CASE s \in 1..Len(old)
        BY <1>1, <2>2, <2>4, <3>2
      <3> QED
        BY <1>1, <3>1, <3>2
    <2>7. /\ \A k \in DOMAIN ids : ids[k] \in Nat \ {0} /\ ids[k] < folded.next_id + 1
          /\ \A k, l \in DOMAIN ids : ids[k] = ids[l] => k = l
      BY <1>1, <2>4
    <2>8. Len(new) <= K + Len(strings)
      BY <1>0, <1>1, <2>2
    <2>9. FoldInv'
      BY <1>0, <2>1, <2>2, <2>3, <2>6, <2>7, <2>8 DEF FoldInv
    <2> QED
      BY <1>2, <2>5, <2>9 DEF IInv
  <1> QED
    BY <1>3, <1>4

(* Stuttering changes nothing.                                           *)
LEMMA StutterStep ==
    ASSUME IInv, UNCHANGED vars
    PROVE  IInv'
  BY DEF IInv, TypeOK, StoreInv, TreeInv, DocumentInv, LoadInv, FoldInv, FoldKey, vars

(* The invariant holds of every behaviour.                                 *)
THEOREM Invariance == Spec => []IInv
  <1>1. IInv /\ [Next]_vars => IInv'
    <2> SUFFICES ASSUME IInv, [Next]_vars PROVE IInv'
      OBVIOUS
    <2>1. ASSUME NEW text \in Texts, InternWord(text) PROVE IInv'
      BY <2>1, InternWordStep
    <2>2. ASSUME NEW text \in Texts, InternKeyword(text) PROVE IInv'
      BY <2>2, InternKeywordStep
    <2>3. ASSUME NEW text \in Texts, InternText(text) PROVE IInv'
      BY <2>3, InternTextStep
    <2>4. ASSUME NEW casing \in Casings, FoldSymbols(casing) PROVE IInv'
      BY <2>4, FoldSymbolsStep
    <2>5. ASSUME NEW budget \in 0..MaxDepth, Deserialize(budget) PROVE IInv'
      BY <2>5, DeserializeStep
    <2> QED
      BY <2>1, <2>2, <2>3, <2>4, <2>5, NestStep, FreezeStep, SerializeStep, ReceiveStep,
         LoadEntryStep, LoadAcceptsStep, LoadRejectsStep, FoldNextStep, StutterStep DEF Next
  <1> QED
    BY <1>1, InitInv, PTL DEF Spec
-----------------------------------------------------------------------------
(* The stores keep their types in every phase (Interner, FrozenResolver).  *)
THEOREM TypeCorrect == Spec => []TypeOK
  BY Invariance, PTL DEF IInv

(* Every symbol of a tree in use resolves to its own text, live, frozen    *)
(* and reloaded, and so in every document that is accepted                 *)
(* (resolve_symbol, deserialize_with_depth).                               *)
THEOREM SymbolsResolve == Spec => []ResolvesToSource
  <1>1. IInv => ResolvesToSource
    BY DEF IInv, TreeInv, Resolved, AllMeant, ResolvesToSource
  <1> QED
    BY <1>1, Invariance, PTL

(* Types and resolution together, as the model checker states them of an   *)
(* instance.                                                               *)
THEOREM StoreIsSound == Spec => []StoreSound
  <1>1. TypeOK /\ ResolvesToSource => StoreSound
    BY DEF StoreSound
  <1> QED
    BY <1>1, TypeCorrect, SymbolsResolve, PTL

(* Two symbols of one text are a keyword's slot and a loaded copy of it    *)
(* (intern_dynamic, deserialize_with_depth).                               *)
THEOREM OnlyKeywordsHaveTwins == Spec => []TwinsAreKeywords
  <1>1. IInv => TwinsAreKeywords
    <2> SUFFICES ASSUME IInv, NEW s \in 1..(K + Len(strings)), NEW t \in 1..(K + Len(strings)),
                        s < t, Resolve(strings, s) = Resolve(strings, t)
                 PROVE  s <= K /\ K < t /\ origin = "elsewhere"
      BY DEF TwinsAreKeywords, K
    <2>1. strings \in Seq(Texts) /\ Len(strings) \in Nat /\ origin \in Origins /\ Distinct(strings)
          /\ (origin = "parse" => NoneCanonical(strings))
      BY DEF IInv, TypeOK, StoreInv
    <2>2. K \in Nat /\ \A k \in 1..K : Keyword[k] \in Texts /\ Lookup[Keyword[k]] = k
      BY KeywordFacts
    <2>3. \A u \in 1..(K + Len(strings)) :
              /\ u <= K => Resolve(strings, u) = Keyword[u]
              /\ u > K => u - K \in 1..Len(strings) /\ Resolve(strings, u) = strings[u - K]
      BY <2>1, <2>2 DEF Resolve, K
    <2>4. ~(t <= K)
      BY <2>2, <2>3
    <2>5. ~(s > K)
      BY <2>1, <2>2, <2>3 DEF Distinct
    <2>6. origin # "parse"
      <3>1. Keyword[s] = strings[t - K] /\ t - K \in 1..Len(strings) /\ s \in 1..K
        BY <2>2, <2>3, <2>4, <2>5
      <3>2. Canonical(strings[t - K])
        BY <3>1, <2>2 DEF Canonical
      <3> QED
        BY <2>1, <3>1, <3>2 DEF NoneCanonical
    <2> QED
      BY <2>1, <2>2, <2>4, <2>5, <2>6 DEF Origins
  <1> QED
    BY <1>1, Invariance, PTL

(* The interning paths agree: one text, one symbol (intern,                *)
(* intern_nonkeyword, intern_keyword_ident).                               *)
THEOREM IdentityIsText == Spec => []SameTextSameSymbol
  <1>1. IInv => SameTextSameSymbol
    <2> SUFFICES ASSUME IInv, origin = "parse", NEW i \in idents, NEW j \in idents
                 PROVE  i.text = j.text <=> i.symbol = j.symbol
      BY DEF SameTextSameSymbol
    <2>1. i.symbol \in Symbol /\ j.symbol \in Symbol
      BY DEF IInv, TypeOK, Ident
    <2>2. PICK table \in Seq(Texts) :
              Distinct(table) /\ NoneCanonical(table) /\ Resolved(idents, table) /\ AllMeant(idents)
      <3>1. CASE phase \in {"parsing", "frozen"}
        BY <3>1 DEF IInv, TypeOK, StoreInv, TreeInv
      <3>2. CASE phase \in {"loading", "rejected"}
        BY <3>2 DEF IInv, TypeOK, DocumentInv, LoadInv
      <3> QED
        BY <3>1, <3>2 DEF IInv, TypeOK, Phases
    <2>3. /\ Resolve(table, i.symbol) = i.text /\ Resolve(table, j.symbol) = j.text
          /\ i.text # NoText
      BY <2>2 DEF Resolved, AllMeant
    <2> QED
      BY <2>1, <2>2, <2>3, ResolveInjective
  <1> QED
    BY <1>1, Invariance, PTL

(* The duplicate check and the symbol check never reject what a parse      *)
(* wrote, and the depth limit rejects it exactly when it nests past the    *)
(* budget given (deserialize_with_depth).                                  *)
THEOREM RoundTripLoads == Spec => []OwnDocumentsLoad
  <1>1. IInv => OwnDocumentsLoad
    <2> SUFFICES ASSUME IInv, origin = "parse" PROVE phase = "rejected" <=> depth > max_depth
      BY DEF OwnDocumentsLoad
    <2>1. depth \in Nat /\ max_depth \in Nat
      BY KeywordFacts DEF IInv, TypeOK
    <2> QED
      BY <2>1 DEF IInv, LoadInv
  <1> QED
    BY <1>1, Invariance, PTL

(* Folded identity is equality of folded text (FoldedSymbols::build).      *)
THEOREM FoldingIsExact == Spec => []FoldedIdentity
  <1>1. IInv => FoldedIdentity
    BY DEF IInv, FoldInv, FoldedIdentity
  <1> QED
    BY <1>1, Invariance, PTL
=============================================================================
