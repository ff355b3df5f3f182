------------------------- MODULE AngleTypesProofs -------------------------
(***************************************************************************)
(* Proofs about AngleTypes, for every nesting and every script.  A list is *)
(* at the bottom of the stack and types above it, so that closing a type   *)
(* never empties the stack and a column list ends with nothing open.       *)
(***************************************************************************)
EXTENDS AngleTypes, TLAPS, SequenceTheorems

Lists == {"columns", "constructor"}

Types == {"array", "struct"}

(* A list at the bottom, types above.                                      *)
StackShape ==
    /\ Parsing /\ at # "end" => Len(stack) >= 1 /\ stack[1] \in Lists
    /\ \A i \in 1..Len(stack) : i > 1 => stack[i] \in Types
    /\ at = "end" => OpenBrackets(stack) = 0

(* Nothing is pending until a shift token is split.                        *)
NothingPending == ~shifted => pending = 0 /\ carried = 0 /\ (at = "accepted" => chars = 0)

IInv == TypeOK /\ BracketsCounted /\ StackShape /\ NothingPending
-----------------------------------------------------------------------------
(* Opening a type opens one bracket.                                     *)
LEMMA PushOpensOne ==
    ASSUME NEW s \in Seq(Kinds), NEW k \in Types
    PROVE  /\ Append(s, k) \in Seq(Kinds) /\ Len(Append(s, k)) = Len(s) + 1
           /\ OpenBrackets(Append(s, k)) = OpenBrackets(s) + 1
           /\ \A i \in 1..Len(s) : Append(s, k)[i] = s[i]
           /\ Append(s, k)[Len(s) + 1] = k
  <1>1. k \in Kinds /\ k # "columns"
    BY DEF Types, Kinds
  <1>2. /\ Append(s, k) \in Seq(Kinds) /\ Len(Append(s, k)) = Len(s) + 1
        /\ \A i \in 1..Len(s) : Append(s, k)[i] = s[i]
        /\ Append(s, k)[Len(s) + 1] = k /\ Len(s) \in Nat
    BY <1>1
  <1>3. OpenBrackets(Append(s, k)) = OpenBrackets(s) + 1
    <2>1. CASE s = <<>>
      BY <1>1, <1>2, <2>1 DEF OpenBrackets
    <2>2. CASE s # <<>>
      <3>1. Len(s) >= 1 /\ Append(s, k)[1] = s[1] /\ Append(s, k) # <<>>
        BY <1>2, <2>2, EmptySeq
      <3> QED
        BY <1>2, <2>2, <3>1 DEF OpenBrackets
    <2> QED
      BY <2>1, <2>2
  <1> QED
    BY <1>2, <1>3

(* The innermost production is no column list.                             *)
Bracketed(s) == s[Len(s)] # "columns"

(* Leaving a production other than a column list closes one bracket.     *)
LEMMA PopClosesOne ==
    ASSUME NEW s \in Seq(Kinds), Len(s) >= 1, Bracketed(s)
    PROVE  /\ SubSeq(s, 1, Len(s) - 1) \in Seq(Kinds)
           /\ Len(SubSeq(s, 1, Len(s) - 1)) = Len(s) - 1
           /\ \A i \in 1..(Len(s) - 1) : SubSeq(s, 1, Len(s) - 1)[i] = s[i]
           /\ OpenBrackets(SubSeq(s, 1, Len(s) - 1)) = OpenBrackets(s) - 1
  <1> DEFINE r == SubSeq(s, 1, Len(s) - 1)
  <1>1. Len(s) \in Nat /\ Len(s) >= 1
    OBVIOUS
  <1>2. /\ r \in Seq(Kinds) /\ Len(r) = Len(s) - 1
        /\ \A i \in 1..(Len(s) - 1) : r[i] = s[i]
    <2> DEFINE n == Len(s) - 1
    <2>1. n \in Nat /\ \A i \in 1..n : s[i] \in Kinds
      BY <1>1
    <2> HIDE DEF n
    <2>2. /\ SubSeq(s, 1, n) \in Seq(Kinds)
          /\ Len(SubSeq(s, 1, n)) = IF 1 <= n THEN n - 1 + 1 ELSE 0
          /\ \A i \in 1..(n - 1 + 1) : SubSeq(s, 1, n)[i] = s[1 + i - 1]
      BY <2>1, SubSeqProperties
    <2>3. Len(SubSeq(s, 1, n)) = n
      BY <2>1, <2>2
    <2>4. \A i \in 1..n : SubSeq(s, 1, n)[i] = s[i]
      <3> SUFFICES ASSUME NEW i \in 1..n PROVE SubSeq(s, 1, n)[i] = s[i]
        OBVIOUS
      <3>1. i \in 1..(n - 1 + 1) /\ 1 + i - 1 = i
        BY <2>1
      <3> QED
        BY <2>2, <3>1
    <2> QED
      BY <2>2, <2>3, <2>4 DEF n
  <1>3. OpenBrackets(r) = OpenBrackets(s) - 1
    <2> HIDE DEF r
    <2>1. CASE Len(s) = 1
      <3>1. r = <<>> /\ s # <<>> /\ s[1] # "columns"
        BY <1>2, <2>1, EmptySeq DEF Bracketed
      <3> QED
        BY <2>1, <3>1 DEF OpenBrackets
    <2>2. CASE Len(s) > 1
      <3>1. r # <<>> /\ s # <<>> /\ r[1] = s[1]
        BY <1>1, <1>2, <2>2, EmptySeq
      <3> QED
        BY <1>1, <1>2, <3>1 DEF OpenBrackets
    <2>3. \A n \in Nat : n >= 1 => n = 1 \/ n > 1
      OBVIOUS
    <2> QED
      BY <1>1, <2>1, <2>2, <2>3, Zenon
  <1> QED
    BY <1>2, <1>3

(* A new parser has nothing open and nothing pending.                    *)
LEMMA InitInv == Init => IInv
  <1> SUFFICES ASSUME Init PROVE IInv
    OBVIOUS
  <1> USE DEF Init
  <1>1. TypeOK
    <2>1. next \in Tokens /\ at \in Points
      BY DEF Tokens, Points
    <2>2. stack \in Seq(Kinds) /\ Len(stack) <= MaxDepth + 1 /\ statements \in 0..MaxStatements
      BY BoundsAssumption
    <2>3. pending \in 0..1 /\ carried \in 0..1 /\ chars \in Int
      OBVIOUS
    <2>4. shifted \in BOOLEAN
      BY Zenon
    <2> QED
      BY <2>1, <2>2, <2>3, <2>4, Zenon DEF TypeOK
  <1>2. ~Parsing /\ at # "end" /\ at # "accepted"
    BY DEF Parsing
  <1> QED
    BY <1>1, <1>2 DEF IInv, BracketsCounted, StackShape, NothingPending
-----------------------------------------------------------------------------
(* The points inside a production, and those between statements.           *)
Inner == {"field", "type", "suffix", "item", "close"}

Outer == {"begin", "accepted", "failed"}

(* The points inside a production are none of those between statements.  *)
LEMMA PointFacts ==
    /\ Points = Inner \cup Outer \cup {"end"}
    /\ Parsing <=> at \notin Outer
    /\ Parsing' <=> at' \notin Outer
    /\ \A p \in Inner : p \notin Outer /\ p # "end" /\ p # "accepted"
    /\ "end" \notin Outer /\ "end" # "accepted" /\ "accepted" \in Outer
  BY Zenon DEF Points, Inner, Outer, Parsing

(* A step that moves on within the productions that are open.              *)
LEMMA MoveStep ==
    ASSUME IInv, UNCHANGED <<stack, pending, statements, chars, carried, shifted>>,
           next' \in Tokens \cup Residual, at \in Inner, at' \in Inner \cup {"end"},
           at' = "end" => OpenBrackets(stack) = 0
    PROVE  IInv'
  <1>1. TypeOK'
    BY PointFacts, Zenon DEF IInv, TypeOK
  <1>2. Parsing /\ Parsing' /\ at # "end" /\ at' # "accepted"
    BY PointFacts, Zenon
  <1>3. OpenBrackets(stack') = OpenBrackets(stack)
    OBVIOUS
  <1>4. BracketsCounted'
    BY <1>2, <1>3, Zenon DEF IInv, BracketsCounted
  <1>5. StackShape'
    BY <1>2, <1>3, Zenon DEF IInv, StackShape
  <1>6. NothingPending'
    BY <1>2, Zenon DEF IInv, NothingPending
  <1> QED
    BY <1>1, <1>4, <1>5, <1>6, Zenon DEF IInv

(* Whatever is read is a token.                                          *)
LEMMA TokenFacts ==
    /\ \A t \in Tokens : t \in Tokens \cup Residual
    /\ WordLike \subseteq Tokens
    /\ "<" \in Residual
  BY Zenon DEF Tokens, WordLike, Residual

(* Names, plain types, suffixes and commas leave the nesting alone.      *)
LEMMA FieldStep ==
    ASSUME IInv, FieldName \/ ConstructorField \/ NamedType \/ ArraySuffix \/ Comma
    PROVE  IInv'
  <1>1. UNCHANGED <<stack, pending, statements, chars, carried, shifted>>
    BY Zenon DEF FieldName, ConstructorField, NamedType, ArraySuffix, Comma
  <1>2. at \in Inner
    BY Zenon DEF FieldName, ConstructorField, NamedType, ArraySuffix, Comma, Inner
  <1>3. at' \in Inner
    BY <1>2, Zenon DEF FieldName, ConstructorField, NamedType, ArraySuffix, Comma, Goto, Inner
  <1>4. next' \in Tokens \cup Residual
    <2>1. next \in Tokens \cup Residual
      BY DEF IInv, TypeOK
    <2> QED
      BY <2>1, TokenFacts, Zenon
         DEF FieldName, ConstructorField, NamedType, ArraySuffix, Comma, Read
  <1>5. at' # "end"
    BY <1>3, PointFacts, Zenon
  <1> QED
    BY <1>1, <1>2, <1>3, <1>4, <1>5, MoveStep, Zenon

(* A finished type goes back to its list, or to its close.               *)
LEMMA SuffixesDoneStep ==
    ASSUME IInv, SuffixesDone
    PROVE  IInv'
  <1>1. UNCHANGED <<stack, pending, statements, chars, carried, shifted>>
        /\ next' = next /\ at = "suffix" /\ at' \in {"close", "item"}
    BY Zenon DEF SuffixesDone, Goto
  <1>2. at \in Inner /\ at' \in Inner /\ at' # "end"
    BY <1>1, Zenon DEF Inner
  <1>3. next' \in Tokens \cup Residual
    BY <1>1 DEF IInv, TypeOK
  <1> QED
    BY <1>1, <1>2, <1>3, MoveStep, Zenon

(* A production that is no type is alone on the stack.                     *)
LEMMA ListAlone ==
    ASSUME IInv, at \in Inner, Top \notin Types
    PROVE  Len(stack) = 1
  <1>1. stack \in Seq(Kinds) /\ Len(stack) \in Nat
    BY DEF IInv, TypeOK
  <1>2. Len(stack) >= 1 /\ \A i \in 1..Len(stack) : i > 1 => stack[i] \in Types
    BY PointFacts, Zenon DEF IInv, StackShape
  <1>3. Len(stack) > 1 => stack[Len(stack)] \in Types
    BY <1>1, <1>2
  <1>4. ~(Len(stack) > 1)
    BY <1>3, Zenon DEF Top
  <1>5. \A n \in Nat : n >= 1 /\ ~(n > 1) => n = 1
    OBVIOUS
  <1> QED
    BY <1>1, <1>2, <1>4, <1>5, Zenon

(* A column list is all there is on the stack when its items end.          *)
LEMMA ColumnsAlone ==
    ASSUME IInv, at \in Inner, Top = "columns"
    PROVE  OpenBrackets(stack) = 0
  <1>1. Top \notin Types
    BY DEF Types
  <1>2. Len(stack) = 1
    BY <1>1, ListAlone
  <1>3. stack # <<>> /\ stack[1] = "columns"
    BY <1>2 DEF Top
  <1> QED
    BY <1>2, <1>3 DEF OpenBrackets

(* A finished column list has nothing open above it.                     *)
LEMMA ItemsDoneStep ==
    ASSUME IInv, ItemsDone
    PROVE  IInv'
  <1>1. UNCHANGED <<stack, pending, statements, chars, carried, shifted>>
        /\ next' = next /\ at = "item"
    BY Zenon DEF ItemsDone
  <1>2. at \in Inner
    BY <1>1, Zenon DEF Inner
  <1>3. at' = IF Top = "columns" THEN "end" ELSE "close"
    BY Zenon DEF ItemsDone, Goto
  <1>4. at' \in Inner \cup {"end"} /\ (at' = "end" => Top = "columns")
    BY <1>3, Zenon DEF Inner
  <1>5. next' \in Tokens \cup Residual
    BY <1>1 DEF IInv, TypeOK
  <1> QED
    BY <1>1, <1>2, <1>4, <1>5, ColumnsAlone, MoveStep, Zenon
(* The integers of the state.                                              *)
LEMMA Counts ==
    ASSUME IInv
    PROVE  /\ pending \in 0..1 /\ carried \in 0..1 /\ chars \in Int
           /\ stack \in Seq(Kinds) /\ Len(stack) \in Nat /\ OpenBrackets(stack) \in Int
           /\ shifted \in BOOLEAN /\ next \in Tokens \cup Residual
           /\ statements \in 0..MaxStatements
  <1>1. /\ pending \in 0..1 /\ carried \in 0..1 /\ chars \in Int /\ stack \in Seq(Kinds)
        /\ shifted \in BOOLEAN /\ next \in Tokens \cup Residual
        /\ statements \in 0..MaxStatements
    BY Zenon DEF IInv, TypeOK
  <1>2. Len(stack) \in Nat
    BY <1>1
  <1>3. OpenBrackets(stack) \in Int
    BY <1>2 DEF OpenBrackets
  <1> QED
    BY <1>1, <1>2, <1>3, Zenon

(* A statement starts with its own list and inherits the counter.        *)
LEMMA BeginStep ==
    ASSUME IInv, Begin
    PROVE  IInv'
  <1>1. /\ at' \in {"field", "end"} /\ pending' = pending /\ carried' = pending
        /\ shifted' = shifted /\ next' \in Tokens
        /\ at' = "end" => stack' = <<"columns">>
    BY Zenon DEF Begin, Goto, Read
  <1>2. at' \in Points /\ at' # "accepted" /\ Parsing'
    BY <1>1, PointFacts, Zenon DEF Inner, Points
  <1>3. statements' \in 0..MaxStatements
    BY Counts, BoundsAssumption DEF Begin
  <1>4. /\ stack' \in Seq(Kinds) /\ Len(stack') = 1 /\ stack'[1] \in Lists
        /\ chars' \in Int /\ OpenBrackets(stack') = chars'
        /\ stack' = <<"columns">> => OpenBrackets(stack') = 0
    <2>1. CASE stack' = <<"columns">> /\ chars' = 0
      BY <2>1 DEF Kinds, Lists, OpenBrackets
    <2>2. CASE stack' = <<"constructor">> /\ chars' = 1
      <3>1. stack' # <<"columns">>
        BY <2>2
      <3>2. /\ stack' \in Seq(Kinds) /\ Len(stack') = 1 /\ stack'[1] \in Lists
            /\ chars' \in Int /\ OpenBrackets(stack') = chars'
        BY <2>2 DEF Kinds, Lists, OpenBrackets
      <3> QED
        BY <3>1, <3>2, Zenon
    <2> QED
      BY <2>1, <2>2, Zenon DEF Begin
  <1>5. TypeOK'
    <2>1. Len(stack') <= MaxDepth + 1
      BY <1>4, BoundsAssumption
    <2> QED
      BY <1>1, <1>2, <1>3, <1>4, <2>1, Counts, Zenon DEF TypeOK
  <1>6. BracketsCounted'
    BY <1>1, <1>4, Counts DEF BracketsCounted
  <1>7. StackShape'
    <2>1. Len(stack') >= 1 /\ \A i \in 1..Len(stack') : ~(i > 1)
      BY <1>4
    <2> QED
      BY <1>1, <1>4, <2>1, Zenon DEF StackShape
  <1>8. NothingPending'
    BY <1>1, <1>2, Zenon DEF IInv, NothingPending
  <1> QED
    BY <1>5, <1>6, <1>7, <1>8, Zenon DEF IInv

(* try_parse_angle_bracket_type opens a bracket of the text and a type.  *)
LEMMA OpenTypeStep ==
    ASSUME IInv, OpenType
    PROVE  IInv'
  <1>1. PICK k \in Types : stack' = Append(stack, k)
    BY Zenon DEF OpenType, Types
  <1>2. /\ at = "type" /\ at' \in {"type", "field"} /\ next' \in Tokens /\ Len(stack) <= MaxDepth
        /\ chars' = chars + 1
        /\ UNCHANGED <<pending, statements, carried, shifted>>
    BY Zenon DEF OpenType, Goto, Read
  <1>3. /\ at \in Inner /\ at' \in Inner /\ at' \in Points /\ Parsing /\ Parsing'
        /\ at # "end" /\ at' # "end" /\ at' # "accepted"
    BY <1>2, PointFacts, Zenon DEF Inner, Points
  <1>4. /\ stack' \in Seq(Kinds) /\ Len(stack') = Len(stack) + 1
        /\ OpenBrackets(stack') = OpenBrackets(stack) + 1
        /\ \A i \in 1..Len(stack) : stack'[i] = stack[i]
        /\ stack'[Len(stack) + 1] \in Types
    BY <1>1, Counts, PushOpensOne
  <1>5. TypeOK'
    <2>1. Len(stack') <= MaxDepth + 1 /\ chars' \in Int
      BY <1>2, <1>4, Counts, BoundsAssumption
    <2> QED
      BY <1>2, <1>3, <1>4, <2>1, Counts, Zenon DEF TypeOK
  <1>6. BracketsCounted'
    <2>1. OpenBrackets(stack) = chars + pending - carried
      BY <1>3, Zenon DEF IInv, BracketsCounted
    <2> QED
      BY <1>2, <1>4, <2>1, Counts DEF BracketsCounted
  <1>7. StackShape'
    <2>1. /\ Len(stack) >= 1 /\ stack[1] \in Lists
          /\ \A i \in 1..Len(stack) : i > 1 => stack[i] \in Types
      BY <1>3, Zenon DEF IInv, StackShape
    <2>2. Len(stack') >= 1 /\ stack'[1] \in Lists
      BY <1>4, <2>1, Counts
    <2>3. \A i \in 1..Len(stack') : i > 1 => stack'[i] \in Types
      BY <1>4, <2>1, Counts
    <2> QED
      BY <1>3, <2>2, <2>3, Zenon DEF StackShape
  <1>8. NothingPending'
    BY <1>2, <1>3, Zenon DEF IInv, NothingPending
  <1> QED
    BY <1>5, <1>6, <1>7, <1>8, Zenon DEF IInv

(* What a close does to the counter and to the text, whichever token       *)
(* it takes: one close of the text, or one of the counter, is used up.     *)
LEMMA CloseCounts ==
    ASSUME IInv,
           \/ pending > 0 /\ pending' = pending - 1 /\ UNCHANGED <<next, chars, shifted>>
           \/ pending = 0 /\ Lone
           \/ pending = 0 /\ Split
    PROVE  /\ pending' \in 0..1 /\ chars' \in Int
           /\ chars' + pending' = chars + pending - 1
           /\ next' \in Tokens \cup Residual /\ shifted' \in BOOLEAN
           /\ ~shifted' => ~shifted /\ (pending = 0 => pending' = 0)
  <1>1. CASE pending > 0 /\ pending' = pending - 1 /\ UNCHANGED <<next, chars, shifted>>
    <2>1. pending' \in 0..1 /\ chars' \in Int /\ chars' + pending' = chars + pending - 1
      BY <1>1, Counts
    <2>2. ~(pending = 0)
      BY <1>1
    <2> QED
      BY <1>1, <2>1, <2>2, Counts, Zenon
  <1>2. CASE pending = 0 /\ Lone
    <2>1. chars' = chars - 1 /\ pending' = pending /\ shifted' = shifted /\ next' \in Tokens
      BY <1>2, Zenon DEF Lone, Read
    <2>2. pending' \in 0..1 /\ chars' \in Int /\ chars' + pending' = chars + pending - 1
      BY <1>2, <2>1, Counts
    <2> QED
      BY <1>2, <2>1, <2>2, Counts, Zenon
  <1>3. CASE pending = 0 /\ Split
    <2>1. chars' = chars - 2 /\ pending' = 1 /\ shifted' = TRUE /\ next' \in Tokens
      BY <1>3, Zenon DEF Split, Read
    <2>2. pending' \in 0..1 /\ chars' \in Int /\ chars' + pending' = chars + pending - 1
      BY <1>3, <2>1, Counts
    <2>3. shifted' \in BOOLEAN
      BY <2>1, Zenon
    <2> QED
      BY <2>1, <2>2, <2>3, Zenon
  <1> QED
    BY <1>1, <1>2, <1>3, Zenon

(* expect_angle_gt closes a type with one close, read or pending.        *)
LEMMA CloseTypeStep ==
    ASSUME IInv, CloseType
    PROVE  IInv'
  <1>1. /\ at = "close" /\ at' = "suffix" /\ Top \in Types
        /\ stack' = SubSeq(stack, 1, Len(stack) - 1)
        /\ statements' = statements /\ carried' = carried
    BY Zenon DEF CloseType, Goto, Below, Types
  <1>2. /\ at \in Inner /\ at' \in Inner /\ at' \in Points /\ Parsing /\ Parsing'
        /\ at # "end" /\ at' # "end" /\ at' # "accepted"
    BY <1>1, PointFacts, Zenon DEF Inner, Points
  <1>3. /\ pending' \in 0..1 /\ chars' \in Int
        /\ chars' + pending' = chars + pending - 1
        /\ next' \in Tokens \cup Residual /\ shifted' \in BOOLEAN
        /\ ~shifted' => ~shifted /\ (pending = 0 => pending' = 0)
    BY CloseCounts, Zenon DEF CloseType
  <1>4. /\ Len(stack) >= 1 /\ stack[1] \in Lists
        /\ \A i \in 1..Len(stack) : i > 1 => stack[i] \in Types
    BY <1>2, Zenon DEF IInv, StackShape
  <1>5. Bracketed(stack) /\ Top \notin Lists
    BY <1>1 DEF Top, Types, Lists, Bracketed
  <1>6. Len(stack) # 1
    BY <1>4, <1>5, Zenon DEF Top
  <1>7. /\ stack' \in Seq(Kinds) /\ Len(stack') = Len(stack) - 1
        /\ \A i \in 1..(Len(stack) - 1) : stack'[i] = stack[i]
        /\ OpenBrackets(stack') = OpenBrackets(stack) - 1
    BY <1>1, <1>4, <1>5, Counts, PopClosesOne
  <1>8. TypeOK'
    <2>1. Len(stack') <= MaxDepth + 1
      <3>1. Len(stack) <= MaxDepth + 1
        BY DEF IInv, TypeOK
      <3> QED
        BY <1>7, <3>1, Counts, BoundsAssumption
    <2> QED
      BY <1>1, <1>2, <1>3, <1>7, <2>1, Counts, Zenon DEF TypeOK
  <1>9. BracketsCounted'
    <2>1. OpenBrackets(stack) = chars + pending - carried
      BY <1>2, Zenon DEF IInv, BracketsCounted
    <2> QED
      BY <1>1, <1>3, <1>7, <2>1, Counts DEF BracketsCounted
  <1>10. StackShape'
    <2>1. Len(stack') >= 1 /\ stack'[1] \in Lists
      BY <1>4, <1>6, <1>7, Counts
    <2>2. \A i \in 1..Len(stack') : i > 1 => stack'[i] \in Types
      BY <1>4, <1>7, Counts
    <2> QED
      BY <1>2, <2>1, <2>2, Zenon DEF StackShape
  <1>11. NothingPending'
    BY <1>1, <1>2, <1>3, Zenon DEF IInv, NothingPending
  <1> QED
    BY <1>8, <1>9, <1>10, <1>11, Zenon DEF IInv

(* A constructor's list closes with a closer of its own.                 *)
LEMMA CloseConstructorStep ==
    ASSUME IInv, CloseConstructor
    PROVE  IInv'
  <1>1. /\ at = "close" /\ at' = "end" /\ Top = "constructor"
        /\ stack' = SubSeq(stack, 1, Len(stack) - 1)
        /\ statements' = statements /\ carried' = carried
        /\ chars' = chars - 1 /\ pending' = pending /\ shifted' = shifted /\ next' \in Tokens
    BY Zenon DEF CloseConstructor, Goto, Below, Lone, Read
  <1>2. /\ at \in Inner /\ at' \in Points /\ Parsing /\ Parsing'
        /\ at # "end" /\ at' # "accepted"
    BY <1>1, PointFacts, Zenon DEF Inner, Points
  <1>3. Bracketed(stack) /\ Top \notin Types
    BY <1>1 DEF Top, Types, Bracketed
  <1>4. Len(stack) = 1
    BY <1>2, <1>3, ListAlone
  <1>5. OpenBrackets(stack) = 1
    <2>1. stack # <<>> /\ stack[1] # "columns"
      BY <1>1, <1>4 DEF Top
    <2> QED
      BY <1>4, <2>1 DEF OpenBrackets
  <1>6. /\ stack' \in Seq(Kinds) /\ Len(stack') = 0
        /\ OpenBrackets(stack') = 0
    <2>1. /\ stack' \in Seq(Kinds) /\ Len(stack') = Len(stack) - 1
          /\ OpenBrackets(stack') = OpenBrackets(stack) - 1
      <3>1. stack \in Seq(Kinds) /\ Len(stack) >= 1
        BY <1>4, Counts
      <3> QED
        BY <1>1, <1>3, <3>1, PopClosesOne, Zenon
    <2> QED
      BY <1>4, <1>5, <2>1
  <1>7. TypeOK'
    <2>1. Len(stack') <= MaxDepth + 1 /\ chars' \in Int
      BY <1>1, <1>6, Counts, BoundsAssumption
    <2> QED
      BY <1>1, <1>2, <1>6, <2>1, Counts, Zenon DEF TypeOK
  <1>8. BracketsCounted'
    <2>1. OpenBrackets(stack) = chars + pending - carried
      BY <1>2, Zenon DEF IInv, BracketsCounted
    <2> QED
      BY <1>1, <1>5, <1>6, <2>1, Counts DEF BracketsCounted
  <1>9. StackShape'
    <2>1. \A i \in 1..Len(stack') : FALSE
      BY <1>6
    <2> QED
      BY <1>1, <1>6, <2>1, Zenon DEF StackShape
  <1>10. NothingPending'
    BY <1>1, <1>2, Zenon DEF IInv, NothingPending
  <1> QED
    BY <1>7, <1>8, <1>9, <1>10, Zenon DEF IInv

(* Accept and Fail close everything at once and keep the counter.          *)
LEMMA EndStep ==
    ASSUME IInv, Accept \/ Fail
    PROVE  IInv'
  <1>1. /\ stack' = <<>> /\ at' \in {"accepted", "failed"}
        /\ UNCHANGED <<next, pending, statements, chars, carried, shifted>>
    BY Zenon DEF Accept, Fail, Goto
  <1>2. ~Parsing' /\ at' # "end" /\ at' \in Points
    BY <1>1, PointFacts, Zenon DEF Outer, Points
  <1>3. /\ stack' \in Seq(Kinds) /\ Len(stack') <= MaxDepth + 1
        /\ \A i \in 1..Len(stack') : FALSE
    BY <1>1, BoundsAssumption
  <1>4. TypeOK'
    BY <1>1, <1>2, <1>3, Counts, Zenon DEF TypeOK
  <1>5. BracketsCounted' /\ StackShape'
    BY <1>2, <1>3, Zenon DEF BracketsCounted, StackShape
  <1>6. at' = "accepted" => at = "end"
    BY Zenon DEF Accept, Fail, Goto
  <1>7. at = "end" /\ pending = 0 /\ carried = 0 => chars = 0
    <2> SUFFICES ASSUME at = "end", pending = 0, carried = 0 PROVE chars = 0
      OBVIOUS
    <2>1. OpenBrackets(stack) = chars + pending - carried /\ OpenBrackets(stack) = 0
      BY PointFacts, Zenon DEF IInv, BracketsCounted, StackShape
    <2> QED
      BY <2>1, Counts
  <1>8. NothingPending'
    BY <1>1, <1>6, <1>7, Zenon DEF IInv, NothingPending
  <1> QED
    BY <1>4, <1>5, <1>8, Zenon DEF IInv

(* Stuttering changes nothing.                                           *)
LEMMA StutterStep ==
    ASSUME IInv, UNCHANGED vars
    PROVE  IInv'
  <1>1. UNCHANGED <<next, stack, at, pending, statements, chars, carried, shifted>>
    BY DEF vars
  <1>2. TypeOK'
    BY <1>1, Zenon DEF IInv, TypeOK
  <1>3. OpenBrackets(stack') = OpenBrackets(stack) /\ (Parsing' <=> Parsing)
    BY <1>1, Zenon DEF Parsing
  <1>4. BracketsCounted' /\ StackShape' /\ NothingPending'
    BY <1>1, <1>3, Zenon DEF IInv, BracketsCounted, StackShape, NothingPending
  <1> QED
    BY <1>2, <1>4, Zenon DEF IInv
-----------------------------------------------------------------------------
(* Every step of the parser keeps the counter, the stack and the text      *)
(* reconciled.                                                             *)
THEOREM Invariance == Spec => []IInv
  <1>1. IInv /\ [Next]_vars => IInv'
    <2> SUFFICES ASSUME IInv, [Next]_vars PROVE IInv'
      OBVIOUS
    <2> QED
      BY BeginStep, FieldStep, OpenTypeStep, SuffixesDoneStep, ItemsDoneStep,
         CloseTypeStep, CloseConstructorStep, EndStep, StutterStep, Zenon DEF Next
  <1> QED
    BY InitInv, <1>1, PTL DEF Spec

(* expect_angle_gt never counts more than one close ahead of the text, at  *)
(* any nesting and over any number of statements.                          *)
THEOREM TypeCorrect == Spec => []TypeOK
  <1>1. IInv => TypeOK
    BY DEF IInv
  <1> QED
    BY <1>1, Invariance, PTL

(* angle_gt_pending accounts for every closing bracket of the text, for    *)
(* any nesting: the parser's open types are the text's, plus the pending   *)
(* closes, less those the statement inherited.                             *)
THEOREM BracketsAreCounted == Spec => []BracketsCounted
  <1>1. IInv => BracketsCounted
    BY DEF IInv
  <1> QED
    BY <1>1, Invariance, PTL

(* Both together, as the model checker states them of an instance.         *)
THEOREM ClosesAreAccounted == Spec => []ClosesAccounted
  <1>1. TypeOK /\ BracketsCounted => ClosesAccounted
    BY DEF ClosesAccounted
  <1> QED
    BY <1>1, TypeCorrect, BracketsAreCounted, PTL

(* Until expect_angle_gt first splits a shift token, the parser's lists    *)
(* are the text's, and what is accepted is balanced.                       *)
THEOREM SpacedTypesAreExact == Spec => []SpacedTypesExact
  <1>1. IInv => SpacedTypesExact
    <2> SUFFICES ASSUME IInv, ~shifted
                 PROVE  /\ Parsing => OpenBrackets(stack) = chars
                        /\ at = "accepted" => chars = 0
      BY DEF SpacedTypesExact
    <2>1. pending = 0 /\ carried = 0 /\ (at = "accepted" => chars = 0)
      BY Zenon DEF IInv, NothingPending
    <2>2. Parsing => OpenBrackets(stack) = chars + pending - carried
      BY Zenon DEF IInv, BracketsCounted
    <2>3. chars + pending - carried = chars
      BY <2>1, Counts
    <2> QED
      BY <2>1, <2>2, <2>3, Zenon
  <1> QED
    BY <1>1, Invariance, PTL
=============================================================================
