------------------------- MODULE ClauseMarksProofs -------------------------
(***************************************************************************)
(* For every source, number of nodes and nest of speculations: until a     *)
(* text with keywords in it is rewound and the table not truncated, the    *)
(* table is in source order, each mark is claimed by the node that ate its *)
(* keyword, and in_span finds exactly the marks of a span.                 *)
(***************************************************************************)
EXTENDS ClauseMarks, FiniteSetTheorems, SequenceTheorems, WellFoundedInduction, TLAPS

(* The open nodes on a stack.                                              *)
NodeFrames(s) == {k \in 1..Len(s) : s[k].kind = "node"}

(* A frame's checkpoints lie within the table and behind the cursor.       *)
Checkpointed(s, marks, at) ==
    \A k \in 1..Len(s) : s[k].marks <= marks /\ s[k].at <= at

(* A frame's checkpoints are not before those of the frames around it.     *)
Nested(s) == \A l \in 1..Len(s) : \A k \in 1..l : s[k].marks <= s[l].marks /\ s[k].at <= s[l].at

(* An open node has a number.                                              *)
Numbered(s) == \A k \in 1..Len(s) : s[k].kind = "node" => s[k].node # 0

(***************************************************************************)
(* What holds whatever was read twice.  Each id is minted for an open      *)
(* node, which is what bounds them: the ids minted and the nodes still     *)
(* open are together no more than the nodes opened.                        *)
(***************************************************************************)
FramesInv ==
    /\ Checkpointed(stack, Len(clause_marks), pos)
    /\ Nested(stack)
    /\ Numbered(stack)
    /\ taken => stack = <<>>
    /\ Len(node) = next_node_id - 1
    /\ Cardinality(NodeFrames(stack)) + Len(node) <= opened

(* The marks a frame found in the table are those of text before it.       *)
FoundBefore(s, m) ==
    \A k \in 1..Len(s) : \A i \in 1..Len(m) : i <= s[k].marks => m[i].offset <= s[k].at

(* Frame k is the one that recorded mark i: the innermost that found fewer *)
(* than i marks.                                                           *)
Recorded(s, k, m, i) ==
    /\ s[k].kind = "node"
    /\ s[k].node = m[i].by
    /\ s[k].marks < i
    /\ \A l \in (k + 1)..Len(s) : i <= s[l].marks

(* An unclaimed mark has its recorder on the stack, a claimed one had its  *)
(* recorder close.                                                         *)
Accounted(s, m) ==
    \A i \in 1..Len(m) : m[i].owner = Pending => \E k \in 1..Len(s) : Recorded(s, k, m, i)

Claimed(m, minted) ==
    \A i \in 1..Len(m) :
        m[i].owner # Pending => m[i].owner \in 1..Len(minted) /\ minted[m[i].owner] = m[i].by

(* MarksBehindCursor and Sorted of any table.                              *)
Behind(m, at) == \A i \in 1..Len(m) : m[i].offset <= at

InOrder(m) == \A i, j \in 1..Len(m) : i < j => m[i].offset <= m[j].offset

(* What holds until a rewind leaves keywords behind.                       *)
MarksInv ==
    /\ FoundBefore(stack, clause_marks)
    /\ Accounted(stack, clause_marks)
    /\ Claimed(clause_marks, node)
    /\ Behind(clause_marks, pos)
    /\ InOrder(clause_marks)

IInv == TypeOK /\ FramesInv /\ (~reread => MarksInv)

USE BoundsAssumption, SpeculationAssumption

(* The first n elements of a sequence.                                     *)
LEMMA Prefix ==
    ASSUME NEW S, NEW s \in Seq(S), NEW n \in 0..Len(s)
    PROVE  /\ SubSeq(s, 1, n) \in Seq(S)
           /\ Len(SubSeq(s, 1, n)) = n
           /\ \A k \in 1..n : SubSeq(s, 1, n)[k] = s[k]
<1>1. n \in Nat /\ (\A i \in 1..n : s[i] \in S)
  OBVIOUS
<1>2. /\ SubSeq(s, 1, n) \in Seq(S)
      /\ Len(SubSeq(s, 1, n)) = IF 1 <= n THEN n - 1 + 1 ELSE 0
      /\ \A k \in 1..(n - 1 + 1) : SubSeq(s, 1, n)[k] = s[1 + k - 1]
  BY <1>1, SubSeqProperties
<1>3. Len(SubSeq(s, 1, n)) = n
  BY <1>1, <1>2
<1> QED
  BY <1>1, <1>2, <1>3

(* The frame on top is one of the open nodes, or none is gained.           *)
LEMMA NodeFramesOfAppend ==
    ASSUME NEW s \in Seq(Frame), NEW f \in Frame
    PROVE  /\ Cardinality(NodeFrames(s)) \in Nat
           /\ Cardinality(NodeFrames(Append(s, f))) =
                Cardinality(NodeFrames(s)) + (IF f.kind = "node" THEN 1 ELSE 0)
<1> DEFINE n == Len(s)
<1>1. n \in Nat
  OBVIOUS
<1>2. IsFiniteSet(1..n)
  BY <1>1, FS_Interval
<1>3. IsFiniteSet(NodeFrames(s)) /\ n + 1 \notin NodeFrames(s)
  BY <1>1, <1>2, FS_Subset DEF NodeFrames
<1>4. CASE f.kind = "node"
  <2>1. NodeFrames(Append(s, f)) = NodeFrames(s) \cup {n + 1}
    BY <1>1, <1>4 DEF NodeFrames
  <2> QED
    BY <2>1, <1>3, <1>4, FS_AddElement, FS_CardinalityType
<1>5. CASE f.kind # "node"
  <2>1. NodeFrames(Append(s, f)) = NodeFrames(s)
    BY <1>1, <1>5 DEF NodeFrames
  <2> QED
    BY <2>1, <1>3, <1>5, FS_CardinalityType
<1> QED
  BY <1>4, <1>5

(* Abandoned frames take no open node with them but their own.             *)
LEMMA NodeFramesOfPrefix ==
    ASSUME NEW s \in Seq(Frame), NEW n \in 0..Len(s)
    PROVE  /\ Cardinality(NodeFrames(SubSeq(s, 1, n))) \in Nat
           /\ Cardinality(NodeFrames(s)) \in Nat
           /\ Cardinality(NodeFrames(SubSeq(s, 1, n))) <= Cardinality(NodeFrames(s))
<1> DEFINE t == SubSeq(s, 1, n)
<1>1. Len(t) = n /\ (\A k \in 1..n : t[k] = s[k])
  BY Prefix
<1>2. NodeFrames(t) \subseteq NodeFrames(s)
  BY <1>1 DEF NodeFrames
<1>3. IsFiniteSet(NodeFrames(s))
  <2>1. IsFiniteSet(1..Len(s))
    BY FS_Interval
  <2> QED
    BY <2>1, FS_Subset DEF NodeFrames
<1> QED
  BY <1>2, <1>3, FS_Subset, FS_CardinalityType

(* A non-empty stack is its top frame on the frames below.                 *)
LEMMA TopOfStack ==
    ASSUME stack \in Seq(Frame), stack # <<>>
    PROVE  /\ Below \in Seq(Frame)
           /\ Top \in Frame
           /\ stack = Append(Below, Top)
           /\ Len(stack) \in Nat \ {0}
           /\ Len(Below) = Len(stack) - 1
           /\ \A k \in 1..Len(Below) : Below[k] = stack[k]
<1>1. Len(stack) \in Nat \ {0}
  BY EmptySeq
<1>2. /\ Below \in Seq(Frame)
      /\ Len(Below) = Len(stack) - 1
      /\ \A k \in 1..Len(Below) : Below[k] = stack[k]
  <2> DEFINE n == Len(stack) - 1
  <2>1. n \in 0..Len(stack)
    BY <1>1
  <2> HIDE DEF n
  <2>2. /\ SubSeq(stack, 1, n) \in Seq(Frame)
        /\ Len(SubSeq(stack, 1, n)) = n
        /\ \A k \in 1..n : SubSeq(stack, 1, n)[k] = stack[k]
    BY <2>1, Prefix
  <2> QED
    BY <2>2 DEF Below, n
<1>3. Top \in Frame
  BY <1>1 DEF Top
<1>4. stack = Append(Below, Top)
  BY <1>1 DEF Below, Top
<1> QED
  BY <1>1, <1>2, <1>3, <1>4

(* A frame pushed with the present checkpoints keeps the stack in order.   *)
LEMMA PushKeepsFrames ==
    ASSUME TypeOK, FramesInv, NEW f \in Frame, f.marks = Len(clause_marks), f.at = pos,
           f.kind = "node" => f.node # 0
    PROVE  /\ Append(stack, f) \in Seq(Frame)
           /\ Checkpointed(Append(stack, f), Len(clause_marks), pos)
           /\ Nested(Append(stack, f))
           /\ Numbered(Append(stack, f))
<1> DEFINE t == Append(stack, f)
           n == Len(stack)
<1>1. stack \in Seq(Frame) /\ n \in Nat /\ Len(clause_marks) \in Nat /\ pos \in Nat
  BY DEF TypeOK
<1>2. t \in Seq(Frame) /\ Len(t) = n + 1 /\ t[n + 1] = f /\ (\A k \in 1..n : t[k] = stack[k])
  BY <1>1
<1> HIDE DEF t, n
<1>3. \A k \in 1..n : stack[k].marks <= f.marks /\ stack[k].at <= f.at
  BY DEF FramesInv, Checkpointed, n
<1>4. Checkpointed(t, Len(clause_marks), pos)
  BY <1>1, <1>2, <1>3 DEF Checkpointed
<1>5. Nested(t)
  <2> SUFFICES ASSUME NEW l \in 1..(n + 1), NEW k \in 1..l
               PROVE  t[k].marks <= t[l].marks /\ t[k].at <= t[l].at
    BY <1>2 DEF Nested
  <2>1. CASE l = n + 1
    BY <2>1, <1>1, <1>2, <1>3
  <2>2. CASE l # n + 1
    <3>1. l \in 1..n /\ k \in 1..n
      BY <2>2, <1>1
    <3> QED
      BY <3>1, <1>2 DEF FramesInv, Nested, n
  <2> QED
    BY <2>1, <2>2
<1>6. Numbered(t)
  BY <1>1, <1>2 DEF FramesInv, Numbered, n
<1> QED
  BY <1>2, <1>4, <1>5, <1>6 DEF t

(* Frames that are popped leave the others as they were.                   *)
LEMMA PopKeepsFrames ==
    ASSUME TypeOK, FramesInv, NEW n \in 0..Len(stack)
    PROVE  /\ SubSeq(stack, 1, n) \in Seq(Frame)
           /\ Checkpointed(SubSeq(stack, 1, n), Len(clause_marks), pos)
           /\ Nested(SubSeq(stack, 1, n))
           /\ Numbered(SubSeq(stack, 1, n))
<1> DEFINE t == SubSeq(stack, 1, n)
<1>1. stack \in Seq(Frame) /\ Len(stack) \in Nat
  BY DEF TypeOK
<1>2. t \in Seq(Frame) /\ Len(t) = n /\ (\A k \in 1..n : t[k] = stack[k])
  BY <1>1, Prefix
<1> HIDE DEF t
<1>3. 1..n \subseteq 1..Len(stack)
  BY <1>1
<1>4. Checkpointed(t, Len(clause_marks), pos) /\ Numbered(t)
  BY <1>2, <1>3 DEF FramesInv, Checkpointed, Numbered
<1>5. Nested(t)
  <2> SUFFICES ASSUME NEW l \in 1..n, NEW k \in 1..l
               PROVE  t[k].marks <= t[l].marks /\ t[k].at <= t[l].at
    BY <1>2 DEF Nested
  <2>1. k \in 1..n /\ l \in 1..Len(stack)
    BY <1>1
  <2> QED
    BY <2>1, <1>2 DEF FramesInv, Nested
<1> QED
  BY <1>2, <1>4, <1>5 DEF t

(* Patched keeps the table's length, every offset and every recorder, and  *)
(* gives the unclaimed marks past the checkpoint the owner.                *)
LEMMA PatchedMarks ==
    ASSUME clause_marks \in Seq(Mark), NEW c \in Nat, NEW o \in 0..MaxNodes
    PROVE  /\ Patched(c, o) \in Seq(Mark)
           /\ Len(Patched(c, o)) = Len(clause_marks)
           /\ \A i \in 1..Len(clause_marks) :
                /\ Patched(c, o)[i].offset = clause_marks[i].offset
                /\ Patched(c, o)[i].by = clause_marks[i].by
                /\ Patched(c, o)[i].owner =
                     IF i > c /\ clause_marks[i].owner = Pending THEN o ELSE clause_marks[i].owner
<1> DEFINE n == Len(clause_marks)
           g(i) == IF i > c /\ clause_marks[i].owner = Pending
                   THEN [clause_marks[i] EXCEPT !.owner = o] ELSE clause_marks[i]
<1>1. n \in Nat /\ Patched(c, o) = [i \in 1..n |-> g(i)]
  BY DEF Patched
<1>2. ASSUME NEW i \in 1..n
      PROVE  /\ g(i) \in Mark
             /\ g(i).offset = clause_marks[i].offset
             /\ g(i).by = clause_marks[i].by
             /\ g(i).owner = IF i > c /\ clause_marks[i].owner = Pending THEN o ELSE clause_marks[i].owner
  <2>1. clause_marks[i] \in Mark
    BY ElementOfSeq
  <2> QED
    BY <2>1 DEF Mark
<1> HIDE DEF g
<1>3. [i \in 1..n |-> g(i)] \in Seq(Mark) /\ Len([i \in 1..n |-> g(i)]) = n
  <2>1. \A i \in 1..n : g(i) \in Mark
    BY <1>2
  <2> HIDE DEF n
  <2> QED
    BY <2>1, <1>1, IsASeq
<1> QED
  BY <1>1, <1>2, <1>3

(***************************************************************************)
(* The frames' invariant under each kind of step.                          *)
(***************************************************************************)

(* A frame is pushed: Open and Speculate.                                  *)
LEMMA PushPreserves ==
    ASSUME IInv, ~taken, NEW f \in Frame, f.marks = Len(clause_marks), f.at = pos,
           f.kind = "node" => f.node # 0,
           stack' = Append(stack, f),
           opened' = (IF f.kind = "node" THEN opened + 1 ELSE opened),
           opened' \in 0..MaxNodes, speculated' \in 0..MaxSpeculation,
           UNCHANGED <<keyword, pos, clause_marks, next_node_id, node, reread, taken>>
    PROVE  IInv'
<1> DEFINE t == Append(stack, f)
           n == Len(stack)
<1>1. TypeOK /\ FramesInv /\ stack \in Seq(Frame) /\ clause_marks \in Seq(Mark) /\ node \in Seq(1..MaxNodes)
      /\ n \in Nat /\ Len(node) \in Nat /\ opened \in Nat /\ Len(clause_marks) \in Nat
  BY DEF IInv, TypeOK
<1>2. /\ t \in Seq(Frame)
      /\ Checkpointed(t, Len(clause_marks), pos)
      /\ Nested(t)
      /\ Numbered(t)
  BY <1>1, PushKeepsFrames
<1>3. Len(t) = n + 1 /\ t[n + 1] = f /\ (\A k \in 1..n : t[k] = stack[k])
  BY <1>1
<1>4. Cardinality(NodeFrames(stack)) \in Nat
      /\ Cardinality(NodeFrames(t)) = Cardinality(NodeFrames(stack)) + (IF f.kind = "node" THEN 1 ELSE 0)
  BY <1>1, NodeFramesOfAppend
<1>5. stack' = t
  OBVIOUS
<1>0. n = Len(stack)
  OBVIOUS
<1> HIDE DEF t, n
<1>6. TypeOK'
  BY <1>1, <1>2, <1>5 DEF TypeOK
<1>7. FramesInv'
  <2>1. Cardinality(NodeFrames(stack)) + Len(node) <= opened /\ Len(node) = next_node_id - 1
    BY <1>1 DEF FramesInv
  <2>2. Cardinality(NodeFrames(t)) + Len(node) <= opened'
    BY <2>1, <1>1, <1>4
  <2> QED
    BY <2>1, <2>2, <1>2, <1>5 DEF FramesInv, Checkpointed, Nested, Numbered, NodeFrames
<1>8. ASSUME ~reread' PROVE MarksInv'
  <2>1. MarksInv
    BY <1>8 DEF IInv
  <2>2. FoundBefore(t, clause_marks)
    <3> SUFFICES ASSUME NEW k \in 1..(n + 1), NEW i \in 1..Len(clause_marks), i <= t[k].marks
                 PROVE  clause_marks[i].offset <= t[k].at
      BY <1>3 DEF FoundBefore
    <3>1. CASE k = n + 1
      BY <3>1, <1>3, <2>1 DEF MarksInv, Behind
    <3>2. CASE k # n + 1
      <4>0. k \in 1..n
        BY <3>2, <1>1
      <4>1. k \in 1..Len(stack) /\ t[k] = stack[k]
        BY <4>0, <1>0, <1>3
      <4>2. FoundBefore(stack, clause_marks)
        BY <2>1 DEF MarksInv
      <4>3. i <= stack[k].marks
        BY <4>1
      <4> QED
        BY <4>1, <4>2, <4>3 DEF FoundBefore
    <3> QED
      BY <3>1, <3>2
  <2>3. Accounted(t, clause_marks)
    <3> SUFFICES ASSUME NEW i \in 1..Len(clause_marks), clause_marks[i].owner = Pending
                 PROVE  \E k \in 1..(n + 1) : Recorded(t, k, clause_marks, i)
      BY <1>3 DEF Accounted
    <3>1. PICK k \in 1..n : Recorded(stack, k, clause_marks, i)
      BY <2>1 DEF MarksInv, Accounted, n
    <3>2. k \in 1..(n + 1) /\ t[k] = stack[k]
      BY <1>1, <1>3
    <3>3. ASSUME NEW l \in (k + 1)..(n + 1) PROVE i <= t[l].marks
      <4>1. CASE l = n + 1
        BY <4>1, <1>1, <1>3
      <4>2. CASE l # n + 1
        <5>1. l \in (k + 1)..n /\ l \in 1..n
          BY <4>2, <1>1
        <5>2. i <= stack[l].marks
          BY <5>1, <3>1, <1>0 DEF Recorded
        <5>3. t[l] = stack[l]
          BY <5>1, <1>3
        <5> QED
          BY <5>2, <5>3
      <4> QED
        BY <4>1, <4>2
    <3>4. Recorded(t, k, clause_marks, i)
      BY <3>1, <3>2, <3>3, <1>3 DEF Recorded
    <3> QED
      BY <3>2, <3>4
  <2> QED
    BY <2>1, <2>2, <2>3, <1>5 DEF MarksInv, FoundBefore, Accounted, Recorded, Claimed, Behind, InOrder
<1> QED
  BY <1>6, <1>7, <1>8 DEF IInv

(* The top of the stack and the end of the table are cut off, with no mark *)
(* of a node that stays.                                                   *)
LEMMA CutKeepsMarks ==
    ASSUME IInv, MarksInv, NEW n \in 0..Len(stack), NEW q \in 0..Len(clause_marks), NEW at,
           \A k \in (n + 1)..Len(stack) : stack[k].kind = "node" => q <= stack[k].marks,
           \A i \in 1..q : clause_marks[i].offset <= at
    PROVE  /\ FoundBefore(SubSeq(stack, 1, n), SubSeq(clause_marks, 1, q))
           /\ Accounted(SubSeq(stack, 1, n), SubSeq(clause_marks, 1, q))
           /\ Claimed(SubSeq(clause_marks, 1, q), node)
           /\ Behind(SubSeq(clause_marks, 1, q), at)
           /\ InOrder(SubSeq(clause_marks, 1, q))
<1> DEFINE t == SubSeq(stack, 1, n)
           m == SubSeq(clause_marks, 1, q)
<1>1. stack \in Seq(Frame) /\ clause_marks \in Seq(Mark) /\ Len(stack) \in Nat /\ Len(clause_marks) \in Nat
  BY DEF IInv, TypeOK
<1>2. Len(t) = n /\ (\A k \in 1..n : t[k] = stack[k])
  BY <1>1, Prefix
<1>3. Len(m) = q /\ (\A i \in 1..q : m[i] = clause_marks[i])
  BY <1>1, Prefix
<1>4. 1..n \subseteq 1..Len(stack) /\ 1..q \subseteq 1..Len(clause_marks)
  BY <1>1
<1> HIDE DEF t, m
<1>5. FoundBefore(t, m)
  BY <1>2, <1>3, <1>4 DEF MarksInv, FoundBefore
<1>6. Accounted(t, m)
  <2> SUFFICES ASSUME NEW i \in 1..q, m[i].owner = Pending
               PROVE  \E k \in 1..n : Recorded(t, k, m, i)
    BY <1>2, <1>3 DEF Accounted
  <2>1. m[i] = clause_marks[i] /\ i \in 1..Len(clause_marks)
    BY <1>3, <1>4
  <2>2. PICK k \in 1..Len(stack) : Recorded(stack, k, clause_marks, i)
    BY <2>1 DEF MarksInv, Accounted
  <2>3. stack[k].kind = "node" /\ stack[k].node = clause_marks[i].by /\ stack[k].marks < i
        /\ \A l \in (k + 1)..Len(stack) : i <= stack[l].marks
    BY <2>2 DEF Recorded
  <2>4. stack[k].marks \in Nat
    <3>1. stack[k] \in Frame
      BY <1>1, ElementOfSeq
    <3> QED
      BY <3>1 DEF Frame
  <2>5. ~(k \in (n + 1)..Len(stack))
    BY <2>3, <2>4
  <2>6. k \in 1..n
    BY <2>5, <1>1
  <2>7. \A l \in (k + 1)..n : l \in (k + 1)..Len(stack) /\ l \in 1..n
    BY <1>1
  <2>8. \A l \in (k + 1)..n : i <= t[l].marks
    BY <2>3, <2>7, <1>2
  <2>9. Recorded(t, k, m, i)
    BY <2>1, <2>3, <2>6, <2>8, <1>2 DEF Recorded
  <2> QED
    BY <2>6, <2>9
<1>7. Claimed(m, node)
  BY <1>3, <1>4 DEF MarksInv, Claimed
<1>8. Behind(m, at)
  BY <1>3 DEF Behind
<1>9. InOrder(m)
  BY <1>3, <1>4 DEF MarksInv, InOrder
<1> QED
  BY <1>5, <1>6, <1>7, <1>8, <1>9 DEF t, m

(* The node on top records a mark ahead of all others.                     *)
LEMMA RecordPreserves ==
    ASSUME IInv, RecordClauseMark
    PROVE  IInv'
<1> DEFINE mk == [owner |-> Pending, offset |-> pos + 1, by |-> Top.node]
           m == Append(clause_marks, mk)
           q == Len(clause_marks)
           n == Len(stack)
<1>1. TypeOK /\ FramesInv /\ stack \in Seq(Frame) /\ clause_marks \in Seq(Mark) /\ pos \in 0..MaxOffset
      /\ n \in Nat /\ q \in Nat
  BY DEF IInv, TypeOK
<1>2. stack # <<>> /\ Top.kind = "node" /\ pos < MaxOffset /\ ~taken /\ pos' = pos + 1 /\ clause_marks' = m
      /\ UNCHANGED <<keyword, stack, next_node_id, opened, node, speculated, reread, taken>>
  BY DEF RecordClauseMark
<1>3. Top \in Frame /\ n # 0 /\ Top = stack[n]
  BY <1>1, <1>2, TopOfStack DEF Top
<1>4. mk \in Mark
  <2>1. Top.node \in 0..MaxNodes /\ Top.node # 0
    BY <1>1, <1>2, <1>3 DEF Frame, FramesInv, Numbered
  <2> QED
    BY <2>1, <1>1, <1>2 DEF Mark, Pending
<1>5. m \in Seq(Mark) /\ Len(m) = q + 1 /\ m[q + 1] = mk /\ (\A i \in 1..q : m[i] = clause_marks[i])
  BY <1>1, <1>4
<1>6. mk.owner = Pending /\ mk.offset = pos + 1 /\ mk.by = Top.node
  OBVIOUS
<1>7. n = Len(stack) /\ q = Len(clause_marks)
  OBVIOUS
<1> HIDE DEF m, mk, n, q
<1>8. TypeOK'
  BY <1>1, <1>2, <1>5 DEF TypeOK
<1>9. \A k \in 1..n : stack[k].marks <= q /\ stack[k].at <= pos /\ stack[k].marks \in Nat /\ stack[k].at \in Nat
  <2> SUFFICES ASSUME NEW k \in 1..n
               PROVE  stack[k].marks <= q /\ stack[k].at <= pos /\ stack[k].marks \in Nat /\ stack[k].at \in Nat
    OBVIOUS
  <2>1. stack[k] \in Frame
    BY <1>1, <1>7, ElementOfSeq
  <2>2. stack[k].marks \in Nat /\ stack[k].at \in Nat
    BY <2>1 DEF Frame
  <2> QED
    BY <2>2, <1>1, <1>7 DEF FramesInv, Checkpointed
<1>10. FramesInv'
  <2>1. Checkpointed(stack, q + 1, pos + 1)
    BY <1>1, <1>7, <1>9 DEF Checkpointed
  <2> QED
    BY <2>1, <1>1, <1>2, <1>5 DEF FramesInv, Checkpointed, Nested, Numbered, NodeFrames
<1>11. ASSUME ~reread' PROVE MarksInv'
  <2>1. MarksInv
    BY <1>2, <1>11 DEF IInv
  <2>2. \A i \in 1..(q + 1) : i = q + 1 \/ i \in 1..q
    BY <1>1
  <2>3. FoundBefore(stack, m)
    <3> SUFFICES ASSUME NEW k \in 1..n, NEW i \in 1..(q + 1), i <= stack[k].marks
                 PROVE  m[i].offset <= stack[k].at
      BY <1>5, <1>7 DEF FoundBefore
    <3>1. i \in 1..q
      BY <1>1, <1>9
    <3> QED
      BY <3>1, <1>5, <1>7, <2>1 DEF MarksInv, FoundBefore
  <2>4. Accounted(stack, m)
    <3> SUFFICES ASSUME NEW i \in 1..(q + 1), m[i].owner = Pending
                 PROVE  \E k \in 1..n : Recorded(stack, k, m, i)
      BY <1>5, <1>7 DEF Accounted
    <3>1. CASE i \in 1..q
      <4>1. PICK k \in 1..n : Recorded(stack, k, clause_marks, i)
        BY <3>1, <1>5, <1>7, <2>1 DEF MarksInv, Accounted
      <4>2. Recorded(stack, k, m, i)
        BY <4>1, <3>1, <1>5 DEF Recorded
      <4> QED
        BY <4>2
    <3>2. CASE i = q + 1
      <4>1. n \in 1..n /\ (n + 1)..n = {}
        BY <1>1, <1>3
      <4>2. stack[n].marks < i
        BY <4>1, <3>2, <1>1, <1>9
      <4>3. Recorded(stack, n, m, i)
        BY <4>1, <4>2, <3>2, <1>2, <1>3, <1>5, <1>6, <1>7 DEF Recorded
      <4> QED
        BY <4>1, <4>3
    <3> QED
      BY <3>1, <3>2, <2>2
  <2>5. Claimed(m, node)
    BY <2>1, <2>2, <1>5, <1>6, <1>7 DEF MarksInv, Claimed
  <2>6. \A i \in 1..q : m[i].offset \in Nat /\ m[i].offset <= pos
    <3> SUFFICES ASSUME NEW i \in 1..q PROVE m[i].offset \in Nat /\ m[i].offset <= pos
      OBVIOUS
    <3>1. clause_marks[i] \in Mark
      BY <1>1, <1>7, ElementOfSeq
    <3>2. clause_marks[i].offset \in Nat
      BY <3>1 DEF Mark
    <3> QED
      BY <3>2, <1>5, <1>7, <2>1 DEF MarksInv, Behind
  <2>7. Behind(m, pos + 1)
    BY <2>2, <2>6, <1>1, <1>5, <1>6 DEF Behind
  <2>8. InOrder(m)
    <3> SUFFICES ASSUME NEW i \in 1..(q + 1), NEW j \in 1..(q + 1), i < j
                 PROVE  m[i].offset <= m[j].offset
      BY <1>5 DEF InOrder
    <3>1. i \in 1..q
      BY <1>1
    <3>2. CASE j \in 1..q
      BY <3>1, <3>2, <1>5, <1>7, <2>1 DEF MarksInv, InOrder
    <3>3. CASE j = q + 1
      BY <3>1, <3>3, <2>6, <1>1, <1>5, <1>6
    <3> QED
      BY <3>2, <3>3, <2>2
  <2> QED
    BY <2>3, <2>4, <2>5, <2>7, <2>8, <1>2 DEF MarksInv, FoundBefore, Accounted, Recorded, Claimed, Behind, InOrder
<1> QED
  BY <1>8, <1>10, <1>11 DEF IInv

(* The node on top claims the marks it recorded, and no other's: what is   *)
(* unclaimed past its checkpoint is its own, what is unclaimed before it   *)
(* belongs to a node further out.                                          *)
LEMMA ClosePreserves ==
    ASSUME IInv, Close
    PROVE  IInv'
<1> DEFINE n == Len(stack)
           q == Len(clause_marks)
           o == next_node_id
           m == Patched(Top.marks, o)
           nd == Append(node, Top.node)
<1>1. TypeOK /\ FramesInv /\ stack \in Seq(Frame) /\ clause_marks \in Seq(Mark) /\ node \in Seq(1..MaxNodes)
      /\ n \in Nat /\ q \in Nat /\ Len(node) \in Nat /\ opened \in 0..MaxNodes /\ o \in Nat
  BY DEF IInv, TypeOK
<1>2. stack # <<>> /\ Top.kind = "node" /\ ~taken /\ clause_marks' = m /\ node' = nd
      /\ next_node_id' = o + 1 /\ stack' = Below
      /\ UNCHANGED <<keyword, pos, opened, speculated, reread, taken>>
  BY DEF Close
<1>3. Below \in Seq(Frame) /\ Top \in Frame /\ n # 0 /\ Top = stack[n] /\ Len(Below) = n - 1
      /\ stack = Append(Below, Top) /\ Below = SubSeq(stack, 1, n - 1)
      /\ (\A k \in 1..(n - 1) : Below[k] = stack[k])
  BY <1>1, <1>2, TopOfStack DEF Top, Below
<1>4. Top.marks \in Nat /\ Top.node \in 0..MaxNodes /\ Top.node # 0
  <2>1. Top.marks \in Nat /\ Top.node \in 0..MaxNodes
    BY <1>3 DEF Frame
  <2> QED
    BY <2>1, <1>1, <1>2, <1>3 DEF FramesInv, Numbered
<1>5. Len(node) = o - 1 /\ o \in 1..MaxNodes /\ Cardinality(NodeFrames(Below)) + Len(node) + 1 <= opened
      /\ Cardinality(NodeFrames(Below)) \in Nat
  <2>1. Len(node) = o - 1 /\ Cardinality(NodeFrames(stack)) + Len(node) <= opened
    BY <1>1 DEF FramesInv
  <2>2. Cardinality(NodeFrames(Below)) \in Nat
        /\ Cardinality(NodeFrames(Append(Below, Top))) = Cardinality(NodeFrames(Below)) + 1
    BY <1>2, <1>3, NodeFramesOfAppend
  <2>3. Cardinality(NodeFrames(stack)) = Cardinality(NodeFrames(Below)) + 1
    BY <2>2, <1>3
  <2> QED
    BY <2>1, <2>2, <2>3, <1>1
<1>6. m \in Seq(Mark) /\ Len(m) = q
      /\ \A i \in 1..q : /\ m[i].offset = clause_marks[i].offset
                         /\ m[i].by = clause_marks[i].by
                         /\ m[i].owner = IF i > Top.marks /\ clause_marks[i].owner = Pending
                                         THEN o ELSE clause_marks[i].owner
  <2>1. o \in 0..MaxNodes
    BY <1>5
  <2> QED
    BY <2>1, <1>1, <1>4, PatchedMarks
<1>7. nd \in Seq(1..MaxNodes) /\ Len(nd) = Len(node) + 1 /\ nd[Len(node) + 1] = Top.node
      /\ \A k \in 1..Len(node) : nd[k] = node[k]
  <2>1. Top.node \in 1..MaxNodes
    BY <1>4
  <2> QED
    BY <2>1, <1>1
<1>8. /\ Checkpointed(Below, q, pos)
      /\ Nested(Below)
      /\ Numbered(Below)
  <2>1. n - 1 \in 0..Len(stack)
    BY <1>1, <1>3
  <2>2. /\ Checkpointed(SubSeq(stack, 1, n - 1), Len(clause_marks), pos)
        /\ Nested(SubSeq(stack, 1, n - 1))
        /\ Numbered(SubSeq(stack, 1, n - 1))
    BY <2>1, <1>1, PopKeepsFrames
  <2> QED
    BY <2>2 DEF Below
<1>9. n = Len(stack) /\ q = Len(clause_marks) /\ o = next_node_id
  OBVIOUS
<1> HIDE DEF n, q, o, m, nd
<1>10. TypeOK'
  <2>1. next_node_id' \in 1..(MaxNodes + 1)
    BY <1>2, <1>5
  <2> QED
    BY <2>1, <1>1, <1>2, <1>3, <1>6, <1>7 DEF TypeOK
<1>11. FramesInv'
  <2>1. Len(nd) = next_node_id' - 1
    BY <1>2, <1>5, <1>7
  <2>2. Cardinality(NodeFrames(Below)) + Len(nd) <= opened
    BY <1>1, <1>5, <1>7
  <2>3. Checkpointed(Below, Len(m), pos)
    BY <1>6, <1>8
  <2>4. taken' = FALSE
    BY <1>1, <1>2 DEF TypeOK
  <2> HIDE DEF Below
  <2> QED
    BY <2>1, <2>2, <2>3, <2>4, <1>2, <1>8 DEF FramesInv, Checkpointed, Nested, Numbered, NodeFrames
<1>12. ASSUME ~reread' PROVE MarksInv'
  <2>1. /\ FoundBefore(stack, clause_marks)
        /\ Accounted(stack, clause_marks)
        /\ Claimed(clause_marks, node)
        /\ Behind(clause_marks, pos)
        /\ InOrder(clause_marks)
    BY <1>2, <1>12 DEF IInv, MarksInv
  <2>2. \A k \in 1..(n - 1) : k \in 1..n /\ Below[k] = stack[k]
    <3>1. \A k \in 1..(n - 1) : k \in 1..n
      BY <1>1
    <3>2. \A k \in 1..(n - 1) : Below[k] = stack[k]
      BY <1>3
    <3> QED
      BY <3>1, <3>2
  <2>3. FoundBefore(Below, m)
    BY <2>1, <2>2, <1>3, <1>6, <1>9 DEF FoundBefore
  <2>4. ASSUME NEW i \in 1..q, clause_marks[i].owner = Pending
        PROVE  \E k \in 1..n : Recorded(stack, k, clause_marks, i)
    BY <2>1, <2>4, <1>9 DEF Accounted
  <2>5. Accounted(Below, m)
    <3> SUFFICES ASSUME NEW i \in 1..q, m[i].owner = Pending
                 PROVE  \E k \in 1..(n - 1) : Recorded(Below, k, m, i)
      BY <1>3, <1>6 DEF Accounted
    <3>1. clause_marks[i].owner = Pending /\ ~(i > Top.marks)
      BY <1>5, <1>6 DEF Pending
    <3>2. PICK k \in 1..n : Recorded(stack, k, clause_marks, i)
      BY <3>1, <2>4
    <3>3. stack[k].kind = "node" /\ stack[k].node = clause_marks[i].by /\ stack[k].marks < i
          /\ \A l \in (k + 1)..n : i <= stack[l].marks
      BY <3>2, <1>9 DEF Recorded
    <3>4. k # n
      BY <3>1, <3>3, <1>3, <1>4
    <3>5. k \in 1..(n - 1)
      BY <3>4, <1>1
    <3>6. \A l \in (k + 1)..(n - 1) : l \in (k + 1)..n /\ l \in 1..(n - 1)
      BY <1>1
    <3>7. \A l \in (k + 1)..(n - 1) : i <= Below[l].marks
      BY <3>3, <3>6, <2>2
    <3>8. Recorded(Below, k, m, i)
      BY <3>3, <3>5, <3>7, <2>2, <1>3, <1>6 DEF Recorded
    <3> QED
      BY <3>5, <3>8
  <2>6. Claimed(m, nd)
    <3> SUFFICES ASSUME NEW i \in 1..q, m[i].owner # Pending
                 PROVE  m[i].owner \in 1..Len(nd) /\ nd[m[i].owner] = m[i].by
      BY <1>6 DEF Claimed
    <3>1. CASE clause_marks[i].owner # Pending
      <4>1. m[i].owner = clause_marks[i].owner /\ m[i].by = clause_marks[i].by
        BY <3>1, <1>6
      <4>2. clause_marks[i].owner \in 1..Len(node) /\ node[clause_marks[i].owner] = clause_marks[i].by
        BY <3>1, <2>1, <1>9 DEF Claimed
      <4>3. m[i].owner \in 1..Len(node) /\ nd[m[i].owner] = node[m[i].owner]
        BY <4>1, <4>2, <1>7
      <4>4. nd[m[i].owner] = m[i].by
        BY <4>1, <4>2, <4>3
      <4>5. 1..Len(node) \subseteq 1..Len(nd)
        BY <1>1, <1>7
      <4> QED
        BY <4>3, <4>4, <4>5
    <3>2. CASE clause_marks[i].owner = Pending
      <4>1. i > Top.marks /\ m[i].owner = o /\ m[i].by = clause_marks[i].by
        BY <3>2, <1>6
      <4>2. PICK k \in 1..n : Recorded(stack, k, clause_marks, i)
        BY <3>2, <2>4
      <4>3. stack[k].node = clause_marks[i].by /\ \A l \in (k + 1)..n : i <= stack[l].marks
        BY <4>2, <1>9 DEF Recorded
      <4>4. k = n
        <5>1. ASSUME k # n PROVE FALSE
          <6>1. n \in (k + 1)..n
            BY <5>1, <1>1
          <6>2. i <= Top.marks
            BY <6>1, <4>3, <1>3
          <6> QED
            BY <6>2, <4>1, <1>4
        <5> QED
          BY <5>1
      <4>5. m[i].by = Top.node
        BY <4>1, <4>3, <4>4, <1>3
      <4> QED
        BY <4>1, <4>5, <1>1, <1>5, <1>7
    <3> QED
      BY <3>1, <3>2
  <2>7. Behind(m, pos) /\ InOrder(m)
    BY <2>1, <1>6, <1>9 DEF Behind, InOrder
  <2> HIDE DEF Below
  <2> QED
    BY <2>3, <2>5, <2>6, <2>7, <1>2
    DEF MarksInv, FoundBefore, Accounted, Recorded, Claimed, Behind, InOrder
<1> QED
  BY <1>10, <1>11, <1>12 DEF IInv

(* The stack is cut to its first n frames, and the table to its first q    *)
(* marks: Commit, and Rewind.                                              *)
LEMMA CutPreserves ==
    ASSUME IInv, ~taken, NEW n \in 0..Len(stack), NEW q \in 0..Len(clause_marks),
           stack' = SubSeq(stack, 1, n), clause_marks' = SubSeq(clause_marks, 1, q),
           pos' \in 0..MaxOffset, reread' \in BOOLEAN,
           \A k \in 1..n : stack[k].marks <= q /\ stack[k].at <= pos',
           ~reread' =>
             /\ ~reread
             /\ \A k \in (n + 1)..Len(stack) : stack[k].kind = "node" => q <= stack[k].marks
             /\ MarksInv => \A i \in 1..q : clause_marks[i].offset <= pos',
           UNCHANGED <<keyword, next_node_id, opened, node, speculated, taken>>
    PROVE  IInv'
<1> DEFINE t == SubSeq(stack, 1, n)
           m == SubSeq(clause_marks, 1, q)
<1>1. TypeOK /\ FramesInv /\ stack \in Seq(Frame) /\ clause_marks \in Seq(Mark) /\ taken = FALSE
      /\ opened \in Nat /\ Len(node) \in Nat
  BY DEF IInv, TypeOK
<1>2. t \in Seq(Frame) /\ Len(t) = n /\ (\A k \in 1..n : t[k] = stack[k]) /\ Nested(t) /\ Numbered(t)
  BY <1>1, Prefix, PopKeepsFrames
<1>3. m \in Seq(Mark) /\ Len(m) = q
  BY <1>1, Prefix
<1>4. Cardinality(NodeFrames(t)) + Len(node) <= opened /\ Len(node) = next_node_id - 1
  <2>1. Cardinality(NodeFrames(stack)) + Len(node) <= opened /\ Len(node) = next_node_id - 1
    BY <1>1 DEF FramesInv
  <2>2. Cardinality(NodeFrames(t)) \in Nat /\ Cardinality(NodeFrames(stack)) \in Nat
        /\ Cardinality(NodeFrames(t)) <= Cardinality(NodeFrames(stack))
    BY <1>1, NodeFramesOfPrefix
  <2> QED
    BY <2>1, <2>2, <1>1
<1>5. stack' = t /\ clause_marks' = m
  OBVIOUS
<1>6. ASSUME ~reread'
      PROVE  /\ FoundBefore(t, m)
             /\ Accounted(t, m)
             /\ Claimed(m, node)
             /\ Behind(m, pos')
             /\ InOrder(m)
  <2>1. MarksInv
    BY <1>6 DEF IInv
  <2> QED
    BY <2>1, <1>6, CutKeepsMarks
<1> HIDE DEF t, m
<1>7. TypeOK'
  BY <1>1, <1>2, <1>3, <1>5 DEF TypeOK
<1>8. FramesInv'
  <2>1. Checkpointed(t, q, pos')
    BY <1>2 DEF Checkpointed
  <2> QED
    BY <2>1, <1>1, <1>2, <1>3, <1>4, <1>5 DEF FramesInv, Checkpointed, Nested, Numbered, NodeFrames
<1>9. ASSUME ~reread' PROVE MarksInv'
  BY <1>5, <1>6, <1>9 DEF MarksInv, FoundBefore, Accounted, Recorded, Claimed, Behind, InOrder
<1> QED
  BY <1>7, <1>8, <1>9 DEF IInv

(* The innermost speculation is abandoned.  A probe cuts the table back to *)
(* its checkpoint; another speculation leaves it, and nothing has to be    *)
(* cut unless keywords were read.                                          *)
LEMMA RewindPreserves ==
    ASSUME IInv, Rewind
    PROVE  IInv'
<1>1. PICK i \in 1..Len(stack) :
        /\ stack[i].kind \in {"probe", "undone"}
        /\ \A j \in (i + 1)..Len(stack) : stack[j].kind = "node"
        /\ pos' = stack[i].at
        /\ clause_marks' = RewoundMarks(stack[i])
        /\ stack' = SubSeq(stack, 1, i - 1)
        /\ reread' = (reread \/ (stack[i].kind = "undone" /\ Len(clause_marks) > stack[i].marks))
  BY DEF Rewind
<1>2. ~taken /\ UNCHANGED <<keyword, next_node_id, opened, node, speculated, taken>>
  BY DEF Rewind
<1> DEFINE f == stack[i]
           n == i - 1
           q == IF f.kind = "probe" THEN f.marks ELSE Len(clause_marks)
<1>3. stack \in Seq(Frame) /\ clause_marks \in Seq(Mark) /\ Len(stack) \in Nat /\ Len(clause_marks) \in Nat
      /\ reread \in BOOLEAN
  BY DEF IInv, TypeOK
<1>4. f.marks \in Nat /\ f.at \in 0..MaxOffset /\ f.marks <= Len(clause_marks) /\ f.at <= pos
  <2>1. f \in Frame
    BY <1>3, ElementOfSeq
  <2>2. f.marks \in Nat /\ f.at \in 0..MaxOffset
    BY <2>1 DEF Frame
  <2>3. f.marks <= Len(clause_marks) /\ f.at <= pos
    BY DEF IInv, FramesInv, Checkpointed
  <2> QED
    BY <2>2, <2>3
<1>5. n \in 0..Len(stack) /\ q \in 0..Len(clause_marks) /\ f.marks <= q
  BY <1>3, <1>4
<1>6. clause_marks' = SubSeq(clause_marks, 1, q)
  <2>1. CASE f.kind = "probe"
    BY <2>1, <1>1 DEF RewoundMarks
  <2>2. CASE f.kind # "probe"
    <3>1. clause_marks' = clause_marks /\ q = Len(clause_marks)
      BY <2>2, <1>1 DEF RewoundMarks
    <3> QED
      BY <3>1, <1>3, SubSeqFull
  <2> QED
    BY <2>1, <2>2
<1>7. \A k \in 1..i : stack[k].marks <= f.marks /\ stack[k].at <= f.at
  BY DEF IInv, FramesInv, Nested
<1>8. \A k \in 1..Len(stack) : stack[k].marks \in Nat /\ (k > n => f.marks <= stack[k].marks)
  <2> SUFFICES ASSUME NEW k \in 1..Len(stack)
               PROVE  stack[k].marks \in Nat /\ (k > n => f.marks <= stack[k].marks)
    OBVIOUS
  <2>1. stack[k] \in Frame
    BY <1>3, ElementOfSeq
  <2>2. stack[k].marks \in Nat
    BY <2>1 DEF Frame
  <2>3. k > n => i \in 1..k
    BY <1>3
  <2>4. k > n => f.marks <= stack[k].marks
    BY <2>3 DEF IInv, FramesInv, Nested
  <2> QED
    BY <2>2, <2>4
<1>9. pos' = f.at /\ stack' = SubSeq(stack, 1, n)
      /\ reread' = (reread \/ (f.kind = "undone" /\ Len(clause_marks) > f.marks))
      /\ f.kind \in {"probe", "undone"}
  BY <1>1
<1>10. \A k \in 1..n : stack[k].marks <= q /\ stack[k].at <= pos'
  <2> SUFFICES ASSUME NEW k \in 1..n PROVE stack[k].marks <= q /\ stack[k].at <= pos'
    OBVIOUS
  <2>1. k \in 1..i /\ k \in 1..Len(stack)
    BY <1>3
  <2>2. stack[k].marks \in Nat /\ stack[k].marks <= f.marks /\ stack[k].at <= f.at
    BY <2>1, <1>7, <1>8
  <2>3. q \in Nat /\ f.marks \in Nat /\ f.marks <= q
    BY <1>3, <1>4
  <2> HIDE DEF q, f
  <2> QED
    BY <2>2, <2>3, <1>9
<1>11. ASSUME ~reread' PROVE ~reread /\ q = f.marks
  <2>1. ~reread /\ ~(f.kind = "undone" /\ Len(clause_marks) > f.marks)
    BY <1>9, <1>11
  <2> QED
    BY <2>1, <1>3, <1>4, <1>9
<1>12. ASSUME ~reread'
       PROVE  \A k \in (n + 1)..Len(stack) : stack[k].kind = "node" => q <= stack[k].marks
  <2> SUFFICES ASSUME NEW k \in (n + 1)..Len(stack) PROVE q <= stack[k].marks
    OBVIOUS
  <2>1. k \in 1..Len(stack) /\ k > n
    BY <1>3
  <2> QED
    BY <2>1, <1>8, <1>11, <1>12
<1>13. ASSUME ~reread', MarksInv PROVE \A j \in 1..q : clause_marks[j].offset <= pos'
  <2> SUFFICES ASSUME NEW j \in 1..q PROVE clause_marks[j].offset <= f.at
    BY <1>9
  <2>1. j \in 1..Len(clause_marks) /\ j <= f.marks
    <3>1. q = f.marks
      BY <1>11, <1>13
    <3> QED
      BY <3>1, <1>3, <1>4
  <2> QED
    BY <2>1, <1>13 DEF MarksInv, FoundBefore
<1>14. reread' \in BOOLEAN /\ pos' \in 0..MaxOffset
  BY <1>3, <1>4, <1>9
<1> HIDE DEF f, n, q
<1> QED
  BY <1>2, <1>5, <1>6, <1>9, <1>10, <1>11, <1>12, <1>13, <1>14, CutPreserves

(* Before anything is read.                                                *)
LEMMA InitEstablishes == Init => IInv
<1> SUFFICES ASSUME Init PROVE IInv
  OBVIOUS
<1>1. stack = <<>> /\ Len(stack) = 0 /\ 1..Len(stack) = {} /\ clause_marks = <<>> /\ Len(clause_marks) = 0
      /\ 1..Len(clause_marks) = {} /\ node = <<>> /\ Len(node) = 0
  BY DEF Init
<1>2. TypeOK
  <2>1. stack \in Seq(Frame) /\ clause_marks \in Seq(Mark) /\ node \in Seq(1..MaxNodes)
    BY <1>1, EmptySeq
  <2>2. keyword \in [1..MaxOffset -> BOOLEAN] /\ pos \in 0..MaxOffset /\ next_node_id \in 1..(MaxNodes + 1)
    BY DEF Init
  <2>3. opened = 0 /\ speculated = 0 /\ reread = FALSE /\ taken = FALSE
    BY DEF Init
  <2>4. opened \in 0..MaxNodes /\ speculated \in 0..MaxSpeculation
    BY <2>3
  <2>5. reread \in BOOLEAN /\ taken \in BOOLEAN
    BY <2>3
  <2> QED
    BY <2>1, <2>2, <2>4, <2>5 DEF TypeOK
<1>3. Cardinality(NodeFrames(stack)) = 0
  <2>1. NodeFrames(stack) = {}
    BY <1>1 DEF NodeFrames
  <2> QED
    BY <2>1, FS_EmptySet
<1>4. FramesInv
  <2>1. next_node_id = 1 /\ opened = 0
    BY DEF Init
  <2> QED
    BY <2>1, <1>1, <1>3 DEF FramesInv, Checkpointed, Nested, Numbered
<1>5. MarksInv
  BY <1>1 DEF MarksInv, FoundBefore, Accounted, Claimed, Behind, InOrder
<1> QED
  BY <1>2, <1>4, <1>5 DEF IInv

(* Every step preserves the invariant.                                     *)
LEMMA StepPreserves == IInv /\ [Next]_vars => IInv'
<1> SUFFICES ASSUME IInv, [Next]_vars PROVE IInv'
  OBVIOUS
<1>1. TypeOK /\ FramesInv /\ stack \in Seq(Frame) /\ clause_marks \in Seq(Mark) /\ pos \in 0..MaxOffset
      /\ opened \in 0..MaxNodes /\ speculated \in 0..MaxSpeculation /\ reread \in BOOLEAN
      /\ Len(stack) \in Nat /\ Len(clause_marks) \in Nat
  BY DEF IInv, TypeOK
<1>2. CASE Open
  <2> DEFINE f == [kind |-> "node", marks |-> Len(clause_marks), at |-> pos, node |-> opened + 1]
  <2>1. ~taken /\ opened < MaxNodes /\ opened' = opened + 1 /\ stack' = Append(stack, f)
        /\ UNCHANGED <<keyword, pos, clause_marks, next_node_id, node, speculated, reread, taken>>
    BY <1>2 DEF Open
  <2>2. f \in Frame /\ f.kind = "node" /\ f.node # 0 /\ f.marks = Len(clause_marks) /\ f.at = pos
    BY <2>1, <1>1 DEF Frame, Kinds
  <2>3. opened' \in 0..MaxNodes /\ speculated' \in 0..MaxSpeculation
    BY <2>1, <1>1
  <2> HIDE DEF f
  <2> QED
    BY <2>1, <2>2, <2>3, PushPreserves
<1>3. ASSUME NEW kind \in Speculation, Speculate(kind) PROVE IInv'
  <2> DEFINE f == [kind |-> kind, marks |-> Len(clause_marks), at |-> pos, node |-> 0]
  <2>1. ~taken /\ speculated < MaxSpeculation /\ speculated' = speculated + 1 /\ stack' = Append(stack, f)
        /\ UNCHANGED <<keyword, pos, clause_marks, next_node_id, opened, node, reread, taken>>
    BY <1>3 DEF Speculate
  <2>2. f \in Frame /\ f.kind # "node" /\ f.marks = Len(clause_marks) /\ f.at = pos
    <3>1. kind \in Kinds /\ kind # "node"
      BY DEF Kinds
    <3> QED
      BY <3>1, <1>1 DEF Frame
  <2>3. opened' \in 0..MaxNodes /\ speculated' \in 0..MaxSpeculation
    BY <2>1, <1>1
  <2> HIDE DEF f
  <2> QED
    BY <2>1, <2>2, <2>3, PushPreserves
<1>4. CASE Advance
  <2>1. pos' = pos + 1 /\ pos < MaxOffset
        /\ UNCHANGED <<keyword, clause_marks, stack, next_node_id, opened, node, speculated, reread, taken>>
    BY <1>4 DEF Advance
  <2>2. TypeOK'
    BY <2>1, <1>1 DEF TypeOK
  <2>3. \A k \in 1..Len(stack) : stack[k].at <= pos + 1
    <3> SUFFICES ASSUME NEW k \in 1..Len(stack) PROVE stack[k].at <= pos + 1
      OBVIOUS
    <3>1. stack[k] \in Frame
      BY <1>1, ElementOfSeq
    <3>2. stack[k].at \in Nat
      BY <3>1 DEF Frame
    <3>3. stack[k].at <= pos
      BY <1>1 DEF FramesInv, Checkpointed
    <3> QED
      BY <3>2, <3>3, <1>1
  <2>4. FramesInv'
    BY <2>1, <2>3, <1>1 DEF FramesInv, Checkpointed, Nested, Numbered, NodeFrames
  <2>5. ASSUME ~reread' PROVE MarksInv'
    <3>1. MarksInv
      BY <2>1, <2>5 DEF IInv
    <3>2. Behind(clause_marks, pos + 1)
      <4> SUFFICES ASSUME NEW i \in 1..Len(clause_marks) PROVE clause_marks[i].offset <= pos + 1
        BY DEF Behind
      <4>1. clause_marks[i] \in Mark
        BY <1>1, ElementOfSeq
      <4>2. clause_marks[i].offset \in Nat /\ clause_marks[i].offset <= pos
        BY <4>1, <3>1 DEF Mark, MarksInv, Behind
      <4> QED
        BY <4>2, <1>1
    <3> QED
      BY <3>1, <3>2, <2>1 DEF MarksInv, FoundBefore, Accounted, Recorded, Claimed, Behind, InOrder
  <2> QED
    BY <2>2, <2>4, <2>5 DEF IInv
<1>5. CASE RecordClauseMark
  BY <1>5, RecordPreserves
<1>6. CASE Close
  BY <1>6, ClosePreserves
<1>7. CASE Commit
  <2> DEFINE n == Len(stack) - 1
             q == Len(clause_marks)
  <2>1. ~taken /\ stack # <<>> /\ Top.kind = "kept" /\ stack' = Below
        /\ UNCHANGED <<keyword, pos, clause_marks, next_node_id, opened, node, speculated, reread, taken>>
    BY <1>7 DEF Commit
  <2>2. n \in 0..Len(stack) /\ q \in 0..Len(clause_marks) /\ (n + 1)..Len(stack) = {Len(stack)}
    BY <2>1, <1>1, TopOfStack
  <2>3. stack' = SubSeq(stack, 1, n)
    BY <2>1 DEF Below
  <2>4. clause_marks' = SubSeq(clause_marks, 1, q)
    BY <2>1, <1>1, SubSeqFull
  <2>5. \A k \in 1..n : stack[k].marks <= q /\ stack[k].at <= pos'
    <3>1. \A k \in 1..n : k \in 1..Len(stack)
      BY <1>1
    <3> QED
      BY <3>1, <2>1, <1>1 DEF FramesInv, Checkpointed
  <2>6. \A k \in (n + 1)..Len(stack) : stack[k].kind # "node"
    BY <2>1, <2>2 DEF Top
  <2>7. MarksInv => \A i \in 1..q : clause_marks[i].offset <= pos'
    BY <2>1 DEF MarksInv, Behind
  <2>8. pos' \in 0..MaxOffset /\ reread' \in BOOLEAN /\ reread' = reread
    BY <2>1, <1>1
  <2> HIDE DEF n, q
  <2> QED
    BY <2>1, <2>2, <2>3, <2>4, <2>5, <2>6, <2>7, <2>8, CutPreserves
<1>8. CASE Rewind
  BY <1>8, RewindPreserves
<1>9. CASE TakeClauseMarks
  <2>1. stack = <<>> /\ taken' = TRUE
        /\ UNCHANGED <<keyword, pos, clause_marks, stack, next_node_id, opened, node, speculated, reread>>
    BY <1>9 DEF TakeClauseMarks
  <2>2. TypeOK'
    BY <2>1, <1>1 DEF TypeOK
  <2>3. FramesInv'
    BY <2>1, <1>1 DEF FramesInv, Checkpointed, Nested, Numbered, NodeFrames
  <2>4. ASSUME ~reread' PROVE MarksInv'
    BY <2>1, <2>4 DEF IInv, MarksInv, FoundBefore, Accounted, Recorded, Claimed, Behind, InOrder
  <2> QED
    BY <2>2, <2>3, <2>4 DEF IInv
<1>10. CASE UNCHANGED vars
  BY <1>10 DEF vars, IInv, TypeOK, FramesInv, Checkpointed, Nested, Numbered, NodeFrames,
               MarksInv, FoundBefore, Accounted, Recorded, Claimed, Behind, InOrder
<1> QED
  BY <1>2, <1>3, <1>4, <1>5, <1>6, <1>7, <1>8, <1>9, <1>10 DEF Next

(* The inductive invariant holds throughout.                               *)
LEMMA Invariant == Spec => []IInv
  BY InitEstablishes, StepPreserves, PTL DEF Spec

(***************************************************************************)
(* For every source and every nest of nodes and speculations: a mark is    *)
(* claimed by the node that ate its keyword and by no other, and none is   *)
(* unclaimed in the table the root is given, unless a rewind left keywords *)
(* behind (patch_clause_marks).                                            *)
(***************************************************************************)
THEOREM MarksAreOwned == Spec => []MarksOwned
<1>1. IInv => MarksOwned
  <2> SUFFICES ASSUME IInv PROVE MarksOwned
    OBVIOUS
  <2>1. ASSUME ~reread PROVE OwnedByRecorder /\ AllOwned
    <3>1. MarksInv
      BY <2>1 DEF IInv
    <3>2. OwnedByRecorder
      BY <3>1 DEF MarksInv, Claimed, OwnedByRecorder
    <3>3. ASSUME taken, NEW i \in 1..Len(clause_marks), clause_marks[i].owner = Pending PROVE FALSE
      <4>1. stack = <<>>
        BY <3>3 DEF IInv, FramesInv
      <4>2. 1..Len(stack) = {}
        BY <4>1
      <4> QED
        BY <4>2, <3>1, <3>3 DEF MarksInv, Accounted
    <3> QED
      BY <3>2, <3>3 DEF AllOwned
  <2> QED
    BY <2>1 DEF MarksOwned, IInv
<1> QED
  BY <1>1, Invariant, PTL

(* For every source: the table is in source order and behind the cursor    *)
(* until keywords are read twice, which ClauseMarkIndex::new asserts.      *)
THEOREM SortedUntilReread == Spec => []SortedUnlessReread
<1>1. IInv => SortedUnlessReread
  BY DEF IInv, MarksInv, Behind, InOrder, SortedUnlessReread, MarksBehindCursor, Sorted
<1> QED
  BY <1>1, Invariant, PTL

(* A set of natural numbers has a least element.                           *)
LEMMA LeastNat ==
    ASSUME NEW T, T \subseteq Nat, T # {}
    PROVE  \E x \in T : \A y \in T : x <= y
<1> DEFINE R == OpToRel(<, Nat)
<1>1. IsWellFoundedOn(R, Nat)
  BY NatLessThanWellFounded
<1>2. \A x, y \in Nat : x < y => <<x, y>> \in R
  BY DEF OpToRel
<1> HIDE DEF R
<1>3. PICK x \in T : \A y \in T : ~(<<y, x>> \in R)
  BY <1>1, WFMin
<1>4. ASSUME NEW y \in T PROVE x <= y
  <2>1. x \in Nat /\ y \in Nat
    OBVIOUS
  <2>2. ~(y < x)
    BY <2>1, <1>2, <1>3
  <2> QED
    BY <2>1, <2>2
<1> QED
  BY <1>4

(* A set that holds, with a number, all those before it is an interval.    *)
LEMMA ClosedDownwards ==
    ASSUME NEW q \in Nat, NEW S, S \subseteq 1..q,
           \A i, j \in 1..q : i < j /\ j \in S => i \in S
    PROVE  Cardinality(S) \in 0..q /\ S = 1..Cardinality(S)
<1> DEFINE T == (1..(q + 1)) \ S
<1>1. T \subseteq Nat /\ T # {}
  <2>1. q + 1 \in T
    OBVIOUS
  <2> QED
    BY <2>1
<1>2. PICK c \in T : \A y \in T : c <= y
  <2> HIDE DEF T
  <2> QED
    BY <1>1, LeastNat
<1>3. c \in 1..(q + 1) /\ c \notin S
  BY <1>2
<1>4. ASSUME NEW i \in 1..(c - 1) PROVE i \in S
  <2>1. i \in 1..(q + 1) /\ ~(c <= i)
    BY <1>3
  <2> QED
    BY <2>1, <1>2
<1>5. ASSUME NEW i \in S PROVE i \in 1..(c - 1)
  <2>1. i \in 1..q
    OBVIOUS
  <2>2. ~(c < i)
    <3>1. SUFFICES ASSUME c < i PROVE FALSE
      OBVIOUS
    <3>2. c \in 1..q
      BY <3>1, <2>1, <1>3
    <3> QED
      BY <3>1, <3>2, <2>1, <1>3
  <2>3. i # c
    BY <1>3
  <2> QED
    BY <2>1, <2>2, <2>3, <1>3
<1>6. S = 1..(c - 1)
  BY <1>4, <1>5
<1>7. Cardinality(S) = c - 1
  <2>1. c - 1 \in Nat
    BY <1>3
  <2>2. Cardinality(1..(c - 1)) = c - 1
    <3> DEFINE d == c - 1
    <3>1. d \in Int /\ d >= 0
      BY <2>1
    <3> HIDE DEF d
    <3>2. Cardinality(1..d) = IF 1 > d THEN 0 ELSE d - 1 + 1
      BY <3>1, FS_Interval
    <3>3. Cardinality(1..d) = d
      BY <3>1, <3>2
    <3> QED
      BY <3>3 DEF d
  <2> QED
    BY <2>2, <1>6
<1> QED
  BY <1>3, <1>6, <1>7

(***************************************************************************)
(* For every source and every span: while the table is in order, the two   *)
(* binary searches of in_span delimit exactly the marks whose keyword lies *)
(* in the span.                                                            *)
(***************************************************************************)
THEOREM InSpanIsExact == Spec => []InSpanExact
<1>1. IInv => InSpanExact
  <2> SUFFICES ASSUME IInv, ~reread, NEW start \in 1..(MaxOffset + 1), NEW end \in 1..(MaxOffset + 1),
                      start <= end
               PROVE  IsRunOf(InSpan(start, end), start, end)
    BY DEF InSpanExact
  <2> DEFINE q == Len(clause_marks)
             a == Cardinality(StartingBefore(start))
             b == Cardinality(StartingBefore(end))
             ms == InSpan(start, end)
  <2>1. clause_marks \in Seq(Mark) /\ q \in Nat /\ InOrder(clause_marks)
    BY DEF IInv, TypeOK, MarksInv
  <2>2. ASSUME NEW i \in 1..q PROVE clause_marks[i] \in Mark /\ clause_marks[i].offset \in Nat
    <3>1. clause_marks[i] \in Mark
      BY <2>1, ElementOfSeq
    <3> QED
      BY <3>1 DEF Mark
  <2>3. ASSUME NEW bound \in Nat
        PROVE  /\ Cardinality(StartingBefore(bound)) \in 0..q
               /\ StartingBefore(bound) = 1..Cardinality(StartingBefore(bound))
    <3> DEFINE S == StartingBefore(bound)
    <3>1. S \subseteq 1..q
      BY DEF StartingBefore
    <3>2. ASSUME NEW i \in 1..q, NEW j \in 1..q, i < j, j \in S PROVE i \in S
      <4>1. clause_marks[i].offset <= clause_marks[j].offset /\ clause_marks[j].offset < bound
        BY <3>2, <2>1 DEF InOrder, StartingBefore
      <4>2. clause_marks[i].offset < bound
        BY <4>1, <2>2
      <4> QED
        BY <4>2 DEF StartingBefore
    <3> HIDE DEF S, q
    <3>3. Cardinality(S) \in 0..q /\ S = 1..Cardinality(S)
      BY <3>1, <3>2, <2>1, ClosedDownwards
    <3> QED
      BY <3>3 DEF S
  <2>4. start \in Nat /\ end \in Nat
    OBVIOUS
  <2>5. a \in 0..q /\ b \in 0..q /\ StartingBefore(start) = 1..a /\ StartingBefore(end) = 1..b
    BY <2>3, <2>4
  <2>6. ASSUME NEW i \in 1..q
        PROVE  (i \in 1..a <=> clause_marks[i].offset < start) /\ (i \in 1..b <=> clause_marks[i].offset < end)
    <3>1. (i \in StartingBefore(start) <=> clause_marks[i].offset < start)
          /\ (i \in StartingBefore(end) <=> clause_marks[i].offset < end)
      BY DEF StartingBefore
    <3> QED
      BY <3>1, <2>5
  <2>7. a <= b
    <3>1. SUFFICES ASSUME ~(a <= b) PROVE FALSE
      OBVIOUS
    <3>2. a \in 1..q /\ a \in 1..a /\ ~(a \in 1..b)
      BY <3>1, <2>1, <2>5
    <3>3. clause_marks[a].offset < start /\ ~(clause_marks[a].offset < end)
      BY <3>2, <2>6
    <3>4. clause_marks[a].offset \in Nat
      BY <3>2, <2>2
    <3> HIDE DEF a
    <3> QED
      BY <3>3, <3>4, <2>4
  <2>8. ms = SubSeq(clause_marks, a + 1, b)
    BY DEF InSpan
  <2> HIDE DEF a, b, ms
  <2>9. Len(ms) = b - a
    <3>1. \A i \in (a + 1)..b : clause_marks[i] \in Mark
      <4>1. \A i \in (a + 1)..b : i \in 1..q
        BY <2>1, <2>5
      <4> QED
        BY <4>1, <2>2
    <3>2. a + 1 \in Int /\ b \in Int
      BY <2>5
    <3>3. Len(SubSeq(clause_marks, a + 1, b)) = IF a + 1 <= b THEN b - (a + 1) + 1 ELSE 0
      BY <3>1, <3>2, SubSeqProperties
    <3> QED
      BY <3>3, <2>5, <2>7, <2>8
  <2>10. a \in 0..(q - Len(ms)) /\ a + Len(ms) = b
    BY <2>1, <2>5, <2>7, <2>9
  <2>11. ms = SubSeq(clause_marks, a + 1, a + Len(ms))
    BY <2>8, <2>10
  <2>12. ASSUME NEW i \in 1..q
         PROVE  i \in (a + 1)..(a + Len(ms))
                    <=> (start <= clause_marks[i].offset /\ clause_marks[i].offset < end)
    <3>1. i \in (a + 1)..b <=> (~(i \in 1..a) /\ i \in 1..b)
      BY <2>5, <2>7
    <3>2. i \in (a + 1)..(a + Len(ms)) <=> i \in (a + 1)..b
      BY <2>10
    <3>3. start <= clause_marks[i].offset <=> ~(clause_marks[i].offset < start)
      BY <2>2, <2>4
    <3> QED
      BY <3>1, <3>2, <3>3, <2>6
  <2> QED
    BY <2>10, <2>11, <2>12 DEF IsRunOf, ms
<1> QED
  BY <1>1, Invariant, PTL
=============================================================================
