------------------------- MODULE ParserScopesProofs -------------------------
(***************************************************************************)
(* For every recursion limit and every nest of calls, failures and caught  *)
(* speculation: the depth is the number of live guards, the flags are the  *)
(* ones the innermost owning production set, and nothing is left of them   *)
(* between statements.                                                     *)
(***************************************************************************)
EXTENDS ParserScopes, FiniteSetTheorems, SequenceTheorems, TLAPS

(***************************************************************************)
(* The flags that belong inside the first n frames of s.  A refused query  *)
(* clears in_connect_by for good, so of that flag only one direction is    *)
(* invariant: PRIOR is never an operator where it should not be.           *)
(***************************************************************************)
InScope(s, n, fl) ==
    /\ fl.restrict_b_expr <=> Innermost(s, n, Spine, "b_expr")
    /\ fl.suppress_value_star <=> Innermost(s, n, Starred, "target")
    /\ fl.body_return_allowed <=> ~Innermost(s, n, Routine, "procedure_body")
    /\ fl.in_connect_by => Innermost(s, n, Hierarchy, "connect_by")

(***************************************************************************)
(* The inductive invariant.  A frame is left with the flags it saved, so   *)
(* what it saved must be what belongs outside it.                          *)
(***************************************************************************)
SavedInScope(s) == \A n \in 1..Len(s) : InScope(s, n - 1, s[n].saved)

ScopeInv == SavedInScope(stack) /\ InScope(stack, Len(stack), flags)

IInv == TypeOK /\ DepthIsLiveGuards /\ ScopeInv

USE LimitAssumption, OperandsAssumption, ExploredAssumption

(* A non-empty stack is its top frame on the frames below.                 *)
LEMMA TopOfStack ==
    ASSUME stack \in Seq(Frame), stack # <<>>
    PROVE  /\ Below \in Seq(Frame)
           /\ Top \in Frame
           /\ stack = Append(Below, Top)
           /\ Len(stack) = Len(Below) + 1
<1>1. Len(stack) \in Nat \ {0}
  BY EmptySeq
<1>2. Below \in Seq(Frame) /\ Len(Below) = Len(stack) - 1
  <2> DEFINE n == Len(stack) - 1
  <2>1. n \in Nat /\ (\A i \in 1..n : stack[i] \in Frame)
    BY <1>1
  <2> HIDE DEF n
  <2>2. /\ SubSeq(stack, 1, n) \in Seq(Frame)
        /\ Len(SubSeq(stack, 1, n)) = IF 1 <= n THEN n - 1 + 1 ELSE 0
    BY <2>1, SubSeqProperties
  <2>3. Len(SubSeq(stack, 1, n)) = n
    BY <2>1, <2>2
  <2> QED
    BY <2>2, <2>3 DEF Below, n
<1>3. Top \in Frame
  BY <1>1 DEF Top
<1>4. stack = Append(Below, Top)
  BY <1>1 DEF Below, Top
<1> QED
  BY <1>1, <1>2, <1>3, <1>4

(* A frame adds its own guard, or none.                                    *)
LEMMA GuardsOfAppend ==
    ASSUME NEW s \in Seq(Frame), NEW f \in Frame
    PROVE  /\ Cardinality(Guards(s)) \in Nat
           /\ Cardinality(Guards(Append(s, f))) =
                Cardinality(Guards(s)) + (IF f.prod \in Guarded THEN 1 ELSE 0)
<1> DEFINE n == Len(s)
<1>1. n \in Nat
  OBVIOUS
<1>2. IsFiniteSet(1..n)
  BY <1>1, FS_Interval
<1>3. IsFiniteSet(Guards(s)) /\ n + 1 \notin Guards(s)
  BY <1>1, <1>2, FS_Subset DEF Guards
<1>4. CASE f.prod \in Guarded
  <2>1. Guards(Append(s, f)) = Guards(s) \cup {n + 1}
    BY <1>1, <1>4 DEF Guards
  <2> QED
    BY <2>1, <1>3, <1>4, FS_AddElement, FS_CardinalityType
<1>5. CASE f.prod \notin Guarded
  <2>1. Guards(Append(s, f)) = Guards(s)
    BY <1>1, <1>5 DEF Guards
  <2> QED
    BY <2>1, <1>3, <1>5, FS_CardinalityType
<1> QED
  BY <1>4, <1>5

(* What is innermost among the lower frames does not depend on the top.    *)
LEMMA InnermostOfPrefix ==
    ASSUME NEW s \in Seq(Frame), NEW f \in Frame, NEW n \in 0..Len(s), NEW ps, NEW p
    PROVE  Innermost(Append(s, f), n, ps, p) <=> Innermost(s, n, ps, p)
<1>1. \A i \in 1..n : Append(s, f)[i] = s[i]
  OBVIOUS
<1>2. \A i \in 1..n : \A j \in (i + 1)..n : j \in 1..n
  OBVIOUS
<1> QED
  BY <1>1, <1>2, Zenon DEF Innermost

(* A frame on top is itself the innermost, or changes nothing.             *)
LEMMA InnermostOfAppend ==
    ASSUME NEW s \in Seq(Frame), NEW f \in Frame, NEW ps, NEW p \in ps
    PROVE  Innermost(Append(s, f), Len(s) + 1, ps, p)
               <=> (f.prod = p \/ (f.prod \notin ps /\ Innermost(s, Len(s), ps, p)))
<1> DEFINE n == Len(s)
           t == Append(s, f)
<1>1. n \in Nat /\ t[n + 1] = f /\ (\A i \in 1..n : t[i] = s[i])
  OBVIOUS
<1>2. ASSUME f.prod = p PROVE Innermost(t, n + 1, ps, p)
  <2>1. n + 1 \in 1..(n + 1) /\ (n + 1 + 1)..(n + 1) = {}
    BY <1>1
  <2> QED
    BY <2>1, <1>1, <1>2 DEF Innermost
<1>3. ASSUME f.prod \notin ps, Innermost(s, n, ps, p) PROVE Innermost(t, n + 1, ps, p)
  <2>1. PICK i \in 1..n : s[i].prod = p /\ \A j \in (i + 1)..n : s[j].prod \notin ps
    BY <1>3 DEF Innermost
  <2>2. i \in 1..(n + 1) /\ t[i].prod = p
    BY <2>1, <1>1
  <2>3. ASSUME NEW j \in (i + 1)..(n + 1) PROVE t[j].prod \notin ps
    <3>1. CASE j = n + 1
      BY <3>1, <1>1, <1>3
    <3>2. CASE j # n + 1
      <4>1. j \in (i + 1)..n /\ j \in 1..n
        BY <3>2, <1>1
      <4> QED
        BY <4>1, <2>1, <1>1
    <3> QED
      BY <3>1, <3>2
  <2> QED
    BY <2>2, <2>3 DEF Innermost
<1>4. ASSUME Innermost(t, n + 1, ps, p), f.prod # p
      PROVE  f.prod \notin ps /\ Innermost(s, n, ps, p)
  <2>1. PICK i \in 1..(n + 1) :
            t[i].prod = p /\ \A j \in (i + 1)..(n + 1) : t[j].prod \notin ps
    BY <1>4 DEF Innermost
  <2>2. i # n + 1
    BY <2>1, <1>1, <1>4
  <2>3. i \in 1..n /\ n + 1 \in (i + 1)..(n + 1)
    BY <2>2, <1>1
  <2>4. f.prod \notin ps
    BY <2>3, <2>1, <1>1
  <2>5. s[i].prod = p
    BY <2>3, <2>1, <1>1
  <2>6. ASSUME NEW j \in (i + 1)..n PROVE s[j].prod \notin ps
    <3>1. j \in (i + 1)..(n + 1) /\ j \in 1..n
      BY <2>3, <1>1
    <3> QED
      BY <3>1, <2>1, <1>1
  <2> QED
    BY <2>3, <2>4, <2>5, <2>6 DEF Innermost
<1> QED
  BY <1>2, <1>3, <1>4

(* The flags a production enters with are flags, and so are those it       *)
(* restores.                                                               *)
LEMMA FlagsType ==
    ASSUME flags \in Flags, NEW p \in Productions, NEW f \in Frame
    PROVE  Entered(p) \in Flags /\ Restored(f) \in Flags
<1>1. Entered(p) \in Flags
  BY DEF Entered, Flags
<1>2. f.saved \in Flags
  BY DEF Frame
<1>3. Restored(f) \in Flags
  BY <1>2 DEF Restored, Flags
<1> QED
  BY <1>1, <1>3

(* What the lower frames saved stays in scope under any top frame.         *)
LEMMA SavedOfAppend ==
    ASSUME NEW s \in Seq(Frame), NEW f \in Frame
    PROVE  SavedInScope(Append(s, f)) <=> (SavedInScope(s) /\ InScope(s, Len(s), f.saved))
<1> DEFINE t == Append(s, f)
<1>1. Len(s) \in Nat /\ Len(t) = Len(s) + 1 /\ t[Len(s) + 1] = f
  OBVIOUS
<1>2. \A n \in 1..Len(s) : t[n] = s[n]
  OBVIOUS
<1>3. ASSUME NEW n \in 0..Len(s), NEW fl PROVE InScope(t, n, fl) <=> InScope(s, n, fl)
  BY InnermostOfPrefix DEF InScope
<1>4. ASSUME NEW n \in 1..Len(s)
      PROVE  InScope(t, n - 1, t[n].saved) <=> InScope(s, n - 1, s[n].saved)
  <2>1. n - 1 \in 0..Len(s)
    BY <1>1
  <2> QED
    BY <2>1, <1>2, <1>3
<1>5. InScope(t, Len(s), f.saved) <=> InScope(s, Len(s), f.saved)
  <2>1. Len(s) \in 0..Len(s)
    BY <1>1
  <2> QED
    BY <2>1, <1>3
<1>6. ASSUME SavedInScope(t) PROVE SavedInScope(s) /\ InScope(s, Len(s), f.saved)
  <2>1. \A n \in 1..Len(s) : InScope(t, n - 1, t[n].saved)
    BY <1>1, <1>6 DEF SavedInScope
  <2>2. InScope(t, Len(s) + 1 - 1, t[Len(s) + 1].saved)
    BY <1>1, <1>6 DEF SavedInScope
  <2>3. InScope(t, Len(s), f.saved)
    BY <2>2, <1>1
  <2> QED
    BY <2>1, <2>3, <1>4, <1>5 DEF SavedInScope
<1>7. ASSUME SavedInScope(s), InScope(s, Len(s), f.saved) PROVE SavedInScope(t)
  <2> SUFFICES ASSUME NEW n \in 1..Len(t) PROVE InScope(t, n - 1, t[n].saved)
    BY DEF SavedInScope
  <2>1. CASE n \in 1..Len(s)
    BY <2>1, <1>4, <1>7 DEF SavedInScope
  <2>2. CASE n = Len(s) + 1
    <3>1. n - 1 = Len(s) /\ t[n] = f
      BY <2>2, <1>1
    <3> QED
      BY <3>1, <1>5, <1>7
  <2> QED
    BY <2>1, <2>2, <1>1
<1> QED
  BY <1>6, <1>7

(* Entering a production: its flags belong inside its frame.               *)
LEMMA ScopeEntered ==
    ASSUME NEW s \in Seq(Frame), NEW f \in Frame, flags \in Flags, InScope(s, Len(s), flags)
    PROVE  InScope(Append(s, f), Len(s) + 1, Entered(f.prod))
<1> DEFINE fl == Entered(f.prod)
           t == Append(s, f)
           m == Len(s) + 1
<1>0. f.prod \in Productions
  BY DEF Frame
<1>1. fl.restrict_b_expr <=> Innermost(t, m, Spine, "b_expr")
  <2>1. fl.restrict_b_expr <=> (f.prod = "b_expr" \/ (f.prod \notin Spine /\ flags.restrict_b_expr))
    BY <1>0 DEF Entered, Flags, Spine, Productions, Guarded, Scoped, Speculating, Grouping, Rewound
  <2>2. Innermost(t, m, Spine, "b_expr")
            <=> (f.prod = "b_expr" \/ (f.prod \notin Spine /\ Innermost(s, Len(s), Spine, "b_expr")))
    <3>1. "b_expr" \in Spine
      BY DEF Spine
    <3> QED
      BY <3>1, InnermostOfAppend
  <2> QED
    BY <2>1, <2>2, Zenon DEF InScope
<1>2. fl.suppress_value_star <=> Innermost(t, m, Starred, "target")
  <2>1. fl.suppress_value_star
            <=> (f.prod = "target" \/ (f.prod \notin Starred /\ flags.suppress_value_star))
    BY <1>0 DEF Entered, Flags, Starred, Productions, Guarded, Scoped, Speculating, Grouping, Rewound
  <2>2. Innermost(t, m, Starred, "target")
            <=> (f.prod = "target" \/ (f.prod \notin Starred /\ Innermost(s, Len(s), Starred, "target")))
    <3>1. "target" \in Starred
      BY DEF Starred
    <3> QED
      BY <3>1, InnermostOfAppend
  <2> QED
    BY <2>1, <2>2, Zenon DEF InScope
<1>3. fl.body_return_allowed <=> ~Innermost(t, m, Routine, "procedure_body")
  <2>1. ~fl.body_return_allowed
            <=> (f.prod = "procedure_body" \/ (f.prod \notin Routine /\ ~flags.body_return_allowed))
    BY <1>0 DEF Entered, Flags, Routine, Productions, Guarded, Scoped, Speculating, Grouping, Rewound
  <2>2. Innermost(t, m, Routine, "procedure_body")
            <=> (f.prod = "procedure_body"
                    \/ (f.prod \notin Routine /\ Innermost(s, Len(s), Routine, "procedure_body")))
    <3>1. "procedure_body" \in Routine
      BY DEF Routine
    <3> QED
      BY <3>1, InnermostOfAppend
  <2> QED
    BY <2>1, <2>2, Zenon DEF InScope
<1>4. fl.in_connect_by => Innermost(t, m, Hierarchy, "connect_by")
  <2>1. fl.in_connect_by
            <=> (f.prod = "connect_by" \/ (f.prod \notin Hierarchy /\ flags.in_connect_by))
    BY <1>0 DEF Entered, Flags, Hierarchy, Productions, Guarded, Scoped, Speculating, Grouping, Rewound
  <2>2. Innermost(t, m, Hierarchy, "connect_by")
            <=> (f.prod = "connect_by"
                    \/ (f.prod \notin Hierarchy /\ Innermost(s, Len(s), Hierarchy, "connect_by")))
    <3>1. "connect_by" \in Hierarchy
      BY DEF Hierarchy
    <3> QED
      BY <3>1, InnermostOfAppend
  <2> QED
    BY <2>1, <2>2, Zenon DEF InScope
<1> QED
  BY <1>1, <1>2, <1>3, <1>4 DEF InScope

(* Leaving a production: what it restores belongs outside its frame.       *)
LEMMA ScopeRestored ==
    ASSUME NEW s \in Seq(Frame), NEW f \in Frame, flags \in Flags,
           InScope(Append(s, f), Len(s) + 1, flags), InScope(s, Len(s), f.saved)
    PROVE  InScope(s, Len(s), Restored(f))
<1> DEFINE fl == Restored(f)
           t == Append(s, f)
           m == Len(s) + 1
           n == Len(s)
<1>0. f.prod \in Productions /\ f.saved \in Flags
  BY DEF Frame
<1>1. fl.restrict_b_expr <=> Innermost(s, n, Spine, "b_expr")
  <2>1. fl.restrict_b_expr
            <=> (IF f.prod \in Spine THEN f.saved.restrict_b_expr ELSE flags.restrict_b_expr)
    BY <1>0 DEF Restored, Flags, Spine, Productions, Guarded, Scoped, Speculating, Grouping, Rewound
  <2>2. f.prod \notin Spine => (Innermost(t, m, Spine, "b_expr") <=> Innermost(s, n, Spine, "b_expr"))
    <3>1. "b_expr" \in Spine
      BY DEF Spine
    <3> QED
      BY <3>1, InnermostOfAppend
  <2> QED
    BY <2>1, <2>2, Zenon DEF InScope
<1>2. fl.suppress_value_star <=> Innermost(s, n, Starred, "target")
  <2>1. fl.suppress_value_star
            <=> (IF f.prod \in Starred THEN f.saved.suppress_value_star ELSE flags.suppress_value_star)
    BY <1>0 DEF Restored, Flags, Starred, Productions, Guarded, Scoped, Speculating, Grouping, Rewound
  <2>2. f.prod \notin Starred
            => (Innermost(t, m, Starred, "target") <=> Innermost(s, n, Starred, "target"))
    <3>1. "target" \in Starred
      BY DEF Starred
    <3> QED
      BY <3>1, InnermostOfAppend
  <2> QED
    BY <2>1, <2>2, Zenon DEF InScope
<1>3. fl.body_return_allowed <=> ~Innermost(s, n, Routine, "procedure_body")
  <2>1. fl.body_return_allowed
            <=> (IF f.prod \in Routine THEN f.saved.body_return_allowed ELSE flags.body_return_allowed)
    BY <1>0 DEF Restored, Flags, Routine, Productions, Guarded, Scoped, Speculating, Grouping, Rewound
  <2>2. f.prod \notin Routine
            => (Innermost(t, m, Routine, "procedure_body") <=> Innermost(s, n, Routine, "procedure_body"))
    <3>1. "procedure_body" \in Routine
      BY DEF Routine
    <3> QED
      BY <3>1, InnermostOfAppend
  <2> QED
    BY <2>1, <2>2, Zenon DEF InScope
<1>4. fl.in_connect_by => Innermost(s, n, Hierarchy, "connect_by")
  <2>1. fl.in_connect_by
            <=> (IF f.prod \in Hierarchy THEN f.saved.in_connect_by ELSE flags.in_connect_by)
    BY <1>0 DEF Restored, Flags, Hierarchy, Productions, Guarded, Scoped, Speculating, Grouping, Rewound
  <2>2. f.prod \notin Hierarchy
            => (Innermost(t, m, Hierarchy, "connect_by") <=> Innermost(s, n, Hierarchy, "connect_by"))
    <3>1. "connect_by" \in Hierarchy
      BY DEF Hierarchy
    <3> QED
      BY <3>1, InnermostOfAppend
  <2> QED
    BY <2>1, <2>2, Zenon DEF InScope
<1> QED
  BY <1>1, <1>2, <1>3, <1>4 DEF InScope

(* Frames that guard nothing and own no flag.                              *)
Plain == Productions \ (Guarded \cup Spine \cup Hierarchy \cup Routine)

(* The frame on top may be replaced by one of the same production, or one  *)
(* plain production's frame by another's.                                  *)
LEMMA Retop ==
    ASSUME IInv, stack # <<>>, NEW g \in Frame, g.saved = Top.saved,
           g.prod = Top.prod \/ {g.prod, Top.prod} \subseteq Plain
    PROVE  /\ Append(Below, g) \in Seq(Frame)
           /\ Cardinality(Guards(Append(Below, g))) = recursion_depth
           /\ SavedInScope(Append(Below, g))
           /\ InScope(Append(Below, g), Len(Append(Below, g)), flags)
<1> DEFINE t == Append(Below, g)
<1>1. stack \in Seq(Frame) /\ flags \in Flags
  BY DEF IInv, TypeOK
<1>2. Below \in Seq(Frame) /\ Top \in Frame /\ stack = Append(Below, Top) /\ Len(stack) = Len(Below) + 1
  BY <1>1, TopOfStack
<1>3. t \in Seq(Frame) /\ Len(t) = Len(Below) + 1
  BY <1>2
<1>4. \A ps \in {Guarded, Spine, Starred, Hierarchy, Routine} : g.prod \in ps <=> Top.prod \in ps
  BY DEF Plain, Spine, Starred
<1>5. Cardinality(Guards(t)) = recursion_depth
  <2>1. recursion_depth = Cardinality(Guards(stack))
    BY DEF IInv, DepthIsLiveGuards
  <2>2. Cardinality(Guards(t)) = Cardinality(Guards(Below)) + (IF g.prod \in Guarded THEN 1 ELSE 0)
    BY <1>2, GuardsOfAppend
  <2>3. Cardinality(Guards(stack)) = Cardinality(Guards(Below)) + (IF Top.prod \in Guarded THEN 1 ELSE 0)
    BY <1>2, GuardsOfAppend
  <2> QED
    BY <2>1, <2>2, <2>3, <1>4
<1>6. SavedInScope(t)
  <2>1. SavedInScope(Append(Below, Top))
    BY <1>2 DEF IInv, ScopeInv
  <2>2. SavedInScope(Below) /\ InScope(Below, Len(Below), Top.saved)
    BY <2>1, <1>2, SavedOfAppend
  <2> QED
    BY <2>2, <1>2, SavedOfAppend
<1>7. InScope(t, Len(t), flags)
  <2>1. ASSUME NEW ps \in {Spine, Starred, Hierarchy, Routine}, NEW p \in ps
        PROVE  Innermost(t, Len(t), ps, p) <=> Innermost(stack, Len(stack), ps, p)
    <3>1. Innermost(t, Len(Below) + 1, ps, p)
              <=> (g.prod = p \/ (g.prod \notin ps /\ Innermost(Below, Len(Below), ps, p)))
      BY <1>2, InnermostOfAppend
    <3>2. Innermost(Append(Below, Top), Len(Below) + 1, ps, p)
              <=> (Top.prod = p \/ (Top.prod \notin ps /\ Innermost(Below, Len(Below), ps, p)))
      BY <1>2, InnermostOfAppend
    <3>3. (g.prod = p <=> Top.prod = p) /\ (g.prod \in ps <=> Top.prod \in ps)
      BY <1>4 DEF Plain, Spine, Starred
    <3> QED
      BY <3>1, <3>2, <3>3, <1>2, <1>3
  <2>2. "b_expr" \in Spine /\ "target" \in Starred /\ "procedure_body" \in Routine /\ "connect_by" \in Hierarchy
    BY DEF Spine, Starred, Routine, Hierarchy
  <2>3. InScope(stack, Len(stack), flags)
    BY DEF IInv, ScopeInv
  <2> QED
    BY <2>1, <2>2, <2>3 DEF InScope
<1> QED
  BY <1>3, <1>5, <1>6, <1>7

(* Entering a production, refused or not, preserves the invariant.         *)
LEMMA EnterPreserves ==
    ASSUME TypeOK, NEW p \in Productions, NEW base \in Seq(Frame), NEW armed \in BOOLEAN,
           Cardinality(Guards(base)) = recursion_depth, recursion_depth <= Limit,
           SavedInScope(base), InScope(base, Len(base), flags),
           Enter(p, base, armed)
    PROVE  IInv'
<1> DEFINE f == [prod |-> p, saved |-> flags, called |-> FALSE,
                 grouping |-> p = "query" /\ armed, complete |-> FALSE]
<1> HIDE DEF f
<1>1. flags \in Flags /\ recursion_depth \in Nat /\ status \in {"parse", "error"} /\ refused \in BOOLEAN
  BY DEF TypeOK
<1>2. CASE p \in Guarded /\ recursion_depth >= Limit
  <2>1. stack' = base /\ status' = "error" /\ recursion_depth' = recursion_depth
        /\ paren_query_grouping' = armed /\ flags' = IF p = "query" THEN Entered(p) ELSE flags
    BY <1>2 DEF Enter
  <2>2. flags' \in Flags /\ InScope(base, Len(base), flags')
    <3>1. CASE p = "query"
      <4>1. Entered(p) = [flags EXCEPT !.in_connect_by = FALSE]
        BY <3>1 DEF Entered
      <4>2. flags' = [flags EXCEPT !.in_connect_by = FALSE]
        BY <4>1, <2>1, <3>1
      <4> QED
        BY <4>2, <1>1 DEF InScope, Flags
    <3>2. CASE p # "query"
      BY <3>2, <2>1, <1>1
    <3> QED
      BY <3>1, <3>2
  <2>3. TypeOK'
    <3>1. refused' \in BOOLEAN
      BY <1>2 DEF Enter
    <3> QED
      BY <2>1, <2>2, <1>1, <3>1 DEF TypeOK
  <2>4. DepthIsLiveGuards'
    BY <2>1 DEF DepthIsLiveGuards, Guards
  <2>5. ScopeInv'
    BY <2>1, <2>2 DEF ScopeInv, SavedInScope, InScope, Innermost
  <2> QED
    BY <2>3, <2>4, <2>5 DEF IInv
<1>3. CASE ~(p \in Guarded /\ recursion_depth >= Limit)
  <2>1. stack' = Append(base, f) /\ flags' = Entered(p) /\ status' = status /\ refused' = refused
        /\ paren_query_grouping' = (IF p = "query" THEN FALSE ELSE armed)
        /\ recursion_depth' = (IF p \in Guarded THEN recursion_depth + 1 ELSE recursion_depth)
    BY <1>3 DEF Enter, f
  <2>2. f \in Frame /\ f.prod = p /\ f.saved = flags
    BY <1>1 DEF Frame, f
  <2>3. Append(base, f) \in Seq(Frame) /\ Len(Append(base, f)) = Len(base) + 1
    BY <2>2
  <2>4. flags' \in Flags
    BY <2>1, <2>2, <1>1, FlagsType
  <2>5. TypeOK'
    <3>1. paren_query_grouping' \in BOOLEAN
      BY <2>1
    <3>2. recursion_depth' \in Nat
      BY <2>1, <1>1
    <3> QED
      BY <2>1, <2>3, <2>4, <1>1, <3>1, <3>2 DEF TypeOK
  <2>6. DepthIsLiveGuards'
    <3>1. Cardinality(Guards(Append(base, f))) = recursion_depth + (IF p \in Guarded THEN 1 ELSE 0)
      BY <2>2, GuardsOfAppend
    <3>2. recursion_depth' = Cardinality(Guards(Append(base, f))) /\ recursion_depth' <= Limit
      BY <3>1, <2>1, <1>1, <1>3
    <3> QED
      BY <3>2, <2>1 DEF DepthIsLiveGuards, Guards
  <2>7. SavedInScope(Append(base, f))
    BY <2>2, SavedOfAppend
  <2>8. InScope(Append(base, f), Len(Append(base, f)), Entered(p))
    BY <2>2, <2>3, <1>1, ScopeEntered
  <2>9. ScopeInv'
    BY <2>1, <2>7, <2>8 DEF ScopeInv, SavedInScope, InScope, Innermost
  <2> QED
    BY <2>5, <2>6, <2>9 DEF IInv
<1> QED
  BY <1>2, <1>3

(* Leaving the frame on top preserves the invariant.                       *)
LEMMA LeavePreserves ==
    ASSUME IInv, stack # <<>>, Leave, status' \in {"parse", "error"}
    PROVE  IInv'
<1>1. stack \in Seq(Frame) /\ flags \in Flags /\ recursion_depth \in Nat
      /\ paren_query_grouping \in BOOLEAN /\ refused \in BOOLEAN
  BY DEF IInv, TypeOK
<1>2. Below \in Seq(Frame) /\ Top \in Frame /\ stack = Append(Below, Top) /\ Len(stack) = Len(Below) + 1
  BY <1>1, TopOfStack
<1>3. stack' = Below /\ flags' = Restored(Top) /\ paren_query_grouping' = paren_query_grouping
      /\ refused' = refused
      /\ recursion_depth' = (IF Top.prod \in Guarded THEN recursion_depth - 1 ELSE recursion_depth)
  BY DEF Leave
<1>4. flags' \in Flags
  <2>1. Top.prod \in Productions
    BY <1>2 DEF Frame
  <2> QED
    BY <2>1, <1>1, <1>2, <1>3, FlagsType
<1>5. Cardinality(Guards(Below)) \in Nat
      /\ recursion_depth = Cardinality(Guards(Below)) + (IF Top.prod \in Guarded THEN 1 ELSE 0)
  <2>1. recursion_depth = Cardinality(Guards(Append(Below, Top)))
    BY <1>2 DEF IInv, DepthIsLiveGuards
  <2> QED
    BY <2>1, <1>2, GuardsOfAppend
<1>6. recursion_depth' = Cardinality(Guards(Below)) /\ recursion_depth' \in Nat /\ recursion_depth' <= Limit
  <2>1. recursion_depth <= Limit
    BY DEF IInv, DepthIsLiveGuards
  <2> QED
    BY <2>1, <1>3, <1>5
<1>7. TypeOK'
  BY <1>1, <1>2, <1>3, <1>4, <1>6 DEF TypeOK
<1>8. DepthIsLiveGuards'
  BY <1>6, <1>3 DEF DepthIsLiveGuards, Guards
<1>9. SavedInScope(Below) /\ InScope(Below, Len(Below), Top.saved)
  <2>1. SavedInScope(Append(Below, Top))
    BY <1>2 DEF IInv, ScopeInv
  <2> QED
    BY <2>1, <1>2, SavedOfAppend
<1>10. InScope(Below, Len(Below), Restored(Top))
  <2>1. InScope(Append(Below, Top), Len(Below) + 1, flags)
    BY <1>2 DEF IInv, ScopeInv
  <2> QED
    BY <2>1, <1>1, <1>2, <1>9, ScopeRestored
<1>11. ScopeInv'
  BY <1>3, <1>9, <1>10 DEF ScopeInv, SavedInScope, InScope, Innermost
<1> QED
  BY <1>7, <1>8, <1>11 DEF IInv

(* The empty stack owns no flag and no guard.                              *)
LEMMA InitEstablishes == Init => IInv
<1> SUFFICES ASSUME Init PROVE IInv
  OBVIOUS
<1>1. stack = <<>> /\ Len(stack) = 0 /\ 1..Len(stack) = {}
  BY DEF Init
<1>2. TypeOK
  <2>1. stack \in Seq(Frame)
    BY <1>1, EmptySeq
  <2>2. NoFlags \in Flags
    BY DEF Flags, NoFlags
  <2>3. flags = NoFlags /\ recursion_depth \in Nat /\ paren_query_grouping \in BOOLEAN
        /\ refused \in BOOLEAN /\ status \in {"parse", "error"}
    BY DEF Init
  <2> QED
    BY <2>1, <2>2, <2>3 DEF TypeOK
<1>3. Guards(stack) = {}
  BY <1>1 DEF Guards
<1>4. DepthIsLiveGuards
  <2>1. recursion_depth = 0
    BY DEF Init
  <2> QED
    BY <2>1, <1>3, FS_EmptySet DEF DepthIsLiveGuards
<1>5. \A ps, p : ~Innermost(stack, Len(stack), ps, p)
  BY <1>1 DEF Innermost
<1>6. SavedInScope(stack)
  BY <1>1 DEF SavedInScope
<1>7. InScope(stack, Len(stack), flags)
  <2>1. flags = NoFlags
    BY DEF Init
  <2> QED
    BY <2>1, <1>5 DEF InScope, NoFlags
<1> QED
  BY <1>2, <1>4, <1>6, <1>7 DEF IInv, ScopeInv

(* Every step preserves the invariant.                                     *)
LEMMA StepPreserves == IInv /\ [Next]_vars => IInv'
<1> SUFFICES ASSUME IInv, [Next]_vars PROVE IInv'
  OBVIOUS
<1>1. stack \in Seq(Frame) /\ flags \in Flags /\ recursion_depth \in Nat
      /\ paren_query_grouping \in BOOLEAN /\ refused \in BOOLEAN /\ status \in {"parse", "error"} /\ TypeOK
  BY DEF IInv, TypeOK
<1>2. recursion_depth <= Limit
  BY DEF IInv, DepthIsLiveGuards
<1>3. stack # <<>> => /\ Below \in Seq(Frame)
                      /\ Top \in Frame
                      /\ Top.prod \in Productions
  BY <1>1, TopOfStack DEF Frame
<1>4. CASE Start
  <2>1. stack \in Seq(Frame) /\ Cardinality(Guards(stack)) = recursion_depth
        /\ SavedInScope(stack) /\ InScope(stack, Len(stack), flags)
    BY <1>1 DEF IInv, ScopeInv, DepthIsLiveGuards
  <2>2. "statement" \in Productions
    BY DEF Productions, Guarded
  <2>3. Enter("statement", stack, paren_query_grouping)
    BY <1>4 DEF Start
  <2> QED
    BY <2>1, <2>2, <2>3, <1>1, <1>2, EnterPreserves
<1>5. ASSUME NEW p \in Explored, Call(p) PROVE IInv'
  <2>1. stack # <<>> /\ Enter(p, Append(Below, Calling(p)), Armed(Top, p))
    BY <1>5 DEF Call
  <2>2. p \in Productions
    OBVIOUS
  <2>3. Top \in Frame
    BY <2>1, <1>3
  <2>4. Calling(p) \in Frame /\ Calling(p).saved = Top.saved /\ Calling(p).prod = Top.prod
    BY <2>3 DEF Calling, Frame
  <2>5. Armed(Top, p) \in BOOLEAN
    <3>1. Top.grouping \in BOOLEAN
      BY <2>3 DEF Frame
    <3> QED
      BY <3>1, <1>1 DEF Armed
  <2>6. /\ Append(Below, Calling(p)) \in Seq(Frame)
        /\ Cardinality(Guards(Append(Below, Calling(p)))) = recursion_depth
        /\ SavedInScope(Append(Below, Calling(p)))
        /\ InScope(Append(Below, Calling(p)), Len(Append(Below, Calling(p))), flags)
    BY <2>1, <2>4, Retop
  <2> QED
    BY <2>1, <2>2, <2>5, <2>6, <1>1, <1>2, EnterPreserves
<1>6. CASE Return
  BY <1>6, <1>1, LeavePreserves DEF Return
<1>7. ASSUME stack # <<>>, Top.prod \in Retrying, stack' = Append(Below, Rereading),
             status' \in {"parse", "error"},
             UNCHANGED <<recursion_depth, flags, paren_query_grouping, refused>>
      PROVE  IInv'
  <2> DEFINE t == Append(Below, Rereading)
  <2>1. Top \in Frame
    BY <1>3, <1>7
  <2>2. Rereading \in Frame /\ Rereading.saved = Top.saved /\ Rereading.prod \in Rewound
    BY <2>1, <1>7 DEF Rereading, Frame, Productions, Rewound, Retrying, Grouping
  <2>3. {Rereading.prod, Top.prod} \subseteq Plain
    BY <2>2, <1>7 DEF Plain, Productions, Guarded, Scoped, Speculating, Retrying, Grouping, Rewound,
                      Spine, Hierarchy, Routine
  <2>4. /\ t \in Seq(Frame)
        /\ Cardinality(Guards(t)) = recursion_depth
        /\ SavedInScope(t)
        /\ InScope(t, Len(t), flags)
    BY <1>7, <2>2, <2>3, Retop
  <2> HIDE DEF t
  <2>5. stack' = t /\ recursion_depth' = recursion_depth /\ flags' = flags
        /\ paren_query_grouping' = paren_query_grouping /\ refused' = refused
    BY <1>7 DEF t
  <2>6. TypeOK'
    BY <2>4, <2>5, <1>1, <1>7 DEF TypeOK
  <2>7. DepthIsLiveGuards'
    BY <2>4, <2>5, <1>2 DEF DepthIsLiveGuards, Guards
  <2>8. ScopeInv'
    BY <2>4, <2>5 DEF ScopeInv, SavedInScope, InScope, Innermost
  <2> QED
    BY <2>6, <2>7, <2>8 DEF IInv
<1>8. CASE NoMatch
  <2>1. stack # <<>> /\ Top.prod \in Grouping /\ stack' = Append(Below, Rereading) /\ status' = status
        /\ UNCHANGED <<recursion_depth, flags, paren_query_grouping, refused>>
    BY <1>8 DEF NoMatch
  <2> QED
    BY <2>1, <1>1, <1>7 DEF Retrying
<1>9. ASSUME stack' = stack, UNCHANGED <<recursion_depth, flags, paren_query_grouping, refused>>,
             status' \in {"parse", "error"}
      PROVE  IInv'
  <2>1. TypeOK'
    BY <1>1, <1>9 DEF TypeOK
  <2>2. DepthIsLiveGuards'
    BY <1>9 DEF IInv, DepthIsLiveGuards, Guards
  <2>3. ScopeInv'
    BY <1>9 DEF IInv, ScopeInv, SavedInScope, InScope, Innermost
  <2> QED
    BY <2>1, <2>2, <2>3 DEF IInv
<1>10. CASE Fail
  BY <1>10, <1>9 DEF Fail
<1>11. CASE SpeculationFaults
  BY <1>11, LeavePreserves DEF SpeculationFaults
<1>12. CASE Unwind
  BY <1>12, <1>1, LeavePreserves DEF Unwind
<1>13. CASE Catch
  <2>1. stack # <<>> /\ Top.prod \in Speculating /\ status' = "parse"
        /\ stack' = (IF Top.prod \in Retrying THEN Append(Below, Rereading) ELSE Below)
        /\ UNCHANGED <<recursion_depth, flags, paren_query_grouping, refused>>
    BY <1>13 DEF Catch
  <2>2. CASE Top.prod \in Retrying
    BY <2>1, <2>2, <1>7
  <2>3. CASE Top.prod \notin Retrying
    <3>1. Top.prod = "probe"
      BY <2>1, <2>3 DEF Speculating
    <3>2. Restored(Top) = flags
      BY <3>1 DEF Restored
    <3>3. Top.prod \notin Guarded
      BY <3>1 DEF Guarded
    <3>4. Leave
      BY <2>1, <2>3, <3>2, <3>3 DEF Leave
    <3> QED
      BY <3>4, <2>1, LeavePreserves
  <2> QED
    BY <2>2, <2>3
<1>14. CASE Recover
  BY <1>14, <1>9 DEF Recover
<1>15. CASE UNCHANGED vars
  BY <1>15, <1>1, <1>9 DEF vars
<1> QED
  BY <1>4, <1>5, <1>6, <1>8, <1>10, <1>11, <1>12, <1>13, <1>14, <1>15 DEF Next

(* The inductive invariant holds throughout.                               *)
LEMMA Invariant == Spec => []IInv
  BY InitEstablishes, StepPreserves, PTL DEF Spec

(* Every variable keeps its type: leaving a production never takes the     *)
(* depth below zero, whichever way it is left.                             *)
THEOREM TypeCorrect == Spec => []TypeOK
<1>1. IInv => TypeOK
  BY DEF IInv
<1> QED
  BY <1>1, Invariant, PTL

(* For every limit: the depth is the number of live guards, within the     *)
(* limit, across errors, unwinding and rewinds.                            *)
THEOREM DepthIsExact == Spec => []DepthIsLiveGuards
<1>1. IInv => DepthIsLiveGuards
  BY DEF IInv
<1> QED
  BY <1>1, Invariant, PTL

(* The b_expr restriction and the suppressed star are exactly those of the *)
(* innermost production that owns them.                                    *)
THEOREM SpineFlagsAreScoped == Spec => []SpineScoped
<1>1. IInv => SpineScoped
  BY DEF IInv, ScopeInv, InScope, SpineScoped
<1> QED
  BY <1>1, Invariant, PTL

(* PRIOR is never an operator outside the condition of a CONNECT BY.       *)
THEOREM PriorIsConfined == Spec => []PriorConfined
<1>1. IInv => PriorConfined
  BY DEF IInv, ScopeInv, InScope, PriorConfined
<1> QED
  BY <1>1, Invariant, PTL

(* RETURN is legal exactly outside the body of a procedure.                *)
THEOREM ReturnIsScoped == Spec => []ReturnScoped
<1>1. IInv => ReturnScoped
  BY DEF IInv, ScopeInv, InScope, ReturnScoped
<1> QED
  BY <1>1, Invariant, PTL

(* The four together, as the model checker states them of an instance: at  *)
(* any nesting, every operand and routine body reads its own flags.        *)
THEOREM FlagsAreScoped == Spec => []FlagsScoped
<1>1. TypeOK /\ PriorConfined /\ SpineScoped /\ ReturnScoped => FlagsScoped
  BY DEF FlagsScoped
<1> QED
  BY <1>1, TypeCorrect, PriorIsConfined, SpineFlagsAreScoped, ReturnIsScoped, PTL
-----------------------------------------------------------------------------
(***************************************************************************)
(* While no query has been refused, more is true: what IInv leaves open.   *)
(***************************************************************************)

(* PRIOR is an operator in the whole condition: the converse of the last   *)
(* conjunct of InScope.                                                    *)
Reached(s, n, fl) == Innermost(s, n, Hierarchy, "connect_by") => fl.in_connect_by

SavedReached(s) == \A n \in 1..Len(s) : Reached(s, n - 1, s[n].saved)

(* The frames a parenthesized operand may stand in.                        *)
Admitting == Grouping \cup {"query"}

(* Frame i holds the one-shot flag only as a query directly inside a       *)
(* grouping parenthesis or another query; as an operand of a query it has  *)
(* such a frame two below.                                                 *)
GroupedAt(s, i) ==
    /\ s[i].grouping => s[i].prod = "query" /\ i > 1 /\ s[i - 1].prod \in Admitting
    /\ (i > 1 /\ s[i - 1].prod = "query" /\ s[i].prod = "query" /\ ~ParenOperands)
          => i > 2 /\ s[i - 2].prod \in Admitting

GroupedFrames(s) == \A i \in 1..Len(s) : GroupedAt(s, i)

(***************************************************************************)
(* The flag is armed and taken within one step, unless the guard refuses   *)
(* in between; so between steps it is down.                                *)
(***************************************************************************)
UnrefusedInv ==
    ~refused =>
        /\ paren_query_grouping = FALSE
        /\ SavedReached(stack)
        /\ Reached(stack, Len(stack), flags)
        /\ GroupedFrames(stack)

(* What the lower frames saved reaches as far under any top frame.         *)
LEMMA ReachedOfAppend ==
    ASSUME NEW s \in Seq(Frame), NEW f \in Frame
    PROVE  SavedReached(Append(s, f)) <=> (SavedReached(s) /\ Reached(s, Len(s), f.saved))
<1> DEFINE t == Append(s, f)
<1>1. Len(s) \in Nat /\ Len(t) = Len(s) + 1 /\ t[Len(s) + 1] = f
  OBVIOUS
<1>2. \A n \in 1..Len(s) : t[n] = s[n]
  OBVIOUS
<1>3. ASSUME NEW n \in 0..Len(s), NEW fl PROVE Reached(t, n, fl) <=> Reached(s, n, fl)
  BY InnermostOfPrefix DEF Reached
<1>4. ASSUME NEW n \in 1..Len(s)
      PROVE  Reached(t, n - 1, t[n].saved) <=> Reached(s, n - 1, s[n].saved)
  <2>1. n - 1 \in 0..Len(s)
    BY <1>1
  <2> QED
    BY <2>1, <1>2, <1>3
<1>5. Reached(t, Len(s), f.saved) <=> Reached(s, Len(s), f.saved)
  <2>1. Len(s) \in 0..Len(s)
    BY <1>1
  <2> QED
    BY <2>1, <1>3
<1>6. ASSUME SavedReached(t) PROVE SavedReached(s) /\ Reached(s, Len(s), f.saved)
  <2>1. \A n \in 1..Len(s) : Reached(t, n - 1, t[n].saved)
    BY <1>1, <1>6 DEF SavedReached
  <2>2. Reached(t, Len(s) + 1 - 1, t[Len(s) + 1].saved)
    BY <1>1, <1>6 DEF SavedReached
  <2>3. Reached(t, Len(s), f.saved)
    BY <2>2, <1>1
  <2> QED
    BY <2>1, <2>3, <1>4, <1>5 DEF SavedReached
<1>7. ASSUME SavedReached(s), Reached(s, Len(s), f.saved) PROVE SavedReached(t)
  <2> SUFFICES ASSUME NEW n \in 1..Len(t) PROVE Reached(t, n - 1, t[n].saved)
    BY DEF SavedReached
  <2>1. CASE n \in 1..Len(s)
    BY <2>1, <1>4, <1>7 DEF SavedReached
  <2>2. CASE n = Len(s) + 1
    <3>1. n - 1 = Len(s) /\ t[n] = f
      BY <2>2, <1>1
    <3> QED
      BY <3>1, <1>5, <1>7
  <2> QED
    BY <2>1, <2>2, <1>1
<1> QED
  BY <1>6, <1>7

(* A frame looks at itself and the two below it, and at nothing above.     *)
LEMMA GroupedOfAppend ==
    ASSUME NEW s \in Seq(Frame), NEW f \in Frame
    PROVE  GroupedFrames(Append(s, f))
               <=> (GroupedFrames(s) /\ GroupedAt(Append(s, f), Len(s) + 1))
<1> DEFINE t == Append(s, f)
<1>1. Len(s) \in Nat /\ Len(t) = Len(s) + 1
  OBVIOUS
<1>2. ASSUME NEW i \in 1..Len(s) PROVE GroupedAt(t, i) <=> GroupedAt(s, i)
  <2>1. t[i] = s[i]
    OBVIOUS
  <2>2. i > 1 => t[i - 1] = s[i - 1]
    OBVIOUS
  <2>3. i > 2 => t[i - 2] = s[i - 2]
    OBVIOUS
  <2> HIDE DEF t
  <2> QED
    BY <2>1, <2>2, <2>3 DEF GroupedAt
<1> HIDE DEF t
<1>3. 1..Len(t) = 1..Len(s) \cup {Len(s) + 1}
  BY <1>1
<1> QED
  BY <1>2, <1>3 DEF GroupedFrames, t

(* Entering a production: PRIOR is still an operator where it should be.   *)
LEMMA ReachedEntered ==
    ASSUME NEW s \in Seq(Frame), NEW f \in Frame, flags \in Flags, Reached(s, Len(s), flags)
    PROVE  Reached(Append(s, f), Len(s) + 1, Entered(f.prod))
<1>1. f.prod \in Productions
  BY DEF Frame
<1>2. Entered(f.prod).in_connect_by
          <=> (f.prod = "connect_by" \/ (f.prod \notin Hierarchy /\ flags.in_connect_by))
  BY <1>1 DEF Entered, Flags, Hierarchy, Productions, Guarded, Scoped, Speculating, Grouping, Rewound
<1>3. Innermost(Append(s, f), Len(s) + 1, Hierarchy, "connect_by")
          <=> (f.prod = "connect_by"
                  \/ (f.prod \notin Hierarchy /\ Innermost(s, Len(s), Hierarchy, "connect_by")))
  <2>1. "connect_by" \in Hierarchy
    BY DEF Hierarchy
  <2> QED
    BY <2>1, InnermostOfAppend
<1> QED
  BY <1>2, <1>3, Zenon DEF Reached

(* Leaving a production puts PRIOR back where it was an operator.          *)
LEMMA ReachedRestored ==
    ASSUME NEW s \in Seq(Frame), NEW f \in Frame, flags \in Flags,
           Reached(Append(s, f), Len(s) + 1, flags), Reached(s, Len(s), f.saved)
    PROVE  Reached(s, Len(s), Restored(f))
<1>1. f.prod \in Productions /\ f.saved \in Flags
  BY DEF Frame
<1>2. Restored(f).in_connect_by
          <=> (IF f.prod \in Hierarchy THEN f.saved.in_connect_by ELSE flags.in_connect_by)
  BY <1>1 DEF Restored, Flags, Hierarchy, Productions, Guarded, Scoped, Speculating, Grouping, Rewound
<1>3. f.prod \notin Hierarchy
          => (Innermost(Append(s, f), Len(s) + 1, Hierarchy, "connect_by")
                  <=> Innermost(s, Len(s), Hierarchy, "connect_by"))
  <2>1. "connect_by" \in Hierarchy
    BY DEF Hierarchy
  <2> QED
    BY <2>1, InnermostOfAppend
<1> QED
  BY <1>2, <1>3, Zenon DEF Reached

(* The frame on top may lose the one-shot flag and, if it is no query,     *)
(* become another plain one.                                               *)
LEMMA UnrefusedRetop ==
    ASSUME IInv, UnrefusedInv, ~refused, stack # <<>>, NEW g \in Frame, g.saved = Top.saved,
           g.grouping => Top.grouping,
           g.prod = Top.prod \/ {g.prod, Top.prod} \subseteq Plain
    PROVE  /\ SavedReached(Append(Below, g))
           /\ Reached(Append(Below, g), Len(Append(Below, g)), flags)
           /\ GroupedFrames(Append(Below, g))
<1> DEFINE t == Append(Below, g)
<1>1. stack \in Seq(Frame)
  BY DEF IInv, TypeOK
<1>2. Below \in Seq(Frame) /\ Top \in Frame /\ stack = Append(Below, Top) /\ Len(stack) = Len(Below) + 1
  BY <1>1, TopOfStack
<1>3. Len(t) = Len(Below) + 1 /\ Len(Below) \in Nat
  BY <1>2
<1>4. SavedReached(t)
  <2>1. SavedReached(Append(Below, Top))
    BY <1>2 DEF UnrefusedInv
  <2>2. SavedReached(Below) /\ Reached(Below, Len(Below), Top.saved)
    BY <2>1, <1>2, ReachedOfAppend
  <2> QED
    BY <2>2, <1>2, ReachedOfAppend
<1>5. Reached(t, Len(t), flags)
  <2>1. "connect_by" \in Hierarchy
    BY DEF Hierarchy
  <2>2. Innermost(t, Len(Below) + 1, Hierarchy, "connect_by")
            <=> (g.prod = "connect_by"
                    \/ (g.prod \notin Hierarchy /\ Innermost(Below, Len(Below), Hierarchy, "connect_by")))
    BY <2>1, <1>2, InnermostOfAppend
  <2>3. Innermost(stack, Len(stack), Hierarchy, "connect_by")
            <=> (Top.prod = "connect_by"
                    \/ (Top.prod \notin Hierarchy /\ Innermost(Below, Len(Below), Hierarchy, "connect_by")))
    BY <2>1, <1>2, InnermostOfAppend
  <2>4. (g.prod = "connect_by" <=> Top.prod = "connect_by") /\ (g.prod \in Hierarchy <=> Top.prod \in Hierarchy)
    BY DEF Plain, Hierarchy
  <2>5. Reached(stack, Len(stack), flags)
    BY DEF UnrefusedInv
  <2> QED
    BY <2>2, <2>3, <2>4, <2>5, <1>3 DEF Reached
<1>6. GroupedFrames(t)
  <2> DEFINE u == Append(Below, Top)
             n == Len(Below) + 1
  <2>1. GroupedFrames(u)
    BY <1>2 DEF UnrefusedInv
  <2>2. GroupedFrames(Below) /\ GroupedAt(u, n)
    BY <2>1, <1>2, GroupedOfAppend
  <2>3. n \in Nat /\ u[n] = Top /\ t[n] = g
    BY <1>2
  <2>4. (n > 1 => u[n - 1] = t[n - 1]) /\ (n > 2 => u[n - 2] = t[n - 2])
    BY <1>2
  <2>5. g.prod = Top.prod \/ (g.prod # "query" /\ Top.prod # "query")
    BY DEF Plain, Hierarchy
  <2> HIDE DEF t, u, n
  <2>6. GroupedAt(t, n)
    BY <2>2, <2>3, <2>4, <2>5 DEF GroupedAt
  <2> QED
    BY <2>2, <2>6, <1>2, GroupedOfAppend DEF t, n
<1> QED
  BY <1>4, <1>5, <1>6

(* Leaving the frame on top.                                               *)
LEMMA UnrefusedLeave ==
    ASSUME IInv, UnrefusedInv, stack # <<>>, Leave
    PROVE  UnrefusedInv'
<1> SUFFICES ASSUME ~refused'
             PROVE  /\ paren_query_grouping' = FALSE
                    /\ SavedReached(stack')
                    /\ Reached(stack', Len(stack'), flags')
                    /\ GroupedFrames(stack')
  BY DEF UnrefusedInv, SavedReached, Reached, GroupedFrames, GroupedAt, Innermost
<1>1. stack \in Seq(Frame) /\ flags \in Flags
  BY DEF IInv, TypeOK
<1>2. Below \in Seq(Frame) /\ Top \in Frame /\ stack = Append(Below, Top) /\ Len(stack) = Len(Below) + 1
  BY <1>1, TopOfStack
<1>3. stack' = Below /\ flags' = Restored(Top) /\ paren_query_grouping' = paren_query_grouping /\ ~refused
  BY DEF Leave
<1>4. SavedReached(Below) /\ Reached(Below, Len(Below), Top.saved)
  <2>1. SavedReached(Append(Below, Top))
    BY <1>2, <1>3 DEF UnrefusedInv
  <2> QED
    BY <2>1, <1>2, ReachedOfAppend
<1>5. Reached(Below, Len(Below), Restored(Top))
  <2>1. Reached(Append(Below, Top), Len(Below) + 1, flags)
    BY <1>2, <1>3 DEF UnrefusedInv
  <2> QED
    BY <2>1, <1>1, <1>2, <1>4, ReachedRestored
<1>6. GroupedFrames(Below)
  <2>1. GroupedFrames(Append(Below, Top))
    BY <1>2, <1>3 DEF UnrefusedInv
  <2> QED
    BY <2>1, <1>2, GroupedOfAppend
<1>7. paren_query_grouping = FALSE
  BY <1>3 DEF UnrefusedInv
<1> QED
  BY <1>3, <1>4, <1>5, <1>6, <1>7

(* Entering a production, from a stack where a query may stand as an       *)
(* operand, with the flag armed only for a query in its place.             *)
LEMMA UnrefusedEnter ==
    ASSUME TypeOK, NEW p \in Productions, NEW base \in Seq(Frame), NEW armed \in BOOLEAN,
           SavedReached(base), Reached(base, Len(base), flags), GroupedFrames(base),
           p # "query" => armed = FALSE,
           armed => Len(base) > 0 /\ base[Len(base)].prod \in Admitting,
           (Len(base) > 0 /\ base[Len(base)].prod = "query" /\ p = "query" /\ ~ParenOperands)
               => Len(base) > 1 /\ base[Len(base) - 1].prod \in Admitting,
           Enter(p, base, armed)
    PROVE  UnrefusedInv'
<1> DEFINE f == [prod |-> p, saved |-> flags, called |-> FALSE,
                 grouping |-> p = "query" /\ armed, complete |-> FALSE]
<1> HIDE DEF f
<1> SUFFICES ASSUME ~refused'
             PROVE  /\ paren_query_grouping' = FALSE
                    /\ SavedReached(stack')
                    /\ Reached(stack', Len(stack'), flags')
                    /\ GroupedFrames(stack')
  BY DEF UnrefusedInv, SavedReached, Reached, GroupedFrames, GroupedAt, Innermost
<1>1. flags \in Flags
  BY DEF TypeOK
<1>2. CASE p \in Guarded /\ recursion_depth >= Limit
  <2>1. stack' = base /\ paren_query_grouping' = armed
        /\ flags' = (IF p = "query" THEN Entered(p) ELSE flags) /\ refused' = (refused \/ p = "query")
    BY <1>2 DEF Enter
  <2>2. p # "query"
    BY <2>1
  <2> QED
    BY <2>1, <2>2
<1>3. CASE ~(p \in Guarded /\ recursion_depth >= Limit)
  <2>1. stack' = Append(base, f) /\ flags' = Entered(p)
        /\ paren_query_grouping' = (IF p = "query" THEN FALSE ELSE armed)
    BY <1>3 DEF Enter, f
  <2>2. f \in Frame /\ f.prod = p /\ f.saved = flags /\ (f.grouping <=> (p = "query" /\ armed))
    BY <1>1 DEF Frame, f
  <2>3. Len(Append(base, f)) = Len(base) + 1 /\ Len(base) \in Nat
    BY <2>2
  <2>4. SavedReached(Append(base, f))
    BY <2>2, ReachedOfAppend
  <2>5. Reached(Append(base, f), Len(base) + 1, Entered(p))
    BY <2>2, <1>1, ReachedEntered
  <2>6. GroupedAt(Append(base, f), Len(base) + 1)
    <3> DEFINE t == Append(base, f)
               n == Len(base) + 1
    <3>1. n \in Nat /\ t[n] = f
      BY <2>2
    <3>2. n > 1 => t[n - 1] = base[Len(base)] /\ Len(base) > 0
      BY <2>2
    <3>3. n > 2 => t[n - 2] = base[Len(base) - 1]
      BY <2>2
    <3>4. (n > 1 <=> Len(base) > 0) /\ (n > 2 <=> Len(base) > 1)
      BY <2>3
    <3> HIDE DEF t, n
    <3>5. t[n].grouping => t[n].prod = "query" /\ n > 1 /\ t[n - 1].prod \in Admitting
      BY <3>1, <3>2, <3>4, <2>2
    <3>6. (n > 1 /\ t[n - 1].prod = "query" /\ t[n].prod = "query" /\ ~ParenOperands)
              => n > 2 /\ t[n - 2].prod \in Admitting
      BY <3>1, <3>2, <3>3, <3>4, <2>2
    <3>7. GroupedAt(t, n)
      BY <3>5, <3>6 DEF GroupedAt
    <3> QED
      BY <3>7 DEF t, n
  <2>7. GroupedFrames(Append(base, f))
    BY <2>2, <2>6, GroupedOfAppend
  <2>8. paren_query_grouping' = FALSE
    BY <2>1
  <2> QED
    BY <2>1, <2>3, <2>4, <2>5, <2>7, <2>8
<1> QED
  BY <1>2, <1>3

(* The caller of p arms the flag, and may call p, only in its place.       *)
LEMMA UnrefusedCall ==
    ASSUME IInv, UnrefusedInv, ~refused, NEW p \in Explored, Call(p)
    PROVE  UnrefusedInv'
<1> DEFINE base == Append(Below, Calling(p))
           armed == Armed(Top, p)
           n == Len(base)
<1>1. TypeOK /\ stack \in Seq(Frame) /\ stack # <<>> /\ Enter(p, base, armed) /\ p \in Productions
  BY DEF IInv, TypeOK, Call
<1>2. Below \in Seq(Frame) /\ Top \in Frame /\ stack = Append(Below, Top) /\ Len(stack) = Len(Below) + 1
  BY <1>1, TopOfStack
<1>3. Top.grouping \in BOOLEAN /\ paren_query_grouping = FALSE
  BY <1>2 DEF Frame, UnrefusedInv
<1>4. Calling(p) \in Frame /\ Calling(p).saved = Top.saved /\ Calling(p).prod = Top.prod
      /\ Calling(p).grouping = FALSE
  BY <1>2 DEF Calling, Frame
<1>5. SavedReached(base) /\ Reached(base, Len(base), flags) /\ GroupedFrames(base)
  BY <1>1, <1>4, UnrefusedRetop
<1>6. base \in Seq(Frame) /\ n = Len(Below) + 1 /\ n \in Nat /\ n > 0 /\ base[n] = Calling(p)
  BY <1>2, <1>4
<1>7. armed \in BOOLEAN /\ (p # "query" => armed = FALSE)
      /\ (armed => Top.prod \in Admitting)
  BY <1>3 DEF Armed, Admitting
<1>8. (Top.prod = "query" /\ p = "query" /\ ~ParenOperands) => n > 1 /\ base[n - 1].prod \in Admitting
  <2> SUFFICES ASSUME Top.prod = "query", p = "query", ~ParenOperands
               PROVE  n > 1 /\ base[n - 1].prod \in Admitting
    OBVIOUS
  <2>1. Top.grouping
    BY DEF Call
  <2>2. GroupedAt(stack, Len(stack)) /\ stack[Len(stack)] = Top
    <3>1. Len(stack) \in 1..Len(stack)
      BY <1>2, <1>6
    <3> QED
      BY <3>1 DEF UnrefusedInv, GroupedFrames, Top
  <2>3. Len(stack) > 1 /\ stack[Len(stack) - 1].prod \in Admitting
    BY <2>1, <2>2 DEF GroupedAt
  <2>4. Len(stack) = n
    BY <1>2, <1>6
  <2>5. base[n - 1] = stack[n - 1]
    BY <2>3, <2>4, <1>2, <1>4
  <2> QED
    BY <2>3, <2>4, <2>5
<1> HIDE DEF base, armed, n
<1>9. base[Len(base)].prod = Top.prod /\ Len(base) > 0
  BY <1>4, <1>6 DEF n
<1>10. armed => Len(base) > 0 /\ base[Len(base)].prod \in Admitting
  BY <1>7, <1>9
<1>11. (Len(base) > 0 /\ base[Len(base)].prod = "query" /\ p = "query" /\ ~ParenOperands)
           => Len(base) > 1 /\ base[Len(base) - 1].prod \in Admitting
  BY <1>8, <1>9 DEF n
<1> QED
  BY <1>1, <1>5, <1>6, <1>7, <1>10, <1>11, UnrefusedEnter

(* Every step preserves what holds while nothing is refused.               *)
LEMMA UnrefusedStep == IInv /\ UnrefusedInv /\ [Next]_vars => UnrefusedInv'
<1> SUFFICES ASSUME IInv, UnrefusedInv, [Next]_vars PROVE UnrefusedInv'
  OBVIOUS
<1>1. TypeOK /\ stack \in Seq(Frame) /\ refused \in BOOLEAN
  BY DEF IInv, TypeOK
<1>2. CASE refused
  <2>1. refused'
    BY <1>2 DEF Next, vars, Start, Call, Enter, Return, Leave, NoMatch, Fail, SpeculationFaults,
                Unwind, Catch, Recover
  <2> QED
    BY <2>1 DEF UnrefusedInv
<1>3. CASE ~refused
  <2>1. /\ paren_query_grouping = FALSE
        /\ SavedReached(stack)
        /\ Reached(stack, Len(stack), flags)
        /\ GroupedFrames(stack)
    BY <1>3 DEF UnrefusedInv
  <2>2. CASE Start
    <3>1. stack = <<>> /\ Len(stack) = 0 /\ Enter("statement", stack, FALSE)
      BY <2>2, <2>1 DEF Start
    <3>2. "statement" \in Productions /\ "statement" # "query"
      BY DEF Productions, Guarded
    <3> QED
      BY <3>1, <3>2, <2>1, <1>1, UnrefusedEnter
  <2>3. ASSUME NEW p \in Explored, Call(p) PROVE UnrefusedInv'
    BY <2>3, <1>3, UnrefusedCall
  <2>4. ASSUME stack # <<>>, Top.prod \in Retrying, stack' = Append(Below, Rereading),
               UNCHANGED <<flags, paren_query_grouping, refused>>
        PROVE  UnrefusedInv'
    <3> DEFINE t == Append(Below, Rereading)
    <3>1. Top \in Frame
      BY <2>4, <1>1, TopOfStack
    <3>2. Rereading \in Frame /\ Rereading.saved = Top.saved /\ Rereading.prod \in Rewound
          /\ Rereading.grouping = Top.grouping
      BY <3>1, <2>4 DEF Rereading, Frame, Productions, Rewound, Retrying, Grouping
    <3>3. {Rereading.prod, Top.prod} \subseteq Plain
      BY <3>2, <2>4 DEF Plain, Productions, Guarded, Scoped, Speculating, Retrying, Grouping, Rewound,
                        Spine, Hierarchy, Routine
    <3>4. SavedReached(t) /\ Reached(t, Len(t), flags) /\ GroupedFrames(t)
      BY <2>4, <1>3, <3>2, <3>3, UnrefusedRetop
    <3> HIDE DEF t
    <3>5. stack' = t /\ flags' = flags /\ paren_query_grouping' = paren_query_grouping
      BY <2>4 DEF t
    <3> QED
      BY <3>4, <3>5, <2>1 DEF UnrefusedInv, SavedReached, Reached, GroupedFrames, GroupedAt, Innermost
  <2>5. ASSUME UNCHANGED <<stack, flags, paren_query_grouping, refused>> PROVE UnrefusedInv'
    BY <2>5 DEF UnrefusedInv, SavedReached, Reached, GroupedFrames, GroupedAt, Innermost
  <2>6. CASE Return
    BY <2>6, UnrefusedLeave DEF Return
  <2>7. CASE NoMatch
    BY <2>7, <2>4 DEF NoMatch, Retrying
  <2>8. CASE Fail
    BY <2>8, <2>5 DEF Fail
  <2>9. CASE SpeculationFaults
    BY <2>9, UnrefusedLeave DEF SpeculationFaults
  <2>10. CASE Unwind
    BY <2>10, UnrefusedLeave DEF Unwind
  <2>11. CASE Catch
    <3>1. stack # <<>> /\ Top.prod \in Speculating
          /\ stack' = (IF Top.prod \in Retrying THEN Append(Below, Rereading) ELSE Below)
          /\ UNCHANGED <<recursion_depth, flags, paren_query_grouping, refused>>
      BY <2>11 DEF Catch
    <3>2. CASE Top.prod \in Retrying
      BY <3>1, <3>2, <2>4
    <3>3. CASE Top.prod \notin Retrying
      <4>1. Top.prod = "probe"
        BY <3>1, <3>3 DEF Speculating
      <4>2. Restored(Top) = flags /\ Top.prod \notin Guarded
        BY <4>1 DEF Restored, Guarded
      <4>3. Leave
        BY <3>1, <3>3, <4>2 DEF Leave
      <4> QED
        BY <4>3, <3>1, UnrefusedLeave
    <3> QED
      BY <3>2, <3>3
  <2>12. CASE Recover
    BY <2>12, <2>5 DEF Recover
  <2>13. CASE UNCHANGED vars
    BY <2>13, <2>5 DEF vars
  <2> QED
    BY <2>2, <2>3, <2>6, <2>7, <2>8, <2>9, <2>10, <2>11, <2>12, <2>13 DEF Next
<1> QED
  BY <1>1, <1>2, <1>3

(* And it holds in every behaviour.                                        *)
LEMMA UnrefusedHolds == Spec => []UnrefusedInv
<1>1. Init => UnrefusedInv
  <2> SUFFICES ASSUME Init PROVE UnrefusedInv
    OBVIOUS
  <2>1. paren_query_grouping = FALSE /\ Len(stack) = 0 /\ 1..Len(stack) = {}
    BY DEF Init
  <2> QED
    BY <2>1 DEF UnrefusedInv, SavedReached, Reached, GroupedFrames, Innermost
<1> QED
  BY <1>1, Invariant, UnrefusedStep, PTL DEF Spec

(***************************************************************************)
(* For every limit, both promises the documentation makes are kept until   *)
(* the guard of a query refuses: PRIOR is an operator through the whole of *)
(* a CONNECT BY condition, and a dialect without parenthesized operands    *)
(* accepts one only in a grouping context (parse_query, parse_connect_by). *)
(***************************************************************************)
THEOREM ScopedUntilRefused == Spec => []ScopedUnlessRefused
<1>1. IInv /\ UnrefusedInv => ScopedUnlessRefused
  <2> SUFFICES ASSUME IInv, UnrefusedInv, ~refused PROVE PriorThroughout /\ OperandsOnlyGrouped
    BY DEF ScopedUnlessRefused
  <2>1. PriorThroughout
    BY DEF UnrefusedInv, Reached, PriorThroughout
  <2>2. OperandsOnlyGrouped
    <3> SUFFICES ASSUME NEW i \in 2..Len(stack),
                        stack[i - 1].prod = "query", stack[i].prod = "query", ~ParenOperands
                 PROVE  i > 2 /\ stack[i - 2].prod \in Grouping \cup {"query"}
      BY DEF OperandsOnlyGrouped
    <3>1. i \in 1..Len(stack) /\ i > 1
      BY DEF IInv, TypeOK
    <3>2. GroupedAt(stack, i)
      BY <3>1 DEF UnrefusedInv, GroupedFrames
    <3> QED
      BY <3>1, <3>2 DEF GroupedAt, Admitting
  <2> QED
    BY <2>1, <2>2
<1> QED
  BY <1>1, Invariant, UnrefusedHolds, PTL

(***************************************************************************)
(* Whatever a statement did, refusals included, the next one starts with   *)
(* the scoped flags and the depth of a fresh parser; and with the grouping *)
(* flag down, unless a query has been refused.                             *)
(***************************************************************************)
THEOREM StatementsAreIndependent == Spec => []StatementsIndependent
<1>1. ASSUME IInv, stack = <<>> PROVE flags = NoFlags /\ recursion_depth = 0
  <2>1. Len(stack) = 0 /\ 1..Len(stack) = {}
    BY <1>1
  <2>2. Guards(stack) = {}
    BY <2>1 DEF Guards
  <2>3. recursion_depth = 0
    BY <2>2, <1>1, FS_EmptySet DEF IInv, DepthIsLiveGuards
  <2>4. \A ps, p : ~Innermost(stack, Len(stack), ps, p)
    BY <2>1 DEF Innermost
  <2>5. ~flags.restrict_b_expr /\ ~flags.suppress_value_star /\ flags.body_return_allowed
        /\ ~flags.in_connect_by
    BY <2>4, <1>1 DEF IInv, ScopeInv, InScope
  <2>6. flags \in Flags
    BY <1>1 DEF IInv, TypeOK
  <2>7. flags = NoFlags
    BY <2>5, <2>6 DEF Flags, NoFlags
  <2> QED
    BY <2>3, <2>7
<1>2. IInv /\ UnrefusedInv => StatementsIndependent
  <2> SUFFICES ASSUME IInv, UnrefusedInv, stack = <<>>
               PROVE  flags = NoFlags /\ recursion_depth = 0 /\ (paren_query_grouping => refused)
    BY DEF StatementsIndependent
  <2>1. paren_query_grouping => refused
    BY DEF UnrefusedInv
  <2> QED
    BY <1>1, <2>1
<1> QED
  BY <1>2, Invariant, UnrefusedHolds, PTL
=============================================================================
