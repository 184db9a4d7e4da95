-------------------------- MODULE Inspection_proofs --------------------------
(***************************************************************************)
(* Proofs about the redaction of one request (Inspection).                 *)
(*                                                                         *)
(* The properties speak of the request as a whole; what makes them true is *)
(* what each activation of the stack carries, so the inductive invariant   *)
(* is about the frames:                                                    *)
(*                                                                         *)
(*   - Faithful: the few keys a context keeps name a credential exactly    *)
(*     when some key above does (from the lemma on mergeStringKeyContexts, *)
(*     by induction over the keys it appends);                             *)
(*   - FrameOK: what a frame has collected so far hides what it must in    *)
(*     redaction mode and counts what it must in audit mode, whether its   *)
(*     strings were texts or documents;                                    *)
(*   - BudgetOK: while the request runs, what was really done exceeds what *)
(*     was charged by what the texts that were charged account for.        *)
(***************************************************************************)
EXTENDS Inspection, SequenceTheorems, WellFoundedInduction, TLAPS

-----------------------------------------------------------------------------
(* Induction over the natural numbers in a form a proof can cite: the statement *)
(* proved by induction is a set, the step of a recursive function a function.   *)

\* A set of natural numbers that is not empty has a least element.
LEMMA LeastElement ==
  ASSUME NEW T \in SUBSET Nat, T # {}
  PROVE  \E x \in T : \A y \in T : x <= y
<1> DEFINE R == OpToRel(<, Nat)
<1>1. IsWellFoundedOn(R, Nat)
  BY NatLessThanWellFounded
<1>2. \E x \in T : \A y \in T : ~(<<y, x>> \in R)
  <2> HIDE DEF R
  <2> QED BY <1>1, WFMin
<1>3. ASSUME NEW x \in Nat, NEW y \in Nat, y < x PROVE <<y, x>> \in R
  <2>1. <<y, x>>[1] < <<y, x>>[2] /\ <<y, x>> \in Nat \X Nat
    BY <1>3
  <2>2. QED
    BY <2>1, Zenon DEF OpToRel
<1>4. QED
  <2> HIDE DEF R
  <2>1. PICK x \in T : \A y \in T : ~(<<y, x>> \in R)
    BY <1>2
  <2>2. ASSUME NEW y \in T PROVE x <= y
    <3>1. ~(y < x) BY <2>1, <1>3
    <3>2. QED BY <3>1
  <2>3. QED BY <2>2

\* Induction from 0 up to N.
LEMMA SetInduction ==
  ASSUME NEW N \in Nat, NEW S, 0 \in S, \A n \in 0..(N - 1) : n \in S => n + 1 \in S
  PROVE  0..N \subseteq S
<1> SUFFICES ASSUME NEW m \in 0..N, m \notin S PROVE FALSE
  OBVIOUS
<1> DEFINE T == {n \in 0..N : n \notin S}
<1>1. PICK x \in T : \A y \in T : x <= y
  <2>1. T \in SUBSET Nat /\ T # {} OBVIOUS
  <2> HIDE DEF T
  <2> QED BY <2>1, LeastElement
<1>2. x # 0 /\ x \in 0..N /\ x \notin S OBVIOUS
<1>3. x - 1 \in 0..(N - 1) /\ x - 1 \in S BY <1>1, <1>2
<1>4. QED BY <1>2, <1>3

\* f starts from base and takes the step of every n to get there.
Unfolds(f, N, base, step) ==
    f[0] = base /\ \A n \in 1..N : f[n] = step[n][f[n - 1]]

\* A function given by its value at 0 and by a step from each value to the next
\* exists.
LEMMA RecursiveFunctionExists ==
  ASSUME NEW N \in Nat, NEW D, NEW base \in D, NEW step \in [1..N -> [D -> D]]
  PROVE  \E f \in [0..N -> D] : Unfolds(f, N, base, step)
<1> DEFINE S == {m \in 0..N : \E f \in [0..m -> D] :
                    f[0] = base /\ \A n \in 1..m : f[n] = step[n][f[n - 1]]}
<1>1. 0 \in S
  <2>1. [k \in 0..0 |-> base] \in [0..0 -> D] /\ [k \in 0..0 |-> base][0] = base
    OBVIOUS
  <2>2. \A n \in 1..0 : FALSE
    OBVIOUS
  <2>3. \E f \in [0..0 -> D] : f[0] = base /\ \A n \in 1..0 : f[n] = step[n][f[n - 1]]
    BY <2>1, <2>2
  <2>4. QED BY <2>3
<1>2. ASSUME NEW m \in 0..(N - 1), m \in S PROVE m + 1 \in S
  <2>1. PICK f \in [0..m -> D] :
            f[0] = base /\ \A n \in 1..m : f[n] = step[n][f[n - 1]]
    BY <1>2
  <2>2. f[m] \in D /\ m + 1 \in 1..N OBVIOUS
  <2>3. step[m + 1] \in [D -> D] BY <2>2
  <2>4. step[m + 1][f[m]] \in D BY <2>2, <2>3
  <2> DEFINE v == step[m + 1][f[m]]
             g == [k \in 0..(m + 1) |-> IF k = m + 1 THEN v ELSE f[k]]
  <2>5. g \in [0..(m + 1) -> D]
    <3> HIDE DEF v
    <3>1. v \in D BY <2>4 DEF v
    <3>2. QED BY <3>1
  <2>6. g[0] = base BY <2>1
  <2>7. ASSUME NEW n \in 1..(m + 1) PROVE g[n] = step[n][g[n - 1]]
    <3>1. g[n - 1] = f[n - 1] BY <2>7
    <3>2. CASE n = m + 1
      <4>1. g[n] = v BY <3>2
      <4>2. n - 1 = m BY <3>2
      <4>3. QED BY <4>1, <4>2, <3>1, <3>2
    <3>3. CASE n \in 1..m
      <4>1. g[n] = f[n] BY <3>3
      <4>2. QED BY <4>1, <3>1, <3>3, <2>1
    <3>4. QED BY <2>7, <3>2, <3>3
  <2>8. QED
    <3> HIDE DEF g
    <3>1. m + 1 \in 0..N OBVIOUS
    <3>2. QED BY <3>1, <2>5, <2>6, <2>7
<1>3. N \in S
  <2> HIDE DEF S
  <2>1. 0..N \subseteq S BY <1>1, <1>2, SetInduction
  <2>2. QED BY <2>1
<1>4. QED BY <1>3 DEF Unfolds

-----------------------------------------------------------------------------

Context == [immediate : ContextKeys, ancestors : Seq(ContextKeys),
            structured : BOOLEAN, tool : BOOLEAN]

Frames == [left : Int, nesting : Int, context : Context, named : BOOLEAN,
           findings : Nat, changed : BOOLEAN, before : Nat, after : Nat]

Works == [nodes : Nat, structural : Nat, texts : Nat, bytes : Nat, findings : Nat]

TypeOK ==
    /\ policy \in Policies
    /\ stack \in Seq(Frames) /\ Len(stack) > 0
    /\ budget \in [nodes : Nat, structural : Nat, textNodes : Nat, textBytes : Nat, findings : Nat]
    /\ work \in Works
    /\ result \in [changed : BOOLEAN, findings : Nat, exposed : Nat]
    /\ last \in [applies : BOOLEAN, named : BOOLEAN]

\* A key the context keeps names a credential exactly when some key above does.
Faithful(context, named) ==
    (context.immediate \in AncestorKeys \/ Names(context.ancestors, AncestorKeys))
        <=> (context.immediate \in AncestorKeys \/ named)

\* What an activation may hand to the one below, by the mode.
Balanced(findings, changed, before, after) ==
    IF policy.audit
    THEN ~changed /\ findings >= before
    ELSE after = 0 /\ (~changed => before = 0)

FrameOK(frame, n) ==
    /\ Balanced(frame.findings, frame.changed, frame.before, frame.after)
    /\ frame.named <=> frame.context.immediate \in AncestorKeys
                       \/ Names(frame.context.ancestors, AncestorKeys)
    /\ n > 1 => frame.nesting = n - 2

\* A scan in vain counts at most one node for each byte of the text that is then
\* charged and one for the text, the student one finding for the text.
BudgetOK ==
    /\ budget.textNodes = work.texts /\ budget.textBytes = work.bytes
    /\ outcome = "running" =>
          /\ budget.nodes <= MaxJSONNodes /\ budget.findings <= MaxFindings
          /\ work.nodes <= budget.nodes + work.bytes + work.texts
          /\ work.findings <= budget.findings + work.texts

\* What may have been spent on a string before it is inspected, or refused.
SpentOK(spent) ==
    /\ spent \in Works
    /\ spent.texts = work.texts /\ spent.bytes = work.bytes /\ spent.findings = work.findings
    /\ spent.structural <= MaxStructuralBytes
    /\ spent.nodes <= MaxJSONNodes + work.bytes + work.texts + 1

IInv ==
    /\ TypeOK
    /\ \A n \in DOMAIN stack : FrameOK(stack[n], n)
    /\ BudgetOK
    /\ NamesSurviveNesting
    /\ WorkIsBounded
    /\ NothingExposed
    /\ AuditObserves

-----------------------------------------------------------------------------
(* mergeStringKeyContexts *)

KeyContext == [immediate : ContextKeys, ancestors : Seq(ContextKeys)]

SaysCredential(m) == m.immediate \in AncestorKeys \/ Names(m.ancestors, AncestorKeys)

\* What Names says of a longer list.
LEMMA NamesAppend ==
  ASSUME NEW S, NEW keys \in Seq(ContextKeys), NEW key \in ContextKeys
  PROVE  Names(Append(keys, key), S) <=> Names(keys, S) \/ key \in S
BY DEF Names

LEMMA NamesOne ==
  ASSUME NEW S, NEW key \in ContextKeys
  PROVE  <<key>> \in Seq(ContextKeys) /\ (Names(<<key>>, S) <=> key \in S)
BY DEF Names

LEMMA NamesConcat ==
  ASSUME NEW S, NEW a \in Seq(ContextKeys), NEW b \in Seq(ContextKeys)
  PROVE  Names(a \o b, S) <=> Names(a, S) \/ Names(b, S)
<1>1. DOMAIN (a \o b) = 1..(Len(a) + Len(b)) /\ DOMAIN a = 1..Len(a) /\ DOMAIN b = 1..Len(b)
  OBVIOUS
<1>2. ASSUME NEW i \in DOMAIN a PROVE i \in DOMAIN (a \o b) /\ (a \o b)[i] = a[i]
  BY <1>1
<1>3. ASSUME NEW i \in DOMAIN b
      PROVE  Len(a) + i \in DOMAIN (a \o b) /\ (a \o b)[Len(a) + i] = b[i]
  BY <1>1
<1>4. ASSUME NEW i \in DOMAIN (a \o b), i \notin DOMAIN a
      PROVE  i - Len(a) \in DOMAIN b /\ (a \o b)[i] = b[i - Len(a)]
  BY <1>1, <1>4
<1>5. QED
  BY <1>2, <1>3, <1>4 DEF Names

\* appendAncestor keeps the list within its limit and loses no credential key:
\* the one key a full list drops is either no credential or not the first.
LEMMA AppendAncestorKeeps ==
  ASSUME NEW m \in KeyContext, Len(m.ancestors) <= MaxContextAncestors, NEW key \in ContextKeys
  PROVE  /\ AppendAncestor(m, key) \in KeyContext
         /\ AppendAncestor(m, key).immediate = m.immediate
         /\ Len(AppendAncestor(m, key).ancestors) <= MaxContextAncestors
         /\ SaysCredential(AppendAncestor(m, key)) <=> SaysCredential(m) \/ key \in AncestorKeys
<1> USE DEF KeyContext
<1>0. /\ MaxContextAncestors \in Nat \ {0} /\ NoKey \notin AncestorKeys
      /\ m.ancestors \in Seq(ContextKeys) /\ m.immediate \in ContextKeys
  BY InspectionConstants
<1>1. CASE key = NoKey
  <2>1. AppendAncestor(m, key) = m BY <1>1 DEF AppendAncestor
  <2>2. QED BY <2>1, <1>0, <1>1
<1>2. CASE key # NoKey /\ Len(m.ancestors) < MaxContextAncestors
  <2>1. AppendAncestor(m, key) = [m EXCEPT !.ancestors = Append(m.ancestors, key)]
    BY <1>2 DEF AppendAncestor
  <2>2. PICK list \in Seq(ContextKeys) : list = Append(m.ancestors, key)
    BY <1>0, AppendProperties
  <2>3. /\ AppendAncestor(m, key) \in KeyContext
        /\ AppendAncestor(m, key).immediate = m.immediate
        /\ AppendAncestor(m, key).ancestors = list
    BY <2>1, <2>2
  <2>4. Len(list) <= MaxContextAncestors
    BY <1>0, <1>2, <2>2
  <2>5. Names(list, AncestorKeys) <=> Names(m.ancestors, AncestorKeys) \/ key \in AncestorKeys
    BY <1>0, <2>2, NamesAppend
  <2>6. QED BY <2>3, <2>4, <2>5 DEF SaysCredential
<1>3. CASE /\ key # NoKey /\ ~(Len(m.ancestors) < MaxContextAncestors)
           /\ key \in AncestorKeys
           /\ ~Names(<<m.immediate>> \o m.ancestors, AncestorKeys)
  <2> DEFINE list == [m.ancestors EXCEPT ![MaxContextAncestors] = key]
  <2>1. AppendAncestor(m, key) = [m EXCEPT !.ancestors = list]
    BY <1>3 DEF AppendAncestor
  <2>2. Len(m.ancestors) = MaxContextAncestors /\ MaxContextAncestors \in DOMAIN m.ancestors
    BY <1>0, <1>3
  <2>3. list \in Seq(ContextKeys) /\ Len(list) = MaxContextAncestors
    BY <1>0, <2>2, ExceptSeq
  <2>4. MaxContextAncestors \in DOMAIN list /\ list[MaxContextAncestors] = key
    BY <1>0, <2>2
  <2>5. Names(list, AncestorKeys)
    BY <2>4, <1>3 DEF Names
  <2> HIDE DEF list
  <2>6. /\ AppendAncestor(m, key) \in KeyContext
        /\ AppendAncestor(m, key).immediate = m.immediate
        /\ AppendAncestor(m, key).ancestors = list
    BY <2>1, <2>3
  <2>7. QED BY <2>3, <2>5, <2>6, <1>0, <1>3 DEF SaysCredential
<1>4. CASE /\ key # NoKey /\ ~(Len(m.ancestors) < MaxContextAncestors)
           /\ ~(key \in AncestorKeys /\ ~Names(<<m.immediate>> \o m.ancestors, AncestorKeys))
  <2>1. AppendAncestor(m, key) = m
    BY <1>4 DEF AppendAncestor
  <2>2. Names(<<m.immediate>> \o m.ancestors, AncestorKeys)
            <=> Names(<<m.immediate>>, AncestorKeys) \/ Names(m.ancestors, AncestorKeys)
    <3>1. PICK one \in Seq(ContextKeys) : one = <<m.immediate>>
      BY <1>0, NamesOne
    <3>2. QED BY <1>0, <3>1, NamesConcat
  <2>3. Names(<<m.immediate>>, AncestorKeys) <=> m.immediate \in AncestorKeys
    BY <1>0, NamesOne
  <2>4. QED BY <2>1, <2>2, <2>3, <1>4 DEF SaysCredential
<1>5. QED BY <1>1, <1>2, <1>3, <1>4

\* Whatever keys are appended, the outcome says credential exactly when the key
\* of the string or one of those appended does.
LEMMA MergeKeeps ==
  ASSUME NEW inner \in KeyContext, NEW outer \in Context
  PROVE  LET m == MergeStringKeyContexts(inner, outer)
         IN  /\ m \in KeyContext /\ m.immediate = inner.immediate
             /\ SaysCredential(m) <=> SaysCredential(inner) \/ SaysCredential(outer)
<1> DEFINE keys == inner.ancestors \o <<outer.immediate>> \o outer.ancestors
           N == Len(keys)
           base == [immediate |-> inner.immediate, ancestors |-> <<>>]
           Is(f) == f = [n \in 0..N |-> IF n = 0 THEN base ELSE AppendAncestor(f[n - 1], keys[n])]
           merged == CHOOSE f : Is(f)
           D == {m \in KeyContext : m.immediate = inner.immediate
                                      /\ Len(m.ancestors) <= MaxContextAncestors}
           step == [n \in 1..N |-> [m \in D |-> AppendAncestor(m, keys[n])]]
<1>1. MergeStringKeyContexts(inner, outer) = merged[N]
  BY DEF MergeStringKeyContexts
<1>2. /\ inner.ancestors \in Seq(ContextKeys) /\ outer.ancestors \in Seq(ContextKeys)
      /\ inner.immediate \in ContextKeys /\ outer.immediate \in ContextKeys
  BY DEF KeyContext, Context
<1> DEFINE front == inner.ancestors \o <<outer.immediate>>
<1>a. PICK one \in Seq(ContextKeys) : one = <<outer.immediate>>
  BY <1>2, NamesOne
<1>b. front = inner.ancestors \o one /\ front \in Seq(ContextKeys)
  BY <1>2, <1>a
<1>c. keys = front \o outer.ancestors
  OBVIOUS
<1> HIDE DEF keys, front
<1>3. keys \in Seq(ContextKeys) /\ N \in Nat
  BY <1>2, <1>b, <1>c, ConcatProperties, LenProperties
<1>4. ASSUME NEW S
      PROVE  Names(keys, S) <=> \/ Names(inner.ancestors, S) \/ outer.immediate \in S
                                \/ Names(outer.ancestors, S)
  <2>1. Names(keys, S) <=> Names(front, S) \/ Names(outer.ancestors, S)
    BY <1>2, <1>b, <1>c, NamesConcat
  <2>2. Names(front, S) <=> Names(inner.ancestors, S) \/ Names(one, S)
    BY <1>2, <1>a, <1>b, NamesConcat
  <2>3. Names(one, S) <=> outer.immediate \in S
    BY <1>2, <1>a, NamesOne
  <2>4. QED BY <2>1, <2>2, <2>3
<1>5. base \in D
  <2>1. base.ancestors = <<>> /\ base.immediate = inner.immediate /\ Len(<<>>) <= MaxContextAncestors
    BY InspectionConstants
  <2>2. QED BY <2>1, <1>2 DEF KeyContext
<1>6. ASSUME NEW m \in D, NEW n \in 1..N
      PROVE  /\ AppendAncestor(m, keys[n]) \in D
             /\ SaysCredential(AppendAncestor(m, keys[n]))
                    <=> SaysCredential(m) \/ keys[n] \in AncestorKeys
  <2>1. keys[n] \in ContextKeys BY <1>3
  <2>2. m \in KeyContext /\ Len(m.ancestors) <= MaxContextAncestors /\ m.immediate = inner.immediate
    OBVIOUS
  <2>3. QED BY <2>1, <2>2, AppendAncestorKeeps
<1>7. step \in [1..N -> [D -> D]]
  <2> HIDE DEF D, N
  <2>1. QED BY <1>6
<1>8. PICK f \in [0..N -> D] : Unfolds(f, N, base, step)
  <2> HIDE DEF D, N, base, step
  <2>1. QED BY <1>3, <1>5, <1>7, RecursiveFunctionExists
<1> HIDE DEF D
<1>9. Is(f)
  <2> HIDE DEF base
  <2>1. ASSUME NEW n \in 0..N
        PROVE  f[n] = IF n = 0 THEN base ELSE AppendAncestor(f[n - 1], keys[n])
    <3>1. CASE n = 0 BY <3>1, <1>8 DEF Unfolds
    <3>2. CASE n # 0
      <4>1. n \in 1..N /\ n - 1 \in 0..N /\ f[n - 1] \in D BY <3>2, <1>3
      <4>2. step[n][f[n - 1]] = AppendAncestor(f[n - 1], keys[n])
        BY <4>1
      <4>3. QED BY <4>1, <4>2, <3>2, <1>8 DEF Unfolds
    <3>3. QED BY <3>1, <3>2
  <2>2. f = [n \in 0..N |-> f[n]] OBVIOUS
  <2> HIDE DEF N, step
  <2>3. QED BY <2>1, <2>2
<1>10. Is(merged)
  <2> HIDE DEF Is
  <2>1. QED BY <1>9
<1> HIDE DEF merged
<1>11. merged[0] = base /\ \A n \in 1..N : merged[n] = AppendAncestor(merged[n - 1], keys[n])
  <2>1. 0 \in 0..N /\ \A n \in 1..N : n \in 0..N /\ n # 0 BY <1>3
  <2> HIDE DEF N, base
  <2>2. QED BY <1>10, <2>1
<1> DEFINE S == {n \in 0..N : /\ merged[n] \in D
                              /\ SaysCredential(merged[n]) <=>
                                    \/ inner.immediate \in AncestorKeys
                                    \/ \E k \in 1..n : keys[k] \in AncestorKeys}
<1> HIDE DEF N, Is
<1>12. 0 \in S
  <2>1. SaysCredential(base) <=> inner.immediate \in AncestorKeys
    BY DEF SaysCredential, Names
  <2> HIDE DEF base
  <2>2. QED BY <2>1, <1>3, <1>5, <1>11
<1>13. ASSUME NEW n \in 0..(N - 1), n \in S PROVE n + 1 \in S
  <2>1. n + 1 \in 1..N /\ (n + 1) - 1 = n /\ n + 1 \in 0..N BY <1>3
  <2>2. merged[n + 1] = AppendAncestor(merged[n], keys[n + 1])
    BY <2>1, <1>11
  <2>3. merged[n + 1] \in D
        /\ (SaysCredential(merged[n + 1]) <=> SaysCredential(merged[n]) \/ keys[n + 1] \in AncestorKeys)
    BY <2>1, <2>2, <1>6, <1>13
  <2>4. (\E k \in 1..(n + 1) : keys[k] \in AncestorKeys)
            <=> (\E k \in 1..n : keys[k] \in AncestorKeys) \/ keys[n + 1] \in AncestorKeys
    OBVIOUS
  <2>5. QED BY <2>1, <2>3, <2>4, <1>13
<1>14. N \in S
  <2> HIDE DEF S
  <2>1. 0..N \subseteq S BY <1>3, <1>12, <1>13, SetInduction
  <2>2. QED BY <2>1, <1>3
<1>15. (\E k \in 1..N : keys[k] \in AncestorKeys) <=> Names(keys, AncestorKeys)
  BY <1>3 DEF Names, N
<1>16. merged[N] \in KeyContext /\ merged[N].immediate = inner.immediate
  BY <1>14 DEF D
<1>17. QED
  BY <1>1, <1>4, <1>14, <1>15, <1>16 DEF SaysCredential

\* So the context of a string in a nested document tells the truth.
LEMMA InnerContextFaithful ==
  ASSUME NEW fields \in KeyContext, NEW outer \in Context, NEW named \in BOOLEAN,
         named <=> SaysCredential(outer)
  PROVE  /\ InnerContext(fields, outer) \in Context
         /\ Faithful(InnerContext(fields, outer), named \/ Names(fields.ancestors, AncestorKeys))
<1> DEFINE m == MergeStringKeyContexts(fields, outer)
<1>1. /\ m \in KeyContext /\ m.immediate = fields.immediate
      /\ SaysCredential(m) <=> SaysCredential(fields) \/ SaysCredential(outer)
  BY MergeKeeps
<1>2. InnerContext(fields, outer) = [immediate |-> m.immediate, ancestors |-> m.ancestors,
                                     structured |-> TRUE, tool |-> outer.tool]
  BY DEF InnerContext
<1> HIDE DEF m
<1>3. outer.tool \in BOOLEAN BY DEF Context
<1>4. /\ InnerContext(fields, outer) \in Context
      /\ InnerContext(fields, outer).immediate = m.immediate
      /\ InnerContext(fields, outer).ancestors = m.ancestors
  BY <1>1, <1>2, <1>3 DEF Context, KeyContext
<1>5. QED BY <1>1, <1>4 DEF Faithful, SaysCredential

-----------------------------------------------------------------------------
(* One string *)

\* What Collect makes of a frame, field by field.
IsCollected(c, frame, findings, changed, before, after) ==
    /\ c = Collect(frame, findings, changed, before, after)
    /\ c.nesting = frame.nesting /\ c.context = frame.context /\ c.named = frame.named
    /\ c.findings = frame.findings + findings
    /\ c.changed <=> frame.changed \/ (changed /\ ~policy.audit)
    /\ c.before = frame.before + before
    /\ c.after = frame.after + (IF changed THEN after ELSE before)

LEMMA CollectFields ==
  ASSUME NEW frame \in Frames, NEW findings \in Nat, NEW changed \in BOOLEAN,
         NEW before \in Nat, NEW after \in Nat
  PROVE  \E c \in Frames : IsCollected(c, frame, findings, changed, before, after)
<1>0. /\ frame.left \in Int /\ frame.findings \in Nat /\ frame.changed \in BOOLEAN
      /\ frame.before \in Nat /\ frame.after \in Nat
  BY DEF Frames
<1>1. PICK l \in Int : l = frame.left - 1 BY <1>0
<1>2. PICK f \in Nat : f = frame.findings + findings BY <1>0
<1>3. PICK g \in BOOLEAN : g = (frame.changed \/ (changed /\ ~policy.audit)) BY <1>0
<1>4. PICK b \in Nat : b = frame.before + before BY <1>0
<1>5. PICK a \in Nat : a = frame.after + (IF changed THEN after ELSE before) BY <1>0
<1>6. Collect(frame, findings, changed, before, after)
        = [frame EXCEPT !.left = l, !.findings = f, !.changed = g, !.before = b, !.after = a]
  BY <1>1, <1>2, <1>3, <1>4, <1>5, Zenon DEF Collect
<1>7. PICK c \in Frames :
        /\ c = [frame EXCEPT !.left = l, !.findings = f, !.changed = g, !.before = b, !.after = a]
        /\ c.nesting = frame.nesting /\ c.context = frame.context /\ c.named = frame.named
        /\ c.findings = f /\ c.changed = g /\ c.before = b /\ c.after = a
  <2> DEFINE d == [frame EXCEPT !.left = l, !.findings = f, !.changed = g, !.before = b, !.after = a]
  <2>1. /\ d \in Frames
        /\ d.nesting = frame.nesting /\ d.context = frame.context /\ d.named = frame.named
        /\ d.findings = f /\ d.changed = g /\ d.before = b /\ d.after = a
    BY DEF Frames
  <2>2. d = [frame EXCEPT !.left = l, !.findings = f, !.changed = g, !.before = b, !.after = a]
    OBVIOUS
  <2> HIDE DEF d
  <2>3. QED BY <2>1, <2>2, Zenon
<1>8. c = Collect(frame, findings, changed, before, after)
  BY <1>6, <1>7, Zenon
<1>9. c.changed <=> frame.changed \/ (changed /\ ~policy.audit)
  BY <1>3, <1>7, Zenon
<1>10. /\ c.nesting = frame.nesting /\ c.context = frame.context /\ c.named = frame.named
       /\ c.findings = frame.findings + findings /\ c.before = frame.before + before
       /\ c.after = frame.after + (IF changed THEN after ELSE before)
  BY <1>2, <1>4, <1>5, <1>7, Zenon
<1>11. QED BY <1>8, <1>9, <1>10, Zenon DEF IsCollected

\* A frame stays in order when a string that hides or counts what it must is
\* collected.
LEMMA CollectKeepsOK ==
  ASSUME NEW frame \in Frames, NEW findings \in Nat, NEW changed \in BOOLEAN,
         NEW before \in Nat, NEW after \in Nat, NEW n \in Nat, FrameOK(frame, n),
         policy.audit => findings >= before,
         ~policy.audit => after = 0 /\ (~changed => before = 0)
  PROVE  /\ Collect(frame, findings, changed, before, after) \in Frames
         /\ FrameOK(Collect(frame, findings, changed, before, after), n)
<1>1. PICK c \in Frames : IsCollected(c, frame, findings, changed, before, after)
  BY CollectFields
<1>2. /\ c = Collect(frame, findings, changed, before, after)
      /\ c.nesting = frame.nesting /\ c.context = frame.context /\ c.named = frame.named
      /\ c.findings = frame.findings + findings
      /\ c.changed <=> frame.changed \/ (changed /\ ~policy.audit)
      /\ c.before = frame.before + before
      /\ c.after = frame.after + (IF changed THEN after ELSE before)
  BY <1>1, Zenon DEF IsCollected
<1>3. /\ frame.findings \in Nat /\ frame.changed \in BOOLEAN
      /\ frame.before \in Nat /\ frame.after \in Nat
  BY DEF Frames
<1>4. Balanced(c.findings, c.changed, c.before, c.after)
  <2>1. CASE policy.audit
    BY <2>1, <1>2, <1>3 DEF FrameOK, Balanced
  <2>2. CASE ~policy.audit
    BY <2>2, <1>2, <1>3 DEF FrameOK, Balanced
  <2>3. QED BY <2>1, <2>2
<1>5. FrameOK(c, n) BY <1>2, <1>4 DEF FrameOK
<1>6. QED BY <1>2, <1>5, Zenon

\* What the text shows is found: the rule on credential fields goes by the keys
\* the context kept, what is sensitive by all those above.
LEMMA SensitiveIsFound ==
  ASSUME NEW text \in Texts, NEW context \in Context, NEW named \in BOOLEAN,
         Faithful(context, named)
  PROVE  /\ Findings(text, context) \in Nat
         /\ Sensitive(text, context, named) => Findings(text, context) > 0
         /\ CredentialFieldApplies(context)
                <=> context.structured /\ context.tool /\ (context.immediate \in CredentialKeys \/ named)
<1>1. /\ text.found \in Nat /\ text.placeholder \in {"none", "known", "produced"}
      /\ text.placeholder = "produced" => text.found = 0
      /\ AncestorKeys \subseteq CredentialKeys
  BY InspectionConstants
<1>2. CredentialFieldApplies(context)
        <=> context.structured /\ context.tool /\ (context.immediate \in CredentialKeys \/ named)
  BY <1>1 DEF CredentialFieldApplies, Faithful
<1>3. Findings(text, context) \in Nat
  BY <1>1 DEF Findings
<1>4. ASSUME Sensitive(text, context, named) PROVE Findings(text, context) > 0
  <2>1. CASE text.found > 0
    BY <2>1, <1>1 DEF Findings
  <2>2. CASE text.placeholder = "none" /\ CredentialFieldApplies(context)
    BY <2>2 DEF Findings
  <2>3. QED BY <2>1, <2>2, <1>4, <1>2 DEF Sensitive
<1>5. QED BY <1>2, <1>3, <1>4

\* The top frame takes a new value.
LEMMA StackUpdated ==
  ASSUME TypeOK, \A n \in DOMAIN stack : FrameOK(stack[n], n), policy' = policy,
         NEW c \in Frames, FrameOK(c, Len(stack)), stack' = [stack EXCEPT ![Len(stack)] = c]
  PROVE  /\ stack' \in Seq(Frames) /\ Len(stack') = Len(stack)
         /\ (\A n \in DOMAIN stack : FrameOK(stack[n], n))'
<1>1. stack \in Seq(Frames) /\ Len(stack) \in DOMAIN stack /\ DOMAIN stack = 1..Len(stack)
  BY DEF TypeOK
<1>2. stack' \in Seq(Frames) /\ Len(stack') = Len(stack)
  BY <1>1, ExceptSeq
<1>3. DOMAIN stack' = DOMAIN stack BY <1>1
<1>4. ASSUME NEW n \in DOMAIN stack PROVE FrameOK(stack[n], n)'
  <2>1. PICK f : f = stack'[n] /\ FrameOK(f, n)
    BY <1>1
  <2>2. FrameOK(f, n)' BY <2>1 DEF FrameOK, Balanced
  <2>3. QED BY <2>1, <2>2
<1>5. QED BY <1>2, <1>3, <1>4

\* The charge of a text.
LEMMA TextCharged ==
  ASSUME TypeOK, NEW bytes \in Nat, NEW found \in Nat,
         budget' = [[budget EXCEPT !.textNodes = @ + 1, !.textBytes = @ + bytes]
                      EXCEPT !.findings = IF found <= MaxFindings - @ THEN @ + found ELSE @]
  PROVE  /\ budget' \in [nodes : Nat, structural : Nat, textNodes : Nat, textBytes : Nat, findings : Nat]
         /\ budget'.nodes = budget.nodes
         /\ budget'.textNodes = budget.textNodes + 1
         /\ budget'.textBytes = budget.textBytes + bytes
         /\ found <= MaxFindings - budget.findings => budget'.findings = budget.findings + found
<1>0. PICK b \in [nodes : Nat, structural : Nat, textNodes : Nat, textBytes : Nat, findings : Nat] :
        b = budget
  BY DEF TypeOK
<1>1. PICK bt \in Nat : bt = b.textNodes + 1 OBVIOUS
<1>2. PICK bb \in Nat : bb = b.textBytes + bytes OBVIOUS
<1>3. PICK bf \in Nat : bf = IF found <= MaxFindings - b.findings THEN b.findings + found ELSE b.findings
  OBVIOUS
<1>4. PICK d : d = [b EXCEPT !.textNodes = bt, !.textBytes = bb] OBVIOUS
<1>5. /\ d \in [nodes : Nat, structural : Nat, textNodes : Nat, textBytes : Nat, findings : Nat]
      /\ d.nodes = b.nodes /\ d.structural = b.structural /\ d.textNodes = bt /\ d.textBytes = bb
      /\ d.findings = b.findings
  BY <1>4
<1>6. budget' = [d EXCEPT !.findings = bf]
  <2>1. budget' = [[b EXCEPT !.textNodes = b.textNodes + 1, !.textBytes = b.textBytes + bytes]
                     EXCEPT !.findings = IF found <= MaxFindings - @ THEN @ + found ELSE @]
    BY <1>0, Zenon
  <2>2. budget' = [d EXCEPT !.findings = IF found <= MaxFindings - d.findings
                                         THEN d.findings + found ELSE d.findings]
    BY <2>1, <1>1, <1>2, <1>4, Zenon
  <2>3. bf = IF found <= MaxFindings - d.findings THEN d.findings + found ELSE d.findings
    BY <1>3, <1>5
  <2>4. QED BY <2>2, <2>3
<1>7. /\ budget' \in [nodes : Nat, structural : Nat, textNodes : Nat, textBytes : Nat, findings : Nat]
      /\ budget'.nodes = b.nodes
      /\ budget'.textNodes = bt /\ budget'.textBytes = bb /\ budget'.findings = bf
  BY <1>5, <1>6
<1>8. QED
  BY <1>0, <1>1, <1>2, <1>3, <1>7

\* The work of a text.
LEMMA InspectedFields ==
  ASSUME NEW spent \in Works, NEW bytes \in Nat, NEW findings \in Nat
  PROVE  \E w \in Works : /\ w = Inspected(spent, bytes, findings)
                         /\ w.nodes = spent.nodes /\ w.structural = spent.structural
                         /\ w.texts = spent.texts + 1 /\ w.bytes = spent.bytes + bytes
                         /\ w.findings = spent.findings + findings
<1>0. spent.texts \in Nat /\ spent.bytes \in Nat /\ spent.findings \in Nat
  BY DEF Works
<1>1. PICK t \in Nat : t = spent.texts + 1 BY <1>0
<1>2. PICK b \in Nat : b = spent.bytes + bytes BY <1>0
<1>3. PICK f \in Nat : f = spent.findings + findings BY <1>0
<1>4. PICK w : w = [spent EXCEPT !.texts = t, !.bytes = b, !.findings = f] OBVIOUS
<1>5. w = Inspected(spent, bytes, findings)
  BY <1>1, <1>2, <1>3, <1>4, Zenon DEF Inspected
<1>6. /\ w \in Works /\ w.nodes = spent.nodes /\ w.structural = spent.structural
      /\ w.texts = t /\ w.bytes = b /\ w.findings = f
  BY <1>4 DEF Works
<1>7. QED BY <1>1, <1>2, <1>3, <1>5, <1>6, Zenon

\* A step that only ends the run, after no more work than allowed, keeps the
\* invariant, unless it says ok.
LEMMA FailAfterKeeps ==
  ASSUME IInv, Running, NEW err, err \notin {"ok", "refused", "running"},
         NEW spent, SpentOK(spent), FailAfter(err, spent)
  PROVE  IInv'
<1>1. /\ outcome' = err /\ work' = spent
      /\ UNCHANGED <<policy, stack, budget, result, last>>
      /\ outcome = "running"
  BY DEF FailAfter, Running
<1>2. TypeOK' BY <1>1 DEF IInv, TypeOK, SpentOK
<1>3. (\A n \in DOMAIN stack : FrameOK(stack[n], n))'
  BY <1>1 DEF IInv, FrameOK, Balanced
<1>4. BudgetOK' BY <1>1 DEF IInv, BudgetOK, SpentOK
<1>5. WorkIsBounded'
  <2>1. /\ work.texts <= MaxTextNodes /\ work.bytes <= MaxTextBytes
        /\ work.findings <= MaxFindings + work.texts /\ Len(stack) <= maxEncodedJSONNesting + 2
    BY <1>1 DEF IInv, WorkIsBounded
  <2>2. QED BY <2>1, <1>1 DEF SpentOK, WorkIsBounded
<1>6. NamesSurviveNesting' /\ NothingExposed' /\ AuditObserves'
  BY <1>1 DEF IInv, NamesSurviveNesting, NothingExposed, AuditObserves
<1>7. QED BY <1>2, <1>3, <1>4, <1>5, <1>6 DEF IInv

\* Nothing more may have been spent.
LEMMA NothingSpent ==
  ASSUME IInv, Running
  PROVE  SpentOK(work) /\ work.nodes <= budget.nodes + work.bytes + work.texts
<1>1. /\ work \in Works /\ outcome = "running"
      /\ work.nodes <= budget.nodes + work.bytes + work.texts
      /\ work.structural <= MaxStructuralBytes
      /\ work.nodes <= MaxJSONNodes + work.bytes + work.texts + 1
  BY DEF IInv, TypeOK, BudgetOK, WorkIsBounded, Running
<1>2. QED BY <1>1 DEF SpentOK

LEMMA FailKeeps ==
  ASSUME IInv, Running, NEW err, err \notin {"ok", "refused", "running"}, Fail(err)
  PROVE  IInv'
<1>1. SpentOK(work) BY NothingSpent
<1>2. PICK spent : spent = work OBVIOUS
<1>3. SpentOK(spent) /\ FailAfter(err, spent) BY <1>1, <1>2 DEF Fail
<1>4. QED BY <1>3, FailAfterKeeps

\* sanitizeText: the frame collects a text that is clean, hidden or counted, and
\* what is charged accounts for what was done.
LEMMA SanitizeTextKeeps ==
  ASSUME IInv, Running, NEW text \in Texts, NEW context \in Context, NEW named \in BOOLEAN,
         Faithful(context, named), NEW spent, SpentOK(spent),
         spent.nodes <= budget.nodes + work.bytes + work.texts + text.bytes + 1,
         SanitizeText(text, context, named, spent)
  PROVE  IInv'
<1> DEFINE found == Findings(text, context)
           seen == Count(Sensitive(text, context, named))
<1>0. /\ text.bytes \in Nat /\ text.blocked \in BOOLEAN
      /\ MaxTextNodes \in Nat /\ MaxTextBytes \in Nat /\ MaxFindings \in Nat
      /\ MaxJSONNodes \in Nat
  BY InspectionConstants
<1>1. CASE ~TakeNode(text.bytes) /\ FailAfter("budget", spent)
  BY <1>1, FailAfterKeeps
<1>2. CASE TakeNode(text.bytes)
  <2>1. found \in Nat /\ seen \in Nat /\ (found = 0 => seen = 0) /\ seen <= 1
    BY SensitiveIsFound DEF Count
  <2>2. budget' = [[budget EXCEPT !.textNodes = @ + 1, !.textBytes = @ + text.bytes]
                      EXCEPT !.findings = IF found <= MaxFindings - @ THEN @ + found ELSE @]
    BY <1>2 DEF SanitizeText
  <2>3. /\ last' = [applies |-> CredentialFieldApplies(context),
                    named |-> context.structured /\ context.tool /\
                                 (context.immediate \in CredentialKeys \/ named)]
        /\ UNCHANGED <<policy, result>>
    BY <1>2 DEF SanitizeText
  <2>a. \/ /\ found > MaxFindings - budget.findings
           /\ outcome' = "budget" /\ work' = Inspected(spent, text.bytes, found)
           /\ UNCHANGED stack
        \/ /\ found <= MaxFindings - budget.findings
           /\ outcome' = "blocked" /\ work' = Inspected(spent, text.bytes, found)
           /\ UNCHANGED stack
        \/ /\ found <= MaxFindings - budget.findings
           /\ \E enforced \in {FALSE, Enforced(text, context)} :
                 LET findings == IF enforced THEN 1 ELSE found
                 IN  /\ stack' = [stack EXCEPT ![Len(stack)] =
                               Collect(Top, findings, findings > 0, seen,
                                       IF findings > 0 THEN 0 ELSE seen)]
                     /\ work' = Inspected(spent, text.bytes, findings)
           /\ UNCHANGED outcome
    BY <1>2 DEF SanitizeText
  <2>4. PICK f \in Nat :
          /\ work' = Inspected(spent, text.bytes, f) /\ f <= found + 1
          /\ \/ outcome' = "budget" /\ UNCHANGED stack
             \/ /\ found <= MaxFindings - budget.findings
                /\ \/ outcome' = "blocked" /\ UNCHANGED stack
                   \/ /\ UNCHANGED outcome
                      /\ policy.audit => f >= seen
                      /\ f = 0 => seen = 0
                      /\ stack' = [stack EXCEPT ![Len(stack)] =
                                      Collect(Top, f, f > 0, seen, IF f > 0 THEN 0 ELSE seen)]
    <3> HIDE DEF seen
    <3>1. CASE \/ outcome' = "budget" /\ work' = Inspected(spent, text.bytes, found) /\ UNCHANGED stack
               \/ /\ found <= MaxFindings - budget.findings
                  /\ outcome' = "blocked" /\ work' = Inspected(spent, text.bytes, found)
                  /\ UNCHANGED stack
      <4> HIDE DEF found
      <4>1. found <= found + 1 BY <2>1
      <4>2. QED BY <3>1, <4>1, <2>1, Zenon
    <3>2. CASE /\ found <= MaxFindings - budget.findings
               /\ \E enforced \in {FALSE, Enforced(text, context)} :
                     LET findings == IF enforced THEN 1 ELSE found
                     IN  /\ stack' = [stack EXCEPT ![Len(stack)] =
                                   Collect(Top, findings, findings > 0, seen,
                                           IF findings > 0 THEN 0 ELSE seen)]
                         /\ work' = Inspected(spent, text.bytes, findings)
               /\ UNCHANGED outcome
      <4>1. PICK enforced \in {FALSE, Enforced(text, context)} :
                LET findings == IF enforced THEN 1 ELSE found
                IN  /\ stack' = [stack EXCEPT ![Len(stack)] =
                              Collect(Top, findings, findings > 0, seen,
                                      IF findings > 0 THEN 0 ELSE seen)]
                    /\ work' = Inspected(spent, text.bytes, findings)
        BY <3>2
      <4>2. PICK e \in BOOLEAN : e = enforced /\ (policy.audit => ~e)
        BY DEF Enforced
      <4> HIDE DEF found
      <4>3. PICK f \in Nat : f = IF e THEN 1 ELSE found BY <2>1
      <4>4. f = IF enforced THEN 1 ELSE found BY <4>2, <4>3, Zenon
      <4>5. /\ stack' = [stack EXCEPT ![Len(stack)] =
                            Collect(Top, f, f > 0, seen, IF f > 0 THEN 0 ELSE seen)]
            /\ work' = Inspected(spent, text.bytes, f)
        BY <4>1, <4>4, Zenon
      <4>6. f <= found + 1 /\ (policy.audit => f >= seen) /\ (f = 0 => seen = 0)
        BY <4>2, <4>3, <2>1
      <4>7. QED BY <3>2, <4>5, <4>6, Zenon
    <3>3. QED
      <4> HIDE DEF found
      <4>1. QED BY <2>a, <3>1, <3>2, Zenon
  <2>5. /\ budget' \in [nodes : Nat, structural : Nat, textNodes : Nat, textBytes : Nat, findings : Nat]
        /\ budget'.nodes = budget.nodes
        /\ budget'.textNodes = budget.textNodes + 1
        /\ budget'.textBytes = budget.textBytes + text.bytes
        /\ found <= MaxFindings - budget.findings => budget'.findings = budget.findings + found
    <3> HIDE DEF found
    <3>1. TypeOK BY DEF IInv
    <3>2. QED BY <3>1, <2>1, <2>2, <1>0, TextCharged
  <2>b. /\ work' \in Works /\ work'.nodes = spent.nodes /\ work'.structural = spent.structural
        /\ work'.texts = work.texts + 1 /\ work'.bytes = work.bytes + text.bytes
        /\ work'.findings = work.findings + f
    <3>1. /\ spent \in Works /\ spent.texts = work.texts /\ spent.bytes = work.bytes
          /\ spent.findings = work.findings
      BY DEF SpentOK
    <3>2. PICK w \in Works : /\ w = Inspected(spent, text.bytes, f)
                             /\ w.nodes = spent.nodes /\ w.structural = spent.structural
                             /\ w.texts = spent.texts + 1 /\ w.bytes = spent.bytes + text.bytes
                             /\ w.findings = spent.findings + f
      BY <3>1, <1>0, InspectedFields
    <3>3. QED BY <3>1, <3>2, <2>4
  <2>6. outcome = "running" /\ outcome' \in {"running", "budget", "blocked"}
    BY <2>4 DEF Running
  <2>7. last' \in [applies : BOOLEAN, named : BOOLEAN] /\ NamesSurviveNesting'
    <3>1. PICK a \in BOOLEAN : a = CredentialFieldApplies(context)
      BY DEF CredentialFieldApplies, Context
    <3>2. PICK b \in BOOLEAN : b = (context.structured /\ context.tool /\
                                 (context.immediate \in CredentialKeys \/ named))
      BY DEF Context
    <3>3. a = b BY <3>1, <3>2, SensitiveIsFound
    <3>4. last' = [applies |-> a, named |-> b] BY <2>3, <3>1, <3>2
    <3>5. QED BY <3>3, <3>4 DEF NamesSurviveNesting
  <2>8. NothingExposed' /\ AuditObserves'
    BY <2>6 DEF NothingExposed, AuditObserves
  <2>9. BudgetOK' /\ (Len(stack') = Len(stack) => WorkIsBounded')
    <3> HIDE DEF found, seen
    <3>1. /\ budget.textNodes = work.texts /\ budget.textBytes = work.bytes
          /\ budget.nodes <= MaxJSONNodes
          /\ work.findings <= budget.findings + work.texts
      BY <2>6 DEF IInv, BudgetOK
    <3>2. /\ Len(stack) <= maxEncodedJSONNesting + 2
          /\ spent.structural <= MaxStructuralBytes
      BY <2>6 DEF IInv, WorkIsBounded, SpentOK
    <3>3. budget.textNodes < MaxTextNodes /\ text.bytes <= MaxTextBytes - budget.textBytes
      BY <1>2 DEF TakeNode
    <3>4. /\ budget.nodes \in Nat /\ budget.textNodes \in Nat /\ budget.textBytes \in Nat
          /\ budget.findings \in Nat /\ work.texts \in Nat /\ work.bytes \in Nat
          /\ work.findings \in Nat /\ spent.nodes \in Nat
      BY DEF IInv, TypeOK, Works, SpentOK
    <3>5. outcome' # "budget" => found <= MaxFindings - budget.findings /\ f <= found + 1
      BY <2>4
    <3>6. work'.nodes <= budget'.nodes + work'.bytes + work'.texts
      BY <2>5, <2>b, <3>4, <1>0
    <3>7. outcome' # "budget" =>
             /\ budget'.findings <= MaxFindings
             /\ work'.findings <= budget'.findings + work'.texts
      <4>1. SUFFICES ASSUME outcome' # "budget"
                     PROVE  /\ budget'.findings <= MaxFindings
                            /\ work'.findings <= budget'.findings + work'.texts
        OBVIOUS
      <4>2. budget'.findings = budget.findings + found
        BY <4>1, <3>5, <2>5
      <4>3. budget'.findings <= MaxFindings
        BY <4>1, <4>2, <3>4, <3>5, <2>1, <1>0
      <4>4. work'.findings <= budget'.findings + work'.texts
        BY <4>1, <4>2, <3>1, <3>4, <3>5, <2>1, <2>b
      <4>5. QED BY <4>3, <4>4
    <3>8. budget'.textNodes = work'.texts /\ budget'.textBytes = work'.bytes
      BY <2>5, <2>b, <3>1
    <3>9. BudgetOK'
      BY <2>5, <3>1, <3>6, <3>7, <3>8 DEF BudgetOK
    <3>10. work'.texts <= MaxTextNodes /\ work'.bytes <= MaxTextBytes
      BY <2>b, <3>1, <3>3, <3>4, <1>0
    <3>11. work'.nodes <= MaxJSONNodes + work'.bytes + work'.texts + 1
      <4>1. PICK n \in Nat, b \in Nat, t \in Nat, k \in Nat :
              n = work'.nodes /\ b = work'.bytes /\ t = work'.texts /\ k = budget.nodes
        BY <2>b, <3>4 DEF Works
      <4>2. n <= k + b + t /\ k <= MaxJSONNodes
        BY <4>1, <2>5, <3>1, <3>6
      <4>3. n <= MaxJSONNodes + b + t + 1
        BY <4>2, <1>0
      <4>4. QED BY <4>1, <4>3
    <3>12. outcome' # "budget" => work'.findings <= MaxFindings + work'.texts
      BY <2>5, <2>b, <3>4, <3>7, <1>0
    <3>13. Len(stack') = Len(stack) => WorkIsBounded'
      BY <2>b, <3>2, <3>10, <3>11, <3>12 DEF WorkIsBounded
    <3>14. QED BY <3>9, <3>13
  <2>10. /\ stack' \in Seq(Frames) /\ Len(stack') = Len(stack)
         /\ (\A n \in DOMAIN stack : FrameOK(stack[n], n))'
    <3>0. /\ TypeOK /\ (\A n \in DOMAIN stack : FrameOK(stack[n], n)) /\ policy' = policy
          /\ stack \in Seq(Frames) /\ Len(stack) \in DOMAIN stack
      BY <2>3 DEF IInv, TypeOK
    <3>1. CASE UNCHANGED stack
      BY <3>0, <3>1 DEF FrameOK, Balanced
    <3>2. CASE /\ policy.audit => f >= seen
               /\ f = 0 => seen = 0
               /\ stack' = [stack EXCEPT ![Len(stack)] =
                               Collect(Top, f, f > 0, seen, IF f > 0 THEN 0 ELSE seen)]
      <4> HIDE DEF found, seen
      <4>1. PICK g \in BOOLEAN : g = (f > 0)
        <5>1. (f > 0) \in BOOLEAN OBVIOUS
        <5>2. QED BY <5>1, Zenon
      <4>2. PICK a \in Nat : a = IF f > 0 THEN 0 ELSE seen BY <2>1
      <4>3. PICK t \in Frames : t = Top /\ FrameOK(t, Len(stack))
        BY <3>0 DEF Top
      <4>4. ~policy.audit => a = 0 /\ (~g => seen = 0)
        <5>1. f > 0 \/ f = 0 OBVIOUS
        <5>2. CASE f > 0 BY <5>2, <4>1, <4>2, Zenon
        <5>3. CASE f = 0
          <6>1. ~(f > 0) BY <5>3
          <6>2. QED BY <5>3, <6>1, <4>1, <4>2, <3>2, Zenon
        <5>4. QED BY <5>1, <5>2, <5>3
      <4>5. PICK c \in Frames : c = Collect(t, f, g, seen, a) /\ FrameOK(c, Len(stack))
        <5>1. Len(stack) \in Nat /\ seen \in Nat BY <3>0, <2>1
        <5>2. /\ Collect(t, f, g, seen, a) \in Frames
              /\ FrameOK(Collect(t, f, g, seen, a), Len(stack))
          BY <5>1, <3>2, <4>3, <4>4, CollectKeepsOK
        <5>3. QED BY <5>2, Zenon
      <4>6. stack' = [stack EXCEPT ![Len(stack)] = c]
        BY <3>2, <4>1, <4>2, <4>3, <4>5, Zenon
      <4>7. QED BY <4>5, <4>6, <3>0, StackUpdated
    <3>3. QED BY <3>1, <3>2, <2>4
  <2>11. TypeOK'
    <3>1. Len(stack) > 0 /\ policy \in Policies
          /\ result \in [changed : BOOLEAN, findings : Nat, exposed : Nat]
      BY DEF IInv, TypeOK
    <3>2. QED BY <3>1, <2>3, <2>5, <2>b, <2>7, <2>10 DEF TypeOK
  <2>12. QED BY <2>7, <2>8, <2>9, <2>10, <2>11 DEF IInv
<1>3. QED
  BY <1>1, <1>2 DEF SanitizeText

\* A text that was not scanned before.
LEMMA PlainTextKeeps ==
  ASSUME IInv, Running, NEW text \in Texts, NEW context \in Context, NEW named \in BOOLEAN,
         Faithful(context, named), SanitizeText(text, context, named, work)
  PROVE  IInv'
<1>1. PICK spent : spent = work OBVIOUS
<1>2. SpentOK(spent) /\ work.nodes <= budget.nodes + work.bytes + work.texts
  BY <1>1, NothingSpent
<1>3. /\ work.nodes \in Nat /\ budget.nodes \in Nat /\ work.bytes \in Nat /\ work.texts \in Nat
      /\ text.bytes \in Nat
  BY InspectionConstants DEF IInv, TypeOK, Works
<1>4. spent.nodes <= budget.nodes + work.bytes + work.texts + text.bytes + 1
  BY <1>1, <1>2, <1>3
<1>5. SanitizeText(text, context, named, spent) BY <1>1
<1>6. QED BY <1>2, <1>4, <1>5, SanitizeTextKeeps

-----------------------------------------------------------------------------
(* Documents *)

\* The charge of the scan of a document.
LEMMA ScanCharged ==
  ASSUME TypeOK, NEW nodes \in Nat, NEW structural \in Nat,
         budget' = [budget EXCEPT !.nodes = @ + nodes, !.structural = @ + structural]
  PROVE  /\ budget' \in [nodes : Nat, structural : Nat, textNodes : Nat, textBytes : Nat, findings : Nat]
         /\ budget'.nodes = budget.nodes + nodes
         /\ budget'.textNodes = budget.textNodes
         /\ budget'.textBytes = budget.textBytes
         /\ budget'.findings = budget.findings
<1>0. PICK b \in [nodes : Nat, structural : Nat, textNodes : Nat, textBytes : Nat, findings : Nat] :
        b = budget
  BY DEF TypeOK
<1>1. PICK bn \in Nat : bn = b.nodes + nodes OBVIOUS
<1>2. PICK bs \in Nat : bs = b.structural + structural OBVIOUS
<1>3. budget' = [b EXCEPT !.nodes = bn, !.structural = bs]
  BY <1>0, <1>1, <1>2, Zenon
<1>4. /\ budget' \in [nodes : Nat, structural : Nat, textNodes : Nat, textBytes : Nat, findings : Nat]
      /\ budget'.nodes = bn /\ budget'.textNodes = b.textNodes
      /\ budget'.textBytes = b.textBytes /\ budget'.findings = b.findings
  BY <1>3
<1>5. QED BY <1>0, <1>1, <1>4

\* The work of a scan that came to its end within the limits, and that of one
\* that met a limit.
LEMMA WorkUpdated ==
  ASSUME IInv, Running, NEW nodes \in Nat, NEW structural \in Nat,
         nodes <= MaxJSONNodes - budget.nodes + 1, structural <= MaxStructuralBytes,
         NEW spent, spent = [work EXCEPT !.nodes = @ + nodes, !.structural = structural]
  PROVE  SpentOK(spent) /\ spent.nodes = work.nodes + nodes
<1>1. /\ work \in Works /\ budget.nodes \in Nat
      /\ work.nodes <= budget.nodes + work.bytes + work.texts
  BY DEF IInv, TypeOK, BudgetOK, Running
<1>2. /\ work.nodes \in Nat /\ work.bytes \in Nat /\ work.texts \in Nat /\ MaxJSONNodes \in Nat
  BY <1>1, InspectionConstants DEF Works
<1>3. PICK w \in Works : w = work BY <1>1
<1>4. PICK n \in Nat : n = w.nodes + nodes BY <1>2, <1>3
<1>5. spent = [w EXCEPT !.nodes = n, !.structural = structural]
  BY <1>3, <1>4, Zenon
<1>6. /\ spent \in Works /\ spent.nodes = n /\ spent.structural = structural
      /\ spent.texts = w.texts /\ spent.bytes = w.bytes /\ spent.findings = w.findings
  BY <1>5 DEF Works
<1>7. n <= MaxJSONNodes + work.bytes + work.texts + 1
  BY <1>1, <1>2, <1>3, <1>4
<1>8. QED BY <1>3, <1>4, <1>6, <1>7 DEF SpentOK

LEMMA ScannedOK ==
  ASSUME IInv, Running, NEW shape \in Shapes, Fits(shape)
  PROVE  /\ SpentOK(Scanned(shape))
         /\ Scanned(shape).nodes = work.nodes + shape.nodes
<1>1. /\ shape.nodes \in Nat /\ shape.structural \in Nat
      /\ MaxJSONNodes \in Nat /\ MaxStructuralBytes \in Nat
  BY InspectionConstants
<1>2. /\ budget.nodes \in Nat /\ budget.structural \in Nat /\ work.structural \in Nat
      /\ work.structural <= MaxStructuralBytes
  BY DEF IInv, TypeOK, Works, WorkIsBounded, Running
<1>3. /\ shape.nodes <= MaxJSONNodes - budget.nodes
      /\ shape.structural <= MaxStructuralBytes - budget.structural
  BY DEF Fits
<1>4. PICK n \in Nat : n = shape.nodes /\ n <= MaxJSONNodes - budget.nodes + 1
  BY <1>1, <1>2, <1>3
<1>5. PICK r \in Nat : r = budget.structural + shape.structural
  BY <1>1, <1>2
<1>6. PICK m \in Nat : m = (IF r > work.structural THEN r ELSE work.structural)
                      /\ m <= MaxStructuralBytes
  BY <1>1, <1>2, <1>3, <1>5
<1>7. Scanned(shape) = [work EXCEPT !.nodes = @ + n, !.structural = m]
  BY <1>4, <1>5, <1>6, Zenon DEF Scanned
<1>8. PICK spent : spent = Scanned(shape) OBVIOUS
<1>9. SpentOK(spent) /\ spent.nodes = work.nodes + n
  BY <1>4, <1>6, <1>7, <1>8, WorkUpdated
<1>10. QED BY <1>4, <1>8, <1>9

LEMMA InterruptedOK ==
  ASSUME IInv, Running, NEW shape \in Shapes
  PROVE  SpentOK(Interrupted(shape))
<1>1. /\ shape.nodes \in Nat /\ MaxJSONNodes \in Nat /\ MaxStructuralBytes \in Nat
      /\ budget.nodes \in Nat /\ budget.nodes <= MaxJSONNodes
  BY InspectionConstants DEF IInv, TypeOK, BudgetOK, Running
<1>2. PICK left \in Nat : left = MaxJSONNodes - budget.nodes
  BY <1>1
<1>3. PICK n \in Nat : n = (IF shape.nodes <= left THEN shape.nodes ELSE left + 1)
                      /\ n <= left + 1
  BY <1>1
<1>4. Interrupted(shape) = [work EXCEPT !.nodes = @ + n, !.structural = MaxStructuralBytes]
  BY <1>2, <1>3, Zenon DEF Interrupted
<1>5. PICK spent : spent = Interrupted(shape) OBVIOUS
<1>6. MaxStructuralBytes <= MaxStructuralBytes /\ n <= MaxJSONNodes - budget.nodes + 1
  BY <1>1, <1>2, <1>3
<1>7. SpentOK(spent)
  BY <1>1, <1>4, <1>5, <1>6, WorkUpdated
<1>8. QED BY <1>5, <1>7

\* scanEncodedJSON: the new frame knows whether a key above its document names a
\* credential, and its depth is its place on the stack.
LEMMA SanitizeEncodedKeeps ==
  ASSUME IInv, Running, NEW text \in Texts, NEW shape \in Shapes, NEW context \in Context,
         NEW named \in BOOLEAN, Faithful(context, named), NEW allowPlain \in BOOLEAN,
         NEW nesting, nesting = Len(stack) - 1,
         SanitizeEncoded(text, shape, context, named, allowPlain, nesting)
  PROVE  IInv'
<1>0. /\ shape.nodes \in Nat /\ shape.structural \in Nat /\ shape.strings \in Nat
      /\ MaxJSONNodes \in Nat /\ MaxStructuralBytes \in Nat /\ maxEncodedJSONNesting \in Nat
  BY InspectionConstants
<1>1. CASE Fail("unsupported")
  BY <1>1, FailKeeps
<1>a. CASE FailAfter("unsupported", Interrupted(shape))
  <2>1. PICK spent : spent = Interrupted(shape) OBVIOUS
  <2>2. SpentOK(spent) /\ FailAfter("unsupported", spent)
    BY <1>a, <2>1, InterruptedOK
  <2>3. QED BY <2>2, FailAfterKeeps
<1>b. CASE Fits(shape) /\ FailAfter("unsupported", Scanned(shape))
  <2>1. PICK spent : spent = Scanned(shape) OBVIOUS
  <2>2. SpentOK(spent) /\ FailAfter("unsupported", spent)
    BY <1>b, <2>1, ScannedOK
  <2>3. QED BY <2>2, FailAfterKeeps
<1>2. CASE Fits(shape) /\ SanitizeText(text, context, named, Scanned(shape))
  <2>1. PICK spent : spent = Scanned(shape) OBVIOUS
  <2>2. SpentOK(spent) /\ spent.nodes = work.nodes + shape.nodes
    BY <1>2, <2>1, ScannedOK
  <2>3. shape.nodes <= text.bytes + 1 /\ text.bytes \in Nat
    BY InspectionConstants DEF SanitizeEncoded, Reads
  <2>4. /\ work.nodes <= budget.nodes + work.bytes + work.texts
        /\ work.nodes \in Nat /\ budget.nodes \in Nat /\ work.bytes \in Nat /\ work.texts \in Nat
    BY NothingSpent DEF IInv, TypeOK, Works
  <2>5. spent.nodes <= budget.nodes + work.bytes + work.texts + text.bytes + 1
    <3>1. PICK n \in Nat, a \in Nat, b \in Nat, c \in Nat, d \in Nat, t \in Nat :
            /\ n = work.nodes /\ a = budget.nodes /\ b = work.bytes /\ c = work.texts
            /\ d = shape.nodes /\ t = text.bytes
      BY <2>3, <2>4, <1>0
    <3>2. n <= a + b + c /\ d <= t + 1
      BY <2>3, <2>4, <3>1
    <3>3. n + d <= a + b + c + t + 1
      BY <3>2
    <3>4. spent.nodes = n + d
      BY <2>2, <3>1
    <3>5. QED BY <3>1, <3>3, <3>4
  <2>6. QED BY <1>2, <2>1, <2>2, <2>5, SanitizeTextKeeps
<1>3. CASE /\ Fits(shape)
           /\ budget' = [budget EXCEPT !.nodes = @ + shape.nodes, !.structural = @ + shape.structural]
           /\ work' = Scanned(shape)
           /\ \/ nesting > maxEncodedJSONNesting /\ outcome' = "unsupported" /\ UNCHANGED stack
              \/ /\ nesting <= maxEncodedJSONNesting
                 /\ stack' = Append(stack, Frame(shape.strings, nesting, context,
                                 named \/ context.immediate \in AncestorKeys))
                 /\ UNCHANGED outcome
           /\ UNCHANGED <<policy, result, last>>
  <2>0. /\ TypeOK /\ (\A n \in DOMAIN stack : FrameOK(stack[n], n))
        /\ stack \in Seq(Frames) /\ Len(stack) \in Nat /\ Len(stack) > 0
        /\ outcome = "running" /\ outcome' \in {"running", "unsupported"}
        /\ policy' = policy /\ result' = result /\ last' = last
    BY <1>3 DEF IInv, TypeOK, Running
  <2>1. /\ budget' \in [nodes : Nat, structural : Nat, textNodes : Nat, textBytes : Nat, findings : Nat]
        /\ budget'.nodes = budget.nodes + shape.nodes
        /\ budget'.textNodes = budget.textNodes
        /\ budget'.textBytes = budget.textBytes
        /\ budget'.findings = budget.findings
    <3>1. budget' = [budget EXCEPT !.nodes = @ + shape.nodes, !.structural = @ + shape.structural]
      BY <1>3
    <3>2. PICK a \in Nat, b \in Nat : a = shape.nodes /\ b = shape.structural
      BY <1>0
    <3>3. budget' = [budget EXCEPT !.nodes = @ + a, !.structural = @ + b]
      BY <3>1, <3>2, Zenon
    <3>4. QED BY <2>0, <3>2, <3>3, ScanCharged
  <2>a. /\ work' \in Works /\ work'.nodes = work.nodes + shape.nodes
        /\ work'.texts = work.texts /\ work'.bytes = work.bytes /\ work'.findings = work.findings
        /\ work'.structural <= MaxStructuralBytes
        /\ work'.nodes <= MaxJSONNodes + work'.bytes + work'.texts + 1
    <3>1. PICK spent : spent = Scanned(shape) OBVIOUS
    <3>2. SpentOK(spent) /\ spent.nodes = work.nodes + shape.nodes
      BY <1>3, <3>1, ScannedOK
    <3>3. work' = spent BY <1>3, <3>1
    <3>4. QED BY <3>2, <3>3 DEF SpentOK
  <2>2. BudgetOK'
    <3>1. /\ budget.textNodes = work.texts /\ budget.textBytes = work.bytes
          /\ budget.findings <= MaxFindings
          /\ work.nodes <= budget.nodes + work.bytes + work.texts
          /\ work.findings <= budget.findings + work.texts
      BY <2>0 DEF IInv, BudgetOK
    <3>2. budget.nodes + shape.nodes <= MaxJSONNodes
      <4>1. shape.nodes <= MaxJSONNodes - budget.nodes /\ budget.nodes \in Nat
        BY <1>3, <2>0 DEF Fits, TypeOK
      <4>2. QED BY <4>1, <1>0
    <3>3. work.nodes + shape.nodes <= (budget.nodes + shape.nodes) + work.bytes + work.texts
      <4>1. /\ work.nodes \in Nat /\ budget.nodes \in Nat /\ work.bytes \in Nat /\ work.texts \in Nat
        BY <2>0 DEF TypeOK, Works
      <4>2. QED BY <4>1, <3>1, <1>0
    <3>4. QED BY <2>1, <2>a, <3>1, <3>2, <3>3 DEF BudgetOK
  <2>3. NamesSurviveNesting' /\ NothingExposed' /\ AuditObserves'
    BY <2>0 DEF IInv, NamesSurviveNesting, NothingExposed, AuditObserves
  <2>4. /\ stack' \in Seq(Frames) /\ Len(stack') > 0 /\ Len(stack') <= maxEncodedJSONNesting + 2
        /\ (\A n \in DOMAIN stack : FrameOK(stack[n], n))'
    <3>1. CASE UNCHANGED stack
      <4>1. Len(stack) <= maxEncodedJSONNesting + 2
        BY <2>0 DEF IInv, WorkIsBounded
      <4>2. QED BY <4>1, <3>1, <2>0 DEF FrameOK, Balanced
    <3>2. CASE /\ nesting <= maxEncodedJSONNesting
               /\ stack' = Append(stack, Frame(shape.strings, nesting, context,
                               named \/ context.immediate \in AncestorKeys))
      <4>1. PICK b \in BOOLEAN : b = (named \/ context.immediate \in AncestorKeys)
        OBVIOUS
      <4>2. PICK f : f = Frame(shape.strings, nesting, context, b)
        OBVIOUS
      <4>3. /\ f \in Frames
            /\ f.nesting = nesting /\ f.context = context /\ f.named = b
            /\ f.findings = 0 /\ ~f.changed /\ f.before = 0 /\ f.after = 0
        BY <4>2, <2>0, <1>0 DEF Frame, Frames
      <4>4. FrameOK(f, Len(stack) + 1)
        <5>1. Balanced(f.findings, f.changed, f.before, f.after)
          BY <4>3 DEF Balanced
        <5>2. b <=> context.immediate \in AncestorKeys \/ Names(context.ancestors, AncestorKeys)
          BY <4>1, Zenon DEF Faithful
        <5>3. f.nesting = (Len(stack) + 1) - 2
          BY <4>3, <2>0
        <5>4. QED BY <5>1, <5>2, <5>3, <4>3 DEF FrameOK
      <4>5. stack' = Append(stack, f)
        BY <3>2, <4>1, <4>2, Zenon
      <4>6. /\ stack' \in Seq(Frames) /\ Len(stack') = Len(stack) + 1
            /\ stack'[Len(stack) + 1] = f
            /\ \A n \in 1..Len(stack) : stack'[n] = stack[n]
        BY <4>5, <4>3, <2>0, AppendProperties
      <4>7. ASSUME NEW n \in DOMAIN stack' PROVE FrameOK(stack[n], n)'
        <5>1. n \in 1..(Len(stack) + 1)
          BY <4>6
        <5>2. PICK g : g = stack'[n] /\ FrameOK(g, n)
          <6>1. CASE n = Len(stack) + 1 BY <6>1, <4>4, <4>6
          <6>2. CASE n \in 1..Len(stack)
            <7>1. n \in DOMAIN stack BY <6>2, <2>0
            <7>2. QED BY <7>1, <6>2, <4>6, <2>0
          <6>3. QED BY <5>1, <6>1, <6>2, <2>0
        <5>3. FrameOK(g, n)' BY <5>2, <2>0 DEF FrameOK, Balanced
        <5>4. QED BY <5>2, <5>3
      <4>8. Len(stack') <= maxEncodedJSONNesting + 2
        BY <4>6, <3>2, <2>0, <1>0
      <4>9. QED BY <4>6, <4>7, <4>8, <2>0
    <3>3. QED BY <3>1, <3>2, <1>3
  <2>5. WorkIsBounded'
    <3>1. /\ work.texts <= MaxTextNodes /\ work.bytes <= MaxTextBytes
          /\ work.findings <= MaxFindings + work.texts
      BY <2>0 DEF IInv, WorkIsBounded
    <3>2. QED BY <3>1, <2>a, <2>4 DEF WorkIsBounded
  <2>6. TypeOK'
    <3>1. /\ policy' \in Policies /\ result' \in [changed : BOOLEAN, findings : Nat, exposed : Nat]
          /\ last' \in [applies : BOOLEAN, named : BOOLEAN]
      BY <2>0 DEF TypeOK
    <3>2. QED BY <3>1, <2>1, <2>a, <2>4 DEF TypeOK
  <2>7. QED BY <2>2, <2>3, <2>4, <2>5, <2>6 DEF IInv
<1>4. QED
  BY <1>1, <1>a, <1>b, <1>2, <1>3 DEF SanitizeEncoded

LEMMA SanitizeJSONTextKeeps ==
  ASSUME IInv, Running, NEW text \in Texts, NEW shape \in Shapes, NEW context \in Context,
         NEW named \in BOOLEAN, Faithful(context, named), NEW allowPlain \in BOOLEAN,
         NEW nesting, nesting = Len(stack) - 1,
         SanitizeJSONText(text, shape, context, named, allowPlain, nesting)
  PROVE  IInv'
<1>1. CASE SanitizeText(text, context, named, work)
  BY <1>1, PlainTextKeeps
<1>2. CASE SanitizeEncoded(text, shape, context, named, allowPlain, nesting)
  BY <1>2, SanitizeEncodedKeeps
<1>3. QED BY <1>1, <1>2 DEF SanitizeJSONText

-----------------------------------------------------------------------------
(* The actions *)

LEMMA SanitizeTargetKeeps ==
  ASSUME IInv, NEW text \in Texts, NEW shape \in Shapes, NEW context \in TargetContexts,
         NEW mutability, SanitizeTarget(text, shape, context, mutability)
  PROVE  IInv'
<1>1. PICK named \in BOOLEAN : named = Names(context.ancestors, AncestorKeys)
  BY DEF Names
<1>2. context \in Context /\ Faithful(context, named) /\ Running
  BY <1>1, InspectionConstants DEF Context, Faithful, SanitizeTarget
<1>3. 0 = Len(stack) - 1
  <2>1. Len(stack) = 1 BY Zenon DEF SanitizeTarget, InBody
  <2>2. QED BY <2>1
<1>4. \/ SanitizeText(text, context, named, work)
      \/ SanitizeJSONText(text, shape, context, named, FALSE, 0)
      \/ SanitizeJSONText(text, shape, context, named, TRUE, 0)
      \/ Fail("unsupported")
  BY <1>1 DEF SanitizeTarget
<1>5. CASE SanitizeText(text, context, named, work)
  BY <1>2, <1>5, PlainTextKeeps
<1>6. CASE SanitizeJSONText(text, shape, context, named, FALSE, 0)
  BY <1>2, <1>3, <1>6, SanitizeJSONTextKeeps
<1>7. CASE SanitizeJSONText(text, shape, context, named, TRUE, 0)
  BY <1>2, <1>3, <1>7, SanitizeJSONTextKeeps
<1>8. CASE Fail("unsupported")
  BY <1>2, <1>8, FailKeeps
<1>9. QED BY <1>4, <1>5, <1>6, <1>7, <1>8

LEMMA SanitizeStringKeeps ==
  ASSUME IInv, NEW text \in Texts, NEW shape \in Shapes, NEW fields \in KeyContexts,
         SanitizeString(text, shape, fields)
  PROVE  IInv'
<1>1. /\ stack \in Seq(Frames) /\ Len(stack) \in Nat /\ Len(stack) > 1
      /\ Len(stack) \in DOMAIN stack /\ Running
  <2>1. Running /\ Len(stack) # 1 BY Zenon DEF SanitizeString, InBody
  <2>2. stack \in Seq(Frames) /\ Len(stack) > 0 BY DEF IInv, TypeOK
  <2>3. Len(stack) \in Nat /\ DOMAIN stack = 1..Len(stack) BY <2>2, LenProperties
  <2>4. PICK k \in Nat : k = Len(stack) BY <2>3
  <2>5. k > 1 /\ k \in 1..k /\ k - 1 \in 1..k BY <2>1, <2>2, <2>4
  <2>6. QED BY <2>1, <2>2, <2>3, <2>4, <2>5
<1>2. PICK top \in Frames : top = Top /\ FrameOK(top, Len(stack))
  BY <1>1 DEF IInv, Top
<1>3. /\ top.context \in Context /\ top.named \in BOOLEAN /\ top.nesting + 1 = Len(stack) - 1
      /\ top.named <=> SaysCredential(top.context)
  <2>1. top.context \in Context /\ top.named \in BOOLEAN BY DEF Frames
  <2>2. top.nesting = Len(stack) - 2 BY <1>1, <1>2 DEF FrameOK
  <2>3. top.named <=> SaysCredential(top.context) BY <1>2 DEF FrameOK, SaysCredential
  <2>4. top.nesting + 1 = Len(stack) - 1 BY <2>2, <1>1
  <2>5. QED BY <2>1, <2>3, <2>4
<1>4. fields \in KeyContext
  BY InspectionConstants DEF KeyContext
<1>5. PICK named \in BOOLEAN : named = (top.named \/ Names(fields.ancestors, AncestorKeys))
  OBVIOUS
<1>6. PICK context \in Context : context = InnerContext(fields, top.context) /\ Faithful(context, named)
  <2>1. /\ InnerContext(fields, top.context) \in Context
        /\ Faithful(InnerContext(fields, top.context), top.named \/ Names(fields.ancestors, AncestorKeys))
    BY <1>3, <1>4, InnerContextFaithful
  <2>2. QED BY <2>1, <1>5, Zenon
<1>7. \/ SanitizeText(text, context, named, work)
      \/ SanitizeJSONText(text, shape, context, named, TRUE, top.nesting + 1)
  BY <1>2, <1>5, <1>6, Zenon DEF SanitizeString
<1>8. CASE SanitizeText(text, context, named, work)
  BY <1>1, <1>6, <1>8, PlainTextKeeps
<1>9. CASE SanitizeJSONText(text, shape, context, named, TRUE, top.nesting + 1)
  <2>1. PICK nesting : nesting = top.nesting + 1 OBVIOUS
  <2>2. nesting = Len(stack) - 1 /\ SanitizeJSONText(text, shape, context, named, TRUE, nesting)
    BY <2>1, <1>3, <1>9
  <2>3. QED BY <1>1, <1>6, <2>2, SanitizeJSONTextKeeps
<1>10. QED BY <1>7, <1>8, <1>9

\* A document hands on what it collected: the activation below treats it like a
\* text with that many findings.
LEMMA ReturnDocumentKeeps ==
  ASSUME IInv, ReturnDocument
  PROVE  IInv'
<1> DEFINE n == Len(stack)
<1>1. /\ stack \in Seq(Frames) /\ n \in Nat /\ n > 1 /\ n \in DOMAIN stack
      /\ n - 1 \in DOMAIN stack /\ DOMAIN stack = 1..n
      /\ outcome = "running" /\ outcome' = outcome
      /\ UNCHANGED <<policy, budget, outcome, result, work, last>>
  <2>1. /\ Len(stack) # 1 /\ outcome = "running"
        /\ UNCHANGED <<policy, budget, outcome, result, work, last>>
    BY Zenon DEF ReturnDocument, InBody, Running
  <2>2. stack \in Seq(Frames) /\ Len(stack) > 0 BY DEF IInv, TypeOK
  <2>3. Len(stack) \in Nat /\ DOMAIN stack = 1..Len(stack) BY <2>2, LenProperties
  <2>4. PICK k \in Nat : k = Len(stack) BY <2>3
  <2>5. k > 1 /\ k \in 1..k /\ k - 1 \in 1..k BY <2>1, <2>2, <2>4
  <2>6. QED BY <2>1, <2>2, <2>3, <2>4, <2>5
<1>2. PICK top \in Frames : top = Top /\ FrameOK(top, n)
  BY <1>1 DEF IInv, Top
<1>3. PICK below \in Frames : below = stack[n - 1] /\ FrameOK(below, n - 1)
  BY <1>1 DEF IInv
<1>4. /\ top.findings \in Nat /\ top.changed \in BOOLEAN /\ top.before \in Nat /\ top.after \in Nat
      /\ policy.audit => top.findings >= top.before
      /\ ~policy.audit => top.after = 0 /\ (~top.changed => top.before = 0)
  BY <1>2 DEF Frames, FrameOK, Balanced
<1>5. PICK c \in Frames : /\ c = Collect(below, top.findings, top.changed, top.before, top.after)
                          /\ FrameOK(c, n - 1)
  <2>1. n - 1 \in Nat BY <1>1
  <2> HIDE DEF n
  <2>2. /\ Collect(below, top.findings, top.changed, top.before, top.after) \in Frames
        /\ FrameOK(Collect(below, top.findings, top.changed, top.before, top.after), n - 1)
    BY <2>1, <1>3, <1>4, CollectKeepsOK
  <2>3. QED BY <2>2, Zenon
<1>6. stack' = [k \in 1..(n - 1) |-> IF k = n - 1 THEN c ELSE stack[k]]
  BY <1>2, <1>3, <1>5 DEF ReturnDocument
<1>7. stack' \in Seq(Frames) /\ Len(stack') = n - 1 /\ DOMAIN stack' = 1..(n - 1)
  <2> HIDE DEF n
  <2>1. ASSUME NEW k \in 1..(n - 1) PROVE (IF k = n - 1 THEN c ELSE stack[k]) \in Frames
    BY <1>1
  <2>2. n - 1 \in Nat BY <1>1
  <2>3. QED BY <1>6, <2>1, <2>2, IsASeq
<1>8. (\A k \in DOMAIN stack : FrameOK(stack[k], k))'
  <2>1. ASSUME NEW k \in DOMAIN stack' PROVE FrameOK(stack[k], k)'
    <3>1. PICK f : f = stack'[k] /\ FrameOK(f, k)
      <4>1. CASE k = n - 1 BY <4>1, <1>5, <1>6, <1>7, <2>1
      <4>2. CASE k # n - 1
        <5>1. stack'[k] = stack[k] /\ k \in DOMAIN stack
          <6> HIDE DEF n
          <6>1. k \in 1..(n - 1) BY <1>7, <2>1
          <6>2. k \in 1..n BY <6>1, <1>1
          <6>3. QED BY <4>2, <1>1, <1>6, <6>1, <6>2
        <5>2. QED BY <5>1 DEF IInv
      <4>3. QED BY <4>1, <4>2
    <3>2. FrameOK(f, k)' BY <3>1, <1>1 DEF FrameOK, Balanced
    <3>3. QED BY <3>1, <3>2
  <2>2. QED BY <2>1
<1>9. TypeOK'
  BY <1>1, <1>7 DEF IInv, TypeOK
<1>10. BudgetOK' /\ NamesSurviveNesting' /\ NothingExposed' /\ AuditObserves'
  BY <1>1 DEF IInv, BudgetOK, NamesSurviveNesting, NothingExposed, AuditObserves
<1>11. WorkIsBounded'
  <2>1. Len(stack') <= maxEncodedJSONNesting + 2
    <3>1. n <= maxEncodedJSONNesting + 2 BY <1>1 DEF IInv, WorkIsBounded
    <3>2. QED BY <3>1, <1>1, <1>7, InspectionConstants
  <2>2. QED BY <2>1, <1>1 DEF IInv, WorkIsBounded
<1>12. QED BY <1>8, <1>9, <1>10, <1>11 DEF IInv

LEMMA ReturnRequestKeeps ==
  ASSUME IInv, ReturnRequest
  PROVE  IInv'
<1>1. /\ stack \in Seq(Frames) /\ Len(stack) \in DOMAIN stack
      /\ outcome = "running" /\ outcome' = "ok"
      /\ result' = [changed |-> Top.changed, findings |-> Top.findings,
                    exposed |-> IF Top.changed THEN Top.after ELSE Top.before]
      /\ UNCHANGED <<policy, stack, budget, work, last>>
  BY DEF ReturnRequest, IInv, TypeOK, Running
<1>2. PICK top \in Frames : top = Top /\ FrameOK(top, Len(stack))
  BY <1>1 DEF IInv, Top
<1>3. /\ top.findings \in Nat /\ top.changed \in BOOLEAN /\ top.before \in Nat /\ top.after \in Nat
  BY DEF Frames
<1>4. PICK e \in Nat : e = IF top.changed THEN top.after ELSE top.before
  BY <1>3
<1>5. /\ result' = [changed |-> top.changed, findings |-> top.findings, exposed |-> e]
  BY <1>1, <1>2, <1>4
<1>6. /\ result' \in [changed : BOOLEAN, findings : Nat, exposed : Nat]
      /\ result'.changed = top.changed /\ result'.findings = top.findings /\ result'.exposed = e
  BY <1>5, <1>3
<1>7. TypeOK'
  BY <1>1, <1>6 DEF IInv, TypeOK
<1>8. (\A n \in DOMAIN stack : FrameOK(stack[n], n))'
  BY <1>1 DEF IInv, FrameOK, Balanced
<1>9. BudgetOK' /\ NamesSurviveNesting' /\ WorkIsBounded'
  BY <1>1 DEF IInv, BudgetOK, NamesSurviveNesting, WorkIsBounded
<1>10. NothingExposed'
  BY <1>1, <1>2, <1>4, <1>6 DEF NothingExposed, FrameOK, Balanced
<1>11. AuditObserves'
  BY <1>1, <1>2, <1>4, <1>6 DEF AuditObserves, FrameOK, Balanced
<1>12. QED BY <1>7, <1>8, <1>9, <1>10, <1>11 DEF IInv

LEMMA InitEstablishes == Init => IInv
<1> SUFFICES ASSUME Init PROVE IInv
  OBVIOUS
<1>0. /\ MaxTargets \in Nat /\ MaxTextNodes \in Nat /\ MaxTextBytes \in Nat /\ MaxFindings \in Nat
      /\ MaxJSONNodes \in Nat /\ MaxStructuralBytes \in Nat /\ maxEncodedJSONNesting \in Nat
      /\ NoKey \notin AncestorKeys
  BY InspectionConstants
<1>1. PICK targets \in Nat : stack = <<Frame(targets, 0, NoContext, FALSE)>>
  <2>1. \E targets \in 0..MaxTargets : stack = <<Frame(targets, 0, NoContext, FALSE)>>
    BY Zenon DEF Init
  <2>2. 0..MaxTargets \subseteq Nat OBVIOUS
  <2>3. QED BY <2>1, <2>2, Zenon
<1>2. PICK f : f = Frame(targets, 0, NoContext, FALSE)
  OBVIOUS
<1>3. NoContext \in Context /\ NoContext.immediate = NoKey /\ NoContext.ancestors = <<>>
  BY DEF NoContext, Context, ContextKeys
<1>4. /\ f \in Frames /\ f.context = NoContext /\ f.named = FALSE
      /\ f.findings = 0 /\ f.changed = FALSE /\ f.before = 0 /\ f.after = 0
  BY <1>2, <1>3 DEF Frame, Frames
<1>5. stack = <<f>> /\ stack \in Seq(Frames) /\ Len(stack) = 1 /\ DOMAIN stack = 1..1 /\ stack[1] = f
  <2>1. stack = <<f>> BY <1>1, <1>2, Zenon
  <2>2. QED BY <2>1, <1>4
<1>6. FrameOK(f, 1)
  <2>1. Balanced(f.findings, f.changed, f.before, f.after)
    BY <1>4 DEF Balanced
  <2>2. ~(f.context.immediate \in AncestorKeys) /\ ~Names(f.context.ancestors, AncestorKeys)
    BY <1>0, <1>3, <1>4 DEF Names
  <2>3. QED BY <2>1, <2>2, <1>4 DEF FrameOK
<1>7. \A n \in DOMAIN stack : FrameOK(stack[n], n)
  BY <1>5, <1>6
<1>8. PICK w \in Walked :
         /\ budget = [nodes |-> w.nodes, structural |-> w.structural,
                      textNodes |-> 0, textBytes |-> 0, findings |-> 0]
         /\ outcome = IF w.nodes > MaxJSONNodes \/ w.structural > MaxStructuralBytes
                      THEN "refused" ELSE "running"
         /\ work = [nodes |-> w.nodes, structural |-> w.structural,
                    texts |-> 0, bytes |-> 0, findings |-> 0]
  BY DEF Init
<1>9. w.nodes \in Nat /\ w.structural \in Nat
  BY InspectionConstants
<1>10. TypeOK
  <2>1. policy \in Policies /\ result = [changed |-> FALSE, findings |-> 0, exposed |-> 0]
        /\ last = [applies |-> FALSE, named |-> FALSE]
    BY DEF Init
  <2>2. QED BY <2>1, <1>5, <1>8, <1>9 DEF TypeOK, Works
<1>11. BudgetOK
  <2>1. /\ budget.textNodes = 0 /\ work.texts = 0 /\ budget.textBytes = 0 /\ work.bytes = 0
        /\ budget.findings = 0 /\ work.findings = 0
        /\ budget.nodes = w.nodes /\ work.nodes = w.nodes
    BY <1>8
  <2>2. outcome = "running" => w.nodes <= MaxJSONNodes
    BY <1>0, <1>8, <1>9
  <2>3. QED BY <2>1, <2>2, <1>0, <1>9 DEF BudgetOK
<1>12. NamesSurviveNesting BY DEF Init, NamesSurviveNesting
<1>13. outcome # "ok" BY <1>8
<1>14. NothingExposed /\ AuditObserves
  BY <1>13 DEF NothingExposed, AuditObserves
<1>15. WorkIsBounded
  <2>1. work.texts = 0 /\ work.bytes = 0 /\ work.findings = 0 /\ work.nodes = w.nodes
        /\ work.structural = w.structural
    BY <1>8
  <2>2. outcome # "refused" => w.nodes <= MaxJSONNodes /\ w.structural <= MaxStructuralBytes
    BY <1>0, <1>8, <1>9
  <2>3. Len(stack) <= maxEncodedJSONNesting + 2
    BY <1>0, <1>5
  <2>4. outcome # "refused" => w.nodes <= MaxJSONNodes + 0 + 0 + 1
    BY <1>0, <1>9, <2>2
  <2>5. 0 <= MaxTextNodes /\ 0 <= MaxTextBytes /\ 0 <= MaxFindings + 0
    BY <1>0
  <2>6. QED BY <2>1, <2>2, <2>3, <2>4, <2>5 DEF WorkIsBounded
<1>16. QED BY <1>7, <1>10, <1>11, <1>12, <1>14, <1>15 DEF IInv

LEMMA NextPreserves == IInv /\ [Next]_vars => IInv'
<1> SUFFICES ASSUME IInv, [Next]_vars PROVE IInv'
  OBVIOUS
<1>1. ASSUME NEW text \in Texts, NEW shape \in Shapes, NEW context \in TargetContexts,
             NEW mutability \in {"direct", "encoded", "json or plain", "none"},
             SanitizeTarget(text, shape, context, mutability)
      PROVE  IInv'
  BY <1>1, SanitizeTargetKeeps
<1>2. ASSUME NEW text \in Texts, NEW shape \in Shapes, NEW fields \in KeyContexts,
             SanitizeString(text, shape, fields)
      PROVE  IInv'
  BY <1>2, SanitizeStringKeeps
<1>3. CASE ReturnDocument BY <1>3, ReturnDocumentKeeps
<1>4. CASE ReturnRequest BY <1>4, ReturnRequestKeeps
<1>5. CASE OtherFailure
  BY <1>5, FailKeeps DEF OtherFailure
<1>6. CASE UNCHANGED vars
  <2>1. /\ policy' = policy /\ stack' = stack /\ budget' = budget /\ outcome' = outcome
        /\ result' = result /\ work' = work /\ last' = last
    BY <1>6 DEF vars
  <2>2. TypeOK' BY <2>1 DEF IInv, TypeOK
  <2>3. (\A n \in DOMAIN stack : FrameOK(stack[n], n))'
    BY <2>1 DEF IInv, FrameOK, Balanced
  <2>4. BudgetOK' /\ NamesSurviveNesting' /\ WorkIsBounded' /\ NothingExposed' /\ AuditObserves'
    BY <2>1 DEF IInv, BudgetOK, NamesSurviveNesting, WorkIsBounded, NothingExposed, AuditObserves
  <2>5. QED BY <2>2, <2>3, <2>4 DEF IInv
<1>7. QED
  BY <1>1, <1>2, <1>3, <1>4, <1>5, <1>6 DEF Next, Finished

\* The invariant of the frames holds throughout the redaction of a request.
THEOREM Invariance == Spec => []IInv
BY InitEstablishes, NextPreserves, PTL DEF Spec

-----------------------------------------------------------------------------
(* The properties *)

\* What sanitizeRequestWithRenderer returns in redaction mode shows no sensitive
\* string, at any depth of encoding, for any texts, documents and limits.
THEOREM NothingIsExposed == Spec => []NothingExposed
<1>1. IInv => NothingExposed BY DEF IInv
<1>2. QED BY <1>1, Invariance, PTL

\* In audit mode it changes nothing and counts every string a redaction would
\* have replaced, those of encoded documents included.
THEOREM AuditOnlyObserves == Spec => []AuditObserves
<1>1. IInv => AuditObserves BY DEF IInv
<1>2. QED BY <1>1, Invariance, PTL

\* credentialFieldApplies decides by the few ancestors mergeStringKeyContexts
\* keeps, and decides as if it had kept them all.
THEOREM NamesAreKept == Spec => []NamesSurviveNesting
<1>1. IInv => NamesSurviveNesting BY DEF IInv
<1>2. QED BY <1>1, Invariance, PTL

\* The work really done for a request, that of scans no budget is charged with
\* and the findings of the student included, stays within what its limits allow,
\* and the recursion within its depth.
THEOREM BudgetBoundsWork == Spec => []WorkIsBounded
<1>1. IInv => WorkIsBounded BY DEF IInv
<1>2. QED BY <1>1, Invariance, PTL
=============================================================================
