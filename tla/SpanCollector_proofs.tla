------------------------ MODULE SpanCollector_proofs ------------------------
(***************************************************************************)
(* Proofs about the union of findings and the rebuilt text (SpanCollector).*)
(*                                                                         *)
(* The search and the two loops are shown to do what they are for by       *)
(* induction over their rounds: the loop invariant of spanCollector.add is *)
(* LoopOK, that of the copying in Redact is CopiedOK.  The inductive       *)
(* invariant of the specification adds to the properties that the spans    *)
(* cover exactly the reported positions, which no single one of them says. *)
(***************************************************************************)
EXTENDS SpanCollector, SequenceTheorems, WellFoundedInduction, TLAPS

-----------------------------------------------------------------------------
(* Induction over the natural numbers in a form a proof can cite: the statement *)
(* proved by induction is a set, the step of a recursive function a function.   *)

\* A set of natural numbers that is not empty has a least element.
LEMMA LeastElement ==
  ASSUME NEW T \in SUBSET Nat, T # {}
  PROVE  \E x \in T : \A y \in T : x <= y
<1> DEFINE R == OpToRel(<, Nat)
<1>1. IsWellFoundedOn(R, Nat)
  BY NatLessThanWellFounded
<1>2. \E x \in T : \A y \in T : ~(<<y, x>> \in R)
  <2> HIDE DEF R
  <2> QED BY <1>1, WFMin
<1>3. ASSUME NEW x \in Nat, NEW y \in Nat, y < x PROVE <<y, x>> \in R
  <2>1. <<y, x>>[1] < <<y, x>>[2] /\ <<y, x>> \in Nat \X Nat
    BY <1>3
  <2>2. QED
    BY <2>1, Zenon DEF OpToRel
<1>4. QED
  <2> HIDE DEF R
  <2>1. PICK x \in T : \A y \in T : ~(<<y, x>> \in R)
    BY <1>2
  <2>2. ASSUME NEW y \in T PROVE x <= y
    <3>1. ~(y < x) BY <2>1, <1>3
    <3>2. QED BY <3>1
  <2>3. QED BY <2>2

\* Induction from 0 up to N.
LEMMA SetInduction ==
  ASSUME NEW N \in Nat, NEW S, 0 \in S, \A n \in 0..(N - 1) : n \in S => n + 1 \in S
  PROVE  0..N \subseteq S
<1> SUFFICES ASSUME NEW m \in 0..N, m \notin S PROVE FALSE
  OBVIOUS
<1> DEFINE T == {n \in 0..N : n \notin S}
<1>1. PICK x \in T : \A y \in T : x <= y
  <2>1. T \in SUBSET Nat /\ T # {} OBVIOUS
  <2> HIDE DEF T
  <2> QED BY <2>1, LeastElement
<1>2. x # 0 /\ x \in 0..N /\ x \notin S OBVIOUS
<1>3. x - 1 \in 0..(N - 1) /\ x - 1 \in S BY <1>1, <1>2
<1>4. QED BY <1>2, <1>3

\* f starts from base and takes the step of every n to get there.
Unfolds(f, N, base, step) ==
    f[0] = base /\ \A n \in 1..N : f[n] = step[n][f[n - 1]]

\* A function given by its value at 0 and by a step from each value to the next
\* exists.
LEMMA RecursiveFunctionExists ==
  ASSUME NEW N \in Nat, NEW D, NEW base \in D, NEW step \in [1..N -> [D -> D]]
  PROVE  \E f \in [0..N -> D] : Unfolds(f, N, base, step)
<1> DEFINE S == {m \in 0..N : \E f \in [0..m -> D] :
                    f[0] = base /\ \A n \in 1..m : f[n] = step[n][f[n - 1]]}
<1>1. 0 \in S
  <2>1. [k \in 0..0 |-> base] \in [0..0 -> D] /\ [k \in 0..0 |-> base][0] = base
    OBVIOUS
  <2>2. \A n \in 1..0 : FALSE
    OBVIOUS
  <2>3. \E f \in [0..0 -> D] : f[0] = base /\ \A n \in 1..0 : f[n] = step[n][f[n - 1]]
    BY <2>1, <2>2
  <2>4. QED BY <2>3
<1>2. ASSUME NEW m \in 0..(N - 1), m \in S PROVE m + 1 \in S
  <2>1. PICK f \in [0..m -> D] :
            f[0] = base /\ \A n \in 1..m : f[n] = step[n][f[n - 1]]
    BY <1>2
  <2>2. f[m] \in D /\ m + 1 \in 1..N OBVIOUS
  <2>3. step[m + 1] \in [D -> D] BY <2>2
  <2>4. step[m + 1][f[m]] \in D BY <2>2, <2>3
  <2> DEFINE v == step[m + 1][f[m]]
             g == [k \in 0..(m + 1) |-> IF k = m + 1 THEN v ELSE f[k]]
  <2>5. g \in [0..(m + 1) -> D]
    <3> HIDE DEF v
    <3>1. v \in D BY <2>4 DEF v
    <3>2. QED BY <3>1
  <2>6. g[0] = base BY <2>1
  <2>7. ASSUME NEW n \in 1..(m + 1) PROVE g[n] = step[n][g[n - 1]]
    <3>1. g[n - 1] = f[n - 1] BY <2>7
    <3>2. CASE n = m + 1
      <4>1. g[n] = v BY <3>2
      <4>2. n - 1 = m BY <3>2
      <4>3. QED BY <4>1, <4>2, <3>1, <3>2
    <3>3. CASE n \in 1..m
      <4>1. g[n] = f[n] BY <3>3
      <4>2. QED BY <4>1, <3>1, <3>3, <2>1
    <3>4. QED BY <2>7, <3>2, <3>3
  <2>8. QED
    <3> HIDE DEF g
    <3>1. m + 1 \in 0..N OBVIOUS
    <3>2. QED BY <3>1, <2>5, <2>6, <2>7
<1>3. N \in S
  <2> HIDE DEF S
  <2>1. 0..N \subseteq S BY <1>1, <1>2, SetInduction
  <2>2. QED BY <2>1
<1>4. QED BY <1>3 DEF Unfolds

-----------------------------------------------------------------------------

\* p is one of the positions of a span.
In(p, s) == s.start <= p /\ p < s.end

Proper(s) == s \in Span /\ s.start < s.end

\* The list as the collector keeps it: any two spans, not only neighbours.
Sorted(list) ==
    /\ list \in Seq(Span)
    /\ \A k \in DOMAIN list : list[k].start < list[k].end
    /\ \A k, l \in DOMAIN list : k < l => list[k].end <= list[l].start

-----------------------------------------------------------------------------
(* sort.Search *)

LEMMA SpanFields ==
  ASSUME NEW s \in Span
  PROVE  /\ s.start \in Int /\ s.end \in Int /\ s.rule \in Rules
         /\ 0 <= s.start /\ s.start <= TextLen /\ 0 <= s.end /\ s.end <= TextLen
BY CollectorConstants DEF Span

\* The search finds the first span that ends after the candidate starts, or the
\* end of the list.
LEMMA SearchIndexFinds ==
  ASSUME NEW list, Sorted(list), NEW c \in Span
  PROVE  LET i == SearchIndex(list, c)
         IN  /\ i \in 1..(Len(list) + 1)
             /\ \A h \in 1..(i - 1) : list[h].end <= c.start
             /\ i <= Len(list) => list[i].end > c.start
<1> DEFINE N == Len(list)
           T == {k \in 1..(N + 1) : k <= N => list[k].end > c.start}
           P(i) == /\ \A h \in 1..(i - 1) : list[h].end <= c.start
                   /\ i <= N => list[i].end > c.start
<1>1. N \in Nat /\ DOMAIN list = 1..N
  BY LenProperties DEF Sorted
<1>2. ASSUME NEW k \in 1..N PROVE list[k].end \in Int
  <2>1. list[k] \in Span BY <1>1, ElementOfSeq DEF Sorted
  <2>2. QED BY <2>1, SpanFields
<1>3. c.start \in Int
  BY SpanFields
<1>4. N + 1 \in T
  BY <1>1
<1>5. PICK i \in T : \A k \in T : i <= k
  <2>1. T \in SUBSET Nat /\ T # {} BY <1>1, <1>4
  <2> HIDE DEF T
  <2>2. QED BY <2>1, LeastElement
<1>6. i \in 1..(N + 1) /\ (i <= N => list[i].end > c.start)
  OBVIOUS
<1>7. ASSUME NEW h \in 1..(i - 1) PROVE list[h].end <= c.start
  <2>1. h \in 1..N /\ h < i BY <1>1, <1>6
  <2>2. h \notin T BY <1>5, <1>6, <2>1
  <2>3. ~(list[h].end > c.start) BY <2>1, <2>2, <1>1
  <2>4. QED BY <2>1, <2>3, <1>2, <1>3
<1>8. P(i)
  BY <1>6, <1>7
<1>9. SearchIndex(list, c) = CHOOSE k \in 1..(N + 1) : P(k)
  BY DEF SearchIndex
<1> HIDE DEF P, N
<1>10. SearchIndex(list, c) \in 1..(N + 1) /\ P(SearchIndex(list, c))
  BY <1>6, <1>8, <1>9
<1>11. QED
  BY <1>10 DEF P, N

-----------------------------------------------------------------------------
(* The loop of spanCollector.add *)

\* The loop invariant: the union covers the candidate and the spans it has
\* absorbed and nothing else, stays clear of the spans before, and has a blocking
\* rule when one of its parts has.
LoopOK(list, c, i, m) ==
    /\ Proper(m.span) /\ m.next \in i..(Len(list) + 1)
    /\ m.span.start <= c.start /\ c.end <= m.span.end
    /\ \A k \in i..(m.next - 1) : m.span.start <= list[k].start /\ list[k].end <= m.span.end
    /\ \A h \in 1..(i - 1) : list[h].end <= m.span.start
    /\ \A p \in Int : In(p, m.span) => In(p, c) \/ \E k \in i..(m.next - 1) : In(p, list[k])
    /\ c.rule \in Preferred => m.span.rule \in Preferred
    /\ \A k \in i..(m.next - 1) : list[k].rule \in Preferred => m.span.rule \in Preferred

\* What Absorb makes of the union so far and of the next span.
IsUnion(a, s, e) ==
    /\ Proper(a)
    /\ a.start <= s.start /\ s.end <= a.end /\ a.start <= e.start /\ e.end <= a.end
    /\ a.start = s.start \/ a.start = e.start
    /\ a.end = s.end \/ a.end = e.end
    /\ s.rule \in Preferred \/ e.rule \in Preferred => a.rule \in Preferred

LEMMA AbsorbFields ==
  ASSUME NEW s, NEW e, Proper(s), Proper(e), NEW leftmost \in BOOLEAN
  PROVE  IsUnion(Absorb(s, e, leftmost), s, e)
<1>1. /\ s.start \in Int /\ s.end \in Int /\ e.start \in Int /\ e.end \in Int
      /\ s.start \in 0..TextLen /\ s.end \in 0..TextLen /\ e.start \in 0..TextLen /\ e.end \in 0..TextLen
      /\ s.start < s.end /\ e.start < e.end /\ s.rule \in Rules /\ e.rule \in Rules
  BY CollectorConstants DEF Proper, Span
<1>2. PICK b : b = Min2(e.start, s.start) OBVIOUS
<1>3. /\ b \in 0..TextLen /\ b <= s.start /\ b <= e.start /\ (b = s.start \/ b = e.start)
  BY <1>1, <1>2 DEF Min2
<1>4. PICK d : d = Max2(e.end, s.end) OBVIOUS
<1>5. /\ d \in 0..TextLen /\ s.end <= d /\ e.end <= d /\ (d = s.end \/ d = e.end)
  BY <1>1, <1>4 DEF Max2
<1>6. PICK r : r = IF s.rule \notin Preferred /\ (leftmost \/ e.rule \in Preferred)
                   THEN e.rule ELSE s.rule
  OBVIOUS
<1>7. r \in Rules /\ (s.rule \in Preferred \/ e.rule \in Preferred => r \in Preferred)
  BY <1>1, <1>6
<1>8. Absorb(s, e, leftmost) = [start |-> b, end |-> d, rule |-> r]
  BY <1>2, <1>4, <1>6 DEF Absorb
<1>9. b < d BY <1>1, <1>3, <1>5
<1>10. Proper(Absorb(s, e, leftmost))
  BY <1>3, <1>5, <1>7, <1>8, <1>9 DEF Proper, Span
<1>11. QED BY <1>3, <1>5, <1>7, <1>8, <1>10 DEF IsUnion

\* One round keeps the loop invariant.
LEMMA RoundKeeps ==
  ASSUME NEW list, Sorted(list), NEW c, Proper(c), NEW i \in 1..(Len(list) + 1),
         i <= Len(list) => list[i].end > c.start,
         NEW m, LoopOK(list, c, i, m), Overlaps(list, m)
  PROVE  LoopOK(list, c, i, Round(list, i, m))
<1> DEFINE N == Len(list)
           e == list[m.next]
           a == Absorb(m.span, e, m.next = i)
           j == m.next
<1>1. N \in Nat /\ DOMAIN list = 1..N /\ i \in Nat /\ i >= 1 /\ i <= N + 1
  BY LenProperties DEF Sorted
<1>2. j \in Nat /\ j >= i /\ j <= N /\ j \in 1..N
  BY <1>1 DEF LoopOK, Overlaps
<1>3. ASSUME NEW k \in 1..N
      PROVE  Proper(list[k]) /\ list[k].start \in Int /\ list[k].end \in Int
  <2>1. list[k] \in Span BY <1>1, ElementOfSeq DEF Sorted
  <2>2. list[k].start < list[k].end BY <1>1 DEF Sorted
  <2>3. QED BY <2>1, <2>2, SpanFields DEF Proper
<1>4. Proper(m.span) /\ Proper(e)
  BY <1>2, <1>3 DEF LoopOK
<1>5. /\ Proper(a)
      /\ a.start <= m.span.start /\ m.span.end <= a.end /\ a.start <= e.start /\ e.end <= a.end
      /\ a.start = m.span.start \/ a.start = e.start
      /\ a.end = m.span.end \/ a.end = e.end
      /\ m.span.rule \in Preferred \/ e.rule \in Preferred => a.rule \in Preferred
  <2>1. PICK l \in BOOLEAN : l = (m.next = i) OBVIOUS
  <2>2. PICK s, x : s = m.span /\ x = e OBVIOUS
  <2>3. a = Absorb(s, x, l) BY <2>1, <2>2
  <2>4. Proper(s) /\ Proper(x) BY <1>4, <2>2
  <2> HIDE DEF a, e
  <2>5. IsUnion(a, s, x) BY <2>3, <2>4, AbsorbFields
  <2>6. QED BY <2>2, <2>5 DEF IsUnion
<1>6. /\ a.start \in Int /\ a.end \in Int /\ m.span.start \in Int /\ m.span.end \in Int
      /\ e.start \in Int /\ e.end \in Int /\ c.start \in Int /\ c.end \in Int
      /\ a.start < a.end /\ m.span.start < m.span.end /\ e.start < e.end /\ c.start < c.end
  <2>1. a \in Span /\ m.span \in Span /\ e \in Span /\ c \in Span
    BY <1>4, <1>5 DEF Proper
  <2>2. /\ a.start \in Int /\ a.end \in Int /\ m.span.start \in Int /\ m.span.end \in Int
        /\ e.start \in Int /\ e.end \in Int /\ c.start \in Int /\ c.end \in Int
    <3> HIDE DEF a, e
    <3>1. QED BY <2>1, SpanFields
  <2>3. QED BY <2>2, <1>4, <1>5 DEF Proper
<1>7. e.start < m.span.end
  BY DEF Overlaps
<1>8. e.end > c.start
  <2>1. CASE j = i BY <2>1, <1>2
  <2>2. CASE i < j
    <3>1. i \in 1..N /\ list[i].end > c.start /\ list[i].end \in Int
      BY <2>2, <1>1, <1>2, <1>3
    <3>2. list[i].end <= e.start BY <2>2, <3>1, <1>1, <1>2 DEF Sorted
    <3>3. QED BY <3>1, <3>2, <1>6
  <2>3. QED BY <2>1, <2>2, <1>1, <1>2
<1>9. m.span.start <= c.start /\ c.end <= m.span.end
  BY DEF LoopOK
<1>10. PICK r : r = Round(list, i, m) /\ r.span = a /\ r.next = j + 1
  <2>1. Round(list, i, m) = [span |-> a, next |-> j + 1] BY DEF Round
  <2> HIDE DEF a
  <2>2. QED BY <2>1
<1> HIDE DEF a, e, N
<1>11. /\ Proper(r.span) /\ r.next \in i..(N + 1)
       /\ r.span.start <= c.start /\ c.end <= r.span.end
  <2>1. j + 1 \in i..(N + 1) BY <1>1, <1>2
  <2>2. a.start <= c.start /\ c.end <= a.end BY <1>5, <1>6, <1>9
  <2>3. QED BY <2>1, <2>2, <1>5, <1>10
<1>12. ASSUME NEW k \in i..(r.next - 1)
       PROVE  /\ r.span.start <= list[k].start /\ list[k].end <= r.span.end
              /\ list[k].rule \in Preferred => r.span.rule \in Preferred
  <2>1. k \in i..j /\ k \in 1..N BY <1>1, <1>2, <1>10
  <2>2. CASE k = j BY <2>2, <1>5, <1>10 DEF e
  <2>3. CASE k \in i..(j - 1)
    <3>1. /\ m.span.start <= list[k].start /\ list[k].end <= m.span.end
          /\ list[k].rule \in Preferred => m.span.rule \in Preferred
      BY <2>3 DEF LoopOK
    <3>2. list[k].start \in Int /\ list[k].end \in Int BY <2>1, <1>3
    <3>3. a.start <= list[k].start /\ list[k].end <= a.end
      BY <3>1, <3>2, <1>5, <1>6
    <3>4. QED BY <3>1, <3>3, <1>5, <1>10
  <2>4. QED BY <2>1, <2>2, <2>3, <1>2, <1>1
<1>13. ASSUME NEW h \in 1..(i - 1) PROVE list[h].end <= r.span.start
  <2>1. list[h].end <= m.span.start BY DEF LoopOK
  <2>2. h \in 1..N /\ h < j BY <1>1, <1>2
  <2>3. list[h].end <= e.start BY <2>2, <1>1, <1>2 DEF Sorted, e
  <2>4. QED BY <2>1, <2>3, <1>5, <1>10
<1>14. ASSUME NEW p \in Int, In(p, r.span)
       PROVE  In(p, c) \/ \E k \in i..(r.next - 1) : In(p, list[k])
  <2>1. a.start <= p /\ p < a.end BY <1>14, <1>10 DEF In
  <2>2. In(p, m.span) \/ In(p, e)
    BY <2>1, <1>5, <1>6, <1>7, <1>8, <1>9 DEF In
  <2>3. CASE In(p, e)
    <3>1. j \in i..(r.next - 1) BY <1>1, <1>2, <1>10
    <3>2. QED BY <3>1, <2>3 DEF e
  <2>4. CASE In(p, m.span)
    <3>1. In(p, c) \/ \E k \in i..(j - 1) : In(p, list[k])
      BY <2>4 DEF LoopOK
    <3>2. i..(j - 1) \subseteq i..(r.next - 1) BY <1>1, <1>2, <1>10
    <3>3. QED BY <3>1, <3>2
  <2>5. QED BY <2>2, <2>3, <2>4
<1>15. c.rule \in Preferred => r.span.rule \in Preferred
  BY <1>5, <1>10 DEF LoopOK
<1>16. LoopOK(list, c, i, r)
  BY <1>11, <1>12, <1>13, <1>14, <1>15 DEF LoopOK, N
<1>17. QED BY <1>10, <1>16

\* The loop ends with everything the union overlaps absorbed: it stops by its own
\* condition, never because the rounds ran out.
LEMMA MergeDoes ==
  ASSUME NEW list, Sorted(list), NEW c, Proper(c), NEW i \in 1..(Len(list) + 1),
         \A h \in 1..(i - 1) : list[h].end <= c.start,
         i <= Len(list) => list[i].end > c.start
  PROVE  LoopOK(list, c, i, Merge(list, c, i)) /\ ~Overlaps(list, Merge(list, c, i))
<1> DEFINE N == Len(list)
           base == [span |-> c, next |-> i]
           Is(f) == f = [n \in 0..N |-> IF n = 0 THEN base ELSE Round(list, i, f[n - 1])]
           M == CHOOSE f : Is(f)
           D == {m \in [span : Span, next : Nat] : LoopOK(list, c, i, m)}
           step == [n \in 1..N |-> [m \in D |-> Round(list, i, m)]]
<1>1. Merge(list, c, i) = M[N]
  BY DEF Merge
<1>2. N \in Nat /\ i \in Nat /\ i >= 1 /\ i <= N + 1
  BY LenProperties DEF Sorted
<1>3. c \in Span /\ c.start \in Int /\ c.end \in Int /\ c.start < c.end
  BY SpanFields DEF Proper
<1>4. base \in D
  <2>1. base.span = c /\ base.next = i /\ base \in [span : Span, next : Nat]
    BY <1>2, <1>3
  <2> HIDE DEF base
  <2>2. i..(base.next - 1) = {} BY <1>2, <2>1
  <2>3. LoopOK(list, c, i, base)
    BY <1>2, <1>3, <2>1, <2>2 DEF LoopOK
  <2>4. QED BY <2>1, <2>3
<1>5. ASSUME NEW m \in D
      PROVE  /\ Round(list, i, m) \in D
             /\ Overlaps(list, m) => Round(list, i, m).next = m.next + 1
             /\ ~Overlaps(list, m) => Round(list, i, m) = m
  <2>1. CASE ~Overlaps(list, m) BY <2>1 DEF Round
  <2>2. CASE Overlaps(list, m)
    <3>1. LoopOK(list, c, i, m) /\ m.next \in Nat OBVIOUS
    <3>2. LoopOK(list, c, i, Round(list, i, m))
      BY <2>2, <3>1, RoundKeeps
    <3>3. PICK a : Round(list, i, m) = [span |-> a, next |-> m.next + 1]
      BY <2>2 DEF Round
    <3>4. a \in Span BY <3>2, <3>3 DEF LoopOK, Proper
    <3>5. QED BY <2>2, <3>1, <3>2, <3>3, <3>4
  <2>3. QED BY <2>1, <2>2
<1>6. step \in [1..N -> [D -> D]]
  <2> HIDE DEF D, N
  <2>1. QED BY <1>5
<1>7. PICK f \in [0..N -> D] : Unfolds(f, N, base, step)
  <2> HIDE DEF D, N, base, step
  <2>1. QED BY <1>2, <1>4, <1>6, RecursiveFunctionExists
<1> HIDE DEF D
<1>8. Is(f)
  <2> HIDE DEF base
  <2>1. ASSUME NEW n \in 0..N
        PROVE  f[n] = IF n = 0 THEN base ELSE Round(list, i, f[n - 1])
    <3>1. CASE n = 0 BY <3>1, <1>7 DEF Unfolds
    <3>2. CASE n # 0
      <4>1. n \in 1..N /\ n - 1 \in 0..N /\ f[n - 1] \in D BY <3>2, <1>2
      <4>2. step[n][f[n - 1]] = Round(list, i, f[n - 1])
        BY <4>1
      <4>3. QED BY <4>1, <4>2, <3>2, <1>7 DEF Unfolds
    <3>3. QED BY <3>1, <3>2
  <2>2. f = [n \in 0..N |-> f[n]] OBVIOUS
  <2> HIDE DEF N, step
  <2>3. QED BY <2>1, <2>2
<1>9. Is(M)
  <2> HIDE DEF Is
  <2>1. QED BY <1>8
<1> HIDE DEF M
<1>10. M[0] = base /\ \A n \in 1..N : M[n] = Round(list, i, M[n - 1])
  <2>1. 0 \in 0..N /\ \A n \in 1..N : n \in 0..N /\ n # 0 BY <1>2
  <2> HIDE DEF N, base
  <2>2. QED BY <1>9, <2>1
<1> DEFINE S == {n \in 0..N : /\ M[n] \in D
                              /\ Overlaps(list, M[n]) => M[n].next = i + n}
<1>11. base.next = i OBVIOUS
<1> HIDE DEF N, Is, base
<1>12. 0 \in S
  BY <1>2, <1>4, <1>10, <1>11
<1>13. ASSUME NEW n \in 0..(N - 1), n \in S PROVE n + 1 \in S
  <2>1. n + 1 \in 1..N /\ (n + 1) - 1 = n /\ n + 1 \in 0..N BY <1>2
  <2>2. M[n + 1] = Round(list, i, M[n])
    BY <2>1, <1>10
  <2>3. M[n] \in D /\ (Overlaps(list, M[n]) => M[n].next = i + n)
    BY <1>13
  <2>4. M[n + 1] \in D /\ (Overlaps(list, M[n]) => M[n + 1].next = M[n].next + 1)
        /\ (~Overlaps(list, M[n]) => M[n + 1] = M[n])
    BY <2>2, <2>3, <1>5
  <2>5. Overlaps(list, M[n + 1]) => M[n + 1].next = i + (n + 1)
    <3>1. CASE Overlaps(list, M[n])
      <4>1. M[n + 1].next = (i + n) + 1 BY <3>1, <2>3, <2>4
      <4>2. QED BY <4>1, <1>2
    <3>2. CASE ~Overlaps(list, M[n])
      BY <3>2, <2>4
    <3>3. QED BY <3>1, <3>2
  <2>6. QED BY <2>1, <2>4, <2>5
<1>14. N \in S
  <2> HIDE DEF S
  <2>1. 0..N \subseteq S BY <1>2, <1>12, <1>13, SetInduction
  <2>2. QED BY <2>1, <1>2
<1>15. LoopOK(list, c, i, M[N])
  BY <1>14 DEF D
<1>16. ~Overlaps(list, M[N])
  <2> SUFFICES ASSUME Overlaps(list, M[N]) PROVE FALSE
    OBVIOUS
  <2>1. M[N].next = i + N BY <1>14
  <2>2. M[N].next <= N BY DEF Overlaps, N
  <2>3. QED BY <2>1, <2>2, <1>2
<1>17. QED BY <1>1, <1>15, <1>16

-----------------------------------------------------------------------------
(* The list with the union in place *)

\* The elements of a list in which spans i..j-1 are replaced by one.
IsReplaced(r, list, i, j, s) ==
    /\ r \in Seq(Span) /\ Len(r) = Len(list) + 1 - (j - i)
    /\ \A k \in 1..(i - 1) : r[k] = list[k]
    /\ r[i] = s
    /\ \A k \in (i + 1)..Len(r) : r[k] = list[k - i - 1 + j]

LEMMA ReplacedFields ==
  ASSUME NEW list \in Seq(Span), NEW i \in 1..(Len(list) + 1), NEW j \in i..(Len(list) + 1),
         NEW s \in Span, NEW r, r = Replaced(list, i, j, s)
  PROVE  IsReplaced(r, list, i, j, s)
<1> DEFINE N == Len(list)
           front == SubSeq(list, 1, i - 1)
           back == SubSeq(list, j, N)
           mid == front \o <<s>>
<1>1. N \in Nat /\ i \in Nat /\ j \in Nat /\ 1 <= i /\ i <= j /\ j <= N + 1
  BY LenProperties
<1>2. \A k \in 1..N : list[k] \in Span
  BY ElementOfSeq
<1>3. /\ front \in Seq(Span) /\ Len(front) = i - 1
      /\ \A k \in 1..(i - 1) : front[k] = list[k]
  <2>1. i - 1 \in Int /\ \A k \in 1..(i - 1) : list[k] \in Span
    BY <1>1, <1>2
  <2>2. /\ SubSeq(list, 1, i - 1) \in Seq(Span)
        /\ Len(SubSeq(list, 1, i - 1)) = IF 1 <= i - 1 THEN (i - 1) - 1 + 1 ELSE 0
        /\ \A k \in 1..((i - 1) - 1 + 1) : SubSeq(list, 1, i - 1)[k] = list[1 + k - 1]
    BY <2>1, SubSeqProperties
  <2>3. QED BY <1>1, <2>2
<1>4. /\ back \in Seq(Span) /\ Len(back) = N + 1 - j
      /\ \A k \in 1..(N + 1 - j) : back[k] = list[j + k - 1]
  <2>1. \A k \in j..N : list[k] \in Span
    BY <1>1, <1>2
  <2>2. /\ SubSeq(list, j, N) \in Seq(Span)
        /\ Len(SubSeq(list, j, N)) = IF j <= N THEN N - j + 1 ELSE 0
        /\ \A k \in 1..(N - j + 1) : SubSeq(list, j, N)[k] = list[j + k - 1]
    <3> HIDE DEF N
    <3>1. QED BY <1>1, <2>1, SubSeqProperties
  <2>3. QED BY <1>1, <2>2
<1> HIDE DEF front, back
<1>5. <<s>> \in Seq(Span) /\ Len(<<s>>) = 1 /\ <<s>>[1] = s
  OBVIOUS
<1>6. /\ mid \in Seq(Span) /\ Len(mid) = i
      /\ (\A k \in 1..(i - 1) : mid[k] = list[k]) /\ mid[i] = s
  <2>1. PICK one \in Seq(Span) : one = <<s>> /\ Len(one) = 1 /\ one[1] = s BY <1>5
  <2>2. /\ front \o one \in Seq(Span) /\ Len(front \o one) = Len(front) + Len(one)
        /\ \A k \in 1..(Len(front) + Len(one)) : (front \o one)[k] =
                     IF k <= Len(front) THEN front[k] ELSE one[k - Len(front)]
    BY <1>3, <2>1, ConcatProperties
  <2>3. mid = front \o one BY <2>1
  <2>4. /\ mid \in Seq(Span) /\ Len(mid) = i
        /\ \A k \in 1..i : mid[k] = IF k <= i - 1 THEN front[k] ELSE one[k - (i - 1)]
    BY <1>1, <1>3, <2>1, <2>2, <2>3
  <2> HIDE DEF mid
  <2>5. mid[i] = s BY <1>1, <2>1, <2>4
  <2>6. ASSUME NEW k \in 1..(i - 1) PROVE mid[k] = list[k]
    BY <1>1, <1>3, <2>4
  <2>7. QED BY <2>4, <2>5, <2>6
<1>7. r = mid \o back
  BY DEF Replaced, front, back
<1> HIDE DEF mid
<1>8. /\ r \in Seq(Span) /\ Len(r) = i + (N + 1 - j)
      /\ \A k \in 1..(i + (N + 1 - j)) : r[k] = IF k <= i THEN mid[k] ELSE back[k - i]
  <2>1. /\ mid \o back \in Seq(Span) /\ Len(mid \o back) = Len(mid) + Len(back)
        /\ \A k \in 1..(Len(mid) + Len(back)) : (mid \o back)[k] =
                     IF k <= Len(mid) THEN mid[k] ELSE back[k - Len(mid)]
    BY <1>4, <1>6, ConcatProperties
  <2>2. QED BY <1>4, <1>6, <1>7, <2>1
<1>9. Len(r) = N + 1 - (j - i)
  BY <1>1, <1>8
<1>10. ASSUME NEW k \in 1..(i - 1) PROVE r[k] = list[k]
  BY <1>1, <1>6, <1>8
<1>11. r[i] = s
  BY <1>1, <1>6, <1>8
<1>12. ASSUME NEW k \in (i + 1)..Len(r) PROVE r[k] = list[k - i - 1 + j]
  <2>1. k \in Nat /\ k - i \in 1..(N + 1 - j) /\ ~(k <= i) /\ k \in 1..(i + (N + 1 - j))
    BY <1>1, <1>8
  <2>2. r[k] = back[k - i] BY <1>8, <2>1
  <2>3. back[k - i] = list[j + (k - i) - 1] BY <1>4, <2>1
  <2>4. j + (k - i) - 1 = k - i - 1 + j BY <1>1, <2>1
  <2>5. QED BY <2>2, <2>3, <2>4
<1>13. QED BY <1>8, <1>9, <1>10, <1>11, <1>12 DEF IsReplaced

\* a lies within b, and b blocks when a does.
Within(a, b) ==
    /\ b.start <= a.start /\ a.end <= b.end
    /\ a.rule \in Preferred => b.rule \in Preferred

\* The new list hides the candidate and what the old one hid, and nothing else.
Hides(r, list, c) ==
    /\ \A k \in DOMAIN list : \E l \in DOMAIN r : Within(list[k], r[l])
    /\ \E l \in DOMAIN r : Within(c, r[l])
    /\ \A p \in Int, l \in DOMAIN r :
          In(p, r[l]) => In(p, c) \/ \E k \in DOMAIN list : In(p, list[k])

\* The new list is sorted, hides what was hidden and the candidate, and nothing
\* else.
LEMMA ReplacedKeeps ==
  ASSUME NEW list, Sorted(list), NEW c, Proper(c), NEW i \in 1..(Len(list) + 1),
         NEW m, LoopOK(list, c, i, m), ~Overlaps(list, m),
         NEW r, r = Replaced(list, i, m.next, m.span)
  PROVE  /\ Sorted(r)
         /\ Len(r) = Len(list) + 1 - (m.next - i)
         /\ Hides(r, list, c)
<1> DEFINE N == Len(list)
<1>1. PICK j \in Nat, s \in Span : j = m.next /\ s = m.span
  BY LenProperties DEF LoopOK, Sorted, Proper
<1>2. /\ N \in Nat /\ DOMAIN list = 1..N /\ list \in Seq(Span) /\ i \in Nat /\ 1 <= i
      /\ j \in i..(N + 1) /\ Proper(s) /\ i <= j /\ j <= N + 1
  BY <1>1, LenProperties DEF LoopOK, Sorted
<1>3. /\ r \in Seq(Span) /\ Len(r) = N + 1 - (j - i)
      /\ \A k \in 1..(i - 1) : r[k] = list[k]
      /\ r[i] = s
      /\ \A k \in (i + 1)..Len(r) : r[k] = list[k - i - 1 + j]
  <2>1. s \in Span /\ r = Replaced(list, i, j, s) BY <1>1, <1>2 DEF Proper
  <2>2. IsReplaced(r, list, i, j, s) BY <1>2, <2>1, ReplacedFields
  <2>3. QED BY <2>2 DEF IsReplaced
<1>4. DOMAIN r = 1..Len(r) /\ Len(r) \in Nat
  BY <1>3, LenProperties
<1>5. /\ s.start <= c.start /\ c.end <= s.end
      /\ \A k \in i..(j - 1) : s.start <= list[k].start /\ list[k].end <= s.end
      /\ \A h \in 1..(i - 1) : list[h].end <= s.start
      /\ \A p \in Int : In(p, s) => In(p, c) \/ \E k \in i..(j - 1) : In(p, list[k])
      /\ c.rule \in Preferred => s.rule \in Preferred
      /\ \A k \in i..(j - 1) : list[k].rule \in Preferred => s.rule \in Preferred
  BY <1>1 DEF LoopOK
<1>6. ASSUME NEW k \in 1..N
      PROVE  Proper(list[k]) /\ list[k].start \in Int /\ list[k].end \in Int
  <2>1. list[k] \in Span BY <1>2, ElementOfSeq
  <2>2. list[k].start < list[k].end BY <1>2 DEF Sorted
  <2>3. QED BY <2>1, <2>2, SpanFields DEF Proper
<1>7. s.start \in Int /\ s.end \in Int /\ s.start < s.end
  BY <1>2, SpanFields DEF Proper
<1>8. ASSUME NEW k \in j..N PROVE s.end <= list[k].start
  <2>1. j \in 1..N /\ k \in 1..N /\ j <= N BY <1>2
  <2>2. ~(list[j].start < s.end) BY <2>1, <1>1, <1>2 DEF Overlaps
  <2>3. /\ list[j].start \in Int /\ list[j].end \in Int /\ list[j].start < list[j].end
        /\ list[k].start \in Int
    BY <2>1, <1>6 DEF Proper
  <2>4. j = k \/ list[j].end <= list[k].start
    BY <2>1, <1>2 DEF Sorted
  <2>5. QED BY <2>2, <2>3, <2>4, <1>7
<1> HIDE DEF N
\* where an element of the new list comes from
<1>9. ASSUME NEW l \in 1..Len(r)
      PROVE  \/ l < i /\ l \in 1..N /\ r[l] = list[l]
             \/ l = i /\ r[l] = s
             \/ l > i /\ l - i - 1 + j \in j..N /\ l - i - 1 + j \in 1..N /\ r[l] = list[l - i - 1 + j]
  <2>1. CASE l < i
    <3>1. l \in 1..(i - 1) /\ l \in 1..N BY <2>1, <1>2
    <3>2. QED BY <2>1, <3>1, <1>3
  <2>2. CASE l = i BY <2>2, <1>3
  <2>3. CASE l > i
    <3>1. l \in (i + 1)..Len(r) BY <2>3, <1>2, <1>4
    <3>2. l - i - 1 + j \in j..N /\ l - i - 1 + j \in 1..N BY <2>3, <1>2, <1>3, <1>4
    <3>3. QED BY <2>3, <3>1, <3>2, <1>3
  <2>4. QED BY <2>1, <2>2, <2>3, <1>2, <1>4
<1>10. Sorted(r)
  <2>1. ASSUME NEW l \in 1..Len(r) PROVE r[l].start < r[l].end
    BY <1>6, <1>7, <1>9 DEF Proper
  <2>2. ASSUME NEW k \in 1..Len(r), NEW l \in 1..Len(r), k < l PROVE r[k].end <= r[l].start
    <3>1. CASE k < i /\ l < i
      <4>1. k \in 1..N /\ l \in 1..N /\ r[k] = list[k] /\ r[l] = list[l] BY <3>1, <1>2, <1>9
      <4>2. QED BY <4>1, <2>2, <1>2 DEF Sorted
    <3>2. CASE k < i /\ l = i
      <4>1. k \in 1..(i - 1) /\ r[k] = list[k] /\ r[l] = s BY <3>2, <1>2, <1>9
      <4>2. QED BY <4>1, <1>5
    <3>3. CASE k < i /\ l > i
      <4>1. PICK x \in 1..N : r[l] = list[x] /\ x >= j BY <3>3, <1>2, <1>9
      <4>2. k \in 1..N /\ r[k] = list[k] /\ k < x BY <3>3, <4>1, <1>2, <1>9
      <4>3. QED BY <4>1, <4>2, <1>2 DEF Sorted
    <3>4. CASE k = i /\ l > i
      <4>1. PICK x \in j..N : r[l] = list[x] BY <3>4, <1>2, <1>9
      <4>2. r[k] = s BY <3>4, <1>9
      <4>3. QED BY <4>1, <4>2, <1>8
    <3>5. CASE k > i /\ l > i
      <4>1. PICK x \in 1..N : r[k] = list[x] /\ x = k - i - 1 + j BY <3>5, <1>2, <1>9
      <4>2. PICK y \in 1..N : r[l] = list[y] /\ y = l - i - 1 + j BY <3>5, <1>2, <1>9
      <4>3. x < y BY <4>1, <4>2, <2>2, <1>2, <1>4
      <4>4. QED BY <4>1, <4>2, <4>3, <1>2 DEF Sorted
    <3>6. QED BY <3>1, <3>2, <3>3, <3>4, <3>5, <2>2, <1>2, <1>4
  <2>3. QED BY <2>1, <2>2, <1>3, <1>4 DEF Sorted
<1>11. i \in 1..Len(r)
  BY <1>2, <1>3, <1>4
<1>12. ASSUME NEW k \in 1..N PROVE \E l \in 1..Len(r) : Within(list[k], r[l])
  <2>1. list[k].start \in Int /\ list[k].end \in Int BY <1>6
  <2>2. CASE k < i
    <3>1. k \in 1..Len(r) /\ k \in 1..(i - 1) BY <2>2, <1>2, <1>11, <1>4
    <3>2. r[k] = list[k] BY <3>1, <1>3
    <3>3. Within(list[k], r[k]) BY <3>2, <2>1 DEF Within
    <3>4. QED BY <3>1, <3>3
  <2>3. CASE i <= k /\ k < j
    <3>1. k \in i..(j - 1) BY <2>3, <1>2
    <3>2. Within(list[k], r[i]) BY <3>1, <1>3, <1>5 DEF Within
    <3>3. QED BY <3>2, <1>11
  <2>4. CASE j <= k
    <3>1. PICK l \in (i + 1)..Len(r) : l - i - 1 + j = k
      <4>1. k - j + i + 1 \in (i + 1)..Len(r) BY <2>4, <1>2, <1>3
      <4>2. (k - j + i + 1) - i - 1 + j = k BY <2>4, <1>2
      <4>3. QED BY <4>1, <4>2
    <3>2. r[l] = list[k] BY <3>1, <1>3
    <3>3. l \in 1..Len(r) BY <1>2, <1>4, <3>1
    <3>4. Within(list[k], r[l]) BY <3>2, <2>1 DEF Within
    <3>5. QED BY <3>3, <3>4
  <2>5. QED BY <2>2, <2>3, <2>4, <1>2
<1>13. \E l \in 1..Len(r) : Within(c, r[l])
  <2>1. Within(c, r[i]) BY <1>3, <1>5 DEF Within
  <2>2. QED BY <2>1, <1>11
<1>14. ASSUME NEW p \in Int, NEW l \in 1..Len(r), In(p, r[l])
       PROVE  In(p, c) \/ \E k \in 1..N : In(p, list[k])
  <2>1. CASE l = i
    <3>1. In(p, s) BY <2>1, <1>14, <1>3
    <3>2. In(p, c) \/ \E k \in i..(j - 1) : In(p, list[k]) BY <3>1, <1>5
    <3>3. i..(j - 1) \subseteq 1..N BY <1>2
    <3>4. QED BY <3>2, <3>3
  <2>2. CASE l # i
    <3>1. \E k \in 1..N : r[l] = list[k] BY <2>2, <1>9
    <3>2. QED BY <3>1, <1>14
  <2>3. QED BY <2>1, <2>2
<1>15. QED
  BY <1>1, <1>2, <1>3, <1>4, <1>10, <1>12, <1>13, <1>14 DEF N, Hides

-----------------------------------------------------------------------------
(* The copying in Redact *)

Element == [kind : {"byte", "replacement"}, at : Nat]

Occurs(e, t) == \E k \in DOMAIN t : t[k] = e

\* Where an element begins and ends in the text it was made from.
FromOf(list, e) == IF e.kind = "byte" THEN e.at ELSE list[e.at].start
ToOf(list, e) == IF e.kind = "byte" THEN e.at + 1 ELSE list[e.at].end

\* t is in the order of the text, and made from its bytes a..b-1 and nothing else.
Ordered(list, t, a, b) ==
    /\ \A k \in DOMAIN t : a <= FromOf(list, t[k]) /\ ToOf(list, t[k]) <= b
    /\ \A k, l \in DOMAIN t : k < l => ToOf(list, t[k]) <= FromOf(list, t[l])

\* The elements of t are in range: replacements stand for spans of the list.
WellPlaced(list, t) ==
    /\ t \in Seq(Element)
    /\ \A k \in DOMAIN t : FromOf(list, t[k]) \in Int /\ ToOf(list, t[k]) \in Int

LEMMA ConcatElements ==
  ASSUME NEW list, NEW t, NEW u, WellPlaced(list, t), WellPlaced(list, u)
  PROVE  /\ WellPlaced(list, t \o u)
         /\ \A e : Occurs(e, t \o u) <=> Occurs(e, t) \/ Occurs(e, u)
<1>1. /\ t \in Seq(Element) /\ u \in Seq(Element) /\ Len(t) \in Nat /\ Len(u) \in Nat
      /\ DOMAIN t = 1..Len(t) /\ DOMAIN u = 1..Len(u)
  BY LenProperties DEF WellPlaced
<1>2. /\ t \o u \in Seq(Element) /\ Len(t \o u) = Len(t) + Len(u)
      /\ \A k \in 1..(Len(t) + Len(u)) : (t \o u)[k] = IF k <= Len(t) THEN t[k] ELSE u[k - Len(t)]
  BY <1>1, ConcatProperties
<1>3. PICK v \in Seq(Element) : v = t \o u
  BY <1>2
<1>4. DOMAIN v = 1..(Len(t) + Len(u))
  BY <1>2, <1>3, LenProperties
<1>5. ASSUME NEW k \in DOMAIN t PROVE k \in DOMAIN v /\ v[k] = t[k]
  <2>1. k \in 1..(Len(t) + Len(u)) /\ k <= Len(t) BY <1>1
  <2>2. QED BY <2>1, <1>2, <1>3, <1>4
<1>6. ASSUME NEW k \in DOMAIN u PROVE Len(t) + k \in DOMAIN v /\ v[Len(t) + k] = u[k]
  <2>1. Len(t) + k \in 1..(Len(t) + Len(u)) /\ ~(Len(t) + k <= Len(t)) /\ (Len(t) + k) - Len(t) = k
    BY <1>1
  <2>2. QED BY <2>1, <1>2, <1>3, <1>4
<1>7. ASSUME NEW k \in DOMAIN v
      PROVE  \/ k \in DOMAIN t /\ v[k] = t[k]
             \/ k - Len(t) \in DOMAIN u /\ v[k] = u[k - Len(t)]
  <2>1. k \in 1..(Len(t) + Len(u)) BY <1>4
  <2>2. CASE k <= Len(t) BY <2>1, <2>2, <1>1, <1>2, <1>3
  <2>3. CASE ~(k <= Len(t))
    <3>1. k - Len(t) \in 1..Len(u) BY <2>1, <2>3, <1>1
    <3>2. QED BY <2>1, <2>3, <3>1, <1>1, <1>2, <1>3
  <2>4. QED BY <2>2, <2>3
<1>8. WellPlaced(list, v)
  <2>1. ASSUME NEW k \in DOMAIN v PROVE FromOf(list, v[k]) \in Int /\ ToOf(list, v[k]) \in Int
    BY <1>7 DEF WellPlaced
  <2>2. QED BY <2>1 DEF WellPlaced
<1>9. ASSUME NEW e PROVE Occurs(e, v) <=> Occurs(e, t) \/ Occurs(e, u)
  BY <1>5, <1>6, <1>7 DEF Occurs
<1>10. QED BY <1>3, <1>8, <1>9

LEMMA ConcatOrdered ==
  ASSUME NEW list, NEW t, NEW u, WellPlaced(list, t), WellPlaced(list, u),
         NEW a \in Int, NEW b \in Int, NEW d \in Int, a <= b, b <= d,
         Ordered(list, t, a, b), Ordered(list, u, b, d)
  PROVE  Ordered(list, t \o u, a, d)
<1>1. /\ t \in Seq(Element) /\ u \in Seq(Element) /\ Len(t) \in Nat /\ Len(u) \in Nat
      /\ DOMAIN t = 1..Len(t) /\ DOMAIN u = 1..Len(u)
  BY LenProperties DEF WellPlaced
<1>2. /\ t \o u \in Seq(Element) /\ Len(t \o u) = Len(t) + Len(u)
      /\ \A k \in 1..(Len(t) + Len(u)) : (t \o u)[k] = IF k <= Len(t) THEN t[k] ELSE u[k - Len(t)]
  BY <1>1, ConcatProperties
<1>3. PICK v \in Seq(Element) : v = t \o u
  BY <1>2
<1>4. DOMAIN v = 1..(Len(t) + Len(u))
  BY <1>2, <1>3, LenProperties
<1>5. ASSUME NEW k \in DOMAIN v
      PROVE  \/ k <= Len(t) /\ k \in DOMAIN t /\ v[k] = t[k]
             \/ k > Len(t) /\ k - Len(t) \in DOMAIN u /\ v[k] = u[k - Len(t)]
  <2>1. k \in 1..(Len(t) + Len(u)) BY <1>4
  <2>2. CASE k <= Len(t) BY <2>1, <2>2, <1>1, <1>2, <1>3
  <2>3. CASE ~(k <= Len(t))
    <3>1. k - Len(t) \in 1..Len(u) BY <2>1, <2>3, <1>1
    <3>2. k > Len(t) BY <2>1, <2>3, <1>1
    <3>3. QED BY <2>1, <2>3, <3>1, <3>2, <1>1, <1>2, <1>3
  <2>4. QED BY <2>2, <2>3
<1>6. ASSUME NEW k \in DOMAIN t
      PROVE  /\ a <= FromOf(list, t[k]) /\ ToOf(list, t[k]) <= b
             /\ FromOf(list, t[k]) \in Int /\ ToOf(list, t[k]) \in Int
  BY DEF Ordered, WellPlaced
<1>7. ASSUME NEW k \in DOMAIN u
      PROVE  /\ b <= FromOf(list, u[k]) /\ ToOf(list, u[k]) <= d
             /\ FromOf(list, u[k]) \in Int /\ ToOf(list, u[k]) \in Int
  BY DEF Ordered, WellPlaced
<1>8. ASSUME NEW k \in DOMAIN v PROVE a <= FromOf(list, v[k]) /\ ToOf(list, v[k]) <= d
  <2>1. CASE k \in DOMAIN t /\ v[k] = t[k]
    <3>1. PICK x \in Int, y \in Int : x = FromOf(list, v[k]) /\ y = ToOf(list, v[k]) /\ a <= x /\ y <= b
      BY <2>1, <1>6
    <3>2. QED BY <3>1
  <2>2. CASE k - Len(t) \in DOMAIN u /\ v[k] = u[k - Len(t)]
    <3>1. PICK x \in Int, y \in Int : x = FromOf(list, v[k]) /\ y = ToOf(list, v[k]) /\ b <= x /\ y <= d
      BY <2>2, <1>7
    <3>2. QED BY <3>1
  <2>3. QED BY <2>1, <2>2, <1>5
<1>9. ASSUME NEW k \in DOMAIN v, NEW l \in DOMAIN v, k < l
      PROVE  ToOf(list, v[k]) <= FromOf(list, v[l])
  <2>0. k \in Nat /\ l \in Nat BY <1>1, <1>4
  <2>1. CASE l <= Len(t)
    <3>1. k \in DOMAIN t /\ l \in DOMAIN t /\ v[k] = t[k] /\ v[l] = t[l]
      BY <2>0, <2>1, <1>1, <1>5, <1>9
    <3>2. QED BY <3>1, <1>9 DEF Ordered
  <2>2. CASE k > Len(t)
    <3>1. PICK x \in DOMAIN u, y \in DOMAIN u : x = k - Len(t) /\ y = l - Len(t) /\ v[k] = u[x] /\ v[l] = u[y]
      BY <2>0, <2>2, <1>1, <1>5, <1>9
    <3>2. x < y BY <3>1, <2>0, <1>1, <1>9
    <3>3. QED BY <3>1, <3>2 DEF Ordered
  <2>3. CASE k <= Len(t) /\ l > Len(t)
    <3>1. PICK y \in DOMAIN u : v[l] = u[y]
      <4>1. ~(l <= Len(t)) BY <2>0, <2>3, <1>1
      <4>2. QED BY <4>1, <1>5
    <3>2. k \in DOMAIN t /\ v[k] = t[k] BY <2>0, <2>3, <1>1, <1>5
    <3>3. PICK x \in Int : x = ToOf(list, v[k]) /\ x <= b BY <3>2, <1>6
    <3>4. PICK z \in Int : z = FromOf(list, v[l]) /\ b <= z BY <3>1, <1>7
    <3>5. QED BY <3>3, <3>4
  <2>4. QED BY <2>0, <2>1, <2>2, <2>3, <1>1
<1>10. Ordered(list, v, a, d)
  BY <1>8, <1>9 DEF Ordered
<1>11. QED BY <1>3, <1>10

LEMMA SliceElements ==
  ASSUME NEW list, NEW a \in Nat, NEW b \in Nat
  PROVE  /\ WellPlaced(list, Slice(a, b))
         /\ Ordered(list, Slice(a, b), a, b)
         /\ \A e : Occurs(e, Slice(a, b)) <=> \E p \in a..(b - 1) : e = Byte(p)
<1> DEFINE t == Slice(a, b)
<1>1. PICK n \in Nat : n = IF a <= b THEN b - a ELSE 0
  <2>1. (IF a <= b THEN b - a ELSE 0) \in Nat OBVIOUS
  <2>2. QED BY <2>1, Zenon
<1>2. 1..(b - a) = 1..n
  BY <1>1
<1>3. t = [k \in 1..n |-> Byte(a + k - 1)]
  BY <1>2 DEF Slice
<1>4. ASSUME NEW k \in 1..n
      PROVE  /\ Byte(a + k - 1) \in Element /\ Byte(a + k - 1).kind = "byte"
             /\ Byte(a + k - 1).at = a + k - 1
  BY DEF Byte, Element
<1>5. t \in Seq(Element) /\ DOMAIN t = 1..n /\ \A k \in 1..n : t[k] = Byte(a + k - 1)
  <2>1. \A k \in 1..n : Byte(a + k - 1) \in Element BY <1>4
  <2>2. QED BY <1>3, <2>1, IsASeq
<1> HIDE DEF t
<1>6. ASSUME NEW k \in 1..n
      PROVE  FromOf(list, t[k]) = a + k - 1 /\ ToOf(list, t[k]) = a + k
  <2>1. t[k].kind = "byte" /\ t[k].at = a + k - 1 BY <1>4, <1>5
  <2>2. FromOf(list, t[k]) = t[k].at /\ ToOf(list, t[k]) = t[k].at + 1
    BY <2>1 DEF FromOf, ToOf
  <2>3. QED BY <2>1, <2>2
<1>7. WellPlaced(list, t)
  <2>1. ASSUME NEW k \in 1..n PROVE FromOf(list, t[k]) \in Int /\ ToOf(list, t[k]) \in Int
    BY <1>6
  <2>2. QED BY <2>1, <1>5 DEF WellPlaced
<1>8. Ordered(list, t, a, b)
  <2>1. ASSUME NEW k \in 1..n PROVE a <= FromOf(list, t[k]) /\ ToOf(list, t[k]) <= b
    BY <1>1, <1>6
  <2>2. ASSUME NEW k \in 1..n, NEW l \in 1..n, k < l PROVE ToOf(list, t[k]) <= FromOf(list, t[l])
    <3>1. ToOf(list, t[k]) = a + k /\ FromOf(list, t[l]) = a + l - 1 BY <1>6
    <3>2. QED BY <3>1, <2>2
  <2>3. QED BY <2>1, <2>2, <1>5 DEF Ordered
<1>9. ASSUME NEW e PROVE Occurs(e, t) <=> \E p \in a..(b - 1) : e = Byte(p)
  <2>1. ASSUME NEW k \in 1..n, t[k] = e PROVE \E p \in a..(b - 1) : e = Byte(p)
    <3>1. a + k - 1 \in a..(b - 1) BY <1>1
    <3>2. QED BY <3>1, <2>1, <1>5
  <2>2. ASSUME NEW p \in a..(b - 1), e = Byte(p) PROVE \E k \in 1..n : t[k] = e
    <3>1. PICK k \in 1..n : a + k - 1 = p
      <4>1. p - a + 1 \in 1..n /\ a + (p - a + 1) - 1 = p BY <1>1
      <4>2. QED BY <4>1
    <3>2. t[k] = Byte(a + k - 1) BY <1>5
    <3>3. QED BY <3>1, <3>2, <2>2
  <2>3. QED BY <2>1, <2>2, <1>5 DEF Occurs
<1>10. QED BY <1>7, <1>8, <1>9 DEF t

LEMMA OneElement ==
  ASSUME NEW list, Sorted(list), NEW n \in DOMAIN list
  PROVE  /\ WellPlaced(list, <<Replacement(n)>>)
         /\ Ordered(list, <<Replacement(n)>>, list[n].start, list[n].end)
         /\ \A e : Occurs(e, <<Replacement(n)>>) <=> e = Replacement(n)
<1>1. list[n] \in Span /\ n \in Nat
  BY LenProperties, ElementOfSeq DEF Sorted
<1>2. list[n].start \in Int /\ list[n].end \in Int
  BY <1>1, SpanFields
<1>3. PICK x \in Element : x = Replacement(n) /\ x.kind = "replacement" /\ x.at = n
  <2>1. /\ Replacement(n) \in Element /\ Replacement(n).kind = "replacement"
        /\ Replacement(n).at = n
    BY <1>1 DEF Replacement, Element
  <2>2. QED BY <2>1, Zenon
<1>4. FromOf(list, x) = list[n].start /\ ToOf(list, x) = list[n].end
  BY <1>3 DEF FromOf, ToOf
<1>5. PICK t \in Seq(Element) : t = <<x>> /\ DOMAIN t = {1} /\ t[1] = x
  <2>1. <<x>> \in Seq(Element) /\ DOMAIN <<x>> = {1} /\ <<x>>[1] = x
    OBVIOUS
  <2>2. QED BY <2>1, Zenon
<1>6. WellPlaced(list, t)
  BY <1>2, <1>4, <1>5 DEF WellPlaced
<1>7. Ordered(list, t, list[n].start, list[n].end)
  BY <1>2, <1>4, <1>5 DEF Ordered
<1>8. \A e : Occurs(e, t) <=> e = x
  BY <1>5 DEF Occurs
<1>9. QED BY <1>3, <1>5, <1>6, <1>7, <1>8

LEMMA ElementsDiffer ==
  /\ \A p, q : Byte(p) = Byte(q) <=> p = q
  /\ \A p, q : Replacement(p) = Replacement(q) <=> p = q
  /\ \A p, q : Byte(p) # Replacement(q)
<1>1. ASSUME NEW p PROVE Byte(p).at = p /\ Byte(p).kind = "byte"
  BY DEF Byte
<1>2. ASSUME NEW p PROVE Replacement(p).at = p /\ Replacement(p).kind = "replacement"
  BY DEF Replacement
<1>3. QED BY <1>1, <1>2

\* The loop invariant of the copying: what is in the text after n spans.
CopiedOK(list, n, x) ==
    /\ WellPlaced(list, x.text)
    /\ x.previous = IF n = 0 THEN 0 ELSE list[n].end
    /\ Ordered(list, x.text, 0, x.previous)
    /\ \A p \in Int : Occurs(Byte(p), x.text)
                        <=> 0 <= p /\ p < x.previous /\ \A k \in 1..n : ~In(p, list[k])
    /\ \A r \in Int : Occurs(Replacement(r), x.text) <=> r \in 1..n

\* One round of the copying keeps the loop invariant.
LEMMA CopyUpToKeeps ==
  ASSUME NEW list, Sorted(list), NEW n \in 1..Len(list), NEW x, CopiedOK(list, n - 1, x)
  PROVE  CopiedOK(list, n, CopyUpTo(list, n, x))
<1>1. /\ Len(list) \in Nat /\ DOMAIN list = 1..Len(list) /\ n \in DOMAIN list /\ n \in Nat /\ n >= 1
      /\ \A k \in DOMAIN list : list[k] \in Span
  BY LenProperties, ElementOfSeq DEF Sorted
<1>2. ASSUME NEW k \in DOMAIN list
      PROVE  /\ list[k].start \in Int /\ list[k].end \in Int /\ list[k].start < list[k].end
             /\ 0 <= list[k].start /\ list[k].end <= TextLen
  BY <1>1, SpanFields DEF Sorted
<1>3. PICK b \in Nat, d \in Nat : b = list[n].start /\ d = list[n].end /\ b < d
  BY <1>1, <1>2
<1>4. PICK a \in Nat : /\ a = x.previous /\ a <= b
                      /\ \A k \in 1..(n - 1) : list[k].end <= a
  <2>1. CASE n = 1
    <3>1. x.previous = 0 BY <2>1 DEF CopiedOK
    <3>2. 1..(n - 1) = {} BY <2>1
    <3>3. QED BY <3>1, <3>2, <1>3
  <2>2. CASE n > 1
    <3>1. n - 1 \in DOMAIN list /\ n - 1 # 0 BY <2>2, <1>1
    <3>2. x.previous = list[n - 1].end BY <3>1 DEF CopiedOK
    <3>3. PICK a \in Nat : a = x.previous BY <3>1, <3>2, <1>2
    <3>4. a <= b BY <3>1, <3>2, <3>3, <1>1, <1>3 DEF Sorted
    <3>5. ASSUME NEW k \in 1..(n - 1) PROVE list[k].end <= a
      <4>1. k \in DOMAIN list /\ (k = n - 1 \/ k < n - 1) BY <1>1
      <4>2. CASE k = n - 1 BY <4>2, <3>1, <3>2, <3>3, <1>2
      <4>3. CASE k < n - 1
        <5>1. list[k].end <= list[n - 1].start BY <4>1, <4>3, <3>1 DEF Sorted
        <5>2. QED BY <5>1, <4>1, <3>1, <3>2, <3>3, <1>2
      <4>4. QED BY <4>1, <4>2, <4>3
    <3>6. QED BY <3>3, <3>4, <3>5
  <2>3. QED BY <2>1, <2>2, <1>1
<1> DEFINE sl == Slice(a, b)
           one == <<Replacement(n)>>
           t1 == x.text \o sl
           t2 == t1 \o one
<1>5. /\ WellPlaced(list, sl) /\ Ordered(list, sl, a, b)
      /\ \A e : Occurs(e, sl) <=> \E p \in a..(b - 1) : e = Byte(p)
  BY SliceElements
<1>6. /\ WellPlaced(list, one) /\ Ordered(list, one, b, d)
      /\ \A e : Occurs(e, one) <=> e = Replacement(n)
  BY <1>1, <1>3, OneElement
<1>7. /\ WellPlaced(list, x.text) /\ Ordered(list, x.text, 0, a)
      /\ \A p \in Int : Occurs(Byte(p), x.text)
                          <=> 0 <= p /\ p < a /\ \A k \in 1..(n - 1) : ~In(p, list[k])
      /\ \A r \in Int : Occurs(Replacement(r), x.text) <=> r \in 1..(n - 1)
  BY <1>4 DEF CopiedOK
<1>8. CopyUpTo(list, n, x) = [text |-> t2, previous |-> d]
  BY <1>3, <1>4 DEF CopyUpTo
<1> HIDE DEF sl, one
<1>9. /\ WellPlaced(list, t1)
      /\ \A e : Occurs(e, t1) <=> Occurs(e, x.text) \/ Occurs(e, sl)
  BY <1>5, <1>7, ConcatElements
<1>10. Ordered(list, t1, 0, b)
  BY <1>5, <1>7, <1>4, ConcatOrdered
<1> HIDE DEF t1
<1>11. /\ WellPlaced(list, t2)
       /\ \A e : Occurs(e, t2) <=> Occurs(e, t1) \/ Occurs(e, one)
  BY <1>6, <1>9, ConcatElements
<1>12. Ordered(list, t2, 0, d)
  BY <1>6, <1>9, <1>10, <1>3, ConcatOrdered
<1> HIDE DEF t2
<1>13. ASSUME NEW p \in Int
       PROVE  Occurs(Byte(p), t2) <=> 0 <= p /\ p < d /\ \A k \in 1..n : ~In(p, list[k])
  <2>1. Occurs(Byte(p), t2) <=> Occurs(Byte(p), x.text) \/ p \in a..(b - 1)
    <3>1. Occurs(Byte(p), sl) <=> p \in a..(b - 1) BY <1>5, ElementsDiffer
    <3>2. ~Occurs(Byte(p), one) BY <1>6, ElementsDiffer
    <3>3. QED BY <3>1, <3>2, <1>9, <1>11
  <2>2. Occurs(Byte(p), x.text) <=> 0 <= p /\ p < a /\ \A k \in 1..(n - 1) : ~In(p, list[k])
    BY <1>7
  <2>3. In(p, list[n]) <=> b <= p /\ p < d BY <1>3 DEF In
  <2>4. (\A k \in 1..n : ~In(p, list[k])) <=> ~In(p, list[n]) /\ \A k \in 1..(n - 1) : ~In(p, list[k])
    BY <1>1
  <2>5. a <= p => \A k \in 1..(n - 1) : ~In(p, list[k])
    <3>1. ASSUME a <= p, NEW k \in 1..(n - 1) PROVE ~In(p, list[k])
      <4>1. list[k].end <= a /\ list[k].end \in Int BY <1>1, <1>2, <1>4
      <4>2. QED BY <4>1, <3>1 DEF In
    <3>2. QED BY <3>1
  <2>6. CASE p < a
    BY <2>1, <2>2, <2>3, <2>4, <2>6, <1>3, <1>4
  <2>7. CASE a <= p
    <3>1. Occurs(Byte(p), t2) <=> p < b BY <2>1, <2>2, <2>7
    <3>2. (\A k \in 1..n : ~In(p, list[k])) <=> ~(b <= p /\ p < d) BY <2>3, <2>4, <2>5, <2>7
    <3>3. p < b <=> 0 <= p /\ p < d /\ ~(b <= p /\ p < d) BY <2>7, <1>3, <1>4
    <3>4. QED BY <3>1, <3>2, <3>3
  <2>8. QED BY <2>6, <2>7
<1>14. ASSUME NEW r \in Int PROVE Occurs(Replacement(r), t2) <=> r \in 1..n
  <2>1. Occurs(Replacement(r), x.text) <=> r \in 1..(n - 1) BY <1>7
  <2>2. ~Occurs(Replacement(r), sl) BY <1>5, ElementsDiffer
  <2>3. Occurs(Replacement(r), one) <=> r = n BY <1>6, ElementsDiffer
  <2>4. Occurs(Replacement(r), t2) <=> r \in 1..(n - 1) \/ r = n
    BY <2>1, <2>2, <2>3, <1>9, <1>11
  <2>5. QED BY <2>4, <1>1
<1>15. PICK y : y = CopyUpTo(list, n, x) /\ y.text = t2 /\ y.previous = d
  BY <1>8
<1>16. CopiedOK(list, n, y)
  BY <1>1, <1>3, <1>11, <1>12, <1>13, <1>14, <1>15 DEF CopiedOK
<1>17. QED BY <1>15, <1>16

\* What Rebuild promises: exactly the bytes no span holds, and one replacement
\* for each span, in the order of the text.
Exact(list, t) ==
    /\ WellPlaced(list, t)
    /\ Ordered(list, t, 0, TextLen)
    /\ \A p \in Int : Occurs(Byte(p), t)
                        <=> p \in 0..(TextLen - 1) /\ \A k \in DOMAIN list : ~In(p, list[k])
    /\ \A r \in Int : Occurs(Replacement(r), t) <=> r \in DOMAIN list

LEMMA RebuildIsExact ==
  ASSUME NEW list, Sorted(list)
  PROVE  Exact(list, Rebuild(list))
<1> DEFINE N == Len(list)
           base == [text |-> <<>>, previous |-> 0]
           Is(f) == f = [n \in 0..N |-> IF n = 0 THEN base ELSE CopyUpTo(list, n, f[n - 1])]
           F == CHOOSE f : Is(f)
           D == [text : Seq(Element), previous : Nat]
           step == [n \in 1..N |-> [x \in D |-> CopyUpTo(list, n, x)]]
<1>1. Rebuild(list) = F[N].text \o Slice(F[N].previous, TextLen)
  BY DEF Rebuild
<1>2. /\ N \in Nat /\ DOMAIN list = 1..N /\ \A k \in 1..N : list[k] \in Span
  BY LenProperties, ElementOfSeq DEF Sorted
<1>3. ASSUME NEW k \in 1..N
      PROVE  /\ list[k].start \in Nat /\ list[k].end \in Nat /\ list[k].start < list[k].end
             /\ list[k].end <= TextLen
  <2>1. list[k] \in Span /\ list[k].start < list[k].end BY <1>2 DEF Sorted
  <2>2. QED BY <2>1, SpanFields
<1>4. base \in D /\ base.text = <<>> /\ base.previous = 0
  OBVIOUS
<1>5. ASSUME NEW n \in 1..N, NEW x \in D PROVE CopyUpTo(list, n, x) \in D
  <2>1. PICK sl \in Seq(Element) : sl = Slice(x.previous, list[n].start)
    <3>1. x.previous \in Nat /\ list[n].start \in Nat BY <1>3
    <3>2. QED BY <3>1, SliceElements DEF WellPlaced
  <2>2. PICK one \in Seq(Element) : one = <<Replacement(n)>>
    <3>1. n \in DOMAIN list BY <1>2
    <3>2. QED BY <3>1, OneElement DEF WellPlaced
  <2>3. x.text \in Seq(Element) OBVIOUS
  <2>4. x.text \o sl \in Seq(Element) BY <2>3, ConcatProperties
  <2>5. PICK t \in Seq(Element) : t = (x.text \o sl) \o one BY <2>4, ConcatProperties
  <2>6. PICK e \in Nat : e = list[n].end BY <1>3
  <2>7. CopyUpTo(list, n, x) = [text |-> t, previous |-> e]
    BY <2>1, <2>2, <2>5, <2>6, Zenon DEF CopyUpTo
  <2>8. QED BY <2>7
<1>6. step \in [1..N -> [D -> D]]
  <2> HIDE DEF D, N
  <2>1. QED BY <1>5
<1>7. PICK f \in [0..N -> D] : Unfolds(f, N, base, step)
  <2> HIDE DEF D, N, base, step
  <2>1. QED BY <1>2, <1>4, <1>6, RecursiveFunctionExists
<1> HIDE DEF D
<1>8. Is(f)
  <2> HIDE DEF base
  <2>1. ASSUME NEW n \in 0..N
        PROVE  f[n] = IF n = 0 THEN base ELSE CopyUpTo(list, n, f[n - 1])
    <3>1. CASE n = 0 BY <3>1, <1>7 DEF Unfolds
    <3>2. CASE n # 0
      <4>1. n \in 1..N /\ n - 1 \in 0..N /\ f[n - 1] \in D BY <3>2, <1>2
      <4>2. step[n][f[n - 1]] = CopyUpTo(list, n, f[n - 1])
        BY <4>1
      <4>3. QED BY <4>1, <4>2, <3>2, <1>7 DEF Unfolds
    <3>3. QED BY <3>1, <3>2
  <2>2. f = [n \in 0..N |-> f[n]] OBVIOUS
  <2> HIDE DEF N, step
  <2>3. QED BY <2>1, <2>2
<1>9. Is(F)
  <2> HIDE DEF Is
  <2>1. QED BY <1>8
<1> HIDE DEF F
<1>10. F[0] = base /\ \A n \in 1..N : F[n] = CopyUpTo(list, n, F[n - 1])
  <2>1. 0 \in 0..N /\ \A n \in 1..N : n \in 0..N /\ n # 0 BY <1>2
  <2> HIDE DEF N, base
  <2>2. QED BY <1>9, <2>1
<1> DEFINE S == {n \in 0..N : CopiedOK(list, n, F[n])}
<1> HIDE DEF Is, base
<1>11. 0 \in S
  <2>1. <<>> \in Seq(Element) /\ DOMAIN <<>> = {} OBVIOUS
  <2>2. F[0].text = <<>> /\ F[0].previous = 0 BY <1>4, <1>10
  <2>3. WellPlaced(list, F[0].text) /\ Ordered(list, F[0].text, 0, 0) BY <2>1, <2>2 DEF WellPlaced, Ordered
  <2>4. \A e : ~Occurs(e, F[0].text) BY <2>1, <2>2 DEF Occurs
  <2>5. CopiedOK(list, 0, F[0]) BY <2>2, <2>3, <2>4 DEF CopiedOK
  <2>6. QED BY <2>5, <1>2
<1>12. ASSUME NEW n \in 0..(N - 1), n \in S PROVE n + 1 \in S
  <2>1. n + 1 \in 1..N /\ (n + 1) - 1 = n /\ n + 1 \in 0..N BY <1>2
  <2>2. F[n + 1] = CopyUpTo(list, n + 1, F[n]) BY <2>1, <1>10
  <2>3. CopiedOK(list, (n + 1) - 1, F[n]) BY <2>1, <1>12
  <2>4. CopiedOK(list, n + 1, CopyUpTo(list, n + 1, F[n])) BY <2>1, <2>3, CopyUpToKeeps
  <2>5. QED BY <2>1, <2>2, <2>4
<1>13. CopiedOK(list, N, F[N])
  <2> HIDE DEF S, N
  <2>1. 0..N \subseteq S BY <1>2, <1>11, <1>12, SetInduction
  <2>2. QED BY <2>1, <1>2 DEF S
<1>13a. PICK t : t = F[N].text
  OBVIOUS
<1>14. PICK a \in Nat :
         /\ a = F[N].previous /\ a <= TextLen
         /\ \A k \in 1..N : list[k].end <= a
  <2>1. CASE N = 0
    <3>1. F[N].previous = 0 /\ 1..N = {} BY <2>1, <1>13 DEF CopiedOK
    <3>2. 0 <= TextLen BY CollectorConstants
    <3>3. QED BY <3>1, <3>2
  <2>2. CASE N # 0
    <3>1. N \in 1..N /\ F[N].previous = list[N].end BY <2>2, <1>2, <1>13 DEF CopiedOK
    <3>2. PICK a \in Nat : a = F[N].previous /\ a = list[N].end /\ a <= TextLen BY <3>1, <1>3
    <3>3. ASSUME NEW k \in 1..N PROVE list[k].end <= a
      <4>1. CASE k = N BY <4>1, <3>1, <3>2
      <4>2. CASE k < N
        <5>1. list[k].end <= list[N].start BY <4>2, <3>1, <1>2 DEF Sorted
        <5>2. list[N].start < list[N].end /\ list[N].start \in Nat /\ list[N].end \in Nat
              /\ list[k].end \in Nat
          BY <3>1, <1>3
        <5>3. list[k].end <= list[N].end BY <5>1, <5>2
        <5>4. QED BY <5>3, <3>2, Zenon
      <4>3. k = N \/ k < N
        <5> HIDE DEF N
        <5>1. N \in Nat BY <1>2
        <5>2. QED BY <5>1
      <4>4. QED BY <4>1, <4>2, <4>3, Zenon
    <3>4. QED BY <3>2, <3>3
  <2>3. QED BY <2>1, <2>2
<1> DEFINE sl == Slice(a, TextLen)
           out == t \o sl
<1> HIDE DEF N
<1>15. /\ WellPlaced(list, t) /\ Ordered(list, t, 0, a)
       /\ \A p \in Int : Occurs(Byte(p), t)
                           <=> 0 <= p /\ p < a /\ \A k \in 1..N : ~In(p, list[k])
       /\ \A r \in Int : Occurs(Replacement(r), t) <=> r \in 1..N
  BY <1>13, <1>13a, <1>14 DEF CopiedOK
<1>16. /\ WellPlaced(list, sl) /\ Ordered(list, sl, a, TextLen)
       /\ \A e : Occurs(e, sl) <=> \E p \in a..(TextLen - 1) : e = Byte(p)
  BY CollectorConstants, SliceElements
<1> HIDE DEF sl
<1>17. /\ WellPlaced(list, out)
       /\ \A e : Occurs(e, out) <=> Occurs(e, t) \/ Occurs(e, sl)
  BY <1>15, <1>16, ConcatElements
<1>18. Ordered(list, out, 0, TextLen)
  <2>1. TextLen \in Int BY CollectorConstants
  <2>2. QED BY <2>1, <1>14, <1>15, <1>16, ConcatOrdered
<1> HIDE DEF out
<1>19. ASSUME NEW p \in Int
       PROVE  Occurs(Byte(p), out) <=> p \in 0..(TextLen - 1) /\ \A k \in 1..N : ~In(p, list[k])
  <2>1. Occurs(Byte(p), out) <=> Occurs(Byte(p), t) \/ p \in a..(TextLen - 1)
    <3>1. Occurs(Byte(p), sl) <=> p \in a..(TextLen - 1) BY <1>16, ElementsDiffer
    <3>2. QED BY <3>1, <1>17
  <2>2. Occurs(Byte(p), t) <=> 0 <= p /\ p < a /\ \A k \in 1..N : ~In(p, list[k]) BY <1>15
  <2>3. a <= p => \A k \in 1..N : ~In(p, list[k])
    <3>1. ASSUME a <= p, NEW k \in 1..N PROVE ~In(p, list[k])
      <4>1. list[k].end <= a /\ list[k].end \in Nat BY <1>3, <1>14
      <4>2. QED BY <4>1, <3>1 DEF In
    <3>2. QED BY <3>1
  <2>4. CASE p < a
    <3>1. p \in 0..(TextLen - 1) <=> 0 <= p BY <2>4, <1>14, CollectorConstants
    <3>2. ~(p \in a..(TextLen - 1)) BY <2>4
    <3>3. QED BY <2>1, <2>2, <2>4, <3>1, <3>2
  <2>5. CASE a <= p
    <3>1. p \in 0..(TextLen - 1) <=> p \in a..(TextLen - 1) BY <2>5
    <3>2. ~(p < a) BY <2>5
    <3>3. QED BY <2>1, <2>2, <2>3, <2>5, <3>1, <3>2
  <2>6. QED BY <2>4, <2>5
<1>20. ASSUME NEW r \in Int PROVE Occurs(Replacement(r), out) <=> r \in 1..N
  BY <1>15, <1>16, <1>17, ElementsDiffer
<1>21. Exact(list, out)
  BY <1>2, <1>17, <1>18, <1>19, <1>20 DEF Exact
<1>22. Rebuild(list) = out
  BY <1>1, <1>13a, <1>14 DEF out, sl
<1>23. QED BY <1>21, <1>22

-----------------------------------------------------------------------------
(* The inductive invariant *)

\* The spans cover exactly the positions the detectors reported.
Covered ==
    \A p \in Int : (\E h \in DOMAIN history : In(p, history[h]))
                      <=> (\E k \in DOMAIN spans : In(p, spans[k]))

\* Every accepted candidate lies within a span that blocks if it does.
Kept == \A h \in DOMAIN history : \E k \in DOMAIN spans : Within(history[h], spans[k])

IInv ==
    /\ Sorted(spans) /\ Len(spans) <= MaxFindings
    /\ history \in Seq(Span) /\ \A h \in DOMAIN history : Proper(history[h])
    /\ Covered /\ Kept
    /\ IF outcome = "redacted" THEN Exact(spans, redacted) ELSE redacted = Slice(0, TextLen)

LEMMA InitEstablishes == Init => IInv
<1> SUFFICES ASSUME Init PROVE IInv
  OBVIOUS
<1>1. /\ spans = <<>> /\ history = <<>> /\ outcome = "detecting" /\ redacted = Slice(0, TextLen)
  BY DEF Init
<1>2. DOMAIN spans = {} /\ DOMAIN history = {} /\ Len(spans) = 0
      /\ spans \in Seq(Span) /\ history \in Seq(Span)
  BY <1>1
<1>3. Sorted(spans) BY <1>2 DEF Sorted
<1>4. Covered /\ Kept BY <1>2 DEF Covered, Kept
<1>5. QED BY <1>1, <1>2, <1>3, <1>4, CollectorConstants DEF IInv

\* A candidate the collector accepts is a span of the text.
LEMMA ValidIsProper ==
  ASSUME NEW c \in Candidate, Valid(c)
  PROVE  Proper(c)
<1>1. /\ c.start \in 0..TextLen /\ c.end \in 0..TextLen /\ c.rule \in Rules /\ c.start < c.end
  BY CollectorConstants DEF Candidate, Valid
<1>2. c = [start |-> c.start, end |-> c.end, rule |-> c.rule]
  BY DEF Candidate
<1>3. QED BY <1>1, <1>2 DEF Proper, Span

\* spanCollector.add: the search, the loop and the splice together.
LEMMA AddKeeps ==
  ASSUME IInv, NEW c \in Candidate, Add(c)
  PROVE  IInv'
<1>1. PICK i, m, newCount : /\ i = SearchIndex(spans, c) /\ m = Merge(spans, c, i)
                           /\ newCount = Len(spans) + 1 - (m.next - i)
  OBVIOUS
<1>2. /\ outcome = "detecting" /\ Valid(c)
      /\ \/ /\ OverBudget(newCount)
            /\ outcome' = "failed"
            /\ UNCHANGED <<spans, history, redacted>>
         \/ /\ ~OverBudget(newCount)
            /\ spans' = Replaced(spans, i, m.next, m.span)
            /\ history' = Append(history, c)
            /\ UNCHANGED <<outcome, redacted>>
  BY <1>1 DEF Add
<1>3. CASE /\ outcome' = "failed" /\ UNCHANGED <<spans, history, redacted>>
  BY <1>2, <1>3 DEF IInv, Covered, Kept
<1>4. CASE /\ ~OverBudget(newCount)
           /\ spans' = Replaced(spans, i, m.next, m.span)
           /\ history' = Append(history, c)
           /\ UNCHANGED <<outcome, redacted>>
  <2>1. Proper(c) /\ c \in Span
    BY <1>2, ValidIsProper DEF Proper
  <2>2. PICK list : list = spans /\ Sorted(list)
    BY DEF IInv
  <2>3. /\ i \in 1..(Len(list) + 1)
        /\ \A h \in 1..(i - 1) : list[h].end <= c.start
        /\ i <= Len(list) => list[i].end > c.start
    BY <1>1, <2>1, <2>2, SearchIndexFinds
  <2>4. LoopOK(list, c, i, m) /\ ~Overlaps(list, m)
    BY <1>1, <2>1, <2>2, <2>3, MergeDoes
  <2>5. PICK r : r = Replaced(list, i, m.next, m.span)
    OBVIOUS
  <2>6. /\ Sorted(r)
        /\ Len(r) = Len(list) + 1 - (m.next - i)
        /\ \A k \in DOMAIN list : \E l \in DOMAIN r : Within(list[k], r[l])
        /\ \E l \in DOMAIN r : Within(c, r[l])
        /\ \A p \in Int, l \in DOMAIN r :
              In(p, r[l]) => In(p, c) \/ \E k \in DOMAIN list : In(p, list[k])
    <3>1. Sorted(r) /\ Len(r) = Len(list) + 1 - (m.next - i) /\ Hides(r, list, c)
      BY <2>1, <2>2, <2>3, <2>4, <2>5, ReplacedKeeps
    <3>2. QED BY <3>1 DEF Hides
  <2>7. spans' = r
    BY <1>4, <2>2, <2>5
  <2>8. Sorted(spans)' /\ Len(spans') <= MaxFindings
    <3>1. Len(r) = newCount BY <1>1, <2>2, <2>6
    <3>2. Len(r) \in Nat BY <2>6, LenProperties DEF Sorted
    <3>3. Len(r) <= MaxFindings BY <1>4, <3>1, <3>2, CollectorConstants DEF OverBudget
    <3>4. Sorted(spans') BY <2>6, <2>7
    <3>5. QED BY <2>7, <3>3, <3>4
  <2>9. /\ history' \in Seq(Span) /\ Len(history) \in Nat /\ DOMAIN history = 1..Len(history)
        /\ DOMAIN history' = 1..(Len(history) + 1)
        /\ history'[Len(history) + 1] = c
        /\ \A h \in DOMAIN history : h \in DOMAIN history' /\ history'[h] = history[h]
    <3>1. history \in Seq(Span) BY DEF IInv
    <3>2. QED BY <1>4, <2>1, <3>1, AppendProperties, LenProperties
  <2>10. ASSUME NEW h \in DOMAIN history'
         PROVE  (h \in DOMAIN history /\ history'[h] = history[h]) \/ history'[h] = c
    BY <2>9
  <2>11. ASSUME NEW h \in DOMAIN history' PROVE Proper(history[h])'
    <3>1. PICK x : x = history'[h] OBVIOUS
    <3>2. Proper(x) BY <2>1, <2>10, <3>1 DEF IInv
    <3>3. QED BY <3>1, <3>2
  <2>12. Kept'
    <3>1. ASSUME NEW h \in DOMAIN history'
          PROVE  \E l \in DOMAIN r : Within(history'[h], r[l])
      <4>1. CASE history'[h] = c BY <4>1, <2>6
      <4>2. CASE h \in DOMAIN history /\ history'[h] = history[h]
        <5>1. PICK k \in DOMAIN list : Within(history[h], list[k])
          BY <4>2, <2>2 DEF IInv, Kept
        <5>2. PICK l \in DOMAIN r : Within(list[k], r[l])
          BY <2>6
        <5>3. history[h] \in Span /\ list[k] \in Span /\ r[l] \in Span
          BY <4>2, <2>2, <2>6, <2>9, LenProperties, ElementOfSeq DEF IInv, Sorted
        <5>4. /\ history[h].start \in Int /\ history[h].end \in Int
              /\ list[k].start \in Int /\ list[k].end \in Int
              /\ r[l].start \in Int /\ r[l].end \in Int
          BY <5>3, SpanFields
        <5>5. Within(history[h], r[l]) BY <5>1, <5>2, <5>4 DEF Within
        <5>6. QED BY <4>2, <5>5
      <4>3. QED BY <4>1, <4>2, <2>10
    <3>2. QED BY <3>1, <2>7 DEF Kept, Within
  <2>13. Covered'
    <3>1. ASSUME NEW p \in Int
          PROVE  (\E h \in DOMAIN history' : In(p, history'[h])) <=> (\E l \in DOMAIN r : In(p, r[l]))
      <4>1. ASSUME NEW l \in DOMAIN r, In(p, r[l])
            PROVE  \E h \in DOMAIN history' : In(p, history'[h])
        <5>1. CASE In(p, c)
          <6>1. Len(history) + 1 \in DOMAIN history' BY <2>9
          <6>2. QED BY <5>1, <6>1, <2>9
        <5>2. CASE \E k \in DOMAIN list : In(p, list[k])
          <6>1. \E h \in DOMAIN history : In(p, history[h]) BY <5>2, <2>2 DEF IInv, Covered
          <6>2. QED BY <6>1, <2>9
        <5>3. QED BY <4>1, <5>1, <5>2, <2>6
      <4>2. ASSUME NEW h \in DOMAIN history', In(p, history'[h])
            PROVE  \E l \in DOMAIN r : In(p, r[l])
        <5>0. PICK x : x = history'[h] OBVIOUS
        <5>1. PICK l \in DOMAIN r : x \in Span /\ Within(x, r[l])
          <6>1. history'[h] \in Span BY <2>9, ElementOfSeq, LenProperties
          <6>2. \E l \in DOMAIN r : Within(history'[h], r[l])
            BY <2>7, <2>12 DEF Kept, Within
          <6>3. QED BY <6>1, <6>2, <5>0
        <5>2. r[l] \in Span BY <2>6, LenProperties, ElementOfSeq DEF Sorted
        <5>3. /\ x.start \in Int /\ x.end \in Int /\ r[l].start \in Int /\ r[l].end \in Int
          BY <5>1, <5>2, SpanFields
        <5>4. x.start <= p /\ p < x.end /\ r[l].start <= x.start /\ x.end <= r[l].end
          BY <4>2, <5>0, <5>1 DEF In, Within
        <5>5. In(p, r[l]) BY <5>3, <5>4 DEF In
        <5>6. QED BY <5>5
      <4>3. QED BY <4>1, <4>2
    <3>2. QED BY <3>1, <2>7 DEF Covered, In
  <2>14. IF outcome' = "redacted" THEN Exact(spans, redacted)' ELSE redacted' = Slice(0, TextLen)
    BY <1>2, <1>4 DEF IInv
  <2>15. QED BY <2>8, <2>9, <2>11, <2>12, <2>13, <2>14 DEF IInv
<1>5. QED BY <1>2, <1>3, <1>4

LEMMA NextPreserves == IInv /\ [Next]_vars => IInv'
<1> SUFFICES ASSUME IInv, [Next]_vars PROVE IInv'
  OBVIOUS
<1>1. ASSUME NEW c \in Candidate, Add(c) PROVE IInv'
  BY <1>1, AddKeeps
<1>2. CASE UNCHANGED vars
  BY <1>2 DEF vars, IInv, Covered, Kept
<1>3. CASE Redact
  <2>1. PICK list : list = spans /\ spans' = list /\ Sorted(list) /\ redacted' = Rebuild(list)
    BY <1>3 DEF Redact, IInv
  <2>2. PICK t : t = redacted' /\ Exact(list, t)
    BY <2>1, RebuildIsExact
  <2>3. Exact(spans', redacted') BY <2>1, <2>2
  <2>4. outcome' = "redacted" /\ UNCHANGED <<spans, history>> BY <1>3 DEF Redact
  <2>5. QED BY <2>3, <2>4 DEF IInv, Covered, Kept
<1>4. CASE RedactFails
  <2>1. /\ outcome = "detecting" /\ outcome' = "failed" /\ UNCHANGED <<spans, history, redacted>>
    BY <1>4 DEF RedactFails
  <2>2. QED BY <2>1 DEF IInv, Covered, Kept
<1>5. QED
  BY <1>1, <1>2, <1>3, <1>4 DEF Next, AddInvalid

\* The invariant of the collector holds throughout.
THEOREM Invariance == Spec => []IInv
BY InitEstablishes, NextPreserves, PTL DEF Spec

-----------------------------------------------------------------------------
(* The properties *)

\* The spans Redact copies around are non-empty, in the text, in order, disjoint,
\* and no more than the budget allows, after any candidates in any order.
THEOREM SpansAreSorted == Spec => []SortedDisjoint
<1>1. IInv => SortedDisjoint
  <2> SUFFICES ASSUME IInv PROVE SortedDisjoint
    OBVIOUS
  <2>1. PICK N \in Nat : N = Len(spans) /\ DOMAIN spans = 1..N
    BY LenProperties DEF IInv, Sorted
  <2>2. ASSUME NEW k \in DOMAIN spans PROVE spans[k] \in Span /\ spans[k].start < spans[k].end
    BY LenProperties, ElementOfSeq DEF IInv, Sorted
  <2>3. ASSUME NEW k \in 1..(N - 1) PROVE spans[k].end <= spans[k + 1].start
    <3>1. k \in 1..N /\ k + 1 \in 1..N /\ k < k + 1 OBVIOUS
    <3>2. QED BY <2>1, <3>1 DEF IInv, Sorted
  <2>4. QED BY <2>1, <2>2, <2>3 DEF SortedDisjoint, IInv
<1>2. QED BY <1>1, Invariance, PTL

\* A reported blocking rule survives every merge: the span over its match has a
\* blocking rule.
THEOREM BlockingRulesSurvive == Spec => []BlockingRuleSurvives
<1>1. IInv => BlockingRuleSurvives
  <2> SUFFICES ASSUME IInv, NEW h \in DOMAIN history, history[h].rule \in Preferred
               PROVE  \E k \in DOMAIN spans : /\ Positions(history[h]) \subseteq Positions(spans[k])
                                              /\ spans[k].rule \in Preferred
    BY DEF BlockingRuleSurvives
  <2>1. PICK k \in DOMAIN spans : Within(history[h], spans[k])
    BY DEF IInv, Kept
  <2>2. history[h] \in Span /\ spans[k] \in Span
    BY LenProperties, ElementOfSeq DEF IInv, Sorted
  <2>3. /\ history[h].start \in Int /\ history[h].end \in Int
        /\ spans[k].start \in Int /\ spans[k].end \in Int
    BY <2>2, SpanFields
  <2>4. /\ spans[k].start <= history[h].start /\ history[h].end <= spans[k].end
        /\ spans[k].rule \in Preferred
    BY <2>1 DEF Within
  <2>5. Positions(history[h]) \subseteq Positions(spans[k])
    BY <2>3, <2>4 DEF Positions
  <2>6. QED BY <2>4, <2>5
<1>2. QED BY <1>1, Invariance, PTL

\* The rebuilt text is the original with exactly the reported positions taken
\* out, one replacement for each span in its place, and a failure leaves the
\* text as it was.
THEOREM RedactionIsExact == Spec => []RedactsReported
<1>1. IInv => RedactsReported
  <2> SUFFICES ASSUME IInv PROVE RedactsReported
    OBVIOUS
  <2>1. outcome = "failed" => redacted = Slice(0, TextLen)
    BY DEF IInv
  <2>2. ASSUME outcome = "redacted"
        PROVE  /\ {redacted[k].at : k \in {m \in DOMAIN redacted : redacted[m].kind = "byte"}}
                    = (0..(TextLen - 1)) \ Reported
               /\ {redacted[k].at : k \in {m \in DOMAIN redacted : redacted[m].kind = "replacement"}}
                    = DOMAIN spans
               /\ \A k, m \in DOMAIN redacted : k < m =>
                    ToOf(spans, redacted[k]) <= FromOf(spans, redacted[m])
    <3>1. /\ redacted \in Seq(Element)
          /\ \A k, m \in DOMAIN redacted : k < m => ToOf(spans, redacted[k]) <= FromOf(spans, redacted[m])
          /\ \A p \in Int : Occurs(Byte(p), redacted)
                              <=> p \in 0..(TextLen - 1) /\ \A k \in DOMAIN spans : ~In(p, spans[k])
          /\ \A r \in Int : Occurs(Replacement(r), redacted) <=> r \in DOMAIN spans
      BY <2>2 DEF IInv, Exact, WellPlaced, Ordered
    <3>2. ASSUME NEW p \in Int PROVE p \in Reported <=> \E k \in DOMAIN spans : In(p, spans[k])
      <4>1. ASSUME NEW h \in DOMAIN history
            PROVE  p \in Positions(history[h]) <=> In(p, history[h])
        <5>1. history[h] \in Span BY LenProperties, ElementOfSeq DEF IInv
        <5>2. history[h].start \in Int /\ history[h].end \in Int BY <5>1, SpanFields
        <5>3. QED BY <5>2 DEF Positions, In
      <4>2. p \in Reported <=> \E h \in DOMAIN history : p \in Positions(history[h])
        BY DEF Reported
      <4>3. QED BY <4>1, <4>2 DEF IInv, Covered
    <3>3. ASSUME NEW k \in DOMAIN redacted
          PROVE  /\ redacted[k].at \in Nat
                 /\ redacted[k].kind = "byte" => redacted[k] = Byte(redacted[k].at)
                 /\ redacted[k].kind = "replacement" => redacted[k] = Replacement(redacted[k].at)
      <4>1. PICK e \in Element : e = redacted[k] BY <3>1, LenProperties, ElementOfSeq
      <4>2. e.at \in Nat /\ e = [kind |-> e.kind, at |-> e.at] BY DEF Element
      <4>3. QED BY <4>1, <4>2 DEF Byte, Replacement
    <3>4. ASSUME NEW p
          PROVE  p \in {redacted[k].at : k \in {m \in DOMAIN redacted : redacted[m].kind = "byte"}}
                    <=> p \in Int /\ Occurs(Byte(p), redacted)
      <4>1. ASSUME NEW k \in DOMAIN redacted, redacted[k].kind = "byte", p = redacted[k].at
            PROVE  p \in Int /\ Occurs(Byte(p), redacted)
        <5>1. p \in Nat /\ redacted[k] = Byte(p) BY <3>3, <4>1
        <5>2. Occurs(Byte(p), redacted) BY <5>1 DEF Occurs
        <5>3. QED BY <5>1, <5>2
      <4>2. ASSUME Occurs(Byte(p), redacted)
            PROVE  \E k \in DOMAIN redacted : redacted[k].kind = "byte" /\ p = redacted[k].at
        <5>1. PICK k \in DOMAIN redacted : redacted[k] = Byte(p) BY <4>2 DEF Occurs
        <5>2. QED BY <5>1 DEF Byte
      <4>3. QED BY <4>1, <4>2
    <3>5. ASSUME NEW p
          PROVE  p \in {redacted[k].at : k \in {m \in DOMAIN redacted : redacted[m].kind = "replacement"}}
                    <=> p \in Int /\ Occurs(Replacement(p), redacted)
      <4>1. ASSUME NEW k \in DOMAIN redacted, redacted[k].kind = "replacement", p = redacted[k].at
            PROVE  p \in Int /\ Occurs(Replacement(p), redacted)
        <5>1. p \in Nat /\ redacted[k] = Replacement(p) BY <3>3, <4>1
        <5>2. Occurs(Replacement(p), redacted) BY <5>1 DEF Occurs
        <5>3. QED BY <5>1, <5>2
      <4>2. ASSUME Occurs(Replacement(p), redacted)
            PROVE  \E k \in DOMAIN redacted : redacted[k].kind = "replacement" /\ p = redacted[k].at
        <5>1. PICK k \in DOMAIN redacted : redacted[k] = Replacement(p) BY <4>2 DEF Occurs
        <5>2. QED BY <5>1 DEF Replacement
      <4>3. QED BY <4>1, <4>2
    <3>6. {redacted[k].at : k \in {m \in DOMAIN redacted : redacted[m].kind = "byte"}}
            = (0..(TextLen - 1)) \ Reported
      <4>1. ASSUME NEW p
            PROVE  p \in Int /\ Occurs(Byte(p), redacted) <=> p \in (0..(TextLen - 1)) \ Reported
        <5>1. CASE p \in Int BY <5>1, <3>1, <3>2
        <5>2. CASE p \notin Int BY <5>2
        <5>3. QED BY <5>1, <5>2
      <4>2. QED BY <3>4, <4>1
    <3>7. {redacted[k].at : k \in {m \in DOMAIN redacted : redacted[m].kind = "replacement"}}
            = DOMAIN spans
      <4>1. DOMAIN spans \subseteq Int BY LenProperties DEF IInv, Sorted
      <4>2. QED BY <4>1, <3>1, <3>5
    <3>8. QED BY <3>1, <3>6, <3>7
  <2>3. QED BY <2>1, <2>2 DEF RedactsReported, FromOf, ToOf
<1>2. QED BY <1>1, Invariance, PTL

=============================================================================
