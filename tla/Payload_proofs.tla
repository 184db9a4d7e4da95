--------------------------- MODULE Payload_proofs ---------------------------
(***************************************************************************)
(* Theorems about Payload: whatever the body and the limits are, what the  *)
(* scanner retains is paid for and stays within them (RetainedIsCharged),  *)
(* its index describes the body (IndexIsFaithful), and Replace rewrites    *)
(* exactly what it was asked to (ReplaceIsExact).                          *)
(*                                                                         *)
(* For the first, the counters of the scanner are compared with what it    *)
(* holds: the charge with the capacity of the two slices and the bytes of  *)
(* keys and values (Charged), the nodes with the values read (Counted),    *)
(* the stack with the brackets read and not yet closed (Nested).           *)
(*                                                                         *)
(* For the second, IndexInv says where the scanner is. The frames on the   *)
(* stack are the open containers, each entered at its own path and with    *)
(* the commas it has seen so far; the current path is that of the value to *)
(* be read or of the innermost container; each token, also of a container  *)
(* long closed, is where its string is. Path nodes are only ever added, so *)
(* the paths that frames and tokens refer to stay.                         *)
(*                                                                         *)
(* For the third, the body is laid out lexeme by lexeme (LaidOut) and an   *)
(* accepted token names one of them (Names), so that the sorted requests   *)
(* are positions in the body: they rise, or two of them are the same and   *)
(* overlap. What Splice has written after an edit is then the rewritten    *)
(* lexemes up to its position.                                             *)
(***************************************************************************)
EXTENDS Payload, FiniteSetTheorems, SequenceTheorems, WellFoundedInduction, TLAPS

\* A sequence, of whatever it holds.
IsSeq(s) == s \in Seq(ToSet(s))

ScannerFields == {"expect", "stack", "path", "paths", "pathCap", "strings", "stringCap",
                  "structuralBytes", "nodes"}

Opening == {"{", "["}
ClosingBrackets == {"}", "]"}
ValueKinds == {"{", "[", "scalar", "string"}

\* How many of the first n elements have one of these kinds.
Count(lexs, n, kinds) == Cardinality({i \in 1..n : lexs[i].kind \in kinds})

IsFrame(f) == DOMAIN f = {"kind", "index", "path"} /\ f.kind \in Opening

Typed ==
    /\ DOMAIN scan = ScannerFields
    /\ IsSeq(lexemes) /\ IsSeq(scan.paths) /\ IsSeq(scan.strings) /\ IsSeq(scan.stack)
    /\ \A n \in DOMAIN scan.stack : IsFrame(scan.stack[n])

Charged(s) ==
    /\ s.pathCap \in Nat /\ s.stringCap \in Nat /\ s.structuralBytes \in Int
    /\ IsFiniteSet(RetainedKeyBytes(s)) /\ IsFiniteSet(RetainedValueBytes(s))
    /\ s.structuralBytes =
          s.pathCap * retainedPathNodeBytes + s.stringCap * retainedStringTokenBytes
          + Cardinality(RetainedKeyBytes(s)) + Cardinality(RetainedValueBytes(s))
    /\ s.structuralBytes <= MaxStructuralBytes
    /\ Len(s.paths) <= s.pathCap /\ Len(s.strings) <= s.stringCap

Counted(s, lexs) ==
    /\ s.nodes = Count(lexs, Len(lexs), ValueKinds)
    /\ s.nodes <= MaxNodes

Nested(s, lexs) ==
    /\ Len(s.stack) = Count(lexs, Len(lexs), Opening) - Count(lexs, Len(lexs), ClosingBrackets)
    /\ Len(s.stack) <= MaxDepth
    /\ \A n \in 0..(Len(lexs) - 1) : Count(lexs, n, Opening) - Count(lexs, n, ClosingBrackets) <= MaxDepth

IInv ==
    /\ Typed
    /\ Charged(scan)
    /\ Counted(scan, lexemes)
    /\ Nested(scan, lexemes)

-----------------------------------------------------------------------------
(* Sequences *)

\* The elements of a sequence stand at the positions from 1 to its length.
LEMMA SeqFacts ==
  ASSUME NEW s, IsSeq(s)
  PROVE  Len(s) \in Nat /\ DOMAIN s = 1..Len(s) /\ \A n \in 1..Len(s) : s[n] \in ToSet(s)
<1> DEFINE S == ToSet(s)
<1>1. s \in Seq(S) BY DEF IsSeq
<1> HIDE DEF S
<1>2. Len(s) \in Nat /\ DOMAIN s = 1..Len(s) /\ \A n \in 1..Len(s) : s[n] \in S
  BY <1>1, LenProperties, ElementOfSeq
<1>3. QED BY <1>2 DEF S

\* A sequence over any set is one over its own elements.
LEMMA SeqOfOwn ==
  ASSUME NEW S, NEW s \in Seq(S)
  PROVE  IsSeq(s)
<1>1. s \in [1..Len(s) -> S] /\ DOMAIN s = 1..Len(s) /\ Len(s) \in Nat BY LenProperties
<1>2. \A n \in 1..Len(s) : s[n] \in ToSet(s) BY <1>1 DEF ToSet
<1> DEFINE T == ToSet(s)
<1>3. s \in [1..Len(s) -> T] BY <1>1, <1>2
<1> HIDE DEF T
<1>4. s \in Seq(T) BY <1>1, <1>3, IsASeq
<1>5. QED BY <1>4 DEF IsSeq, T

\* Append keeps what was there and adds one element behind it.
LEMMA AppendIsSeq ==
  ASSUME NEW s, IsSeq(s), NEW x
  PROVE  /\ IsSeq(Append(s, x))
         /\ Len(s) \in Nat
         /\ Len(Append(s, x)) = Len(s) + 1
         /\ \A n \in 1..Len(s) : Append(s, x)[n] = s[n]
         /\ Append(s, x)[Len(s) + 1] = x
<1> DEFINE S == ToSet(s) \cup {x}
           T == ToSet(s)
<1>1. s \in Seq(T) /\ T \subseteq S /\ x \in S BY DEF IsSeq
<1> HIDE DEF S, T
<1>2. s \in Seq(S) BY <1>1
<1>3. /\ Append(s, x) \in Seq(S) /\ Len(Append(s, x)) = Len(s) + 1
      /\ \A n \in 1..Len(s) : Append(s, x)[n] = s[n]
      /\ Append(s, x)[Len(s) + 1] = x
  BY <1>1, <1>2, AppendProperties
<1>4. IsSeq(Append(s, x)) BY <1>3, SeqOfOwn
<1>5. QED BY <1>2, <1>3, <1>4, LenProperties

\* Front drops the last element and keeps the others.
LEMMA FrontFacts ==
  ASSUME NEW s, IsSeq(s), s # <<>>
  PROVE  /\ IsSeq(Front(s)) /\ Len(Front(s)) = Len(s) - 1 /\ DOMAIN Front(s) = 1..Len(Front(s))
         /\ \A n \in 1..Len(Front(s)) : n \in 1..Len(s) /\ Front(s)[n] = s[n]
<1> DEFINE S == ToSet(s)
           N == Len(s)
           M == N - 1
           front == Front(s)
<1>1. s \in Seq(S) /\ N \in Nat /\ \A n \in 1..N : s[n] \in S BY SeqFacts DEF IsSeq
<1> HIDE DEF S
<1>2. N # 0 BY <1>1, EmptySeq
<1>3. front = SubSeq(s, 1, M) BY DEF Front
<1> HIDE DEF front, N
<1>4. M \in Nat /\ M \in Int /\ 1 \in Int /\ \A n \in 1..M : n \in 1..N BY <1>1, <1>2
<1>5. \A n \in 1..M : s[n] \in S BY <1>1, <1>4
<1> HIDE DEF M
<1>6. /\ front \in Seq(S) /\ Len(front) = (IF 1 <= M THEN M - 1 + 1 ELSE 0)
      /\ \A n \in 1..(M - 1 + 1) : front[n] = s[1 + n - 1]
  BY <1>3, <1>4, <1>5, SubSeqProperties
<1>7. Len(front) = M /\ \A n \in 1..M : front[n] = s[n]
  <2>1. (IF 1 <= M THEN M - 1 + 1 ELSE 0) = M /\ M - 1 + 1 = M /\ \A n \in 1..M : 1 + n - 1 = n BY <1>4
  <2>2. QED BY <2>1, <1>6
<1>8. DOMAIN front = 1..M BY <1>6, <1>7, LenProperties
<1>9. IsSeq(front) BY <1>6, SeqOfOwn
<1>10. QED BY <1>4, <1>7, <1>8, <1>9 DEF front, M, N

LEMMA EmptyIsSeq == IsSeq(<<>>) /\ Len(<<>>) = 0
<1>1. <<>> \in Seq({}) OBVIOUS
<1>2. QED BY <1>1, SeqOfOwn, EmptySeq

\* Reading one lexeme is appending it.
LEMMA ReadOne ==
  ASSUME NEW lexs, IsSeq(lexs), NEW l
  PROVE  lexs \o <<l>> = Append(lexs, l)
<1> DEFINE S == ToSet(lexs) \cup {l}
           T == ToSet(lexs)
<1>1. lexs \in Seq(T) /\ T \subseteq S /\ l \in S BY DEF IsSeq
<1> HIDE DEF S, T
<1>2. lexs \in Seq(S) /\ l \in S BY <1>1
<1>3. QED BY <1>2, AppendIsConcat

-----------------------------------------------------------------------------
(* Counting *)

\* Counts over next, which is lexs and l.
CountGrows(next, lexs, l, kinds) ==
    /\ Len(next) = Len(lexs) + 1 /\ Len(lexs) \in Nat
    /\ \A n \in 0..Len(lexs) : Count(next, n, kinds) = Count(lexs, n, kinds) /\ Count(lexs, n, kinds) \in Nat
    /\ Count(next, Len(next), kinds) =
          IF l.kind \in kinds THEN Count(lexs, Len(lexs), kinds) + 1 ELSE Count(lexs, Len(lexs), kinds)

\* One lexeme more: the earlier counts stay, the new one counts it if it is of these kinds.
LEMMA CountsGrow ==
  ASSUME NEW lexs, IsSeq(lexs), NEW l, NEW kinds
  PROVE  CountGrows(Append(lexs, l), lexs, l, kinds)
<1> DEFINE next == Append(lexs, l)
           N == Len(lexs)
           Of(s, n) == {i \in 1..n : s[i].kind \in kinds}
<1>1. /\ IsSeq(next) /\ N \in Nat /\ Len(next) = N + 1
      /\ \A n \in 1..N : next[n] = lexs[n]
      /\ next[N + 1] = l
  BY AppendIsSeq
<1> HIDE DEF next, N
<1>2. ASSUME NEW n \in 0..N
      PROVE  Of(next, n) = Of(lexs, n) /\ IsFiniteSet(Of(lexs, n)) /\ Cardinality(Of(lexs, n)) \in Nat
  <2>1. n \in Int /\ 1..n \subseteq 1..N BY <1>1
  <2>2. Of(next, n) = Of(lexs, n) BY <1>1, <2>1
  <2>3. IsFiniteSet(1..n) BY <2>1, FS_Interval
  <2>4. Of(lexs, n) \in SUBSET (1..n) OBVIOUS
  <2>5. IsFiniteSet(Of(lexs, n)) BY <2>3, <2>4, FS_Subset
  <2>6. QED BY <2>2, <2>5, FS_CardinalityType
<1>3. ASSUME NEW n \in 0..N
      PROVE  Count(next, n, kinds) = Count(lexs, n, kinds) /\ Count(lexs, n, kinds) \in Nat
  BY <1>2 DEF Count
<1>4. Of(next, N + 1) = IF l.kind \in kinds THEN Of(lexs, N) \cup {N + 1} ELSE Of(lexs, N)
  <2>1. 1..(N + 1) = (1..N) \cup {N + 1} BY <1>1
  <2>2. QED BY <1>1, <2>1
<1>5. N \in 0..N /\ N + 1 \notin Of(lexs, N) BY <1>1
<1>6. Cardinality(Of(next, N + 1)) =
         IF l.kind \in kinds THEN Cardinality(Of(lexs, N)) + 1 ELSE Cardinality(Of(lexs, N))
  <2> HIDE DEF Of
  <2>1. IsFiniteSet(Of(lexs, N)) BY <1>2, <1>5
  <2>2. Cardinality(Of(lexs, N) \cup {N + 1}) = Cardinality(Of(lexs, N)) + 1 BY <2>1, <1>5, FS_AddElement
  <2>3. QED BY <2>2, <1>4
<1>7. Count(next, Len(next), kinds) =
         IF l.kind \in kinds THEN Count(lexs, N, kinds) + 1 ELSE Count(lexs, N, kinds)
  BY <1>1, <1>6 DEF Count
<1>8. QED BY <1>1, <1>3, <1>7 DEF CountGrows, next, N

\* The same, of the sequence with the lexeme appended.
LEMMA CountAppend ==
  ASSUME NEW lexs, IsSeq(lexs), NEW l, NEW kinds
  PROVE  LET next == Append(lexs, l)
         IN  /\ IsSeq(next) /\ Len(lexs) \in Nat /\ Len(next) = Len(lexs) + 1
             /\ \A n \in 0..Len(lexs) : Count(next, n, kinds) = Count(lexs, n, kinds) /\ Count(lexs, n, kinds) \in Nat
             /\ Count(next, Len(next), kinds) =
                   IF l.kind \in kinds THEN Count(lexs, Len(lexs), kinds) + 1 ELSE Count(lexs, Len(lexs), kinds)
<1> DEFINE next == Append(lexs, l)
<1>1. CountGrows(next, lexs, l, kinds) /\ IsSeq(next) BY CountsGrow, AppendIsSeq
<1> HIDE DEF next
<1>2. /\ IsSeq(next) /\ Len(lexs) \in Nat /\ Len(next) = Len(lexs) + 1
      /\ \A n \in 0..Len(lexs) : Count(next, n, kinds) = Count(lexs, n, kinds) /\ Count(lexs, n, kinds) \in Nat
      /\ Count(next, Len(next), kinds) =
            IF l.kind \in kinds THEN Count(lexs, Len(lexs), kinds) + 1 ELSE Count(lexs, Len(lexs), kinds)
  BY <1>1, Zenon DEF CountGrows
<1>3. QED BY <1>2, Zenon DEF next

\* A value that is read is a node.
LEMMA CountedAppend ==
  ASSUME NEW s, NEW t, NEW lexs, IsSeq(lexs), NEW l, Counted(s, lexs),
         IF l.kind \in ValueKinds THEN t.nodes = s.nodes + 1 /\ s.nodes < MaxNodes ELSE t.nodes = s.nodes
  PROVE  Counted(t, Append(lexs, l))
<1> DEFINE next == Append(lexs, l)
           N == Len(lexs)
<1>1. /\ Len(next) = N + 1 /\ N \in Nat
      /\ \A n \in 0..N : Count(lexs, n, ValueKinds) \in Nat
      /\ Count(next, Len(next), ValueKinds) =
            IF l.kind \in ValueKinds THEN Count(lexs, N, ValueKinds) + 1 ELSE Count(lexs, N, ValueKinds)
  BY CountAppend
<1> HIDE DEF next, N
<1>2. Count(lexs, N, ValueKinds) \in Nat BY <1>1
<1>3. s.nodes = Count(lexs, N, ValueKinds) /\ s.nodes <= MaxNodes BY DEF Counted, N
<1>4. MaxNodes \in Nat BY PayloadConstants
<1> DEFINE a == s.nodes
           b == t.nodes
           c == Count(next, Len(next), ValueKinds)
<1>5. a \in Nat BY <1>2, <1>3
<1>6. CASE l.kind \in ValueKinds
  <2>1. b = a + 1 /\ a < MaxNodes /\ c = a + 1 BY <1>1, <1>3, <1>6
  <2> HIDE DEF a, b, c
  <2>2. b = c /\ b <= MaxNodes BY <2>1, <1>4, <1>5
  <2>3. QED BY <2>2 DEF Counted, next, b, c
<1>7. CASE l.kind \notin ValueKinds
  <2>1. b = c /\ b <= MaxNodes BY <1>1, <1>3, <1>7
  <2>2. QED BY <2>1 DEF Counted, next
<1>8. QED BY <1>6, <1>7

\* An opening bracket goes on the stack, a closing one takes one off.
LEMMA NestedAppend ==
  ASSUME NEW s, NEW t, NEW lexs, IsSeq(lexs), NEW l, Nested(s, lexs), Len(s.stack) \in Nat,
         \/ l.kind \in Opening /\ Len(t.stack) = Len(s.stack) + 1 /\ Len(s.stack) < MaxDepth
         \/ l.kind \in ClosingBrackets /\ Len(t.stack) = Len(s.stack) - 1
         \/ l.kind \notin Opening \cup ClosingBrackets /\ Len(t.stack) = Len(s.stack)
  PROVE  Nested(t, Append(lexs, l))
<1> DEFINE next == Append(lexs, l)
           N == Len(lexs)
           a == Len(s.stack)
           b == Len(t.stack)
<1>1. /\ Len(next) = N + 1 /\ N \in Nat
      /\ \A n \in 0..N : Count(next, n, Opening) = Count(lexs, n, Opening) /\ Count(lexs, n, Opening) \in Nat
      /\ Count(next, Len(next), Opening) =
            IF l.kind \in Opening THEN Count(lexs, N, Opening) + 1 ELSE Count(lexs, N, Opening)
  BY CountAppend
<1>2. /\ \A n \in 0..N : /\ Count(next, n, ClosingBrackets) = Count(lexs, n, ClosingBrackets)
                         /\ Count(lexs, n, ClosingBrackets) \in Nat
      /\ Count(next, Len(next), ClosingBrackets) =
            IF l.kind \in ClosingBrackets THEN Count(lexs, N, ClosingBrackets) + 1
                                          ELSE Count(lexs, N, ClosingBrackets)
  BY CountAppend
<1>3. /\ a = Count(lexs, N, Opening) - Count(lexs, N, ClosingBrackets)
      /\ a <= MaxDepth
      /\ \A n \in 0..(N - 1) : Count(lexs, n, Opening) - Count(lexs, n, ClosingBrackets) <= MaxDepth
  BY DEF Nested
<1>4. MaxDepth \in Nat BY PayloadConstants
<1>5. l.kind \in Opening => l.kind \notin ClosingBrackets BY DEF Opening, ClosingBrackets
<1> HIDE DEF next, N, a, b
<1>6. N \in 0..N BY <1>1
<1>7. ASSUME NEW n \in 0..N
      PROVE  Count(next, n, Opening) - Count(next, n, ClosingBrackets) <= MaxDepth
  <2>1. Count(next, n, Opening) = Count(lexs, n, Opening)
        /\ Count(next, n, ClosingBrackets) = Count(lexs, n, ClosingBrackets)
    BY <1>1, <1>2
  <2>2. n = N \/ n \in 0..(N - 1) BY <1>1
  <2>3. QED BY <2>1, <2>2, <1>3
<1>8. Count(lexs, N, Opening) \in Nat /\ Count(lexs, N, ClosingBrackets) \in Nat
  BY <1>1, <1>2, <1>6
<1>9. \/ l.kind \in Opening /\ b = a + 1 /\ a < MaxDepth
      \/ l.kind \in ClosingBrackets /\ b = a - 1
      \/ l.kind \notin Opening \cup ClosingBrackets /\ b = a
  BY DEF a, b
<1>10. a \in Nat BY DEF a
<1> DEFINE o == Count(lexs, N, Opening)
           c == Count(lexs, N, ClosingBrackets)
           p == Count(next, Len(next), Opening)
           q == Count(next, Len(next), ClosingBrackets)
<1>11. /\ p = IF l.kind \in Opening THEN o + 1 ELSE o
       /\ q = IF l.kind \in ClosingBrackets THEN c + 1 ELSE c
       /\ o \in Nat /\ c \in Nat /\ a = o - c
  BY <1>1, <1>2, <1>3, <1>8
<1> HIDE DEF o, c, p, q
<1>12. b = p - q /\ b <= MaxDepth
  <2>1. CASE l.kind \in Opening /\ b = a + 1 /\ a < MaxDepth BY <2>1, <1>4, <1>5, <1>10, <1>11
  <2>2. CASE l.kind \in ClosingBrackets /\ b = a - 1 BY <2>2, <1>3, <1>4, <1>5, <1>10, <1>11
  <2>3. CASE l.kind \notin Opening \cup ClosingBrackets /\ b = a BY <2>3, <1>3, <1>11
  <2>4. QED BY <1>9, <2>1, <2>2, <2>3
<1>13. 0..(Len(next) - 1) = 0..N BY <1>1
<1>14. QED BY <1>7, <1>12, <1>13 DEF Nested, b, p, q, next

-----------------------------------------------------------------------------
(* The charge *)

\* A slice has room for what is appended to it.
LEMMA CapacityGrows ==
  ASSUME NEW capacity \in Nat, NEW n \in Nat, n <= capacity
  PROVE  CapacityFor(capacity, n) \in Nat /\ n + 1 <= CapacityFor(capacity, n)
<1>1. InitialCapacity \in Nat /\ InitialCapacity >= 1 BY PayloadConstants
<1>2. CASE n # capacity
  <2>1. CapacityFor(capacity, n) = capacity BY <1>2 DEF CapacityFor
  <2>2. QED BY <2>1, <1>2
<1>3. CASE n = capacity /\ capacity = 0
  <2>1. CapacityFor(capacity, n) = InitialCapacity BY <1>3 DEF CapacityFor, NextRetainedCapacity
  <2>2. QED BY <2>1, <1>1, <1>3
<1>4. CASE n = capacity /\ capacity # 0
  <2>1. CapacityFor(capacity, n) = 2 * capacity BY <1>4 DEF CapacityFor, NextRetainedCapacity
  <2>2. QED BY <2>1, <1>4
<1>5. QED BY <1>2, <1>3, <1>4

\* What a grown slice costs more is its new capacity less the old one.
LEMMA Distributes ==
  ASSUME NEW a \in Int, NEW b \in Int, NEW c \in Int
  PROVE  a * c \in Int /\ b * c \in Int /\ (b - a) * c = b * c - a * c
OBVIOUS

\* A charge that was affordable makes up for the growth and stays within the limit.
LEMMA ChargeAdds ==
  ASSUME NEW x \in Int, NEW y, NEW k \in Int, NEW before \in Int, NEW after \in Int, NEW D, NEW rest \in Int,
         NEW c \in Int, NEW d \in Int, NEW v \in Int, NEW limit \in Int,
         D = after - before, d = c + k, y = x + (k + D), k + D <= limit - x, x = before + rest + c + v
  PROVE  y = after + rest + d + v /\ y \in Int /\ y <= limit
OBVIOUS

\* A block of pairs (i, 1), (i, 2), ... that is added to blocks with other first
\* members.
LEMMA BlockAdded ==
  ASSUME NEW S, IsFiniteSet(S), NEW i, NEW k \in Nat, \A x \in S : x[1] # i
  PROVE  /\ IsFiniteSet(S \cup ({i} \X (1..k)))
         /\ Cardinality(S) \in Nat
         /\ Cardinality(S \cup ({i} \X (1..k))) = Cardinality(S) + k
<1> DEFINE T == {i} \X (1..k)
<1>1. IsFiniteSet({i}) /\ Cardinality({i}) = 1 BY FS_Singleton
<1>2. IsFiniteSet(1..k) /\ Cardinality(1..k) = k BY FS_Interval
<1>3. IsFiniteSet(T) /\ Cardinality(T) = Cardinality({i}) * Cardinality(1..k) BY <1>1, <1>2, FS_Product
<1>4. Cardinality(T) = k BY <1>1, <1>2, <1>3
<1>5. S \cap T = {}
  <2>1. \A x \in T : x[1] = i OBVIOUS
  <2> HIDE DEF T
  <2>2. QED BY <2>1
<1> HIDE DEF T
<1>6. IsFiniteSet(S \cup T) /\ Cardinality(S \cup T) = Cardinality(S) + Cardinality(T) - Cardinality(S \cap T)
  BY <1>3, FS_Union
<1>7. Cardinality(S \cap T) = 0 BY <1>5, FS_EmptySet
<1>8. Cardinality(S) \in Nat BY FS_CardinalityType
<1>9. QED BY <1>4, <1>6, <1>7, <1>8 DEF T

\* Charged does not depend on the stack, the path and the nodes.
LEMMA ChargedSame ==
  ASSUME NEW s, NEW t, Charged(s), t.paths = s.paths, t.pathCap = s.pathCap, t.strings = s.strings,
         t.stringCap = s.stringCap, t.structuralBytes = s.structuralBytes
  PROVE  Charged(t)
BY DEF Charged, RetainedKeyBytes, RetainedValueBytes

\* appendPath: a node and, for a member, the bytes of its key.
LEMMA ChargedPath ==
  ASSUME NEW s, NEW t, Charged(s), IsSeq(s.paths), NEW node, KeyLength(node.segment) \in Nat,
         Affordable(s, PathCharge(s, KeyLength(node.segment))),
         t.paths = Append(s.paths, node), t.pathCap = CapacityFor(s.pathCap, Len(s.paths)),
         t.structuralBytes = s.structuralBytes + PathCharge(s, KeyLength(node.segment)),
         t.strings = s.strings, t.stringCap = s.stringCap
  PROVE  Charged(t)
<1> DEFINE N == Len(s.paths)
           k == KeyLength(node.segment)
           a == s.pathCap
           b == t.pathCap
           P == retainedPathNodeBytes
           K == RetainedKeyBytes(s)
           rest == s.stringCap * retainedStringTokenBytes
           v == Cardinality(RetainedValueBytes(s))
           x == s.structuralBytes
           y == t.structuralBytes
<1>1. /\ N \in Nat /\ DOMAIN s.paths = 1..N /\ DOMAIN t.paths = 1..(N + 1) /\ Len(t.paths) = N + 1
      /\ \A n \in 1..N : t.paths[n] = s.paths[n]
      /\ t.paths[N + 1] = node
  BY AppendIsSeq, SeqFacts
<1>2. /\ a \in Nat /\ s.stringCap \in Nat /\ x \in Int
      /\ IsFiniteSet(K) /\ IsFiniteSet(RetainedValueBytes(s))
      /\ x = a * P + rest + Cardinality(K) + v
      /\ N <= a /\ Len(s.strings) <= s.stringCap
  BY DEF Charged
<1>3. RetainedValueBytes(t) = RetainedValueBytes(s) BY DEF RetainedValueBytes
<1>4. P \in Nat /\ MaxStructuralBytes \in Nat /\ rest \in Int /\ v \in Nat
  <2>1. P \in Nat /\ retainedStringTokenBytes \in Nat /\ MaxStructuralBytes \in Nat BY PayloadConstants
  <2>2. rest \in Int BY <2>1, <1>2
  <2>3. QED BY <2>1, <2>2, <1>2, FS_CardinalityType
<1>5. b \in Nat /\ N + 1 <= b BY <1>1, <1>2, CapacityGrows
<1>6. y = x + (k + (b - a) * P) /\ k + (b - a) * P <= MaxStructuralBytes - x /\ k \in Nat
  BY DEF PathCharge, Affordable
<1>7. RetainedKeyBytes(t) = K \cup ({N + 1} \X (1..k))
  <2> DEFINE Block(u, r) == {r} \X (1..KeyLength(u.paths[r].segment))
  <2>1. \A r \in 1..N : Block(t, r) = Block(s, r) BY <1>1
  <2>2. Block(t, N + 1) = {N + 1} \X (1..k) BY <1>1
  <2>3. RetainedKeyBytes(t) = UNION {Block(t, r) : r \in 1..(N + 1)} BY <1>1 DEF RetainedKeyBytes
  <2>4. K = UNION {Block(s, r) : r \in 1..N} BY <1>1 DEF RetainedKeyBytes
  <2>5. 1..(N + 1) = (1..N) \cup {N + 1} BY <1>1
  <2> HIDE DEF Block, K
  <2>6. UNION {Block(t, r) : r \in 1..(N + 1)} = (UNION {Block(t, r) : r \in 1..N}) \cup Block(t, N + 1)
    BY <2>5
  <2>7. UNION {Block(t, r) : r \in 1..N} = UNION {Block(s, r) : r \in 1..N} BY <2>1
  <2>8. QED BY <2>2, <2>3, <2>4, <2>6, <2>7
<1>8. \A z \in K : z[1] # N + 1
  <2>1. \A z \in K : z[1] \in 1..N BY <1>1 DEF RetainedKeyBytes
  <2>2. N + 1 \notin 1..N BY <1>1
  <2> HIDE DEF K
  <2>3. QED BY <2>1, <2>2
<1> DEFINE c == Cardinality(K)
           d == Cardinality(RetainedKeyBytes(t))
<1>9. IsFiniteSet(RetainedKeyBytes(t)) /\ c \in Nat /\ d = c + k
  <2> HIDE DEF K
  <2>1. IsFiniteSet(K) /\ k \in Nat BY <1>2, <1>6
  <2> DEFINE m == N + 1
             block == {m} \X (1..k)
  <2>2. \A z \in K : z[1] # m BY <1>8
  <2> HIDE DEF m, k
  <2>3. IsFiniteSet(K \cup block) /\ Cardinality(K) \in Nat /\ Cardinality(K \cup block) = Cardinality(K) + k
    BY <2>1, <2>2, BlockAdded
  <2>4. QED BY <2>3, <1>7 DEF m
<1>10. x = a * P + rest + c + v BY <1>2
<1> HIDE DEF N, k, a, b, P, K, rest, v, x, y, c, d
<1>11. (b - a) * P = b * P - a * P /\ a * P \in Int /\ b * P \in Int
  <2>1. a \in Int /\ b \in Int /\ P \in Int BY <1>2, <1>4, <1>5
  <2>2. QED BY <2>1, Distributes
<1>12. y = b * P + rest + d + v /\ y \in Int /\ y <= MaxStructuralBytes
  <2> DEFINE aP == a * P
             bP == b * P
             D == (b - a) * P
  <2>1. aP \in Int /\ bP \in Int /\ D = bP - aP BY <1>11
  <2>2. y = x + (k + D) /\ k + D <= MaxStructuralBytes - x /\ x = aP + rest + c + v BY <1>6, <1>10
  <2> HIDE DEF aP, bP, D
  <2>3. y = bP + rest + d + v /\ y \in Int /\ y <= MaxStructuralBytes
    <3>1. x \in Int /\ rest \in Int /\ v \in Int /\ c \in Int /\ d \in Int /\ d = c + k /\ k \in Int BY <1>2, <1>4, <1>6, <1>9
    <3>2. MaxStructuralBytes \in Int BY <1>4
    <3>3. QED BY <2>1, <2>2, <3>1, <3>2, ChargeAdds
  <2>4. QED BY <2>3 DEF bP
<1>13. QED
  BY <1>1, <1>2, <1>3, <1>5, <1>9, <1>12 DEF Charged, N, b, P, rest, v, y, d

\* appendString: a token and the bytes of its value.
LEMMA ChargedString ==
  ASSUME NEW s, NEW t, Charged(s), IsSeq(s.strings), NEW token, NEW k \in Nat, DOMAIN token.value = 1..k,
         Affordable(s, StringCharge(s, k)),
         t.strings = Append(s.strings, token), t.stringCap = CapacityFor(s.stringCap, Len(s.strings)),
         t.structuralBytes = s.structuralBytes + StringCharge(s, k),
         t.paths = s.paths, t.pathCap = s.pathCap
  PROVE  Charged(t)
<1> DEFINE N == Len(s.strings)
           a == s.stringCap
           b == t.stringCap
           P == retainedStringTokenBytes
           V == RetainedValueBytes(s)
           rest == s.pathCap * retainedPathNodeBytes
           v == Cardinality(RetainedKeyBytes(s))
           x == s.structuralBytes
           y == t.structuralBytes
<1>1. /\ N \in Nat /\ DOMAIN s.strings = 1..N /\ DOMAIN t.strings = 1..(N + 1) /\ Len(t.strings) = N + 1
      /\ \A n \in 1..N : t.strings[n] = s.strings[n]
      /\ t.strings[N + 1] = token
  BY AppendIsSeq, SeqFacts
<1>2. /\ a \in Nat /\ s.pathCap \in Nat /\ x \in Int
      /\ IsFiniteSet(V) /\ IsFiniteSet(RetainedKeyBytes(s))
      /\ x = rest + a * P + v + Cardinality(V)
      /\ N <= a /\ Len(s.paths) <= s.pathCap
  BY DEF Charged
<1>3. RetainedKeyBytes(t) = RetainedKeyBytes(s) BY DEF RetainedKeyBytes
<1>4. P \in Nat /\ MaxStructuralBytes \in Nat /\ rest \in Int /\ v \in Nat
  <2>1. P \in Nat /\ retainedPathNodeBytes \in Nat /\ MaxStructuralBytes \in Nat BY PayloadConstants
  <2>2. rest \in Int BY <2>1, <1>2
  <2>3. QED BY <2>1, <2>2, <1>2, FS_CardinalityType
<1>5. b \in Nat /\ N + 1 <= b BY <1>1, <1>2, CapacityGrows
<1>6. y = x + (k + (b - a) * P) /\ k + (b - a) * P <= MaxStructuralBytes - x
  BY DEF StringCharge, Affordable
<1>7. RetainedValueBytes(t) = V \cup ({N + 1} \X (1..k))
  <2> DEFINE Block(u, r) == {r} \X DOMAIN u.strings[r].value
  <2>1. \A r \in 1..N : Block(t, r) = Block(s, r) BY <1>1
  <2>2. Block(t, N + 1) = {N + 1} \X (1..k) BY <1>1
  <2>3. RetainedValueBytes(t) = UNION {Block(t, r) : r \in 1..(N + 1)} BY <1>1 DEF RetainedValueBytes
  <2>4. V = UNION {Block(s, r) : r \in 1..N} BY <1>1 DEF RetainedValueBytes
  <2>5. 1..(N + 1) = (1..N) \cup {N + 1} BY <1>1
  <2> HIDE DEF Block, V
  <2>6. UNION {Block(t, r) : r \in 1..(N + 1)} = (UNION {Block(t, r) : r \in 1..N}) \cup Block(t, N + 1)
    BY <2>5
  <2>7. UNION {Block(t, r) : r \in 1..N} = UNION {Block(s, r) : r \in 1..N} BY <2>1
  <2>8. QED BY <2>2, <2>3, <2>4, <2>6, <2>7
<1>8. \A z \in V : z[1] # N + 1
  <2>1. \A z \in V : z[1] \in 1..N BY <1>1 DEF RetainedValueBytes
  <2>2. N + 1 \notin 1..N BY <1>1
  <2> HIDE DEF V
  <2>3. QED BY <2>1, <2>2
<1> DEFINE c == Cardinality(V)
           d == Cardinality(RetainedValueBytes(t))
<1>9. IsFiniteSet(RetainedValueBytes(t)) /\ c \in Nat /\ d = c + k
  <2> HIDE DEF V
  <2>1. IsFiniteSet(V) BY <1>2
  <2> DEFINE m == N + 1
             block == {m} \X (1..k)
  <2>2. \A z \in V : z[1] # m BY <1>8
  <2> HIDE DEF m
  <2>3. IsFiniteSet(V \cup block) /\ Cardinality(V) \in Nat /\ Cardinality(V \cup block) = Cardinality(V) + k
    BY <2>1, <2>2, BlockAdded
  <2>4. QED BY <2>3, <1>7 DEF m
<1>10. x = rest + a * P + v + c BY <1>2
<1> HIDE DEF N, a, b, P, V, rest, v, x, y, c, d
<1>11. (b - a) * P = b * P - a * P /\ a * P \in Int /\ b * P \in Int
  <2>1. a \in Int /\ b \in Int /\ P \in Int BY <1>2, <1>4, <1>5
  <2>2. QED BY <2>1, Distributes
<1>12. y = rest + b * P + v + d /\ y \in Int /\ y <= MaxStructuralBytes
  <2> DEFINE aP == a * P
             bP == b * P
             D == (b - a) * P
  <2>1. aP \in Int /\ bP \in Int /\ D = bP - aP BY <1>11
  <2>2. y = x + (k + D) /\ k + D <= MaxStructuralBytes - x /\ x = rest + aP + v + c BY <1>6, <1>10
  <2> HIDE DEF aP, bP, D
  <2>3. y = rest + bP + v + d /\ y \in Int /\ y <= MaxStructuralBytes
    <3>1. x \in Int /\ rest \in Int /\ v \in Int /\ c \in Int /\ d \in Int /\ d = c + k BY <1>2, <1>4, <1>9
    <3>2. MaxStructuralBytes \in Int BY <1>4
    <3>3. QED BY <2>1, <2>2, <3>1, <3>2
  <2>4. QED BY <2>3 DEF bP
<1>13. QED
  BY <1>1, <1>2, <1>3, <1>5, <1>9, <1>12 DEF Charged, N, b, P, rest, v, y, d

-----------------------------------------------------------------------------
(* The steps of the scanner *)

SameIndex(s, t) ==
    /\ t.paths = s.paths /\ t.pathCap = s.pathCap
    /\ t.strings = s.strings /\ t.stringCap = s.stringCap
    /\ t.structuralBytes = s.structuralBytes

\* After sets the stack and where the scanner goes on, and nothing else.
LEMMA AfterFields ==
  ASSUME NEW s, DOMAIN s = ScannerFields, NEW stack
  PROVE  /\ DOMAIN After(s, stack) = ScannerFields
         /\ After(s, stack).stack = stack /\ After(s, stack).nodes = s.nodes
         /\ SameIndex(s, After(s, stack))
<1> DEFINE e == IF stack = <<>> THEN "end" ELSE "after"
           p == IF stack = <<>> THEN 0 ELSE Last(stack).path
<1>1. After(s, stack) = [s EXCEPT !.expect = e, !.stack = stack, !.path = p] BY DEF After
<1> HIDE DEF e, p
<1>2. QED BY <1>1 DEF ScannerFields, SameIndex

\* t is s after appending node to the paths.
PathAppended(s, t, node, charge) ==
    /\ DOMAIN t = ScannerFields
    /\ t.stack = s.stack /\ t.nodes = s.nodes
    /\ t.strings = s.strings /\ t.stringCap = s.stringCap
    /\ t.paths = Append(s.paths, node) /\ t.pathCap = CapacityFor(s.pathCap, Len(s.paths))
    /\ t.structuralBytes = s.structuralBytes + charge

\* What appendPath does, field by field.
LEMMA AppendPathFields ==
  ASSUME NEW s, DOMAIN s = ScannerFields, NEW segment, NEW charge
  PROVE  PathAppended(s, [AppendPath(s, segment, charge) EXCEPT !.expect = "value"],
                      [parent |-> s.path, segment |-> segment], charge)
<1> DEFINE paths == Append(s.paths, [parent |-> s.path, segment |-> segment])
           capacity == CapacityFor(s.pathCap, Len(s.paths))
           bytes == s.structuralBytes + charge
           path == Len(s.paths) + 1
<1>1. AppendPath(s, segment, charge) =
        [s EXCEPT !.paths = paths, !.pathCap = capacity, !.structuralBytes = bytes, !.path = path]
  BY DEF AppendPath
<1> HIDE DEF paths, capacity, bytes, path
<1> DEFINE t == [[s EXCEPT !.paths = paths, !.pathCap = capacity, !.structuralBytes = bytes, !.path = path]
                 EXCEPT !.expect = "value"]
<1>2. /\ DOMAIN t = ScannerFields /\ t.stack = s.stack /\ t.nodes = s.nodes
      /\ t.strings = s.strings /\ t.stringCap = s.stringCap
      /\ t.paths = paths /\ t.pathCap = capacity /\ t.structuralBytes = bytes
  BY DEF ScannerFields
<1> HIDE DEF t
<1>3. [AppendPath(s, segment, charge) EXCEPT !.expect = "value"] = t BY <1>1 DEF t
<1>4. PathAppended(s, t, [parent |-> s.path, segment |-> segment], charge)
  BY <1>2 DEF paths, capacity, bytes, PathAppended
<1>5. QED BY <1>3, <1>4

\* What appendString does, field by field.
LEMMA AppendStringFields ==
  ASSUME NEW s, DOMAIN s = ScannerFields, NEW token, NEW charge
  PROVE  LET t == AppendString(s, token, charge)
         IN  /\ DOMAIN t = ScannerFields
             /\ t.stack = s.stack /\ t.nodes = s.nodes
             /\ t.paths = s.paths /\ t.pathCap = s.pathCap
             /\ t.strings = Append(s.strings, token) /\ t.stringCap = CapacityFor(s.stringCap, Len(s.strings))
             /\ t.structuralBytes = s.structuralBytes + charge
<1> DEFINE strings == Append(s.strings, token)
           capacity == CapacityFor(s.stringCap, Len(s.strings))
           bytes == s.structuralBytes + charge
<1>1. AppendString(s, token, charge) =
        [s EXCEPT !.strings = strings, !.stringCap = capacity, !.structuralBytes = bytes]
  BY DEF AppendString
<1> HIDE DEF strings, capacity, bytes
<1>2. QED BY <1>1 DEF ScannerFields, strings, capacity, bytes

\* What a step does to the counters when it reads l.
Reads(s, t, l) ==
    /\ IF l.kind \in ValueKinds THEN t.nodes = s.nodes + 1 /\ s.nodes < MaxNodes ELSE t.nodes = s.nodes
    /\ \/ l.kind \in Opening /\ Len(t.stack) = Len(s.stack) + 1 /\ Len(s.stack) < MaxDepth
       \/ l.kind \in ClosingBrackets /\ Len(t.stack) = Len(s.stack) - 1
       \/ l.kind \notin Opening \cup ClosingBrackets /\ Len(t.stack) = Len(s.stack)

ScannerTyped(s) ==
    /\ DOMAIN s = ScannerFields
    /\ IsSeq(s.paths) /\ IsSeq(s.strings) /\ IsSeq(s.stack)
    /\ \A n \in DOMAIN s.stack : IsFrame(s.stack[n])

\* A step that reads one lexeme keeps the counts and the nesting.
LEMMA ReadsPreserve ==
  ASSUME NEW s, NEW t, NEW lexs, NEW l, IsSeq(lexs), ScannerTyped(s),
         Counted(s, lexs), Nested(s, lexs), Reads(s, t, l)
  PROVE  IsSeq(Append(lexs, l)) /\ Counted(t, Append(lexs, l)) /\ Nested(t, Append(lexs, l))
<1>1. IsSeq(Append(lexs, l)) BY AppendIsSeq
<1>2. Len(s.stack) \in Nat BY SeqFacts DEF ScannerTyped
<1>3. IF l.kind \in ValueKinds THEN t.nodes = s.nodes + 1 /\ s.nodes < MaxNodes ELSE t.nodes = s.nodes
  BY DEF Reads
<1>4. \/ l.kind \in Opening /\ Len(t.stack) = Len(s.stack) + 1 /\ Len(s.stack) < MaxDepth
      \/ l.kind \in ClosingBrackets /\ Len(t.stack) = Len(s.stack) - 1
      \/ l.kind \notin Opening \cup ClosingBrackets /\ Len(t.stack) = Len(s.stack)
  BY DEF Reads
<1>5. Counted(t, Append(lexs, l)) BY <1>3, CountedAppend
<1>6. Nested(t, Append(lexs, l)) BY <1>2, <1>4, NestedAppend
<1>7. QED BY <1>1, <1>5, <1>6

\* So it keeps the invariant, if the charge and the types of the scanner are right.
LEMMA ReadStep ==
  ASSUME IInv, NEW l, Read(<<l>>), Reads(scan, scan', l), ScannerTyped(scan'), Charged(scan')
  PROVE  IInv'
<1>1. IsSeq(lexemes) /\ ScannerTyped(scan) BY DEF IInv, Typed, ScannerTyped
<1>2. lexemes' = Append(lexemes, l) BY <1>1, ReadOne DEF Read
<1> DEFINE s == scan
           t == scan'
           lexs == lexemes
<1>3. Counted(s, lexs) /\ Nested(s, lexs) /\ IsSeq(lexs) /\ ScannerTyped(s) /\ Reads(s, t, l)
  BY <1>1 DEF IInv
<1> HIDE DEF s, t, lexs
<1>4. IsSeq(Append(lexs, l)) /\ Counted(t, Append(lexs, l)) /\ Nested(t, Append(lexs, l))
  BY <1>3, ReadsPreserve
<1>5. QED BY <1>2, <1>4 DEF IInv, Typed, ScannerTyped, t, lexs

\* A step that leaves the body and the scanner alone.
LEMMA FailStep ==
  ASSUME IInv, UNCHANGED <<lexemes, scan>>
  PROVE  IInv'
<1> DEFINE s == scan
           lexs == lexemes
<1>1. scan' = s /\ lexemes' = lexs OBVIOUS
<1>2. Typed' BY DEF IInv, Typed
<1>3. Charged(s) /\ Counted(s, lexs) /\ Nested(s, lexs) BY DEF IInv
<1> HIDE DEF s, lexs
<1>4. Charged(scan') /\ Counted(scan', lexemes') /\ Nested(scan', lexemes') BY <1>1, <1>3
<1>5. QED BY <1>2, <1>4 DEF IInv

\* A scanner that has read nothing retains nothing.
LEMMA InitInv == Init => IInv
<1> SUFFICES ASSUME Init PROVE IInv
  OBVIOUS
<1> DEFINE empty == <<>>
<1>1. IsSeq(empty) /\ Len(empty) = 0 BY EmptyIsSeq
<1>2. DOMAIN empty = {} OBVIOUS
<1>3. /\ lexemes = empty /\ DOMAIN scan = ScannerFields
      /\ scan.stack = empty /\ scan.paths = empty /\ scan.strings = empty
      /\ scan.pathCap = 0 /\ scan.stringCap = 0 /\ scan.structuralBytes = 0 /\ scan.nodes = 0
  BY DEF Init, NewScanner, ScannerFields
<1> HIDE DEF empty
<1>4. Typed BY <1>1, <1>2, <1>3 DEF Typed
<1>5. IsFiniteSet({}) /\ Cardinality({}) = 0 BY FS_EmptySet
<1>6. Charged(scan)
  <2>1. RetainedKeyBytes(scan) = {} /\ RetainedValueBytes(scan) = {}
    BY <1>2, <1>3 DEF RetainedKeyBytes, RetainedValueBytes
  <2>2. 0 * retainedPathNodeBytes = 0 /\ 0 * retainedStringTokenBytes = 0 /\ 0 <= MaxStructuralBytes
    <3>1. retainedPathNodeBytes \in Nat /\ retainedStringTokenBytes \in Nat /\ MaxStructuralBytes \in Nat
      BY PayloadConstants
    <3>2. QED BY <3>1
  <2>3. QED BY <1>1, <1>3, <1>5, <2>1, <2>2 DEF Charged
<1>7. \A kinds : Count(lexemes, 0, kinds) = 0
  <2>1. 1..0 = {} OBVIOUS
  <2>2. ASSUME NEW kinds PROVE {i \in 1..0 : lexemes[i].kind \in kinds} = {} BY <2>1
  <2>3. QED BY <2>2, <1>5 DEF Count
<1>8. Counted(scan, lexemes)
  <2>1. 0 <= MaxNodes
    <3>1. MaxNodes \in Nat BY PayloadConstants
    <3>2. QED BY <3>1
  <2>2. QED BY <1>1, <1>3, <1>7, <2>1 DEF Counted
<1>9. Nested(scan, lexemes)
  <2>1. 0 <= MaxDepth
    <3>1. MaxDepth \in Nat BY PayloadConstants
    <3>2. QED BY <3>1
  <2>2. \A n \in 0..(0 - 1) : FALSE OBVIOUS
  <2>3. QED BY <1>1, <1>3, <1>7, <2>1, <2>2 DEF Nested
<1>10. QED BY <1>4, <1>6, <1>8, <1>9 DEF IInv

\* Each constructor of lexemes gives its kind.
LEMMA Kinds ==
  /\ \A kind : Lexeme(kind).kind = kind
  /\ \A key : KeyLexeme(key).kind = "key"
  /\ \A text : StringLexeme(text).kind = "string"
BY DEF Lexeme, KeyLexeme, StringLexeme

\* The invariant of the scanner a step starts from, and the room it has found.
LEMMA ScannerFacts ==
  ASSUME IInv
  PROVE  /\ ScannerTyped(scan) /\ Charged(scan) /\ Len(scan.stack) \in Nat
         /\ MaxDepth \in Nat
         /\ ValueAllowed => Len(scan.stack) < MaxDepth /\ scan.nodes < MaxNodes
<1>1. ScannerTyped(scan) /\ Charged(scan) BY DEF IInv, Typed, ScannerTyped
<1>2. Len(scan.stack) \in Nat BY <1>1, SeqFacts DEF ScannerTyped
<1>3. MaxDepth \in Nat BY PayloadConstants
<1> DEFINE L == Len(scan.stack)
<1>4. ValueAllowed => L + 1 <= MaxDepth /\ scan.nodes < MaxNodes BY DEF ValueAllowed, Depth
<1> HIDE DEF L
<1>5. L \in Nat BY <1>2 DEF L
<1>6. L + 1 <= MaxDepth => L < MaxDepth BY <1>3, <1>5
<1>7. QED BY <1>1, <1>2, <1>3, <1>4, <1>6 DEF L

\* A position of a sequence with one more element is an old one or the new one.
LEMMA NextIndex ==
  ASSUME NEW N \in Nat, NEW n \in 1..(N + 1)
  PROVE  n \in 1..N \/ n = N + 1
OBVIOUS

\* An interval from 1 determines its length.
LEMMA IntervalEqual ==
  ASSUME NEW m \in Nat, NEW n \in Nat, 1..m = 1..n
  PROVE  m = n
<1>1. CASE m < n
  <2>1. n \in 1..n /\ n \notin 1..m BY <1>1
  <2>2. QED BY <2>1
<1>2. CASE n < m
  <2>1. m \in 1..m /\ m \notin 1..n BY <1>2
  <2>2. QED BY <2>1
<1>3. QED BY <1>1, <1>2

\* A pair is two singletons in a row.
LEMMA PairIsConcat ==
  ASSUME NEW S, NEW a \in S, NEW b \in S
  PROVE  <<a>> \o <<b>> = <<a, b>>
<1> DEFINE u == <<a>>
           v == <<b>>
           w == <<a, b>>
<1>1. u \in Seq(S) /\ v \in Seq(S) /\ w \in Seq(S) OBVIOUS
<1>2. Len(u) = 1 /\ Len(v) = 1 /\ Len(w) = 2 /\ u[1] = a /\ v[1] = b /\ w[1] = a /\ w[2] = b
  OBVIOUS
<1> HIDE DEF u, v, w
<1>3. u \o v \in Seq(S) /\ Len(u \o v) = 2 /\ (u \o v)[1] = a /\ (u \o v)[2] = b
  <2>1. /\ u \o v \in Seq(S)
        /\ Len(u \o v) = Len(u) + Len(v)
        /\ \A i \in 1..(Len(u) + Len(v)) :
              (u \o v)[i] = IF i <= Len(u) THEN u[i] ELSE v[i - Len(u)]
    BY <1>1, ConcatProperties
  <2>2. QED BY <1>2, <2>1
<1> DEFINE x == u \o v
<1> HIDE DEF x
<1>4. x \in Seq(S) /\ Len(x) = Len(w) /\ \A i \in 1..Len(x) : x[i] = w[i]
  BY <1>2, <1>3 DEF x
<1>5. x = w BY <1>1, <1>4, SeqEqual
<1>6. QED BY <1>5 DEF u, v, w, x

\* Reading two lexemes, a key and its colon, is appending one after the other.
LEMMA ReadTwo ==
  ASSUME NEW lexs, IsSeq(lexs), NEW a, NEW b
  PROVE  lexs \o <<a, b>> = Append(Append(lexs, a), b)
<1> DEFINE S == ToSet(lexs) \cup {a, b}
           T == ToSet(lexs)
<1>1. lexs \in Seq(T) /\ T \subseteq S /\ a \in S /\ b \in S BY DEF IsSeq
<1> HIDE DEF S, T
<1>2. lexs \in Seq(S) /\ a \in S /\ b \in S BY <1>1
<1>3. <<a>> \in Seq(S) /\ <<b>> \in Seq(S) BY <1>2
<1>4. Append(lexs, a) = lexs \o <<a>> /\ Append(lexs, a) \in Seq(S) BY <1>2, AppendIsConcat, AppendProperties
<1>5. Append(Append(lexs, a), b) = Append(lexs, a) \o <<b>> BY <1>2, <1>4, AppendIsConcat
<1>6. (lexs \o <<a>>) \o <<b>> = lexs \o (<<a>> \o <<b>>) BY <1>2, <1>3, ConcatAssociative
<1>7. <<a>> \o <<b>> = <<a, b>> BY <1>2, PairIsConcat
<1>8. QED BY <1>4, <1>5, <1>6, <1>7

\* An opening bracket is a node and a frame; nothing is charged.
LEMMA OpenContainerStep ==
  ASSUME IInv, NEW kind \in {"{", "["}, OpenContainer(kind)
  PROVE  IInv'
<1> DEFINE s == scan
           t == scan'
           l == Lexeme(kind)
           frame == [kind |-> kind, index |-> 0, path |-> s.path]
           stack == Append(s.stack, frame)
<1>1. /\ Read(<<l>>) /\ ValueAllowed
      /\ t = [s EXCEPT !.nodes = s.nodes + 1, !.expect = "first", !.stack = stack]
  BY DEF OpenContainer
<1>2. ScannerTyped(s) /\ Charged(s) /\ Len(s.stack) < MaxDepth /\ s.nodes < MaxNodes
  BY <1>1, ScannerFacts
<1>3. l.kind \in Opening /\ l.kind \in ValueKinds BY Kinds DEF Opening, ValueKinds
<1>4. /\ IsSeq(stack) /\ Len(s.stack) \in Nat /\ Len(stack) = Len(s.stack) + 1
      /\ \A n \in 1..Len(s.stack) : stack[n] = s.stack[n]
      /\ stack[Len(s.stack) + 1] = frame
  BY <1>2, AppendIsSeq DEF ScannerTyped
<1>5. IsFrame(frame) BY DEF IsFrame, Opening
<1> HIDE DEF frame
<1>6. \A n \in DOMAIN stack : IsFrame(stack[n])
  <2>1. DOMAIN s.stack = 1..Len(s.stack) /\ DOMAIN stack = 1..(Len(s.stack) + 1)
    BY <1>2, <1>4, SeqFacts DEF ScannerTyped
  <2>2. \A n \in 1..Len(s.stack) : IsFrame(s.stack[n]) BY <1>2, <2>1 DEF ScannerTyped
  <2> HIDE DEF stack
  <2>3. ASSUME NEW n \in 1..(Len(s.stack) + 1) PROVE IsFrame(stack[n])
    <3> DEFINE N == Len(s.stack)
    <3>1. N \in Nat /\ n \in 1..(N + 1) BY <1>4
    <3> HIDE DEF N
    <3>2. n \in 1..N \/ n = N + 1 BY <3>1, NextIndex
    <3>3. QED BY <3>2, <2>2, <1>4, <1>5 DEF N
  <2>4. QED BY <2>1, <2>3
<1> HIDE DEF stack
<1> DEFINE nodes == s.nodes + 1
<1>7. t = [s EXCEPT !.nodes = nodes, !.expect = "first", !.stack = stack] BY <1>1
<1> HIDE DEF nodes
<1>8. DOMAIN t = ScannerFields /\ t.stack = stack /\ t.nodes = nodes /\ SameIndex(s, t)
  BY <1>2, <1>7 DEF ScannerTyped, ScannerFields, SameIndex
<1>9. ScannerTyped(t) BY <1>2, <1>4, <1>6, <1>8 DEF ScannerTyped, SameIndex
<1>10. Charged(t) BY <1>2, <1>8, ChargedSame DEF SameIndex
<1>11. Reads(s, t, l) BY <1>2, <1>3, <1>4, <1>8 DEF Reads, nodes
<1>12. QED BY <1>1, <1>9, <1>10, <1>11, ReadStep

\* A number or a literal is a node.
LEMMA ReadScalarStep == IInv /\ ReadScalar => IInv'
<1> SUFFICES ASSUME IInv, ReadScalar PROVE IInv'
  OBVIOUS
<1> DEFINE s == scan
           t == scan'
           l == Lexeme("scalar")
           nodes == s.nodes + 1
           u == [s EXCEPT !.nodes = nodes]
<1>1. Read(<<l>>) /\ ValueAllowed /\ t = After(u, s.stack)
  BY DEF ReadScalar
<1>2. ScannerTyped(s) /\ Charged(s) /\ s.nodes < MaxNodes
  BY <1>1, ScannerFacts
<1>3. l.kind \in ValueKinds /\ l.kind \notin Opening \cup ClosingBrackets
  BY Kinds DEF Opening, ClosingBrackets, ValueKinds
<1> HIDE DEF nodes
<1>4. DOMAIN u = ScannerFields /\ u.nodes = nodes /\ SameIndex(s, u)
  BY <1>2 DEF ScannerTyped, ScannerFields, SameIndex
<1> HIDE DEF u
<1>5. DOMAIN t = ScannerFields /\ t.stack = s.stack /\ t.nodes = nodes /\ SameIndex(u, t)
  BY <1>1, <1>4, AfterFields
<1>6. SameIndex(s, t) BY <1>4, <1>5 DEF SameIndex
<1>7. ScannerTyped(t) BY <1>2, <1>5, <1>6 DEF ScannerTyped, SameIndex
<1>8. Charged(t) BY <1>2, <1>6, ChargedSame DEF SameIndex
<1>9. Reads(s, t, l) BY <1>2, <1>3, <1>5 DEF Reads, nodes
<1>10. QED BY <1>1, <1>7, <1>8, <1>9, ReadStep

\* A string is a node; its token and its bytes are charged.
LEMMA ReadStringStep ==
  ASSUME IInv, NEW text \in Texts, ReadString(text)
  PROVE  IInv'
<1> DEFINE s == scan
           t == scan'
           l == StringLexeme(text)
           nodes == s.nodes + 1
           u == [s EXCEPT !.nodes = nodes]
           start == Len(Bytes(lexemes))
           token == [value |-> Decode(text), start |-> start, end |-> start + Len(Raw(text)),
                     parentKind |-> Parent, depth |-> Depth, pathRef |-> s.path]
           k == Len(text)
           charge == StringCharge(s, k)
           v == AppendString(u, token, charge)
<1>1. Read(<<l>>) /\ ValueAllowed /\ Affordable(s, charge) /\ t = After(v, s.stack)
  BY DEF ReadString
<1>2. ScannerTyped(s) /\ Charged(s) /\ s.nodes < MaxNodes
  BY <1>1, ScannerFacts
<1>3. l.kind \in ValueKinds /\ l.kind \notin Opening \cup ClosingBrackets
  BY Kinds DEF Opening, ClosingBrackets, ValueKinds
<1>4. k \in Nat /\ DOMAIN token.value = 1..k
  <2> DEFINE U == UNION {ToSet(other) : other \in Texts}
  <2>1. text \in Seq(U) BY PayloadConstants
  <2> HIDE DEF U
  <2>2. k \in Nat /\ DOMAIN text = 1..k BY <2>1, LenProperties
  <2>3. DOMAIN Decode(text) = DOMAIN text BY DEF Decode
  <2>4. token.value = Decode(text) OBVIOUS
  <2>5. QED BY <2>2, <2>3, <2>4
<1> HIDE DEF nodes, token, k
<1>5. DOMAIN u = ScannerFields /\ u.nodes = nodes /\ u.stack = s.stack /\ SameIndex(s, u)
  BY <1>2 DEF ScannerTyped, ScannerFields, SameIndex
<1> HIDE DEF u, charge
<1>6. /\ DOMAIN v = ScannerFields
      /\ v.stack = u.stack /\ v.nodes = u.nodes
      /\ v.paths = u.paths /\ v.pathCap = u.pathCap
      /\ v.strings = Append(u.strings, token) /\ v.stringCap = CapacityFor(u.stringCap, Len(u.strings))
      /\ v.structuralBytes = u.structuralBytes + charge
  BY <1>5, AppendStringFields
<1> HIDE DEF v
<1>7. DOMAIN t = ScannerFields /\ t.stack = s.stack /\ t.nodes = v.nodes /\ SameIndex(v, t)
  BY <1>1, <1>6, AfterFields
<1>8. /\ t.paths = s.paths /\ t.pathCap = s.pathCap
      /\ t.strings = Append(s.strings, token) /\ t.stringCap = CapacityFor(s.stringCap, Len(s.strings))
      /\ t.structuralBytes = s.structuralBytes + charge
      /\ t.nodes = nodes
  BY <1>5, <1>6, <1>7 DEF SameIndex
<1>9. IsSeq(s.paths) /\ IsSeq(s.strings) /\ IsSeq(s.stack) /\ \A n \in DOMAIN s.stack : IsFrame(s.stack[n])
  BY <1>2 DEF ScannerTyped
<1>10. IsSeq(Append(s.strings, token)) BY <1>9, AppendIsSeq
<1>11. ScannerTyped(t)
  <2> DEFINE strings == Append(s.strings, token)
  <2>1. IsSeq(strings) /\ t.strings = strings BY <1>8, <1>10
  <2> HIDE DEF strings
  <2>2. QED BY <1>7, <1>8, <1>9, <2>1 DEF ScannerTyped
<1>12. Charged(t)
  <2> HIDE DEF s, t
  <2>1. QED BY <1>1, <1>2, <1>4, <1>8, <1>9, ChargedString DEF charge
<1>13. Reads(s, t, l) BY <1>2, <1>3, <1>7, <1>8 DEF Reads, nodes
<1>14. QED BY <1>1, <1>11, <1>12, <1>13, ReadStep

\* A new path node, as EnterMember and EnterElement add it.
LEMMA PathAdded ==
  ASSUME IInv, NEW segment, KeyLength(segment) \in Nat,
         Affordable(scan, PathCharge(scan, KeyLength(segment))),
         scan' = [AppendPath(scan, segment, PathCharge(scan, KeyLength(segment))) EXCEPT !.expect = "value"]
  PROVE  /\ ScannerTyped(scan') /\ Charged(scan')
         /\ scan'.nodes = scan.nodes /\ scan'.stack = scan.stack
<1> DEFINE s == scan
           t == scan'
           node == [parent |-> s.path, segment |-> segment]
           charge == PathCharge(s, KeyLength(segment))
<1>1. ScannerTyped(s) /\ Charged(s) BY ScannerFacts
<1>2. /\ DOMAIN s = ScannerFields
      /\ IsSeq(s.paths) /\ IsSeq(s.strings) /\ IsSeq(s.stack) /\ \A n \in DOMAIN s.stack : IsFrame(s.stack[n])
  BY <1>1 DEF ScannerTyped
<1>3. /\ DOMAIN t = ScannerFields
      /\ t.stack = s.stack /\ t.nodes = s.nodes
      /\ t.strings = s.strings /\ t.stringCap = s.stringCap
      /\ t.paths = Append(s.paths, node) /\ t.pathCap = CapacityFor(s.pathCap, Len(s.paths))
      /\ t.structuralBytes = s.structuralBytes + charge
  <2> HIDE DEF charge
  <2>1. t = [AppendPath(s, segment, charge) EXCEPT !.expect = "value"] BY DEF charge
  <2>2. PathAppended(s, [AppendPath(s, segment, charge) EXCEPT !.expect = "value"], node, charge)
    BY <1>2, AppendPathFields
  <2>3. PathAppended(s, t, node, charge) BY <2>1, <2>2
  <2> HIDE DEF s, t, node
  <2>4. QED BY <2>3 DEF PathAppended
<1>4. node.segment = segment OBVIOUS
<1> HIDE DEF node
<1>5. IsSeq(Append(s.paths, node)) BY <1>2, AppendIsSeq
<1>6. ScannerTyped(t)
  <2> DEFINE paths == Append(s.paths, node)
  <2>1. IsSeq(paths) /\ t.paths = paths BY <1>3, <1>5
  <2> HIDE DEF paths
  <2>2. QED BY <1>2, <1>3, <2>1 DEF ScannerTyped
<1>7. Charged(t)
  <2>1. /\ KeyLength(node.segment) \in Nat
        /\ Affordable(s, PathCharge(s, KeyLength(node.segment)))
        /\ charge = PathCharge(s, KeyLength(node.segment))
    BY <1>4
  <2>2. IsSeq(s.paths) /\ Charged(s) BY <1>1, <1>2
  <2> HIDE DEF s, t, charge
  <2>3. QED BY <1>3, <2>1, <2>2, ChargedPath
<1>8. QED BY <1>3, <1>6, <1>7

\* A key and its colon: the path node and the bytes of the key are charged.
LEMMA EnterMemberStep ==
  ASSUME IInv, NEW k \in Keys, EnterMember(k)
  PROVE  IInv'
<1> DEFINE s == scan
           t == scan'
           a == KeyLexeme(k)
           b == Lexeme(":")
           lexs == lexemes
           one == Append(lexs, a)
           two == Append(one, b)
<1>1. KeyLength(Key(k)) = KeyBytes[k] /\ KeyBytes[k] \in Nat
  BY PayloadConstants DEF KeyLength, Key
<1>2. /\ Affordable(scan, PathCharge(scan, KeyLength(Key(k))))
      /\ scan' = [AppendPath(scan, Key(k), PathCharge(scan, KeyLength(Key(k)))) EXCEPT !.expect = "value"]
      /\ lexemes' = lexs \o <<a, b>>
  BY <1>1 DEF EnterMember, Read
<1>3. ScannerTyped(t) /\ Charged(t) /\ t.nodes = s.nodes /\ t.stack = s.stack
  <2> DEFINE segment == Key(k)
  <2>1. KeyLength(segment) \in Nat BY <1>1
  <2> HIDE DEF segment
  <2>2. QED BY <1>2, <2>1, PathAdded DEF segment
<1>4. IsSeq(lexs) /\ ScannerTyped(s) /\ Counted(s, lexs) /\ Nested(s, lexs)
  BY DEF IInv, Typed, ScannerTyped
<1>5. /\ a.kind \notin ValueKinds /\ a.kind \notin Opening \cup ClosingBrackets
      /\ b.kind \notin ValueKinds /\ b.kind \notin Opening \cup ClosingBrackets
  BY Kinds DEF ValueKinds, Opening, ClosingBrackets
<1> HIDE DEF a, b
<1>6. lexs \o <<a, b>> = two BY <1>4, ReadTwo
<1>7. Reads(s, s, a) /\ Reads(s, t, b) BY <1>3, <1>5 DEF Reads
<1> HIDE DEF s, t, lexs
<1>8. IsSeq(one) /\ Counted(s, one) /\ Nested(s, one)
  BY <1>4, <1>7, ReadsPreserve
<1> HIDE DEF one
<1>9. IsSeq(two) /\ Counted(t, two) /\ Nested(t, two)
  BY <1>4, <1>7, <1>8, ReadsPreserve
<1> HIDE DEF two
<1>10. lexemes' = two BY <1>2, <1>6
<1>11. QED BY <1>3, <1>9, <1>10 DEF IInv, Typed, ScannerTyped, t

\* An element: a path node without a key is charged, nothing is read.
LEMMA EnterElementStep == IInv /\ EnterElement => IInv'
<1> SUFFICES ASSUME IInv, EnterElement PROVE IInv'
  OBVIOUS
<1> DEFINE segment == Index(Top.index)
           s == scan
           t == scan'
           lexs == lexemes
<1>1. KeyLength(segment) = 0 BY DEF KeyLength, Index
<1>2. /\ Affordable(scan, PathCharge(scan, KeyLength(segment)))
      /\ scan' = [AppendPath(scan, segment, PathCharge(scan, KeyLength(segment))) EXCEPT !.expect = "value"]
      /\ lexemes' = lexs
  BY <1>1 DEF EnterElement
<1>3. KeyLength(segment) \in Nat BY <1>1
<1> HIDE DEF segment
<1>4. ScannerTyped(t) /\ Charged(t) /\ t.nodes = s.nodes /\ t.stack = s.stack
  BY <1>2, <1>3, PathAdded
<1>5. IsSeq(lexs) /\ Counted(s, lexs) /\ Nested(s, lexs) BY DEF IInv, Typed
<1> HIDE DEF s, t, lexs
<1>6. Counted(t, lexs) /\ Nested(t, lexs) BY <1>4, <1>5 DEF Counted, Nested
<1>7. QED BY <1>2, <1>4, <1>5, <1>6 DEF IInv, Typed, ScannerTyped, t

\* The stack after a comma: one more element in the innermost frame.
AfterComma(stack, after) ==
    /\ IsSeq(after) /\ Len(after) = Len(stack) /\ DOMAIN after = 1..Len(stack)
    /\ \A n \in 1..Len(stack) : IsFrame(after[n]) /\ (n # Len(stack) => after[n] = stack[n])
    /\ Len(stack) # 0 => /\ after[Len(stack)].kind = stack[Len(stack)].kind
                         /\ after[Len(stack)].path = stack[Len(stack)].path
                         /\ after[Len(stack)].index = stack[Len(stack)].index + 1

\* A comma counts in the top frame and leaves the others as they were.
LEMMA CommaCounted ==
  ASSUME NEW stack, IsSeq(stack), \A n \in 1..Len(stack) : IsFrame(stack[n])
  PROVE  AfterComma(stack, [stack EXCEPT ![Len(stack)].index = @ + 1])
<1> DEFINE N == Len(stack)
           after == [stack EXCEPT ![N].index = @ + 1]
<1>1. N \in Nat /\ DOMAIN stack = 1..N BY SeqFacts
<1>2. DOMAIN after = 1..N BY <1>1
<1>3. ASSUME NEW n \in 1..N
      PROVE  /\ IsFrame(after[n]) /\ (n # N => after[n] = stack[n])
             /\ n = N => /\ after[n].kind = stack[n].kind /\ after[n].path = stack[n].path
                         /\ after[n].index = stack[n].index + 1
  <2> DEFINE f == stack[n]
             i == f.index + 1
  <2>1. after[n] = IF n = N THEN [f EXCEPT !.index = i] ELSE f BY <1>1
  <2>2. IsFrame(f) OBVIOUS
  <2> HIDE DEF f, i, after
  <2>3. IsFrame([f EXCEPT !.index = i]) BY <2>2 DEF IsFrame
  <2>4. DOMAIN f = {"kind", "index", "path"} BY <2>2 DEF IsFrame
  <2> DEFINE g == [f EXCEPT !.index = i]
  <2>5. g.kind = f.kind /\ g.path = f.path /\ g.index = i BY <2>4
  <2> HIDE DEF g
  <2>6. after[n] = IF n = N THEN g ELSE f BY <2>1 DEF g
  <2>7. QED BY <2>2, <2>3, <2>5, <2>6 DEF f, i, g
<1>4. IsSeq(after) /\ Len(after) = N
  <2> DEFINE S == {after[n] : n \in 1..N}
  <2>1. after = [n \in 1..N |-> after[n]] BY <1>1
  <2> HIDE DEF after
  <2>2. after \in [1..N -> S] BY <2>1
  <2> HIDE DEF S, N
  <2>3. after \in Seq(S) BY <1>1, <2>2, IsASeq
  <2>4. DOMAIN after = 1..Len(after) /\ Len(after) \in Nat BY <2>3, LenProperties
  <2>5. 1..Len(after) = 1..N BY <1>2, <2>4
  <2>6. QED BY <2>3, <2>4, <2>5, <1>1, IntervalEqual, SeqOfOwn
<1>5. N # 0 => N \in 1..N
  <2> HIDE DEF N
  <2>1. QED BY <1>1
<1> HIDE DEF after
<1>6. AfterComma(stack, after) BY <1>2, <1>3, <1>4, <1>5 DEF AfterComma
<1>7. QED BY <1>6 DEF after

\* A comma changes neither counts nor charge.
LEMMA CommaStep == IInv /\ Comma => IInv'
<1> SUFFICES ASSUME IInv, Comma PROVE IInv'
  OBVIOUS
<1> DEFINE s == scan
           t == scan'
           l == Lexeme(",")
           N == Len(s.stack)
           stack == [s.stack EXCEPT ![N].index = @ + 1]
<1>1. Read(<<l>>) /\ t = [s EXCEPT !.expect = "next", !.stack = stack]
  BY DEF Comma
<1>2. ScannerTyped(s) /\ Charged(s) BY ScannerFacts
<1>3. l.kind \notin ValueKinds /\ l.kind \notin Opening \cup ClosingBrackets
  BY Kinds DEF Opening, ClosingBrackets, ValueKinds
<1>4. IsSeq(s.stack) /\ N \in Nat /\ DOMAIN s.stack = 1..N /\ \A n \in 1..N : IsFrame(s.stack[n])
  BY <1>2, SeqFacts DEF ScannerTyped
<1>5. IsSeq(stack) /\ Len(stack) = N /\ DOMAIN stack = 1..N /\ \A n \in 1..N : IsFrame(stack[n])
  BY <1>4, CommaCounted DEF AfterComma
<1> HIDE DEF stack
<1>7. DOMAIN t = ScannerFields /\ t.stack = stack /\ t.nodes = s.nodes /\ SameIndex(s, t)
  BY <1>1, <1>2 DEF ScannerTyped, ScannerFields, SameIndex
<1>8. ScannerTyped(t) BY <1>2, <1>5, <1>7 DEF ScannerTyped, SameIndex
<1>9. Charged(t) BY <1>2, <1>7, ChargedSame DEF SameIndex
<1>10. Reads(s, t, l) BY <1>3, <1>5, <1>7 DEF Reads
<1>11. QED BY <1>1, <1>8, <1>9, <1>10, ReadStep

\* A closing bracket takes its frame off the stack.
LEMMA CloseStep == IInv /\ Close => IInv'
<1> SUFFICES ASSUME IInv, Close PROVE IInv'
  OBVIOUS
<1> DEFINE s == scan
           t == scan'
           l == Lexeme(Closing(Top.kind))
           N == Len(s.stack)
           stack == Front(s.stack)
<1>1. Read(<<l>>) /\ s.stack # <<>> /\ t = After(s, stack)
  BY DEF Close
<1>2. ScannerTyped(s) /\ Charged(s) BY ScannerFacts
<1>3. IsSeq(s.stack) /\ N \in Nat /\ DOMAIN s.stack = 1..N /\ \A n \in 1..N : IsFrame(s.stack[n])
  BY <1>2, SeqFacts DEF ScannerTyped
<1>4. N # 0
  <2>1. s.stack \in Seq(ToSet(s.stack)) BY <1>3 DEF IsSeq
  <2>2. QED BY <1>1, <2>1, EmptySeq
<1>5. IsFrame(Top)
  <2>1. N \in 1..N BY <1>3, <1>4
  <2>2. Top = s.stack[N] BY DEF Top, Last
  <2>3. QED BY <2>1, <2>2, <1>3
<1>6. Closing(Top.kind) \in ClosingBrackets
  BY <1>5 DEF IsFrame, Opening, Closing, ClosingBrackets
<1>7. l.kind \in ClosingBrackets /\ l.kind \notin ValueKinds
  BY <1>6, Kinds DEF ClosingBrackets, ValueKinds
<1>8. IsSeq(stack) /\ Len(stack) = N - 1 /\ \A n \in DOMAIN stack : IsFrame(stack[n])
  <2>1. /\ IsSeq(stack) /\ Len(stack) = N - 1 /\ DOMAIN stack = 1..Len(stack)
        /\ \A n \in 1..Len(stack) : n \in 1..N /\ stack[n] = s.stack[n]
    BY <1>1, <1>3, FrontFacts
  <2> HIDE DEF stack, N
  <2>2. QED BY <2>1, <1>3
<1> HIDE DEF stack
<1>9. DOMAIN t = ScannerFields /\ t.stack = stack /\ t.nodes = s.nodes /\ SameIndex(s, t)
  BY <1>1, <1>2, AfterFields DEF ScannerTyped
<1>10. ScannerTyped(t) BY <1>2, <1>8, <1>9 DEF ScannerTyped, SameIndex
<1>11. Charged(t) BY <1>2, <1>9, ChargedSame DEF SameIndex
<1>12. Reads(s, t, l) BY <1>7, <1>8, <1>9 DEF Reads
<1>13. QED BY <1>1, <1>10, <1>11, <1>12, ReadStep

\* Every step of a scan, of Replace too, keeps the invariant.
LEMMA NextInv == IInv /\ [Next]_vars => IInv'
<1> SUFFICES ASSUME IInv, [Next]_vars PROVE IInv'
  OBVIOUS
<1>1. CASE \/ BodyTooLarge \/ Cancelled \/ Malformed \/ Scanned \/ ValueRefused \/ ElementRefused
           \/ \E text \in Texts : StringRefused(text)
           \/ \E k \in Keys : MemberRefused(k)
           \/ \E reqs \in RequestLists : Replace(reqs) \/ ReplaceFails(reqs)
           \/ UNCHANGED vars
  <2>1. UNCHANGED <<lexemes, scan>>
    BY <1>1 DEF BodyTooLarge, Cancelled, Malformed, Scanned, ValueRefused, ElementRefused, StringRefused,
                MemberRefused, Replace, ReplaceFails, Fail, vars
  <2>2. QED BY <2>1, FailStep
<1>2. CASE ReadScalar BY <1>2, ReadScalarStep
<1>3. CASE \E kind \in {"{", "["} : OpenContainer(kind) BY <1>3, OpenContainerStep
<1>4. CASE \E text \in Texts : ReadString(text) BY <1>4, ReadStringStep
<1>5. CASE \E k \in Keys : EnterMember(k) BY <1>5, EnterMemberStep
<1>6. CASE EnterElement BY <1>6, EnterElementStep
<1>7. CASE Comma BY <1>7, CommaStep
<1>8. CASE Close BY <1>8, CloseStep
<1>9. QED BY <1>1, <1>2, <1>3, <1>4, <1>5, <1>6, <1>7, <1>8 DEF Next

-----------------------------------------------------------------------------
(* The theorems *)

\* The invariant implies the property.
LEMMA IndexCharged == IInv => RetainedIsCharged
<1> SUFFICES ASSUME IInv PROVE RetainedIsCharged
  OBVIOUS
<1> DEFINE N == Len(lexemes)
<1>1. N \in Nat /\ DOMAIN lexemes = 1..N BY SeqFacts DEF IInv, Typed
<1>2. Count(lexemes, N, ValueKinds) = Cardinality(ValuesRead)
  BY <1>1 DEF Count, ValueKinds, ValuesRead
<1>3. scan.nodes = Cardinality(ValuesRead) /\ scan.nodes <= MaxNodes
  BY <1>2 DEF IInv, Counted
<1>4. ASSUME NEW i \in DOMAIN lexemes PROVE Level(lexemes, i) <= MaxDepth
  <2>1. i - 1 \in 0..(N - 1) BY <1>1
  <2>2. Level(lexemes, i) = Count(lexemes, i - 1, Opening) - Count(lexemes, i - 1, ClosingBrackets)
    BY DEF Level, OpensAt, ClosesAt, Count, Opening, ClosingBrackets
  <2>3. QED BY <2>1, <2>2 DEF IInv, Nested
<1>5. QED BY <1>3, <1>4 DEF IInv, Charged, RetainedIsCharged

\* In every state of a scan the counters of the scanner are those of what it
\* holds: the charge that of its slices, keys and values, the nodes the values
\* read, the stack the brackets that are open.
THEOREM InvariantHolds == Spec => []IInv
<1>1. Init => IInv BY InitInv
<1>2. IInv /\ [Next]_vars => IInv' BY NextInv
<1>3. QED BY <1>1, <1>2, PTL DEF Spec

\* Whatever the body and the limits are, what the scanner retains was paid for
\* before it was allocated, at the capacity of its slices, and never exceeds the
\* structural budget, the node limit or the depth limit (retain, appendPath,
\* appendString, value).
THEOREM RetainedIsChargedHolds == Spec => []RetainedIsCharged
<1>1. IInv => RetainedIsCharged BY IndexCharged
<1>2. QED BY <1>1, InvariantHolds, PTL

-----------------------------------------------------------------------------
(* Induction over the natural numbers: what is proved is a set *)

\* A set of natural numbers that is not empty has a least element.
LEMMA LeastElement ==
  ASSUME NEW T \in SUBSET Nat, T # {}
  PROVE  \E x \in T : \A y \in T : x <= y
<1> DEFINE R == OpToRel(<, Nat)
<1>1. IsWellFoundedOn(R, Nat)
  BY NatLessThanWellFounded
<1>2. \E x \in T : \A y \in T : ~(<<y, x>> \in R)
  <2> HIDE DEF R
  <2> QED BY <1>1, WFMin
<1>3. ASSUME NEW x \in Nat, NEW y \in Nat, y < x PROVE <<y, x>> \in R
  <2>1. <<y, x>>[1] < <<y, x>>[2] /\ <<y, x>> \in Nat \X Nat
    BY <1>3
  <2>2. QED
    BY <2>1, Zenon DEF OpToRel
<1>4. QED
  <2> HIDE DEF R
  <2>1. PICK x \in T : \A y \in T : ~(<<y, x>> \in R)
    BY <1>2
  <2>2. ASSUME NEW y \in T PROVE x <= y
    <3>1. ~(y < x) BY <2>1, <1>3
    <3>2. QED BY <3>1
  <2>3. QED BY <2>2

\* Induction up to N over a relation that goes from smaller numbers to greater.
LEMMA CourseInduction ==
  ASSUME NEW N \in Nat, NEW S, \A n \in 0..N : (\A m \in 0..(n - 1) : m \in S) => n \in S
  PROVE  0..N \subseteq S
<1> SUFFICES ASSUME NEW k \in 0..N, k \notin S PROVE FALSE
  OBVIOUS
<1> DEFINE T == {n \in 0..N : n \notin S}
<1>1. PICK x \in T : \A y \in T : x <= y
  <2>1. T \in SUBSET Nat /\ T # {} OBVIOUS
  <2> HIDE DEF T
  <2> QED BY <2>1, LeastElement
<1>2. x \in 0..N /\ x \notin S OBVIOUS
<1>3. ASSUME NEW m \in 0..(x - 1) PROVE m \in S
  <2>1. m \in 0..N /\ ~(x <= m) BY <1>2
  <2>2. m \notin T BY <2>1, <1>1
  <2>3. QED BY <2>1, <2>2
<1>4. QED BY <1>2, <1>3

\* f is given at the root and by the step from a node's parent to the node.
TreeUnfolds(f, N, parent, base, step) ==
    f[0] = base /\ \A r \in 1..N : f[r] = step[r][f[parent[r]]]

\* A recursion over the parents of a tree defines a function.
LEMMA TreeFunctionExists ==
  ASSUME NEW N \in Nat, NEW parent \in [1..N -> Nat], \A r \in 1..N : parent[r] <= r - 1,
         NEW D, NEW base \in D, NEW step \in [1..N -> [D -> D]]
  PROVE  \E f \in [0..N -> D] : TreeUnfolds(f, N, parent, base, step)
<1> DEFINE S == {m \in 0..N : \E f \in [0..m -> D] : TreeUnfolds(f, m, parent, base, step)}
<1>1. ASSUME NEW m \in 0..N, \A k \in 0..(m - 1) : k \in S PROVE m \in S
  <2>1. CASE m = 0
    <3>1. [k \in 0..0 |-> base] \in [0..0 -> D] /\ [k \in 0..0 |-> base][0] = base
      OBVIOUS
    <3>2. \A r \in 1..0 : FALSE OBVIOUS
    <3>3. TreeUnfolds([k \in 0..0 |-> base], 0, parent, base, step) BY <3>1, <3>2 DEF TreeUnfolds
    <3>4. QED BY <2>1, <3>1, <3>3
  <2>2. CASE m # 0
    <3> DEFINE l == m - 1
    <3>1. l \in 0..(m - 1) /\ l \in Nat /\ m = l + 1 BY <2>2
    <3>2. PICK f \in [0..l -> D] : TreeUnfolds(f, l, parent, base, step) BY <1>1, <3>1
    <3> HIDE DEF l
    <3>3. f[0] = base /\ \A r \in 1..l : f[r] = step[r][f[parent[r]]] BY <3>2 DEF TreeUnfolds
    <3>4. m \in 1..N /\ parent[m] \in 0..l BY <3>1
    <3> DEFINE v == step[m][f[parent[m]]]
               g == [k \in 0..m |-> IF k = m THEN v ELSE f[k]]
    <3>5. v \in D
      <4>1. step[m] \in [D -> D] /\ f[parent[m]] \in D BY <3>4
      <4>2. QED BY <4>1
    <3>6. g \in [0..m -> D]
      <4> HIDE DEF v
      <4>1. QED BY <3>1, <3>5
    <3>7. g[0] = base BY <3>1, <3>3
    <3>8. ASSUME NEW r \in 1..m PROVE g[r] = step[r][g[parent[r]]]
      <4>1. parent[r] \in 0..l /\ parent[r] # m
        <5>1. parent[r] \in Nat /\ parent[r] <= r - 1 /\ r <= m BY <3>1
        <5>2. QED BY <5>1, <3>1
      <4>2. g[parent[r]] = f[parent[r]] BY <3>1, <4>1
      <4>3. CASE r = m
        <5>1. g[r] = v BY <4>3
        <5>2. QED BY <5>1, <4>2, <4>3
      <4>4. CASE r # m
        <5>1. r \in 1..l /\ g[r] = f[r] BY <4>4, <3>1
        <5>2. QED BY <5>1, <4>2, <3>3
      <4>5. QED BY <4>3, <4>4
    <3>9. TreeUnfolds(g, m, parent, base, step)
      <4> HIDE DEF g
      <4>1. QED BY <3>7, <3>8 DEF TreeUnfolds
    <3>10. QED
      <4> HIDE DEF g
      <4>1. QED BY <3>6, <3>9
  <2>3. QED BY <2>1, <2>2
<1>2. N \in S
  <2> HIDE DEF S
  <2>1. 0..N \subseteq S BY <1>1, CourseInduction
  <2>2. QED BY <2>1
<1>3. QED BY <1>2

-----------------------------------------------------------------------------
(* FlattenSeq and the bytes of the body *)

\* f follows the recursion of FlattenSeq.
Flattens(f, seqs) ==
    \A i \in 1..Len(seqs) : f[i] = IF i = 1 THEN seqs[i] ELSE f[i - 1] \o seqs[i]

\* The recursion of FlattenSeq, as a function over the prefixes of its argument.
LEMMA FlattenFunction ==
  ASSUME NEW S, NEW seqs \in Seq(Seq(S)), Len(seqs) # 0
  PROVE  \E f \in [1..Len(seqs) -> Seq(S)] : Flattens(f, seqs) /\ FlattenSeq(seqs) = f[Len(seqs)]
<1> DEFINE N == Len(seqs)
           F(f) == [i \in 1..N |-> IF i = 1 THEN seqs[i] ELSE f[i - 1] \o seqs[i]]
           step == [n \in 1..N |-> [d \in Seq(S) |-> d \o seqs[n]]]
           before == [n \in 1..N |-> n - 1]
<1>1. N \in Nat /\ N # 0 /\ \A n \in 1..N : seqs[n] \in Seq(S)
  BY LenProperties, ElementOfSeq
<1>2. step \in [1..N -> [Seq(S) -> Seq(S)]]
  <2>1. ASSUME NEW n \in 1..N PROVE [d \in Seq(S) |-> d \o seqs[n]] \in [Seq(S) -> Seq(S)]
    <3>1. seqs[n] \in Seq(S) BY <1>1
    <3>2. ASSUME NEW d \in Seq(S) PROVE d \o seqs[n] \in Seq(S) BY <3>1, ConcatProperties
    <3>3. QED BY <3>2
  <2>2. QED BY <2>1
<1>3. before \in [1..N -> Nat] /\ \A n \in 1..N : before[n] <= n - 1
  <2> HIDE DEF N
  <2>1. QED BY <1>1
<1>4. PICK g \in [0..N -> Seq(S)] : TreeUnfolds(g, N, before, <<>>, step)
  <2>1. <<>> \in Seq(S) BY EmptySeq
  <2> HIDE DEF step, N, before
  <2>2. QED BY <1>1, <1>2, <1>3, <2>1, TreeFunctionExists
<1> DEFINE h == [i \in 1..N |-> g[i]]
<1>5. h = F(h) /\ h \in [1..N -> Seq(S)]
  <2>1. ASSUME NEW i \in 1..N PROVE g[i] = IF i = 1 THEN seqs[i] ELSE h[i - 1] \o seqs[i]
    <3>1. g[i] = step[i][g[i - 1]] BY <1>4 DEF TreeUnfolds
    <3>2. g[i - 1] \in Seq(S)
      <4>1. i - 1 \in 0..N BY <1>1
      <4> HIDE DEF N
      <4>2. QED BY <4>1
    <3>3. g[i] = g[i - 1] \o seqs[i] BY <3>1, <3>2
    <3>4. CASE i = 1
      <4>1. g[i - 1] = <<>> BY <3>4, <1>4 DEF TreeUnfolds
      <4>2. seqs[i] \in Seq(S) BY <1>1
      <4>3. <<>> \o seqs[i] = seqs[i] BY <4>2, ConcatEmptySeq
      <4>4. QED BY <4>1, <4>3, <3>3, <3>4
    <3>5. CASE i # 1
      <4>1. h[i - 1] = g[i - 1] BY <3>5, <1>1
      <4>2. QED BY <4>1, <3>3, <3>5
    <3>6. QED BY <3>4, <3>5
  <2>2. h \in [1..N -> Seq(S)]
    <3> HIDE DEF N
    <3>1. QED BY <1>1
  <2> HIDE DEF N
  <2>3. QED BY <2>1, <2>2
<1> DEFINE c == CHOOSE f : f = F(f)
<1>6. c = F(c)
  <2> HIDE DEF h, F
  <2> QED BY <1>5
<1>7. FlattenSeq(seqs) = c[N]
  BY <1>1, Zenon DEF FlattenSeq
<1>8. Flattens(c, seqs) /\ DOMAIN c = 1..N
  <2> HIDE DEF c
  <2> QED BY <1>6 DEF Flattens
<1>9. \A i \in 1..N : c[i] = h[i]
  <2> DEFINE T == {n \in 0..N : n # 0 => c[n] = h[n]}
  <2>1. ASSUME NEW n \in 0..N, \A m \in 0..(n - 1) : m \in T PROVE n \in T
    <3>1. CASE n = 0 BY <3>1
    <3>2. CASE n # 0
      <4>1. n \in 1..N /\ n - 1 \in 0..(n - 1) /\ n - 1 \in 0..N BY <3>2, <1>1
      <4>2. n - 1 \in T BY <2>1, <4>1
      <4>3. c[n] = IF n = 1 THEN seqs[n] ELSE c[n - 1] \o seqs[n] BY <4>1, <1>8 DEF Flattens
      <4>4. h[n] = IF n = 1 THEN seqs[n] ELSE h[n - 1] \o seqs[n]
        <5> HIDE DEF h
        <5>1. QED BY <4>1, <1>5
      <4>5. n # 1 => c[n - 1] = h[n - 1] BY <4>2, <3>2
      <4> HIDE DEF c, h
      <4>6. QED BY <4>3, <4>4, <4>5
    <3>3. QED BY <3>1, <3>2
  <2>2. 0..N \subseteq T
    <3> HIDE DEF T, N
    <3>1. QED BY <1>1, <2>1, CourseInduction
  <2> HIDE DEF c, h, N
  <2>3. ASSUME NEW i \in 1..N PROVE c[i] = h[i]
    <3>1. i \in 0..N /\ i # 0 BY <1>1
    <3>2. i \in T BY <2>2, <3>1
    <3>3. QED BY <3>1, <3>2
  <2>4. QED BY <2>3
<1>10. Flattens(h, seqs) /\ FlattenSeq(seqs) = h[N]
  <2> HIDE DEF c, h
  <2>1. Flattens(h, seqs) BY <1>5 DEF Flattens
  <2>2. QED BY <2>1, <1>1, <1>7, <1>9
<1>11. QED
  <2> HIDE DEF h
  <2>1. QED BY <1>5, <1>10

\* Sequences over a set are flattened to a sequence over it.
LEMMA FlattenIsSeq ==
  ASSUME NEW S, NEW seqs \in Seq(Seq(S))
  PROVE  FlattenSeq(seqs) \in Seq(S)
<1>1. CASE Len(seqs) = 0
  <2>1. FlattenSeq(seqs) = seqs BY <1>1 DEF FlattenSeq
  <2>2. seqs = <<>> /\ <<>> \in Seq(S) BY <1>1, EmptySeq
  <2>3. QED BY <2>1, <2>2
<1>2. CASE Len(seqs) # 0
  <2>1. PICK f \in [1..Len(seqs) -> Seq(S)] : FlattenSeq(seqs) = f[Len(seqs)] BY <1>2, FlattenFunction
  <2>2. Len(seqs) \in 1..Len(seqs) BY <1>2, LenProperties
  <2>3. QED BY <2>1, <2>2
<1>3. QED BY <1>1, <1>2

\* A sequence that is appended comes last in the concatenation.
LEMMA FlattenAppend ==
  ASSUME NEW S, NEW seqs \in Seq(Seq(S)), NEW s \in Seq(S)
  PROVE  FlattenSeq(Append(seqs, s)) = FlattenSeq(seqs) \o s
<1> DEFINE next == Append(seqs, s)
           N == Len(seqs)
<1>1. /\ next \in Seq(Seq(S)) /\ N \in Nat /\ Len(next) = N + 1 /\ Len(next) # 0
      /\ \A n \in 1..N : next[n] = seqs[n]
      /\ next[N + 1] = s
  BY AppendProperties, LenProperties
<1> HIDE DEF next
<1>2. PICK g \in [1..Len(next) -> Seq(S)] : Flattens(g, next) /\ FlattenSeq(next) = g[Len(next)]
  BY <1>1, FlattenFunction
<1>3. CASE N = 0
  <2>1. g[1] = next[1] BY <1>1, <1>2, <1>3 DEF Flattens
  <2>2. FlattenSeq(next) = s BY <2>1, <1>1, <1>2, <1>3
  <2>3. FlattenSeq(seqs) = seqs BY <1>3 DEF FlattenSeq
  <2>4. seqs = <<>> BY <1>3, EmptySeq
  <2>5. <<>> \o s = s BY ConcatEmptySeq
  <2>6. QED BY <2>2, <2>3, <2>4, <2>5 DEF next
<1>4. CASE N # 0
  <2>1. PICK f \in [1..N -> Seq(S)] : Flattens(f, seqs) /\ FlattenSeq(seqs) = f[N]
    BY <1>4, FlattenFunction
  <2> DEFINE T == {n \in 0..N : n # 0 => f[n] = g[n]}
  <2> HIDE DEF N
  <2>2. ASSUME NEW n \in 0..N, \A m \in 0..(n - 1) : m \in T PROVE n \in T
    <3>1. CASE n = 0 BY <3>1
    <3>2. CASE n # 0
      <4>1. n \in 1..N /\ n \in 1..(N + 1) /\ n - 1 \in 0..(n - 1) BY <3>2, <1>1
      <4>2. n - 1 \in T BY <2>2, <4>1
      <4>3. f[n] = IF n = 1 THEN seqs[n] ELSE f[n - 1] \o seqs[n] BY <4>1, <2>1 DEF Flattens, N
      <4>4. g[n] = IF n = 1 THEN next[n] ELSE g[n - 1] \o next[n] BY <4>1, <1>1, <1>2 DEF Flattens
      <4>5. n # 1 => f[n - 1] = g[n - 1] BY <4>2, <3>2
      <4>6. next[n] = seqs[n] BY <1>1, <4>1
      <4>7. QED BY <4>3, <4>4, <4>5, <4>6
    <3>3. QED BY <3>1, <3>2
  <2>3. 0..N \subseteq T
    <3> HIDE DEF T
    <3>1. QED BY <1>1, <2>2, CourseInduction
  <2>4. f[N] = g[N] BY <2>3, <1>1, <1>4
  <2>5. g[N + 1] = g[N] \o s
    <3>1. N + 1 \in 1..(N + 1) /\ N + 1 # 1 /\ (N + 1) - 1 = N BY <1>1, <1>4
    <3>2. g[N + 1] = IF N + 1 = 1 THEN next[N + 1] ELSE g[(N + 1) - 1] \o next[N + 1]
      BY <3>1, <1>1, <1>2 DEF Flattens
    <3>3. QED BY <3>1, <3>2, <1>1
  <2>6. QED BY <2>1, <2>4, <2>5, <1>1, <1>2 DEF next
<1>5. QED BY <1>3, <1>4

\* Parts are equal when their elements are.
LEMMA SubSeqSame ==
  ASSUME NEW S, NEW s \in Seq(S), NEW t \in Seq(S), NEW m \in Int, NEW n \in Int, 1 <= m, n <= Len(s), n <= Len(t),
         \A i \in m..n : s[i] = t[i]
  PROVE  SubSeq(s, m, n) = SubSeq(t, m, n)
<1> DEFINE k == Len(s)
           l == Len(t)
           size == IF m <= n THEN n - m + 1 ELSE 0
<1>1. k \in Nat /\ l \in Nat BY LenProperties
<1>2. \A i \in m..n : i \in 1..k /\ i \in 1..l
  <2> HIDE DEF k, l
  <2>1. n <= k /\ n <= l BY DEF k, l
  <2>2. QED BY <1>1, <2>1
<1>3. \A i \in m..n : s[i] \in S /\ t[i] \in S BY <1>2, ElementOfSeq
<1>4. /\ SubSeq(s, m, n) \in Seq(S) /\ Len(SubSeq(s, m, n)) = size
      /\ \A i \in 1..(n - m + 1) : SubSeq(s, m, n)[i] = s[m + i - 1]
  BY <1>3, SubSeqProperties
<1>5. /\ SubSeq(t, m, n) \in Seq(S) /\ Len(SubSeq(t, m, n)) = size
      /\ \A i \in 1..(n - m + 1) : SubSeq(t, m, n)[i] = t[m + i - 1]
  BY <1>3, SubSeqProperties
<1>6. \A i \in 1..size : i \in 1..(n - m + 1) /\ m + i - 1 \in m..n OBVIOUS
<1>7. \A i \in 1..size : SubSeq(s, m, n)[i] = SubSeq(t, m, n)[i] BY <1>4, <1>5, <1>6
<1> HIDE DEF size
<1>8. QED BY <1>4, <1>5, <1>7, SeqEqual

\* What is appended leaves the parts of a sequence as they were.
LEMMA PartsOfConcat ==
  ASSUME NEW a, NEW b, IsSeq(a), IsSeq(b)
  PROVE  /\ IsSeq(a \o b) /\ Len(a) \in Nat /\ Len(b) \in Nat /\ Len(a \o b) = Len(a) + Len(b)
         /\ \A m \in Int, n \in Int : 1 <= m /\ n <= Len(a) => SubSeq(a \o b, m, n) = SubSeq(a, m, n)
         /\ SubSeq(a \o b, Len(a) + 1, Len(a) + Len(b)) = b
<1> DEFINE A == ToSet(a)
           B == ToSet(b)
           S == A \cup B
           c == a \o b
           k == Len(a)
           l == Len(b)
<1>1. a \in Seq(A) /\ b \in Seq(B) BY DEF IsSeq
<1>2. a \in Seq(S) /\ b \in Seq(S)
  <2> HIDE DEF A, B
  <2>1. QED BY <1>1
<1> HIDE DEF S
<1>3. /\ c \in Seq(S) /\ k \in Nat /\ l \in Nat /\ Len(c) = k + l
      /\ \A i \in 1..(k + l) : c[i] = IF i <= k THEN a[i] ELSE b[i - k]
  BY <1>2, ConcatProperties, LenProperties
<1> HIDE DEF c, k, l
<1>4. IsSeq(c) BY <1>3, SeqOfOwn
<1>5. ASSUME NEW m \in Int, NEW n \in Int, 1 <= m, n <= k PROVE SubSeq(c, m, n) = SubSeq(a, m, n)
  <2>1. \A i \in m..n : c[i] = a[i] BY <1>3, <1>5
  <2>2. n <= Len(a) /\ n <= Len(c) BY <1>3, <1>5 DEF k
  <2>3. QED BY <1>2, <1>3, <1>5, <2>1, <2>2, SubSeqSame
<1>6. SubSeq(c, k + 1, k + l) = b
  <2>1. \A i \in (k + 1)..(k + l) : c[i] \in S
    <3>1. \A i \in 1..Len(c) : c[i] \in S BY <1>3, ElementOfSeq
    <3>2. QED BY <3>1, <1>3
  <2> DEFINE m == k + 1
             n == k + l
             d == SubSeq(c, m, n)
  <2>2. m \in Int /\ n \in Int /\ n - m + 1 = l /\ (IF m <= n THEN n - m + 1 ELSE 0) = l BY <1>3
  <2>3. \A i \in m..n : c[i] \in S BY <2>1
  <2> HIDE DEF m, n
  <2>4. /\ d \in Seq(S) /\ Len(d) = (IF m <= n THEN n - m + 1 ELSE 0)
        /\ \A i \in 1..(n - m + 1) : d[i] = c[m + i - 1]
    BY <2>2, <2>3, SubSeqProperties
  <2> HIDE DEF d
  <2>5. ASSUME NEW i \in 1..l PROVE d[i] = b[i]
    <3>1. d[i] = c[m + i - 1] BY <2>2, <2>4
    <3>2. m + i - 1 = k + i /\ k + i \in 1..(k + l) /\ ~(k + i <= k) /\ (k + i) - k = i BY <1>3 DEF m
    <3>3. QED BY <3>1, <3>2, <1>3
  <2>6. Len(d) = l /\ Len(b) = l BY <2>2, <2>4 DEF l
  <2>7. d = b BY <1>2, <2>4, <2>5, <2>6, SeqEqual
  <2>8. QED BY <2>7 DEF d, m, n
<1>7. QED BY <1>3, <1>4, <1>5, <1>6 DEF c, k, l

\* What is appended leaves the prefixes of a sequence as they were.
LEMMA PartsOfAppend ==
  ASSUME NEW s, IsSeq(s), NEW x
  PROVE  /\ \A n \in 0..Len(s) : SubSeq(Append(s, x), 1, n) = SubSeq(s, 1, n)
         /\ SubSeq(s, 1, Len(s)) = s
<1>1. Append(s, x) = s \o <<x>> BY ReadOne
<1>2. IsSeq(<<x>>)
  <2>1. <<x>> \in Seq({x}) OBVIOUS
  <2>2. QED BY <2>1, SeqOfOwn
<1>3. /\ Len(s) \in Nat
      /\ \A m \in Int, n \in Int : 1 <= m /\ n <= Len(s) => SubSeq(s \o <<x>>, m, n) = SubSeq(s, m, n)
  BY <1>2, PartsOfConcat
<1>4. SubSeq(s, 1, Len(s)) = s
  <2>1. s \in Seq(ToSet(s)) BY DEF IsSeq
  <2>2. QED BY <2>1, SubSeqFull
<1> DEFINE k == Len(s)
<1> HIDE DEF k
<1>5. ASSUME NEW n \in 0..k PROVE SubSeq(Append(s, x), 1, n) = SubSeq(s, 1, n)
  <2>1. n \in Int /\ n <= k /\ 1 \in Int /\ 1 <= 1 BY <1>3 DEF k
  <2>2. QED BY <2>1, <1>1, <1>3 DEF k
<1>6. QED BY <1>4, <1>5 DEF k

\* Every lexeme has a sequence of bytes.
Readable(lexs) == \A i \in DOMAIN lexs : IsSeq(BytesOf(lexs[i]))

\* The bytes of a lexeme that is read come after those of the body so far.
LEMMA BytesAppend ==
  ASSUME NEW lexs, IsSeq(lexs), Readable(lexs), NEW l, IsSeq(BytesOf(l))
  PROVE  /\ IsSeq(Bytes(lexs)) /\ Readable(Append(lexs, l))
         /\ Bytes(Append(lexs, l)) = Bytes(lexs) \o BytesOf(l)
<1> DEFINE next == Append(lexs, l)
           N == Len(lexs)
           D == UNION {ToSet(BytesOf(next[i])) : i \in 1..(N + 1)}
           seqs == [i \in 1..N |-> BytesOf(lexs[i])]
           more == [i \in 1..(N + 1) |-> BytesOf(next[i])]
           b == BytesOf(l)
<1>1. /\ N \in Nat /\ DOMAIN lexs = 1..N /\ IsSeq(next) /\ Len(next) = N + 1 /\ DOMAIN next = 1..(N + 1)
      /\ \A n \in 1..N : next[n] = lexs[n]
      /\ next[N + 1] = l
  BY AppendIsSeq, SeqFacts
<1>2. Bytes(lexs) = FlattenSeq(seqs) /\ Bytes(next) = FlattenSeq(more) BY <1>1 DEF Bytes
<1> HIDE DEF N, next
<1>3. ASSUME NEW i \in 1..(N + 1) PROVE IsSeq(BytesOf(next[i])) /\ BytesOf(next[i]) \in Seq(D)
  <2>1. IsSeq(BytesOf(next[i]))
    <3>1. i \in 1..N \/ i = N + 1 BY <1>1, NextIndex
    <3>2. QED BY <3>1, <1>1 DEF Readable
  <2> DEFINE T == ToSet(BytesOf(next[i]))
  <2>2. T \subseteq D OBVIOUS
  <2>3. BytesOf(next[i]) \in Seq(T) BY <2>1 DEF IsSeq
  <2> HIDE DEF D, T
  <2>4. QED BY <2>1, <2>2, <2>3
<1> HIDE DEF D
<1>4. b \in Seq(D) /\ b = BytesOf(next[N + 1])
  <2>1. N + 1 \in 1..(N + 1) BY <1>1
  <2>2. QED BY <2>1, <1>1, <1>3
<1>5. \A i \in 1..N : BytesOf(lexs[i]) \in Seq(D) /\ BytesOf(next[i]) = BytesOf(lexs[i])
  <2>1. \A i \in 1..N : i \in 1..(N + 1) BY <1>1
  <2>2. QED BY <2>1, <1>1, <1>3
<1>6. seqs \in Seq(Seq(D)) /\ Len(seqs) = N
  <2>1. seqs \in [1..N -> Seq(D)] BY <1>5
  <2> HIDE DEF seqs
  <2>2. seqs \in Seq(Seq(D)) BY <1>1, <2>1, IsASeq
  <2>3. DOMAIN seqs = 1..N /\ Len(seqs) \in Nat /\ DOMAIN seqs = 1..Len(seqs) BY <2>1, <2>2, LenProperties
  <2>4. QED BY <1>1, <2>2, <2>3, IntervalEqual
<1>7. more \in Seq(Seq(D)) /\ Len(more) = N + 1
  <2>1. more \in [1..(N + 1) -> Seq(D)] BY <1>3
  <2> DEFINE M == N + 1
  <2>2. M \in Nat /\ more \in [1..M -> Seq(D)] BY <1>1, <2>1
  <2> HIDE DEF more, M
  <2>3. more \in Seq(Seq(D)) BY <2>2, IsASeq
  <2>4. DOMAIN more = 1..M /\ Len(more) \in Nat /\ DOMAIN more = 1..Len(more) BY <2>2, <2>3, LenProperties
  <2>5. Len(more) = M BY <2>2, <2>4, IntervalEqual
  <2>6. QED BY <2>3, <2>5 DEF M
<1>8. \A i \in 1..(N + 1) : more[i] = IF i = N + 1 THEN b ELSE seqs[i]
  <2>1. ASSUME NEW i \in 1..(N + 1) PROVE more[i] = IF i = N + 1 THEN b ELSE seqs[i]
    <3>1. i \in 1..N \/ i = N + 1 BY <1>1, NextIndex
    <3> HIDE DEF b
    <3>2. QED BY <3>1, <1>4, <1>5
  <2>2. QED BY <2>1
<1> HIDE DEF seqs, more, b
<1>9. more = Append(seqs, b)
  <2> DEFINE S == Seq(D)
             u == Append(seqs, b)
  <2> HIDE DEF S
  <2>1. seqs \in Seq(S) /\ more \in Seq(S) /\ b \in S BY <1>4, <1>6, <1>7 DEF S
  <2>2. /\ u \in Seq(S) /\ Len(u) = N + 1
        /\ \A i \in 1..N : u[i] = seqs[i]
        /\ u[N + 1] = b
    BY <2>1, <1>6, AppendProperties
  <2> HIDE DEF u
  <2>3. ASSUME NEW i \in 1..(N + 1) PROVE more[i] = u[i]
    <3>1. (i \in 1..N /\ i # N + 1) \/ i = N + 1 BY <1>1
    <3>2. QED BY <3>1, <2>2, <1>8
  <2>4. more = u BY <2>1, <2>2, <2>3, <1>7, SeqEqual
  <2>5. QED BY <2>4 DEF u
<1>10. FlattenSeq(more) = FlattenSeq(seqs) \o b BY <1>4, <1>6, <1>9, FlattenAppend
<1>11. FlattenSeq(seqs) \in Seq(D) BY <1>6, FlattenIsSeq
<1>12. IsSeq(Bytes(lexs)) BY <1>2, <1>11, SeqOfOwn
<1>13. Readable(next) BY <1>1, <1>3 DEF Readable
<1>14. QED BY <1>2, <1>10, <1>12, <1>13 DEF next, b

\* A quoted text is a sequence of bytes.
LEMMA RawIsSeq ==
  ASSUME NEW text \in Texts
  PROVE  IsSeq(Raw(text))
<1> DEFINE U == UNION {ToSet(other) : other \in Texts}
           k == Len(text)
           D == {Quote, Escape} \cup {text[i].char : i \in 1..k}
           parts == [i \in DOMAIN text |-> IF text[i].escaped THEN <<Escape, text[i].char>> ELSE <<text[i].char>>]
           q == <<Quote>>
           inner == FlattenSeq(parts)
<1>1. k \in Nat /\ DOMAIN text = 1..k
  <2>1. text \in Seq(U) BY PayloadConstants
  <2> HIDE DEF U
  <2>2. QED BY <2>1, LenProperties
<1>2. parts \in [1..k -> Seq(D)]
  <2>1. ASSUME NEW i \in 1..k
        PROVE  (IF text[i].escaped THEN <<Escape, text[i].char>> ELSE <<text[i].char>>) \in Seq(D)
    <3> DEFINE c == text[i].char
               e == Escape
    <3>1. c \in D /\ e \in D OBVIOUS
    <3> HIDE DEF D, c, e
    <3>2. <<e, c>> \in Seq(D) /\ <<c>> \in Seq(D) BY <3>1
    <3>3. QED BY <3>2 DEF c, e
  <2> HIDE DEF D, k
  <2>2. QED BY <2>1, <1>1
<1>3. q \in Seq(D)
  <2>1. Quote \in D OBVIOUS
  <2> HIDE DEF D
  <2>2. QED BY <2>1
<1> HIDE DEF D, k, parts
<1>4. inner \in Seq(D)
  <2>1. parts \in Seq(Seq(D)) BY <1>1, <1>2, IsASeq
  <2>2. QED BY <2>1, FlattenIsSeq
<1>5. Raw(text) = q \o inner \o q BY DEF Raw, parts
<1> HIDE DEF q, inner
<1>6. q \o inner \in Seq(D) BY <1>3, <1>4, ConcatProperties
<1>7. (q \o inner) \o q \in Seq(D) BY <1>3, <1>6, ConcatProperties
<1>8. QED BY <1>5, <1>7, SeqOfOwn

\* Every lexeme is a sequence of bytes, that of a string its quoted text.
LEMMA LexemeBytes ==
  /\ \A kind : kind \notin {"key", "string"} => IsSeq(BytesOf(Lexeme(kind)))
  /\ \A key : IsSeq(BytesOf(KeyLexeme(key)))
  /\ \A text \in Texts : BytesOf(StringLexeme(text)) = Raw(text) /\ IsSeq(BytesOf(StringLexeme(text)))
<1>1. ASSUME NEW x PROVE IsSeq(<<x>>)
  <2>1. <<x>> \in Seq({x}) OBVIOUS
  <2>2. QED BY <2>1, SeqOfOwn
<1>2. ASSUME NEW kind, kind \notin {"key", "string"} PROVE IsSeq(BytesOf(Lexeme(kind)))
  <2>1. BytesOf(Lexeme(kind)) = <<kind>> BY <1>2 DEF BytesOf, Lexeme
  <2>2. QED BY <2>1, <1>1
<1>3. ASSUME NEW key PROVE IsSeq(BytesOf(KeyLexeme(key)))
  <2>1. BytesOf(KeyLexeme(key)) = <<key>> BY DEF BytesOf, KeyLexeme, Lexeme
  <2>2. QED BY <2>1, <1>1
<1>4. ASSUME NEW text \in Texts PROVE BytesOf(StringLexeme(text)) = Raw(text) /\ IsSeq(BytesOf(StringLexeme(text)))
  <2>1. BytesOf(StringLexeme(text)) = Raw(text) BY DEF BytesOf, StringLexeme, Lexeme
  <2>2. QED BY <2>1, RawIsSeq
<1>5. QED BY <1>2, <1>3, <1>4

-----------------------------------------------------------------------------
(* Levels and containers: the reference when one more lexeme is read *)

LevelAfter(level, l) ==
    IF l.kind \in Opening THEN level + 1 ELSE IF l.kind \in ClosingBrackets THEN level - 1 ELSE level

\* A bracket changes the level of what comes after it, and of nothing before.
LEMMA LevelAppend ==
  ASSUME NEW lexs, IsSeq(lexs), NEW l
  PROVE  /\ \A i \in 1..(Len(lexs) + 1) : Level(Append(lexs, l), i) = Level(lexs, i) /\ Level(lexs, i) \in Int
         /\ Level(Append(lexs, l), Len(lexs) + 2) = LevelAfter(Level(lexs, Len(lexs) + 1), l)
<1> DEFINE next == Append(lexs, l)
           N == Len(lexs)
<1>1. CountGrows(next, lexs, l, Opening) /\ CountGrows(next, lexs, l, ClosingBrackets)
  BY CountsGrow
<1> HIDE DEF next
<1>2. /\ N \in Nat
      /\ \A n \in 0..N : /\ Count(next, n, Opening) = Count(lexs, n, Opening)
                         /\ Count(lexs, n, Opening) \in Nat
                         /\ Count(next, n, ClosingBrackets) = Count(lexs, n, ClosingBrackets)
                         /\ Count(lexs, n, ClosingBrackets) \in Nat
      /\ Count(next, N + 1, Opening) =
            IF l.kind \in Opening THEN Count(lexs, N, Opening) + 1 ELSE Count(lexs, N, Opening)
      /\ Count(next, N + 1, ClosingBrackets) =
            IF l.kind \in ClosingBrackets THEN Count(lexs, N, ClosingBrackets) + 1
                                          ELSE Count(lexs, N, ClosingBrackets)
  BY <1>1 DEF CountGrows
<1> HIDE DEF next, N
<1>3. ASSUME NEW s, NEW i
      PROVE  Level(s, i) = Count(s, i - 1, Opening) - Count(s, i - 1, ClosingBrackets)
  BY DEF Level, OpensAt, ClosesAt, Count, Opening, ClosingBrackets
<1>4. ASSUME NEW i \in 1..(N + 1) PROVE Level(next, i) = Level(lexs, i) /\ Level(lexs, i) \in Int
  <2>1. i - 1 \in 0..N BY <1>2
  <2>2. QED BY <2>1, <1>2, <1>3
<1>5. Level(next, N + 2) = LevelAfter(Level(lexs, N + 1), l)
  <2>1. (N + 2) - 1 = N + 1 /\ (N + 1) - 1 = N /\ N \in 0..N BY <1>2
  <2>2. Level(next, N + 2) = Count(next, N + 1, Opening) - Count(next, N + 1, ClosingBrackets) BY <1>3, <2>1
  <2>3. Level(lexs, N + 1) = Count(lexs, N, Opening) - Count(lexs, N, ClosingBrackets) BY <1>3, <2>1
  <2>4. l.kind \in Opening => l.kind \notin ClosingBrackets BY DEF Opening, ClosingBrackets
  <2> DEFINE o == Count(lexs, N, Opening)
             c == Count(lexs, N, ClosingBrackets)
             p == Count(next, N + 1, Opening)
             q == Count(next, N + 1, ClosingBrackets)
  <2>5. /\ o \in Nat /\ c \in Nat
        /\ p = IF l.kind \in Opening THEN o + 1 ELSE o
        /\ q = IF l.kind \in ClosingBrackets THEN c + 1 ELSE c
    BY <2>1, <1>2
  <2> HIDE DEF o, c, p, q
  <2>6. p - q = LevelAfter(o - c, l) BY <2>4, <2>5 DEF LevelAfter
  <2>7. QED BY <2>2, <2>3, <2>6 DEF o, c, p, q
<1>6. QED BY <1>4, <1>5 DEF next, N

\* next is lexs with l read after it: its elements and their levels.
Grows(next, lexs, l, N) ==
    /\ N \in Nat /\ Len(lexs) = N /\ Len(next) = N + 1 /\ IsSeq(next)
    /\ DOMAIN lexs = 1..N /\ DOMAIN next = 1..(N + 1)
    /\ next[N + 1] = l /\ \A m \in 1..N : next[m] = lexs[m]
    /\ \A m \in 1..(N + 1) : Level(next, m) = Level(lexs, m) /\ Level(lexs, m) \in Int
    /\ Level(next, N + 2) = LevelAfter(Level(lexs, N + 1), l)

\* Append is such a growth.
LEMMA AppendGrows ==
  ASSUME NEW lexs, IsSeq(lexs), NEW l
  PROVE  Grows(Append(lexs, l), lexs, l, Len(lexs))
<1> DEFINE next == Append(lexs, l)
           N == Len(lexs)
<1>1. /\ IsSeq(next) /\ N \in Nat /\ Len(next) = N + 1
      /\ next[N + 1] = l /\ \A m \in 1..N : next[m] = lexs[m]
  BY AppendIsSeq
<1>2. /\ \A m \in 1..(N + 1) : Level(next, m) = Level(lexs, m) /\ Level(lexs, m) \in Int
      /\ Level(next, N + 2) = LevelAfter(Level(lexs, N + 1), l)
  BY LevelAppend
<1>3. DOMAIN lexs = 1..N BY SeqFacts
<1> HIDE DEF next
<1>4. DOMAIN next = 1..(N + 1) BY <1>1, SeqFacts
<1>5. Grows(next, lexs, l, N) BY <1>1, <1>2, <1>3, <1>4 DEF Grows
<1>6. QED BY <1>5 DEF next

\* What was read before position i decides where it is.
LEMMA ContainersStay ==
  ASSUME NEW lexs, NEW next, NEW l, NEW N, Grows(next, lexs, l, N),
         NEW i \in 1..(N + 1), NEW j \in 1..(i - 1), NEW n
  PROVE  /\ next[j] = lexs[j]
         /\ Inside(next, j, i, n) <=> Inside(lexs, j, i, n)
         /\ Commas(next, j, i, n) = Commas(lexs, j, i, n)
         /\ \A k : IsLastKey(next, k, j, i, n) <=> IsLastKey(lexs, k, j, i, n)
<1>1. /\ N \in Nat /\ \A m \in 1..N : next[m] = lexs[m]
      /\ \A m \in 1..(N + 1) : Level(next, m) = Level(lexs, m)
  BY DEF Grows
<1>2. \A m \in 1..(i - 1) : m \in 1..N /\ m \in 1..(N + 1) BY <1>1
<1>3. \A m \in 1..(i - 1) : next[m] = lexs[m] /\ Level(next, m) = Level(lexs, m) BY <1>1, <1>2
<1>4. \A m \in (j + 1)..(i - 1) : m \in 1..(i - 1) BY <1>1
<1>5. next[j] = lexs[j] BY <1>3
<1>6. Inside(next, j, i, n) <=> Inside(lexs, j, i, n) BY <1>3, <1>4 DEF Inside, OpensAt
<1>7. Commas(next, j, i, n) = Commas(lexs, j, i, n) BY <1>3, <1>4 DEF Commas
<1>8. ASSUME NEW k PROVE IsLastKey(next, k, j, i, n) <=> IsLastKey(lexs, k, j, i, n)
  <2>1. CASE k \in (j + 1)..(i - 1)
    <3>1. k \in 1..(i - 1) /\ \A m \in (k + 1)..(i - 1) : m \in 1..(i - 1) BY <2>1, <1>1
    <3>2. QED BY <3>1, <1>3 DEF IsLastKey
  <2>2. CASE k \notin (j + 1)..(i - 1) BY <2>2 DEF IsLastKey
  <2>3. QED BY <2>1, <2>2
<1>9. QED BY <1>5, <1>6, <1>7, <1>8

\* So the segments of a position stay when more is read,
LEMMA SegmentStays ==
  ASSUME NEW lexs, NEW next, NEW l, NEW N, Grows(next, lexs, l, N),
         NEW i \in 1..(N + 1), NEW n, NEW segment, IsSegment(segment, lexs, i, n)
  PROVE  IsSegment(segment, next, i, n)
<1>1. PICK j \in 1..(i - 1) :
         /\ Inside(lexs, j, i, n)
         /\ IF lexs[j].kind = "["
            THEN segment = Index(Cardinality(Commas(lexs, j, i, n)))
            ELSE \E k \in 1..(i - 1) : IsLastKey(lexs, k, j, i, n) /\ segment = Key(lexs[k].key)
  BY DEF IsSegment
<1>2. /\ next[j] = lexs[j] /\ Inside(next, j, i, n) /\ Commas(next, j, i, n) = Commas(lexs, j, i, n)
      /\ \A k : IsLastKey(next, k, j, i, n) <=> IsLastKey(lexs, k, j, i, n)
  BY <1>1, ContainersStay
<1>3. \A k \in 1..(i - 1) : next[k] = lexs[k] BY ContainersStay
<1>4. QED BY <1>1, <1>2, <1>3 DEF IsSegment

\* and its path.
LEMMA PathStays ==
  ASSUME NEW lexs, NEW next, NEW l, NEW N, Grows(next, lexs, l, N),
         NEW i \in 1..(N + 1), NEW path, IsPath(path, lexs, i)
  PROVE  IsPath(path, next, i)
<1>1. Level(next, i) = Level(lexs, i) BY DEF Grows
<1>2. ASSUME NEW n \in 1..Len(path) PROVE IsSegment(path[n], next, i, n)
  <2>1. IsSegment(path[n], lexs, i, n) BY DEF IsPath
  <2>2. QED BY <2>1, SegmentStays
<1>3. QED BY <1>1, <1>2 DEF IsPath

\* Position N + 1 lies in the container opened at j, and so does position N + 2.
GoesOn(next, lexs, l, N, j, n) ==
    /\ Inside(next, j, N + 2, n)
    /\ Commas(next, j, N + 2, n) =
          Commas(lexs, j, N + 1, n) \cup (IF l.kind = "," /\ Level(lexs, N + 1) = n THEN {N + 1} ELSE {})
    /\ \A k \in 1..N :
          IsLastKey(lexs, k, j, N + 1, n) /\ ~(l.kind = "key" /\ Level(lexs, N + 1) = n) =>
          IsLastKey(next, k, j, N + 2, n)

\* A container that is open around the end stays open, its commas and keys stay,
LEMMA ContainerGoesOn ==
  ASSUME NEW lexs, NEW next, NEW l, NEW N, Grows(next, lexs, l, N),
         NEW n \in Nat, n <= Level(lexs, N + 1), NEW j \in 1..N, Inside(lexs, j, N + 1, n)
  PROVE  GoesOn(next, lexs, l, N, j, n)
<1> DEFINE v == Level(lexs, N + 1)
<1>1. N \in Nat /\ next[N + 1] = l /\ \A m \in 1..N : next[m] = lexs[m] BY DEF Grows
<1>2. \A m \in 1..(N + 1) : Level(next, m) = Level(lexs, m) /\ Level(lexs, m) \in Int BY DEF Grows
<1>3. n <= v OBVIOUS
<1>4. N + 1 \in 1..(N + 1) /\ (N + 2) - 1 = N + 1 /\ (N + 1) - 1 = N BY <1>1
<1>5. Level(next, N + 1) = v BY <1>2, <1>4
<1> HIDE DEF v
<1>6. \A m \in (j + 1)..(N + 1) : m = N + 1 \/ m \in (j + 1)..N BY <1>1
<1>7. \A m \in (j + 1)..N : m \in 1..N /\ m \in 1..(N + 1) /\ m # N + 1 BY <1>1
<1>8. next[j] = lexs[j] /\ Level(next, j) = Level(lexs, j)
  <2>1. j \in 1..(N + 1) BY <1>1
  <2>2. QED BY <2>1, <1>1, <1>2
<1>9. /\ OpensAt(lexs, j) /\ Level(lexs, j) = n - 1
      /\ \A m \in (j + 1)..N : Level(lexs, m) >= n
  BY <1>4 DEF Inside
<1>10. \A m \in (j + 1)..N : next[m] = lexs[m] /\ Level(next, m) = Level(lexs, m) BY <1>1, <1>2, <1>7
<1>11. N + 1 \in (j + 1)..(N + 1) /\ \A m \in (j + 1)..N : m \in (j + 1)..(N + 1) BY <1>1
<1>12. Inside(next, j, N + 2, n)
  <2>1. OpensAt(next, j) BY <1>8, <1>9 DEF OpensAt
  <2>2. Level(next, N + 1) >= n
    <3>1. v \in Int BY <1>2, <1>4 DEF v
    <3>2. QED BY <3>1, <1>3, <1>5
  <2>3. \A m \in (j + 1)..(N + 1) : Level(next, m) >= n BY <2>2, <1>6, <1>9, <1>10
  <2>4. QED BY <2>1, <2>3, <1>4, <1>8, <1>9 DEF Inside
<1>13. Commas(next, j, N + 2, n) =
          Commas(lexs, j, N + 1, n) \cup (IF l.kind = "," /\ v = n THEN {N + 1} ELSE {})
  <2>1. Commas(next, j, N + 2, n) = {m \in (j + 1)..(N + 1) : next[m].kind = "," /\ Level(next, m) = n}
    BY <1>4 DEF Commas
  <2>2. Commas(lexs, j, N + 1, n) = {m \in (j + 1)..N : lexs[m].kind = "," /\ Level(lexs, m) = n}
    BY <1>4 DEF Commas
  <2>3. QED BY <2>1, <2>2, <1>1, <1>5, <1>6, <1>7, <1>10, <1>11
<1>14. ASSUME NEW k \in 1..N, IsLastKey(lexs, k, j, N + 1, n), ~(l.kind = "key" /\ v = n)
       PROVE  IsLastKey(next, k, j, N + 2, n)
  <2>1. /\ k \in (j + 1)..N /\ lexs[k].kind = "key" /\ Level(lexs, k) = n
        /\ \A m \in (k + 1)..N : ~(lexs[m].kind = "key" /\ Level(lexs, m) = n)
    BY <1>4, <1>14 DEF IsLastKey
  <2>2. k \in (j + 1)..(N + 1) /\ next[k].kind = "key" /\ Level(next, k) = n BY <2>1, <1>10, <1>11
  <2>3. ASSUME NEW m \in (k + 1)..(N + 1) PROVE ~(next[m].kind = "key" /\ Level(next, m) = n)
    <3>1. CASE m = N + 1 BY <3>1, <1>1, <1>5, <1>14
    <3>2. CASE m # N + 1
      <4>1. m \in (k + 1)..N /\ m \in (j + 1)..N BY <3>2, <2>1, <1>1
      <4>2. QED BY <4>1, <2>1, <1>10
    <3>3. QED BY <3>1, <3>2
  <2>4. QED BY <2>2, <2>3, <1>4 DEF IsLastKey
<1>15. QED BY <1>12, <1>13, <1>14 DEF v, GoesOn

\* A lexeme that changes a segment of the innermost container.
IsComma(l) == l.kind = ","
IsKey(l) == l.kind = "key"
Separates(l) == IsComma(l) \/ IsKey(l)

\* the segment in it too, unless what is read is a comma or a key of its own,
LEMMA SegmentGoesOn ==
  ASSUME NEW lexs, NEW next, NEW l, NEW N, Grows(next, lexs, l, N),
         NEW n \in Nat, n <= Level(lexs, N + 1), NEW segment, IsSegment(segment, lexs, N + 1, n),
         n < Level(lexs, N + 1) \/ ~Separates(l)
  PROVE  IsSegment(segment, next, N + 2, n)
<1> DEFINE v == Level(lexs, N + 1)
<1>1. N \in Nat /\ \A m \in 1..N : next[m] = lexs[m] BY DEF Grows
<1>2. (N + 1) - 1 = N /\ (N + 2) - 1 = N + 1 /\ N + 1 \in 1..(N + 1) /\ \A m \in 1..N : m \in 1..(N + 1)
  BY <1>1
<1>3. v \in Int BY <1>2 DEF Grows
<1>4. ~(l.kind = "," /\ v = n) /\ ~(l.kind = "key" /\ v = n)
  <2>1. v = n => ~Separates(l)
    <3> HIDE DEF v
    <3>1. n < v \/ ~Separates(l) BY DEF v
    <3>2. QED BY <3>1, <1>3
  <2>2. QED BY <2>1, Zenon DEF Separates, IsComma, IsKey
<1>5. PICK j \in 1..N :
         /\ Inside(lexs, j, N + 1, n)
         /\ IF lexs[j].kind = "["
            THEN segment = Index(Cardinality(Commas(lexs, j, N + 1, n)))
            ELSE \E k \in 1..N : IsLastKey(lexs, k, j, N + 1, n) /\ segment = Key(lexs[k].key)
  BY <1>2 DEF IsSegment
<1>6. /\ Inside(next, j, N + 2, n)
      /\ Commas(next, j, N + 2, n) =
            Commas(lexs, j, N + 1, n) \cup (IF l.kind = "," /\ v = n THEN {N + 1} ELSE {})
      /\ \A k \in 1..N : IsLastKey(lexs, k, j, N + 1, n) /\ ~(l.kind = "key" /\ v = n) => IsLastKey(next, k, j, N + 2, n)
  <2>1. GoesOn(next, lexs, l, N, j, n) BY <1>5, ContainerGoesOn
  <2>2. QED BY <2>1 DEF GoesOn
<1> HIDE DEF v
<1>7. Commas(next, j, N + 2, n) = Commas(lexs, j, N + 1, n) BY <1>4, <1>6
<1>8. \A k \in 1..N : IsLastKey(lexs, k, j, N + 1, n) => IsLastKey(next, k, j, N + 2, n) BY <1>4, <1>6
<1>9. j \in 1..((N + 2) - 1) /\ \A k \in 1..N : k \in 1..((N + 2) - 1) BY <1>2
<1>10. next[j] = lexs[j] BY <1>1
<1>11. QED BY <1>1, <1>5, <1>6, <1>7, <1>8, <1>9, <1>10 DEF IsSegment

\* The first k segments of where the next lexeme stands.
Stands(path, lexs, k) ==
    /\ IsSeq(path) /\ Len(path) = k
    /\ \A n \in 1..k : IsSegment(path[n], lexs, Len(lexs) + 1, n)

\* A frame before and after a comma.
Counts(frame, after) == after.kind = frame.kind /\ after.index = frame.index + 1

\* The frame is that of the n-th open container.
IsContainer(frame, lexs, n) ==
    \E j \in 1..Len(lexs) :
       /\ Inside(lexs, j, Len(lexs) + 1, n) /\ lexs[j].kind = frame.kind
       /\ frame.kind = "[" => frame.index = Cardinality(Commas(lexs, j, Len(lexs) + 1, n))

\* and so does the path down to it.
LEMMA StandsGoesOn ==
  ASSUME NEW lexs, NEW next, NEW l, NEW N, Grows(next, lexs, l, N),
         NEW k \in Nat, k <= Level(lexs, N + 1), k < Level(lexs, N + 1) \/ ~Separates(l),
         NEW path, Stands(path, lexs, k)
  PROVE  Stands(path, next, k)
<1> DEFINE v == Level(lexs, N + 1)
<1>1. N \in Nat /\ Len(lexs) + 1 = N + 1 /\ Len(next) + 1 = N + 2 /\ N + 1 \in 1..(N + 1)
  <2>1. N \in Nat /\ Len(lexs) = N /\ Len(next) = N + 1 BY DEF Grows
  <2>2. QED BY <2>1
<1>2. v \in Int BY <1>1 DEF Grows
<1>3. k <= v /\ (k < v \/ ~Separates(l)) OBVIOUS
<1>4. ASSUME NEW n \in 1..k PROVE IsSegment(path[n], next, N + 2, n)
  <2>1. IsSegment(path[n], lexs, N + 1, n) BY <1>1 DEF Stands
  <2>2. n \in Nat /\ n <= v /\ (n < v \/ ~Separates(l))
    <3> HIDE DEF v
    <3>1. n \in Nat /\ n <= v /\ (k < v => n < v) BY <1>2, <1>3
    <3>2. QED BY <3>1, <1>3
  <2>3. QED BY <2>1, <2>2, SegmentGoesOn
<1>5. QED BY <1>1, <1>4 DEF Stands

\* A frame keeps describing its container, unless a comma of the container is read.
LEMMA FrameGoesOn ==
  ASSUME NEW lexs, NEW next, NEW l, NEW N, Grows(next, lexs, l, N),
         NEW n \in Nat, n <= Level(lexs, N + 1), n < Level(lexs, N + 1) \/ ~IsComma(l),
         NEW frame, IsContainer(frame, lexs, n)
  PROVE  IsContainer(frame, next, n)
<1> DEFINE v == Level(lexs, N + 1)
<1>1. /\ N \in Nat /\ Len(lexs) + 1 = N + 1 /\ Len(next) + 1 = N + 2 /\ N + 1 \in 1..(N + 1)
      /\ Len(lexs) = N /\ Len(next) = N + 1
  <2>1. N \in Nat /\ Len(lexs) = N /\ Len(next) = N + 1 BY DEF Grows
  <2>2. QED BY <2>1
<1>2. PICK j \in 1..N : /\ Inside(lexs, j, N + 1, n) /\ lexs[j].kind = frame.kind
                        /\ frame.kind = "[" => frame.index = Cardinality(Commas(lexs, j, N + 1, n))
  BY <1>1 DEF IsContainer
<1>3. ~(l.kind = "," /\ v = n)
  <2>1. v \in Int BY <1>1 DEF Grows
  <2>2. v = n => ~(n < v)
    <3> HIDE DEF v
    <3>1. QED BY <2>1
  <2>3. QED BY <2>2, Zenon DEF IsComma
<1>4. /\ Inside(next, j, N + 2, n)
      /\ Commas(next, j, N + 2, n) =
            Commas(lexs, j, N + 1, n) \cup (IF l.kind = "," /\ v = n THEN {N + 1} ELSE {})
  <2>1. GoesOn(next, lexs, l, N, j, n) BY <1>2, ContainerGoesOn
  <2>2. QED BY <2>1 DEF GoesOn
<1> HIDE DEF v
<1>5. Commas(next, j, N + 2, n) = Commas(lexs, j, N + 1, n) BY <1>3, <1>4
<1>6. next[j] = lexs[j] /\ j \in 1..(N + 1)
  <2>1. next[j] = lexs[j] BY DEF Grows
  <2>2. j \in 1..(N + 1) BY <1>1
  <2>3. QED BY <2>1, <2>2
<1>7. QED BY <1>1, <1>2, <1>4, <1>5, <1>6 DEF IsContainer

\* A comma of the innermost container is counted by its frame.
LEMMA CommaCounts ==
  ASSUME NEW lexs, NEW next, NEW l, NEW N, Grows(next, lexs, l, N),
         NEW n \in Nat, n = Level(lexs, N + 1), IsComma(l),
         NEW frame, NEW after, IsContainer(frame, lexs, n), Counts(frame, after)
  PROVE  IsContainer(after, next, n)
<1> DEFINE v == Level(lexs, N + 1)
<1>1. /\ N \in Nat /\ Len(lexs) + 1 = N + 1 /\ Len(next) + 1 = N + 2
      /\ Len(lexs) = N /\ Len(next) = N + 1
  <2>1. N \in Nat /\ Len(lexs) = N /\ Len(next) = N + 1 BY DEF Grows
  <2>2. QED BY <2>1
<1>2. PICK j \in 1..N : /\ Inside(lexs, j, N + 1, n) /\ lexs[j].kind = frame.kind
                        /\ frame.kind = "[" => frame.index = Cardinality(Commas(lexs, j, N + 1, n))
  BY <1>1 DEF IsContainer
<1> DEFINE old == Commas(lexs, j, N + 1, n)
<1>3. n <= v
  <2>1. n = v OBVIOUS
  <2> HIDE DEF v
  <2>2. QED BY <2>1
<1>4. /\ Inside(next, j, N + 2, n)
      /\ Commas(next, j, N + 2, n) = old \cup (IF l.kind = "," /\ v = n THEN {N + 1} ELSE {})
  <2>1. GoesOn(next, lexs, l, N, j, n) BY <1>2, <1>3, ContainerGoesOn
  <2>2. QED BY <2>1 DEF GoesOn
<1>5. Commas(next, j, N + 2, n) = old \cup {N + 1}
  <2>1. l.kind = "," /\ v = n BY Zenon DEF IsComma
  <2>2. QED BY <2>1, <1>4
<1>6. IsFiniteSet(old) /\ N + 1 \notin old
  <2>1. old \in SUBSET (1..N)
    <3>1. old \subseteq (j + 1)..((N + 1) - 1) BY DEF Commas
    <3> HIDE DEF old
    <3>2. (j + 1)..((N + 1) - 1) \subseteq 1..N BY <1>1
    <3>3. QED BY <3>1, <3>2
  <2> HIDE DEF old
  <2>2. IsFiniteSet(1..N) /\ N + 1 \notin 1..N
    <3>1. N \in Int /\ 1 \in Int BY <1>1
    <3>2. IsFiniteSet(1..N) BY <3>1, FS_Interval
    <3>3. N + 1 \notin 1..N BY <1>1
    <3>4. QED BY <3>2, <3>3
  <2>3. QED BY <2>1, <2>2, FS_Subset
<1>7. Cardinality(old \cup {N + 1}) = Cardinality(old) + 1 BY <1>6, FS_AddElement
<1>8. next[j] = lexs[j] /\ j \in 1..(N + 1)
  <2>1. next[j] = lexs[j] BY DEF Grows
  <2>2. j \in 1..(N + 1) BY <1>1
  <2>3. QED BY <2>1, <2>2
<1>9. after.kind = "[" => after.index = Cardinality(Commas(next, j, N + 2, n))
  <2> HIDE DEF old
  <2>1. QED BY <1>2, <1>5, <1>7 DEF old, Counts
<1>10. QED BY <1>1, <1>2, <1>4, <1>8, <1>9 DEF IsContainer, Counts

\* An opening bracket starts a container with no comma yet.
LEMMA ContainerOpens ==
  ASSUME NEW lexs, NEW next, NEW l, NEW N, Grows(next, lexs, l, N), l.kind \in Opening,
         NEW frame, frame.kind = l.kind, frame.index = 0
  PROVE  IsContainer(frame, next, Level(lexs, N + 1) + 1)
<1> DEFINE v == Level(lexs, N + 1)
           n == v + 1
<1>1. N \in Nat /\ Len(next) = N + 1 /\ next[N + 1] = l BY DEF Grows
<1>2. N + 1 \in 1..(N + 1) /\ (N + 1) + 1 = N + 2 /\ \A m \in (N + 2)..((N + 2) - 1) : FALSE BY <1>1
<1>3. Level(next, N + 1) = v /\ v \in Int BY <1>2 DEF Grows
<1>4. v = n - 1
  <2> HIDE DEF v
  <2>1. QED BY <1>3
<1>5. Inside(next, N + 1, N + 2, n)
  <2>1. OpensAt(next, N + 1) BY <1>1 DEF OpensAt, Opening
  <2>2. QED BY <2>1, <1>2, <1>3, <1>4 DEF Inside
<1>6. Commas(next, N + 1, N + 2, n) = {}
  <2> HIDE DEF n
  <2>1. QED BY <1>2 DEF Commas
<1>7. Cardinality({}) = 0 BY FS_EmptySet
<1> HIDE DEF v, n
<1>8. IsContainer(frame, next, n) BY <1>1, <1>2, <1>5, <1>6, <1>7 DEF IsContainer
<1>9. QED BY <1>8 DEF v, n

\* A segment at the end of a path leads one level down.
LEMMA SegmentAppended ==
  ASSUME NEW lexs, NEW n \in Nat \ {0}, NEW path, Stands(path, lexs, n - 1),
         NEW segment, IsSegment(segment, lexs, Len(lexs) + 1, n)
  PROVE  Stands(Append(path, segment), lexs, n)
<1> DEFINE longer == Append(path, segment)
           k == n - 1
           at == Len(lexs) + 1
<1>1. IsSeq(path) /\ Len(path) = k /\ \A m \in 1..k : IsSegment(path[m], lexs, at, m)
  BY DEF Stands
<1>2. IsSegment(segment, lexs, at, n) OBVIOUS
<1> HIDE DEF at
<1>3. /\ IsSeq(longer) /\ Len(longer) = k + 1
      /\ \A m \in 1..k : longer[m] = path[m]
      /\ longer[k + 1] = segment
  BY <1>1, AppendIsSeq
<1> HIDE DEF longer
<1>4. k + 1 = n /\ \A m \in 1..n : m \in 1..k \/ m = n OBVIOUS
<1>5. \A m \in 1..n : IsSegment(longer[m], lexs, at, m) BY <1>1, <1>2, <1>3, <1>4
<1>6. QED BY <1>3, <1>4, <1>5 DEF Stands, longer, at

InObject(frame) == frame.kind = "{"
InArray(frame) == frame.kind = "["

\* In an array the segment of what comes next is the count of its frame.
LEMMA ElementStands ==
  ASSUME NEW lexs, IsSeq(lexs), NEW n \in Nat \ {0}, NEW frame, IsContainer(frame, lexs, n), InArray(frame),
         NEW path, Stands(path, lexs, n - 1)
  PROVE  Stands(Append(path, Index(frame.index)), lexs, n)
<1> DEFINE N == Len(lexs)
           segment == Index(frame.index)
<1>1. PICK j \in 1..N : /\ Inside(lexs, j, N + 1, n) /\ lexs[j].kind = "["
                        /\ frame.index = Cardinality(Commas(lexs, j, N + 1, n))
  BY DEF IsContainer, InArray
<1>2. j \in 1..((N + 1) - 1)
  <2>1. N \in Nat BY SeqFacts
  <2> HIDE DEF N
  <2>2. QED BY <2>1
<1>3. segment = Index(Cardinality(Commas(lexs, j, N + 1, n))) BY <1>1
<1> HIDE DEF segment, N
<1>4. IsSegment(segment, lexs, N + 1, n) BY <1>1, <1>2, <1>3 DEF IsSegment
<1>5. QED BY <1>4, SegmentAppended DEF segment, N

\* In an object it is the key just read.
LEMMA MemberStands ==
  ASSUME NEW lexs, NEW next, NEW l, NEW N, Grows(next, lexs, l, N), IsKey(l),
         NEW n \in Nat \ {0}, n = Level(lexs, N + 1),
         NEW frame, IsContainer(frame, lexs, n), InObject(frame),
         NEW path, Stands(path, lexs, n - 1)
  PROVE  Stands(Append(path, Key(l.key)), next, n)
<1> DEFINE v == Level(lexs, N + 1)
           segment == Key(l.key)
<1>1. N \in Nat /\ Len(lexs) = N /\ Len(next) = N + 1 /\ next[N + 1] = l /\ \A m \in 1..N : next[m] = lexs[m]
  BY DEF Grows
<1>2. n \in Nat /\ n <= v /\ n - 1 \in Nat /\ n - 1 < v /\ n - 1 <= v
  <2>1. n = v OBVIOUS
  <2> HIDE DEF v
  <2>2. QED BY <2>1
<1>3. Stands(path, next, n - 1) BY <1>2, StandsGoesOn
<1>4. PICK j \in 1..N : Inside(lexs, j, N + 1, n) /\ InObject(lexs[j]) BY <1>1 DEF IsContainer, InObject
<1>5. Inside(next, j, N + 2, n)
  <2>1. GoesOn(next, lexs, l, N, j, n) BY <1>2, <1>4, ContainerGoesOn
  <2>2. QED BY <2>1 DEF GoesOn
<1>6. Level(next, N + 1) = n
  <2>1. N + 1 \in 1..(N + 1) BY <1>1
  <2>2. QED BY <2>1 DEF Grows
<1> HIDE DEF v, segment
<1>7. /\ j \in 1..((N + 2) - 1) /\ N + 1 \in 1..((N + 2) - 1) /\ N + 1 \in (j + 1)..((N + 2) - 1)
      /\ \A m \in ((N + 1) + 1)..((N + 2) - 1) : FALSE
      /\ Len(next) + 1 = N + 2
  BY <1>1
<1>8. IsLastKey(next, N + 1, j, N + 2, n) BY <1>1, <1>6, <1>7 DEF IsLastKey, IsKey
<1>9. InObject(next[j]) /\ segment = Key(next[N + 1].key) BY <1>1, <1>4 DEF segment
<1>10. IsSegment(segment, next, N + 2, n)
  <2>1. next[j].kind # "[" BY <1>9 DEF InObject
  <2>2. QED BY <2>1, <1>5, <1>7, <1>8, <1>9 DEF IsSegment
<1>11. IsSegment(segment, next, Len(next) + 1, n) BY <1>7, <1>10
<1>12. QED BY <1>3, <1>11, SegmentAppended DEF segment

-----------------------------------------------------------------------------
(* The tree of path nodes *)

\* The parent of a node is the root or an earlier node.
Rooted(paths) == \A r \in 1..Len(paths) : paths[r].parent \in 0..(r - 1)

\* The recursion of MaterializePath.
PathsUnfold(s) ==
    /\ MaterializePath(s, 0) = <<>>
    /\ \A r \in 1..Len(s.paths) :
          MaterializePath(s, r) = Append(MaterializePath(s, s.paths[r].parent), s.paths[r].segment)
    /\ \A r \in 0..Len(s.paths) : IsSeq(MaterializePath(s, r))

\* The parents of path nodes are smaller, as recursion over them needs.
LEMMA TreeParents ==
  ASSUME NEW paths, IsSeq(paths), Rooted(paths)
  PROVE  /\ Len(paths) \in Nat
         /\ \A r \in 1..Len(paths) : paths[r].parent \in 0..(r - 1) /\ paths[r].parent \in 0..Len(paths)
         /\ [r \in 1..Len(paths) |-> paths[r].parent] \in [1..Len(paths) -> Nat]
         /\ \A r \in 1..Len(paths) : paths[r].parent <= r - 1
<1> DEFINE N == Len(paths)
<1>1. N \in Nat /\ \A r \in 1..N : paths[r].parent \in 0..(r - 1) BY SeqFacts DEF Rooted
<1> HIDE DEF N
<1>2. \A r \in 1..N : paths[r].parent \in 0..N /\ paths[r].parent \in Nat /\ paths[r].parent <= r - 1 BY <1>1
<1>3. [r \in 1..N |-> paths[r].parent] \in [1..N -> Nat] BY <1>2
<1>4. QED BY <1>1, <1>2, <1>3 DEF N

\* MaterializePath satisfies its recursion.
LEMMA PathsUnfolded ==
  ASSUME NEW s, IsSeq(s.paths), Rooted(s.paths)
  PROVE  PathsUnfold(s)
<1> DEFINE N == Len(s.paths)
           S == {s.paths[r].segment : r \in 1..N}
           D == Seq(S)
           F(f) == [r \in 0..N |-> IF r = 0 THEN <<>> ELSE Append(f[s.paths[r].parent], s.paths[r].segment)]
           parent == [r \in 1..N |-> s.paths[r].parent]
           step == [r \in 1..N |-> [d \in D |-> Append(d, s.paths[r].segment)]]
<1>1. /\ N \in Nat /\ parent \in [1..N -> Nat] /\ \A r \in 1..N : parent[r] <= r - 1
      /\ \A r \in 1..N : s.paths[r].parent \in 0..(r - 1) /\ s.paths[r].parent \in 0..N
  BY TreeParents
<1>2. \A r \in 1..N : s.paths[r].segment \in S OBVIOUS
<1> HIDE DEF N, S
<1>3. <<>> \in D BY EmptySeq
<1>4. \A r \in 1..N : \A d \in D : Append(d, s.paths[r].segment) \in D BY <1>2, AppendProperties
<1> HIDE DEF D
<1>5. step \in [1..N -> [D -> D]] BY <1>4
<1>6. PICK g \in [0..N -> D] : TreeUnfolds(g, N, parent, <<>>, step)
  <2> HIDE DEF parent, step
  <2>1. QED BY <1>1, <1>3, <1>5, TreeFunctionExists
<1>7. g = F(g)
  <2>1. ASSUME NEW r \in 0..N
        PROVE  g[r] = IF r = 0 THEN <<>> ELSE Append(g[s.paths[r].parent], s.paths[r].segment)
    <3>1. CASE r = 0 BY <3>1, <1>6 DEF TreeUnfolds
    <3>2. CASE r # 0
      <4>1. r \in 1..N BY <3>2, <1>1
      <4>2. g[r] = step[r][g[parent[r]]] BY <4>1, <1>6 DEF TreeUnfolds
      <4>3. parent[r] = s.paths[r].parent /\ g[s.paths[r].parent] \in D BY <4>1, <1>1, <1>6
      <4>4. QED BY <3>2, <4>1, <4>2, <4>3
    <3>3. QED BY <3>1, <3>2
  <2> HIDE DEF parent, step
  <2>2. QED BY <2>1
<1> DEFINE c == CHOOSE f : f = F(f)
<1>8. c = F(c)
  <2> HIDE DEF F
  <2>1. QED BY <1>7
<1>9. \A ref : MaterializePath(s, ref) = c[ref] BY Zenon DEF MaterializePath, N
<1> HIDE DEF c
<1>10. \A r \in 0..N : c[r] = IF r = 0 THEN <<>> ELSE Append(c[s.paths[r].parent], s.paths[r].segment)
  BY <1>8
<1>11. \A r \in 1..N : r \in 0..N /\ r # 0 BY <1>1
<1>12. 0 \in 0..N BY <1>1
<1>13. \A r \in 0..N : c[r] \in D
  <2> DEFINE T == {r \in 0..N : c[r] \in D}
  <2>1. ASSUME NEW r \in 0..N, \A m \in 0..(r - 1) : m \in T PROVE r \in T
    <3>1. CASE r = 0 BY <3>1, <1>3, <1>10
    <3>2. CASE r # 0
      <4>1. r \in 1..N BY <3>2, <1>1
      <4>2. c[s.paths[r].parent] \in D BY <4>1, <1>1, <2>1
      <4>3. QED BY <3>2, <4>1, <4>2, <1>4, <1>10
    <3>3. QED BY <3>1, <3>2
  <2>2. 0..N \subseteq T
    <3> HIDE DEF T
    <3>1. QED BY <1>1, <2>1, CourseInduction
  <2>3. QED BY <2>2
<1>14. \A r \in 0..N : IsSeq(c[r])
  <2>1. QED BY <1>13, SeqOfOwn DEF D
<1>15. /\ MaterializePath(s, 0) = <<>>
       /\ \A r \in 1..N : MaterializePath(s, r) = Append(MaterializePath(s, s.paths[r].parent), s.paths[r].segment)
       /\ \A r \in 0..N : IsSeq(MaterializePath(s, r))
  BY <1>9, <1>10, <1>11, <1>12, <1>14
<1>16. QED BY <1>15 DEF PathsUnfold, N

\* Nodes that are added leave the paths of the others as they were.
LEMMA PathsStay ==
  ASSUME NEW s, NEW t, IsSeq(s.paths), Rooted(s.paths), IsSeq(t.paths), Rooted(t.paths),
         Len(s.paths) <= Len(t.paths), \A r \in 1..Len(s.paths) : t.paths[r] = s.paths[r],
         NEW ref \in 0..Len(s.paths)
  PROVE  MaterializePath(t, ref) = MaterializePath(s, ref)
<1> DEFINE N == Len(s.paths)
           M == Len(t.paths)
           T == {r \in 0..N : MaterializePath(t, r) = MaterializePath(s, r)}
<1>1. N \in Nat /\ M \in Nat BY SeqFacts
<1>2. /\ MaterializePath(s, 0) = <<>>
      /\ \A r \in 1..N : MaterializePath(s, r) = Append(MaterializePath(s, s.paths[r].parent), s.paths[r].segment)
  BY PathsUnfolded DEF PathsUnfold
<1>3. /\ MaterializePath(t, 0) = <<>>
      /\ \A r \in 1..M : MaterializePath(t, r) = Append(MaterializePath(t, t.paths[r].parent), t.paths[r].segment)
  BY PathsUnfolded DEF PathsUnfold
<1>4. N <= M /\ \A r \in 1..N : t.paths[r] = s.paths[r] OBVIOUS
<1>5. \A r \in 1..N : s.paths[r].parent \in 0..(r - 1) BY DEF Rooted
<1> HIDE DEF N, M
<1>6. ASSUME NEW r \in 0..N, \A m \in 0..(r - 1) : m \in T PROVE r \in T
  <2>1. CASE r = 0 BY <2>1, <1>2, <1>3
  <2>2. CASE r # 0
    <3>1. r \in 1..N /\ r \in 1..M BY <2>2, <1>1, <1>4
    <3>2. s.paths[r].parent \in T BY <3>1, <1>5, <1>6
    <3>3. QED BY <3>1, <3>2, <1>2, <1>3, <1>4
  <2>3. QED BY <2>1, <2>2
<1>7. 0..N \subseteq T
  <2> HIDE DEF T
  <2>1. QED BY <1>1, <1>6, CourseInduction
<1>8. QED BY <1>7 DEF N

-----------------------------------------------------------------------------
(* The key context *)

NamedIn(path, m) == {n \in 1..m : Named(path[n])}
Rank(path, m, n) == Cardinality({i \in NamedIn(path, m) : i >= n})

\* The names on a path, nearest first.
NamesOf(keys, path) ==
    /\ IsSeq(keys) /\ Len(keys) = Cardinality(NamedIn(path, Len(path)))
    /\ \A n \in NamedIn(path, Len(path)) :
          /\ Rank(path, Len(path), n) \in 1..Len(keys)
          /\ keys[Rank(path, Len(path), n)] = Normalized[path[n].key]

WithName(keys, segment) == IF Named(segment) THEN <<Normalized[segment.key]>> \o keys ELSE keys

\* The names on a path can be counted.
LEMMA NamedInFinite ==
  ASSUME NEW path, NEW m \in Nat
  PROVE  /\ IsFiniteSet(NamedIn(path, m)) /\ NamedIn(path, m) \subseteq 1..m
         /\ \A n : IsFiniteSet({i \in NamedIn(path, m) : i >= n})
<1>1. NamedIn(path, m) \subseteq 1..m BY DEF NamedIn
<1>2. IsFiniteSet(1..m) BY FS_Interval
<1>3. IsFiniteSet(NamedIn(path, m)) BY <1>1, <1>2, FS_Subset
<1>4. ASSUME NEW n PROVE IsFiniteSet({i \in NamedIn(path, m) : i >= n})
  <2> DEFINE T == {i \in NamedIn(path, m) : i >= n}
  <2>1. T \subseteq NamedIn(path, m) OBVIOUS
  <2> HIDE DEF T
  <2>2. IsFiniteSet(T) BY <2>1, <1>3, FS_Subset
  <2>3. QED BY <2>2 DEF T
<1>5. QED BY <1>1, <1>3, <1>4

\* A name put before others moves each of them one place back.
LEMMA NameInFront ==
  ASSUME NEW keys, IsSeq(keys), NEW x
  PROVE  /\ IsSeq(<<x>> \o keys) /\ Len(keys) \in Nat /\ Len(<<x>> \o keys) = Len(keys) + 1
         /\ (<<x>> \o keys)[1] = x
         /\ \A k \in 1..Len(keys) : (<<x>> \o keys)[k + 1] = keys[k]
<1> DEFINE K == ToSet(keys)
           S == K \cup {x}
           one == <<x>>
           all == one \o keys
           N == Len(keys)
<1>1. keys \in Seq(K) BY DEF IsSeq
<1> HIDE DEF K
<1>2. keys \in Seq(S) /\ x \in S BY <1>1
<1> HIDE DEF S
<1>3. one \in Seq(S) /\ Len(one) = 1 /\ one[1] = x BY <1>2
<1> HIDE DEF one
<1>4. /\ all \in Seq(S) /\ Len(all) = Len(one) + Len(keys)
      /\ \A i \in 1..(Len(one) + Len(keys)) : all[i] = IF i <= Len(one) THEN one[i] ELSE keys[i - Len(one)]
  BY <1>2, <1>3, ConcatProperties
<1>5. N \in Nat BY <1>2, LenProperties
<1>6. Len(all) = N + 1 /\ \A i \in 1..(N + 1) : all[i] = IF i <= 1 THEN one[i] ELSE keys[i - 1]
  <2>1. Len(one) + Len(keys) = N + 1 BY <1>3, <1>5
  <2>2. QED BY <2>1, <1>3, <1>4
<1> HIDE DEF all, N
<1>7. all[1] = x
  <2>1. 1 \in 1..(N + 1) BY <1>5
  <2>2. QED BY <2>1, <1>3, <1>6
<1>8. \A k \in 1..N : all[k + 1] = keys[k]
  <2>1. \A k \in 1..N : k + 1 \in 1..(N + 1) /\ ~(k + 1 <= 1) /\ (k + 1) - 1 = k BY <1>5
  <2>2. QED BY <2>1, <1>6
<1>9. IsSeq(all) BY <1>4, SeqOfOwn
<1>10. QED BY <1>5, <1>6, <1>7, <1>8, <1>9 DEF all, N, one

\* Below a segment that has no name nothing changes.
LEMMA RanksStay ==
  ASSUME NEW path, IsSeq(path), NEW segment
  PROVE  /\ NamedIn(Append(path, segment), Len(path)) = NamedIn(path, Len(path))
         /\ \A n : Rank(Append(path, segment), Len(path), n) = Rank(path, Len(path), n)
         /\ \A n \in 1..Len(path) : Append(path, segment)[n] = path[n]
<1> DEFINE longer == Append(path, segment)
           L == Len(path)
<1>1. \A n \in 1..L : longer[n] = path[n] BY AppendIsSeq
<1> HIDE DEF longer, L
<1>2. NamedIn(longer, L) = NamedIn(path, L) BY <1>1 DEF NamedIn
<1>3. ASSUME NEW n PROVE Rank(longer, L, n) = Rank(path, L, n) BY <1>2 DEF Rank
<1>4. QED BY <1>1, <1>2, <1>3 DEF longer, L

\* One more segment: its name, if it has one, stands before the others.
LEMMA NamesAppend ==
  ASSUME NEW path, IsSeq(path), NEW keys, NamesOf(keys, path), NEW segment
  PROVE  NamesOf(WithName(keys, segment), Append(path, segment))
<1> DEFINE longer == Append(path, segment)
           L == Len(path)
           K == Len(keys)
           named == NamedIn(path, L)
           name == Normalized[segment.key]
           more == <<name>> \o keys
<1>1. L \in Nat /\ Len(longer) = L + 1 /\ longer[L + 1] = segment /\ \A n \in 1..L : longer[n] = path[n]
  BY AppendIsSeq
<1>2. NamedIn(longer, L) = named /\ \A n : Rank(longer, L, n) = Rank(path, L, n)
  BY RanksStay
<1> HIDE DEF longer
<1>3. /\ IsSeq(keys) /\ K = Cardinality(named)
      /\ \A n \in named : Rank(path, L, n) \in 1..K /\ keys[Rank(path, L, n)] = Normalized[path[n].key]
  BY DEF NamesOf
<1>4. IsSeq(more) /\ K \in Nat /\ Len(more) = K + 1 /\ more[1] = name /\ \A k \in 1..K : more[k + 1] = keys[k]
  <2>1. IsSeq(keys) BY <1>3
  <2> HIDE DEF name, named, L
  <2>2. QED BY <2>1, NameInFront
<1>5. IsFiniteSet(named) /\ named \subseteq 1..L /\ \A n : IsFiniteSet({i \in named : i >= n})
  <2> HIDE DEF L
  <2>1. QED BY <1>1, NamedInFinite
<1>6. NamedIn(longer, L + 1) = IF Named(segment) THEN named \cup {L + 1} ELSE named
  <2> DEFINE at == {n \in 1..(L + 1) : Named(longer[n])}
  <2>1. at = IF Named(segment) THEN named \cup {L + 1} ELSE named
    <3>1. named = {n \in 1..L : Named(path[n])} BY DEF NamedIn
    <3> HIDE DEF L, named
    <3>2. \A n \in 1..(L + 1) : n \in 1..L \/ n = L + 1 BY <1>1
    <3>3. L + 1 \in 1..(L + 1) /\ \A n \in 1..L : n \in 1..(L + 1) BY <1>1
    <3>4. QED BY <3>1, <3>2, <3>3, <1>1
  <2> HIDE DEF named, L
  <2>2. QED BY <2>1 DEF NamedIn
<1> HIDE DEF L, K, named, name, more
<1>7. CASE ~Named(segment)
  <2>1. NamedIn(longer, L + 1) = named BY <1>6, <1>7
  <2>2. \A n : Rank(longer, L + 1, n) = Rank(path, L, n)
    <3>1. ASSUME NEW n PROVE Rank(longer, L + 1, n) = Rank(longer, L, n) BY <2>1, <1>2 DEF Rank
    <3>2. QED BY <3>1, <1>2
  <2>3. \A n \in named : longer[n] = path[n] BY <1>1, <1>5
  <2>4. NamesOf(keys, longer)
    <3>1. \A n \in named : Rank(longer, L + 1, n) \in 1..K /\ keys[Rank(longer, L + 1, n)] = Normalized[longer[n].key]
      BY <2>2, <2>3, <1>3
    <3>2. QED BY <3>1, <2>1, <1>1, <1>3 DEF NamesOf, K
  <2>5. WithName(keys, segment) = keys BY <1>7 DEF WithName
  <2>6. QED BY <2>4, <2>5 DEF longer
<1>8. CASE Named(segment)
  <2>1. NamedIn(longer, L + 1) = named \cup {L + 1} BY <1>6, <1>8
  <2>2. L + 1 \notin named BY <1>1, <1>5
  <2>3. Cardinality(named \cup {L + 1}) = K + 1 BY <2>2, <1>3, <1>5, FS_AddElement
  <2>4. ASSUME NEW n \in named PROVE Rank(longer, L + 1, n) = Rank(path, L, n) + 1
    <3> DEFINE T == {i \in named : i >= n}
    <3>1. {i \in named \cup {L + 1} : i >= n} = T \cup {L + 1} /\ L + 1 \notin T
      <4>1. L + 1 >= n BY <1>1, <1>5
      <4>2. QED BY <4>1, <2>2
    <3>2. IsFiniteSet(T) BY <1>5
    <3>3. Rank(longer, L + 1, n) = Cardinality({i \in named \cup {L + 1} : i >= n}) BY <2>1 DEF Rank
    <3>4. Rank(path, L, n) = Cardinality(T) BY DEF Rank, named
    <3> HIDE DEF T
    <3>5. Cardinality(T \cup {L + 1}) = Cardinality(T) + 1 BY <3>1, <3>2, FS_AddElement
    <3>6. QED BY <3>1, <3>3, <3>4, <3>5
  <2>5. Rank(longer, L + 1, L + 1) = 1
    <3>1. {i \in named \cup {L + 1} : i >= L + 1} = {L + 1}
      <4>1. \A i \in 1..L : ~(i >= L + 1) BY <1>1
      <4>2. L + 1 >= L + 1 BY <1>1
      <4>3. QED BY <4>1, <4>2, <1>5
    <3>2. Cardinality({L + 1}) = 1 BY FS_Singleton
    <3>3. QED BY <3>1, <3>2, <2>1 DEF Rank
  <2>6. ASSUME NEW n \in named \cup {L + 1}
        PROVE  /\ Rank(longer, L + 1, n) \in 1..(K + 1)
               /\ more[Rank(longer, L + 1, n)] = Normalized[longer[n].key]
    <3>1. CASE n = L + 1
      <4>1. 1 \in 1..(K + 1) BY <1>4
      <4>2. QED BY <3>1, <4>1, <2>5, <1>1, <1>4 DEF name
    <3>2. CASE n \in named
      <4> DEFINE k == Rank(path, L, n)
      <4>1. k \in 1..K /\ keys[k] = Normalized[path[n].key] /\ longer[n] = path[n] BY <3>2, <1>1, <1>3, <1>5
      <4>2. Rank(longer, L + 1, n) = k + 1 BY <3>2, <2>4
      <4> HIDE DEF k
      <4>3. k + 1 \in 1..(K + 1) BY <4>1, <1>4
      <4>4. QED BY <4>1, <4>2, <4>3, <1>4
    <3>3. QED BY <3>1, <3>2
  <2>7. NamesOf(more, longer) BY <2>1, <2>3, <2>6, <1>1, <1>4 DEF NamesOf
  <2>8. WithName(keys, segment) = more BY <1>8 DEF WithName, more, name
  <2>9. QED BY <2>7, <2>8 DEF longer
<1>9. QED BY <1>7, <1>8

\* The recursion of KeysAbove.
KeysUnfold(s) ==
    /\ KeysAbove(s, 0) = <<>>
    /\ \A r \in 1..Len(s.paths) :
          KeysAbove(s, r) = WithName(KeysAbove(s, s.paths[r].parent), s.paths[r].segment)

\* KeysAbove satisfies its recursion.
LEMMA KeysUnfolded ==
  ASSUME NEW s, IsSeq(s.paths), Rooted(s.paths)
  PROVE  KeysUnfold(s)
<1> DEFINE N == Len(s.paths)
           S == {Normalized[s.paths[r].segment.key] : r \in 1..N}
           D == Seq(S)
           F(f) == [r \in 0..N |-> IF r = 0 THEN <<>>
                                   ELSE IF Named(s.paths[r].segment)
                                        THEN <<Normalized[s.paths[r].segment.key]>> \o f[s.paths[r].parent]
                                        ELSE f[s.paths[r].parent]]
           parent == [r \in 1..N |-> s.paths[r].parent]
           step == [r \in 1..N |-> [d \in D |-> WithName(d, s.paths[r].segment)]]
<1>1. /\ N \in Nat /\ parent \in [1..N -> Nat] /\ \A r \in 1..N : parent[r] <= r - 1
      /\ \A r \in 1..N : s.paths[r].parent \in 0..(r - 1) /\ s.paths[r].parent \in 0..N
  BY TreeParents
<1>2. \A r \in 1..N : Normalized[s.paths[r].segment.key] \in S OBVIOUS
<1> HIDE DEF N, S
<1>3. <<>> \in D BY EmptySeq
<1>4. ASSUME NEW r \in 1..N, NEW d \in D PROVE WithName(d, s.paths[r].segment) \in D
  <2> DEFINE x == Normalized[s.paths[r].segment.key]
  <2>1. x \in S BY <1>2
  <2> HIDE DEF x
  <2>2. <<x>> \in Seq(S) BY <2>1
  <2>3. <<x>> \o d \in D BY <2>2, ConcatProperties
  <2>4. QED BY <2>3 DEF WithName, x
<1> HIDE DEF D
<1>5. step \in [1..N -> [D -> D]] BY <1>4
<1>6. PICK g \in [0..N -> D] : TreeUnfolds(g, N, parent, <<>>, step)
  <2> HIDE DEF parent, step
  <2>1. QED BY <1>1, <1>3, <1>5, TreeFunctionExists
<1>7. g = F(g)
  <2>1. ASSUME NEW r \in 0..N
        PROVE  g[r] = IF r = 0 THEN <<>> ELSE WithName(g[s.paths[r].parent], s.paths[r].segment)
    <3>1. CASE r = 0 BY <3>1, <1>6 DEF TreeUnfolds
    <3>2. CASE r # 0
      <4>1. r \in 1..N BY <3>2, <1>1
      <4>2. g[r] = step[r][g[parent[r]]] BY <4>1, <1>6 DEF TreeUnfolds
      <4>3. parent[r] = s.paths[r].parent /\ g[s.paths[r].parent] \in D BY <4>1, <1>1, <1>6
      <4>4. QED BY <3>2, <4>1, <4>2, <4>3
    <3>3. QED BY <3>1, <3>2
  <2> HIDE DEF parent, step
  <2>2. QED BY <2>1 DEF WithName
<1> DEFINE c == CHOOSE f : f = F(f)
<1>8. c = F(c)
  <2> HIDE DEF F
  <2>1. QED BY <1>7
<1>9. \A ref : KeysAbove(s, ref) = c[ref] BY Zenon DEF KeysAbove, N
<1> HIDE DEF c
<1>10. \A r \in 0..N : c[r] = IF r = 0 THEN <<>> ELSE WithName(c[s.paths[r].parent], s.paths[r].segment)
  BY <1>8 DEF WithName
<1>11. 0 \in 0..N /\ \A r \in 1..N : r \in 0..N /\ r # 0 BY <1>1
<1>12. KeysAbove(s, 0) = <<>> BY <1>9, <1>10, <1>11
<1>13. ASSUME NEW r \in 1..N
       PROVE  KeysAbove(s, r) = WithName(KeysAbove(s, s.paths[r].parent), s.paths[r].segment)
  BY <1>9, <1>10, <1>11
<1>14. QED BY <1>12, <1>13 DEF KeysUnfold, N

\* What StringKeyContextAt collects are the names on the way to the root.
LEMMA NamesAlong ==
  ASSUME NEW s, IsSeq(s.paths), Rooted(s.paths), NEW ref \in 0..Len(s.paths)
  PROVE  NamesOf(KeysAbove(s, ref), MaterializePath(s, ref))
<1> DEFINE N == Len(s.paths)
           T == {r \in 0..N : NamesOf(KeysAbove(s, r), MaterializePath(s, r))}
<1>1. /\ MaterializePath(s, 0) = <<>>
      /\ \A r \in 1..N : MaterializePath(s, r) = Append(MaterializePath(s, s.paths[r].parent), s.paths[r].segment)
      /\ \A r \in 0..N : IsSeq(MaterializePath(s, r))
  BY PathsUnfolded DEF PathsUnfold
<1>2. /\ KeysAbove(s, 0) = <<>>
      /\ \A r \in 1..N : KeysAbove(s, r) = WithName(KeysAbove(s, s.paths[r].parent), s.paths[r].segment)
  BY KeysUnfolded DEF KeysUnfold
<1>3. N \in Nat /\ \A r \in 1..N : s.paths[r].parent \in 0..(r - 1) /\ s.paths[r].parent \in 0..N BY TreeParents
<1>4. NamesOf(<<>>, <<>>)
  <2> DEFINE empty == <<>>
  <2>1. IsSeq(empty) /\ Len(empty) = 0 BY EmptyIsSeq
  <2>2. NamedIn(empty, 0) = {}
    <3>1. 1..0 = {} OBVIOUS
    <3>2. QED BY <3>1 DEF NamedIn
  <2>3. Cardinality({}) = 0 BY FS_EmptySet
  <2> HIDE DEF empty
  <2>4. NamesOf(empty, empty) BY <2>1, <2>2, <2>3 DEF NamesOf
  <2>5. QED BY <2>4 DEF empty
<1> HIDE DEF N
<1>5. ASSUME NEW r \in 0..N, \A m \in 0..(r - 1) : m \in T PROVE r \in T
  <2>1. CASE r = 0 BY <2>1, <1>1, <1>2, <1>4
  <2>2. CASE r # 0
    <3> DEFINE p == s.paths[r].parent
    <3>1. r \in 1..N BY <2>2, <1>3
    <3>2. p \in 0..(r - 1) /\ p \in 0..N BY <3>1, <1>3
    <3>3. NamesOf(KeysAbove(s, p), MaterializePath(s, p)) /\ IsSeq(MaterializePath(s, p)) BY <3>2, <1>1, <1>5
    <3>4. NamesOf(WithName(KeysAbove(s, p), s.paths[r].segment), Append(MaterializePath(s, p), s.paths[r].segment))
      BY <3>3, NamesAppend
    <3>5. QED BY <3>1, <3>4, <1>1, <1>2
  <2>3. QED BY <2>1, <2>2
<1>6. 0..N \subseteq T
  <2> HIDE DEF T
  <2>1. QED BY <1>3, <1>5, CourseInduction
<1>7. QED BY <1>6 DEF N

\* The bounded context of a node is that of its path.
LEMMA ContextIsPath ==
  ASSUME NEW s, IsSeq(s.paths), Rooted(s.paths), NEW i, s.strings[i].pathRef \in 0..Len(s.paths)
  PROVE  IsContext(StringKeyContextAt(s, i), MaterializePath(s, s.strings[i].pathRef))
<1> DEFINE ref == s.strings[i].pathRef
           N == Len(s.paths)
           node == s.paths[ref]
           path == MaterializePath(s, ref)
           M == MaxContextAncestors
           context == StringKeyContextAt(s, i)
           Least(a, b) == IF a < b THEN a ELSE b
<1>1. M \in Nat BY PayloadConstants
<1> HIDE DEF M
<1>2. SUFFICES
        /\ context.immediate = IF path # <<>> /\ Named(path[Len(path)])
                               THEN Normalized[path[Len(path)].key] ELSE NoKey
        /\ Len(context.ancestors) = Least(Cardinality(NamedIn(path, Len(path) - 1)), M)
        /\ \A n \in NamedIn(path, Len(path) - 1) :
              Rank(path, Len(path) - 1, n) <= M =>
              context.ancestors[Rank(path, Len(path) - 1, n)] = Normalized[path[n].key]
  BY Zenon DEF IsContext, NamedIn, Rank, M
<1>3. /\ MaterializePath(s, 0) = <<>>
      /\ \A r \in 1..N : MaterializePath(s, r) = Append(MaterializePath(s, s.paths[r].parent), s.paths[r].segment)
      /\ \A r \in 0..N : IsSeq(MaterializePath(s, r))
  BY PathsUnfolded DEF PathsUnfold
<1>4. N \in Nat /\ \A r \in 1..N : s.paths[r].parent \in 0..(r - 1) /\ s.paths[r].parent \in 0..N BY TreeParents
<1>5. ref \in 0..N OBVIOUS
<1>6. CASE ref = 0
  <2> DEFINE empty == <<>>
  <2>1. context = [immediate |-> NoKey, ancestors |-> empty] BY <1>6 DEF StringKeyContextAt
  <2>2. path = empty BY <1>6, <1>3
  <2>3. Len(empty) = 0 BY EmptyIsSeq
  <2> HIDE DEF empty, context, path, ref
  <2>4. NamedIn(path, Len(path) - 1) = {}
    <3>1. Len(path) - 1 = -1 /\ 1..(-1) = {} BY <2>2, <2>3
    <3>2. QED BY <3>1 DEF NamedIn
  <2>5. Cardinality({}) = 0 BY FS_EmptySet
  <2>6. Least(0, M) = 0 BY <1>1
  <2>7. context.immediate = NoKey /\ context.ancestors = empty BY <2>1
  <2>8. QED BY <2>2, <2>3, <2>4, <2>5, <2>6, <2>7 DEF empty
<1>7. CASE ref # 0
  <2> DEFINE p == MaterializePath(s, node.parent)
             keys == KeysAbove(s, node.parent)
             segment == node.segment
             L == Len(p)
             K == Len(keys)
             last == IF segment.kind = "key" THEN Normalized[segment.key] ELSE NoKey
             ancestors == SubSeq(keys, 1, Least(K, M))
  <2>1. ref \in 1..N
    <3> HIDE DEF ref, N
    <3>1. QED BY <1>4, <1>5, <1>7
  <2>2. path = Append(p, segment) /\ IsSeq(p) BY <2>1, <1>3, <1>4
  <2>3. NamesOf(keys, p)
    <3>1. node.parent \in 0..Len(s.paths) BY <2>1, <1>4
    <3>2. QED BY <3>1, NamesAlong
  <2>4. context = [immediate |-> last, ancestors |-> ancestors] BY <1>7, Zenon DEF StringKeyContextAt, M
  <2>5. context.immediate = last /\ context.ancestors = ancestors
    <3> HIDE DEF last, ancestors, context
    <3>1. QED BY <2>4
  <2> HIDE DEF context, path, p, keys, segment, ref, N, node
  <2>6. L \in Nat /\ Len(path) = L + 1 /\ path[L + 1] = segment /\ path # <<>>
    <3>1. L \in Nat /\ Len(path) = L + 1 /\ path[L + 1] = segment BY <2>2, AppendIsSeq
    <3> DEFINE empty == <<>>
    <3>2. Len(empty) = 0 BY EmptyIsSeq
    <3> HIDE DEF empty, L
    <3>3. path # empty BY <3>1, <3>2
    <3>4. QED BY <3>1, <3>3 DEF empty
  <2>7. /\ NamedIn(path, L) = NamedIn(p, L) /\ \A n : Rank(path, L, n) = Rank(p, L, n)
        /\ \A n \in 1..L : path[n] = p[n]
    BY <2>2, RanksStay
  <2>8. /\ IsSeq(keys) /\ K = Cardinality(NamedIn(p, L))
        /\ \A n \in NamedIn(p, L) : Rank(p, L, n) \in 1..K /\ keys[Rank(p, L, n)] = Normalized[p[n].key]
    BY <2>3 DEF NamesOf
  <2>9. NamedIn(p, L) \subseteq 1..L BY DEF NamedIn
  <2> HIDE DEF L, K
  <2>10. Len(path) - 1 = L BY <2>6
  <2>11. K \in Nat BY <2>8, SeqFacts DEF K
  <2>12. /\ Len(ancestors) = Least(K, M)
         /\ \A k \in 1..Least(K, M) : ancestors[k] = keys[k]
    <3> DEFINE B == Least(K, M)
               S == ToSet(keys)
    <3>1. B \in Nat /\ B <= K BY <1>1, <2>11
    <3>2. \A k \in 1..K : keys[k] \in S BY <2>8, SeqFacts DEF K
    <3> HIDE DEF B, S
    <3>3. \A k \in 1..B : keys[k] \in S BY <3>1, <3>2, <2>11
    <3>4. /\ Len(SubSeq(keys, 1, B)) = (IF 1 <= B THEN B - 1 + 1 ELSE 0)
          /\ \A k \in 1..(B - 1 + 1) : SubSeq(keys, 1, B)[k] = keys[1 + k - 1]
      BY <3>1, <3>3, SubSeqProperties
    <3>5. (IF 1 <= B THEN B - 1 + 1 ELSE 0) = B /\ B - 1 + 1 = B /\ \A k \in 1..B : 1 + k - 1 = k BY <3>1
    <3>6. QED BY <3>4, <3>5 DEF B
  <2> HIDE DEF ancestors
  <2>13. context.immediate = IF path # <<>> /\ Named(path[Len(path)])
                             THEN Normalized[path[Len(path)].key] ELSE NoKey
    BY <2>5, <2>6 DEF Named
  <2>14. Len(context.ancestors) = Least(Cardinality(NamedIn(path, Len(path) - 1)), M)
    BY <2>5, <2>7, <2>8, <2>10, <2>12
  <2>15. ASSUME NEW n \in NamedIn(path, Len(path) - 1), Rank(path, Len(path) - 1, n) <= M
         PROVE  context.ancestors[Rank(path, Len(path) - 1, n)] = Normalized[path[n].key]
    <3> DEFINE k == Rank(p, L, n)
    <3>1. n \in NamedIn(p, L) /\ Rank(path, Len(path) - 1, n) = k BY <2>7, <2>10
    <3>2. k \in 1..K /\ k <= M /\ keys[k] = Normalized[p[n].key] BY <3>1, <2>8, <2>15
    <3>3. path[n] = p[n] BY <3>1, <2>7, <2>9
    <3> HIDE DEF k
    <3>4. k \in 1..Least(K, M) BY <3>2, <2>11, <1>1
    <3>5. QED BY <3>1, <3>2, <3>3, <3>4, <2>5, <2>12
  <2>16. QED BY <2>13, <2>14, <2>15
<1>8. QED BY <1>6, <1>7

-----------------------------------------------------------------------------
(* The invariant of the index *)

\* A frame is the n-th open container, entered at the path it keeps.
FrameOK(s, frame, lexs, n) ==
    /\ frame.path \in 0..Len(s.paths)
    /\ Stands(MaterializePath(s, frame.path), lexs, n - 1)
    /\ IsContainer(frame, lexs, n)

FramesOK(s, lexs) == \A n \in 1..Len(s.stack) : FrameOK(s, s.stack[n], lexs, n)

\* Where the scanner goes on: at the path of the value it is to read, or in the
\* innermost container.
HereOK(s, lexs) ==
    /\ s.path \in 0..Len(s.paths)
    /\ s.expect = "value" => Stands(MaterializePath(s, s.path), lexs, Len(s.stack))
    /\ s.expect # "value" /\ s.stack # <<>> => s.path = s.stack[Len(s.stack)].path

\* The token of the string at position i.
TokenOK(s, token, lexs, i) ==
    /\ token.value = Decode(lexs[i].text)
    /\ token.start = Len(Bytes(SubSeq(lexs, 1, i - 1))) /\ token.start \in Nat
    /\ token.end \in Nat /\ token.end <= Len(Bytes(lexs))
    /\ SubSeq(Bytes(lexs), token.start + 1, token.end) = BytesOf(lexs[i])
    /\ token.depth = Level(lexs, i) + 1
    /\ token.pathRef \in 0..Len(s.paths) /\ IsPath(MaterializePath(s, token.pathRef), lexs, i)

StringsOK(s, lexs) ==
    /\ Len(s.strings) = StringsIn(lexs, Len(lexs))
    /\ \A i \in 1..Len(lexs) : lexs[i].kind = "string" =>
          /\ StringsIn(lexs, i) \in 1..Len(s.strings)
          /\ TokenOK(s, s.strings[StringsIn(lexs, i)], lexs, i)

IndexOK(s, lexs) ==
    /\ Readable(lexs) /\ Rooted(s.paths)
    /\ FramesOK(s, lexs) /\ HereOK(s, lexs) /\ StringsOK(s, lexs)

IndexInv == IndexOK(scan, lexemes)

\* The path nodes of s are the first ones of t.
Extends(s, t) ==
    /\ IsSeq(s.paths) /\ Rooted(s.paths) /\ IsSeq(t.paths) /\ Rooted(t.paths)
    /\ Len(s.paths) <= Len(t.paths) /\ \A r \in 1..Len(s.paths) : t.paths[r] = s.paths[r]

\* Nodes that are added leave the earlier references and their paths.
LEMMA ExtendsPaths ==
  ASSUME NEW s, NEW t, Extends(s, t), NEW ref \in 0..Len(s.paths)
  PROVE  ref \in 0..Len(t.paths) /\ MaterializePath(t, ref) = MaterializePath(s, ref)
<1> DEFINE N == Len(s.paths)
           M == Len(t.paths)
<1>1. MaterializePath(t, ref) = MaterializePath(s, ref) BY PathsStay DEF Extends
<1>2. N \in Nat /\ M \in Nat /\ N <= M /\ ref \in 0..N BY SeqFacts DEF Extends
<1> HIDE DEF N, M
<1>3. ref \in 0..M BY <1>2
<1>4. QED BY <1>1, <1>3 DEF M

\* No node is added.
LEMMA SamePathsExtend ==
  ASSUME NEW s, NEW t, IsSeq(s.paths), Rooted(s.paths), t.paths = s.paths
  PROVE  Extends(s, t)
<1> DEFINE N == Len(s.paths)
<1>1. N \in Nat BY SeqFacts
<1>2. N <= N
  <2> HIDE DEF N
  <2>1. QED BY <1>1
<1>3. QED BY <1>2 DEF Extends

\* The path of an added node is that of its parent and its own segment.
LEMMA NodeExtends ==
  ASSUME NEW s, NEW t, IsSeq(s.paths), Rooted(s.paths), NEW node, node.parent \in 0..Len(s.paths),
         t.paths = Append(s.paths, node)
  PROVE  /\ Extends(s, t) /\ Rooted(t.paths) /\ Len(s.paths) + 1 \in 0..Len(t.paths)
         /\ MaterializePath(t, Len(s.paths) + 1) = Append(MaterializePath(s, node.parent), node.segment)
<1> DEFINE N == Len(s.paths)
           paths == t.paths
<1>1. /\ IsSeq(paths) /\ N \in Nat /\ Len(paths) = N + 1
      /\ \A r \in 1..N : paths[r] = s.paths[r]
      /\ paths[N + 1] = node
  BY AppendIsSeq
<1>2. node.parent \in 0..N /\ \A r \in 1..N : s.paths[r].parent \in 0..(r - 1) BY DEF Rooted
<1> HIDE DEF N
<1>3. Rooted(paths)
  <2>1. ASSUME NEW r \in 1..(N + 1) PROVE paths[r].parent \in 0..(r - 1)
    <3>1. r \in 1..N \/ r = N + 1 BY <1>1, NextIndex
    <3>2. (N + 1) - 1 = N BY <1>1
    <3>3. QED BY <3>1, <3>2, <1>1, <1>2
  <2>2. QED BY <2>1, <1>1 DEF Rooted
<1>4. N <= N + 1 /\ N + 1 \in 0..(N + 1) /\ N + 1 \in 1..(N + 1) BY <1>1
<1>5. Extends(s, t) BY <1>1, <1>3, <1>4 DEF Extends, N
<1>6. MaterializePath(t, N + 1) = Append(MaterializePath(t, node.parent), node.segment)
  <2>1. PathsUnfold(t) BY <1>1, <1>3, PathsUnfolded
  <2>2. QED BY <2>1, <1>1, <1>4 DEF PathsUnfold
<1>7. MaterializePath(t, node.parent) = MaterializePath(s, node.parent) BY <1>5, ExtendsPaths
<1>8. QED BY <1>1, <1>3, <1>4, <1>5, <1>6, <1>7 DEF N

IsString(l) == l.kind = "string"

\* next is lexs with l read after it: its bytes and its strings.
ReadsOn(next, lexs, l, N) ==
    /\ Grows(next, lexs, l, N)
    /\ Readable(next) /\ IsSeq(Bytes(lexs)) /\ IsSeq(BytesOf(l)) /\ Bytes(next) = Bytes(lexs) \o BytesOf(l)
    /\ SubSeq(lexs, 1, N) = lexs /\ \A n \in 0..N : SubSeq(next, 1, n) = SubSeq(lexs, 1, n)
    /\ \A n \in 0..N : StringsIn(next, n) = StringsIn(lexs, n) /\ StringsIn(lexs, n) \in Nat
    /\ StringsIn(next, N + 1) = IF IsString(l) THEN StringsIn(lexs, N) + 1 ELSE StringsIn(lexs, N)

\* Append is such a reading.
LEMMA AppendReads ==
  ASSUME NEW lexs, IsSeq(lexs), Readable(lexs), NEW l, IsSeq(BytesOf(l))
  PROVE  ReadsOn(Append(lexs, l), lexs, l, Len(lexs))
<1> DEFINE next == Append(lexs, l)
           N == Len(lexs)
<1>1. Grows(next, lexs, l, N) BY AppendGrows
<1>2. Readable(next) /\ IsSeq(Bytes(lexs)) /\ Bytes(next) = Bytes(lexs) \o BytesOf(l) BY BytesAppend
<1>3. SubSeq(lexs, 1, N) = lexs /\ \A n \in 0..N : SubSeq(next, 1, n) = SubSeq(lexs, 1, n) BY PartsOfAppend
<1>4. CountGrows(next, lexs, l, {"string"}) BY CountsGrow
<1> HIDE DEF next, N
<1>5. ASSUME NEW s, NEW n PROVE StringsIn(s, n) = Count(s, n, {"string"}) BY DEF StringsIn, Count
<1>6. Len(next) = N + 1 BY <1>1 DEF Grows
<1>7. /\ \A n \in 0..N : StringsIn(next, n) = StringsIn(lexs, n) /\ StringsIn(lexs, n) \in Nat
      /\ StringsIn(next, N + 1) = IF IsString(l) THEN StringsIn(lexs, N) + 1 ELSE StringsIn(lexs, N)
  BY <1>4, <1>5, <1>6 DEF CountGrows, N, IsString
<1>8. ReadsOn(next, lexs, l, N) BY <1>1, <1>2, <1>3, <1>7 DEF ReadsOn
<1>9. QED BY <1>8 DEF next, N

\* A token stays right when more is read and more nodes are added,
LEMMA TokenStays ==
  ASSUME NEW lexs, NEW next, NEW l, NEW N, ReadsOn(next, lexs, l, N),
         NEW s, NEW t, Extends(s, t), NEW i \in 1..N, NEW token, TokenOK(s, token, lexs, i)
  PROVE  TokenOK(t, token, next, i)
<1> DEFINE a == Bytes(lexs)
           b == BytesOf(l)
<1>1. Grows(next, lexs, l, N) BY DEF ReadsOn
<1>2. N \in Nat /\ next[i] = lexs[i] /\ i \in 1..(N + 1) /\ i - 1 \in 0..N /\ Level(next, i) = Level(lexs, i)
  <2>1. N \in Nat /\ next[i] = lexs[i] /\ \A m \in 1..(N + 1) : Level(next, m) = Level(lexs, m)
    BY <1>1 DEF Grows
  <2>2. i \in 1..(N + 1) /\ i - 1 \in 0..N BY <2>1
  <2>3. QED BY <2>1, <2>2
<1>3. SubSeq(next, 1, i - 1) = SubSeq(lexs, 1, i - 1) BY <1>2 DEF ReadsOn
<1>4. IsSeq(a) /\ IsSeq(b) /\ Bytes(next) = a \o b BY DEF ReadsOn
<1>5. token.start \in Nat /\ token.end \in Nat /\ token.end <= Len(a) BY DEF TokenOK
<1> HIDE DEF a, b
<1>6. /\ Len(a) \in Nat /\ Len(b) \in Nat /\ Len(a \o b) = Len(a) + Len(b)
      /\ \A m \in Int, n \in Int : 1 <= m /\ n <= Len(a) => SubSeq(a \o b, m, n) = SubSeq(a, m, n)
  BY <1>4, PartsOfConcat
<1>7. token.end <= Len(Bytes(next)) /\ SubSeq(Bytes(next), token.start + 1, token.end) = SubSeq(a, token.start + 1, token.end)
  <2> DEFINE x == token.start + 1
             y == token.end
             k == Len(a)
             m == Len(b)
  <2>1. x \in Int /\ y \in Int /\ 1 <= x /\ y <= k /\ k \in Nat /\ m \in Nat BY <1>5, <1>6
  <2>2. SubSeq(a \o b, x, y) = SubSeq(a, x, y) BY <2>1, <1>6
  <2>3. Len(Bytes(next)) = k + m BY <1>4, <1>6
  <2> HIDE DEF x, y, k, m
  <2>4. y <= k + m BY <2>1
  <2>5. QED BY <2>2, <2>3, <2>4, <1>4 DEF x, y
<1>8. /\ token.pathRef \in 0..Len(t.paths)
      /\ MaterializePath(t, token.pathRef) = MaterializePath(s, token.pathRef)
  <2>1. token.pathRef \in 0..Len(s.paths) BY DEF TokenOK
  <2>2. QED BY <2>1, ExtendsPaths
<1>9. IsPath(MaterializePath(t, token.pathRef), next, i)
  <2>1. IsPath(MaterializePath(s, token.pathRef), lexs, i) BY DEF TokenOK
  <2>2. IsPath(MaterializePath(s, token.pathRef), next, i) BY <2>1, <1>1, <1>2, PathStays
  <2>3. QED BY <2>2, <1>8
<1>10. QED BY <1>2, <1>3, <1>7, <1>8, <1>9 DEF TokenOK, a

\* and all of them do when it is no string that is read.
LEMMA StringsStay ==
  ASSUME NEW lexs, NEW next, NEW l, NEW N, ReadsOn(next, lexs, l, N), ~IsString(l),
         NEW s, NEW t, Extends(s, t), t.strings = s.strings, StringsOK(s, lexs)
  PROVE  StringsOK(t, next)
<1>1. /\ N \in Nat /\ Len(lexs) = N /\ Len(next) = N + 1 /\ next[N + 1] = l /\ \A m \in 1..N : next[m] = lexs[m]
      /\ N \in 0..N /\ \A m \in 1..N : m \in 0..N
  <2>1. N \in Nat /\ Len(lexs) = N /\ Len(next) = N + 1 /\ next[N + 1] = l /\ \A m \in 1..N : next[m] = lexs[m]
    BY DEF ReadsOn, Grows
  <2>2. N \in 0..N /\ \A m \in 1..N : m \in 0..N BY <2>1
  <2>3. QED BY <2>1, <2>2
<1>2. StringsIn(next, N + 1) = StringsIn(lexs, N) /\ \A m \in 0..N : StringsIn(next, m) = StringsIn(lexs, m)
  BY DEF ReadsOn
<1>3. Len(t.strings) = StringsIn(next, Len(next)) BY <1>1, <1>2 DEF StringsOK
<1>4. ASSUME NEW i \in 1..(N + 1), next[i].kind = "string"
      PROVE  /\ StringsIn(next, i) \in 1..Len(t.strings)
             /\ TokenOK(t, t.strings[StringsIn(next, i)], next, i)
  <2>1. i \in 1..N
    <3>1. i \in 1..N \/ i = N + 1 BY <1>1, NextIndex
    <3>2. i # N + 1 BY <1>1, <1>4 DEF IsString
    <3>3. QED BY <3>1, <3>2
  <2>2. StringsIn(next, i) = StringsIn(lexs, i) /\ lexs[i].kind = "string" BY <2>1, <1>1, <1>2, <1>4
  <2>3. StringsIn(lexs, i) \in 1..Len(s.strings) /\ TokenOK(s, s.strings[StringsIn(lexs, i)], lexs, i)
    BY <2>1, <2>2, <1>1 DEF StringsOK
  <2>4. TokenOK(t, s.strings[StringsIn(lexs, i)], next, i) BY <2>1, <2>3, TokenStays
  <2>5. QED BY <2>2, <2>3, <2>4
<1>5. QED BY <1>1, <1>3, <1>4 DEF StringsOK

\* The token that ReadString makes of l.
NewToken(token, s, lexs, l, N) ==
    /\ token.value = Decode(l.text)
    /\ token.start = Len(Bytes(lexs)) /\ token.end = Len(Bytes(lexs)) + Len(BytesOf(l))
    /\ token.depth = Level(lexs, N + 1) + 1 /\ token.pathRef = s.path

\* The token of a string that is read where the scanner stands is right,
LEMMA NewTokenOK ==
  ASSUME NEW lexs, NEW next, NEW l, NEW N, ReadsOn(next, lexs, l, N),
         NEW s, NEW t, Extends(s, t), s.path \in 0..Len(s.paths),
         Stands(MaterializePath(s, s.path), lexs, Level(lexs, N + 1)),
         NEW token, NewToken(token, s, lexs, l, N)
  PROVE  TokenOK(t, token, next, N + 1)
<1> DEFINE a == Bytes(lexs)
           b == BytesOf(l)
           path == MaterializePath(s, s.path)
<1>1. Grows(next, lexs, l, N) BY DEF ReadsOn
<1>2. N \in Nat /\ Len(lexs) = N /\ next[N + 1] = l BY <1>1 DEF Grows
<1>3. N + 1 \in 1..(N + 1) /\ (N + 1) - 1 = N /\ N \in 0..N BY <1>2
<1>4. Level(next, N + 1) = Level(lexs, N + 1) BY <1>1, <1>3 DEF Grows
<1>5. IsSeq(a) /\ IsSeq(b) /\ Bytes(next) = a \o b /\ SubSeq(next, 1, N) = lexs BY <1>3 DEF ReadsOn
<1>6. token.start = Len(a) /\ token.end = Len(a) + Len(b) BY DEF NewToken
<1> HIDE DEF a, b
<1>7. Len(a) \in Nat /\ Len(b) \in Nat /\ Len(a \o b) = Len(a) + Len(b) /\ SubSeq(a \o b, Len(a) + 1, Len(a) + Len(b)) = b
  BY <1>5, PartsOfConcat
<1>8. token.start \in Nat /\ token.end \in Nat /\ token.end <= Len(Bytes(next))
  <2> DEFINE k == Len(a)
             m == Len(b)
  <2>1. k \in Nat /\ m \in Nat /\ token.start = k /\ token.end = k + m /\ Len(Bytes(next)) = k + m BY <1>5, <1>6, <1>7
  <2> HIDE DEF k, m
  <2>2. QED BY <2>1
<1>9. SubSeq(Bytes(next), token.start + 1, token.end) = b BY <1>5, <1>6, <1>7
<1>10. token.start = Len(Bytes(SubSeq(next, 1, (N + 1) - 1))) BY <1>3, <1>5, <1>6 DEF a
<1>11. token.pathRef \in 0..Len(t.paths) /\ MaterializePath(t, token.pathRef) = path
  <2>1. token.pathRef = s.path BY DEF NewToken
  <2>2. QED BY <2>1, ExtendsPaths
<1>12. IsPath(path, next, N + 1)
  <2>1. ASSUME NEW n \in 1..Len(path) PROVE IsSegment(path[n], next, N + 1, n)
    <3>1. IsSegment(path[n], lexs, N + 1, n) BY <1>2 DEF Stands
    <3>2. QED BY <3>1, <1>1, <1>3, SegmentStays
  <2>2. Len(path) = Level(next, N + 1) BY <1>4 DEF Stands
  <2>3. QED BY <2>1, <2>2 DEF IsPath
<1>13. QED BY <1>2, <1>4, <1>8, <1>9, <1>10, <1>11, <1>12 DEF TokenOK, NewToken, b

\* so that all tokens are right after it.
LEMMA StringRead ==
  ASSUME NEW lexs, NEW next, NEW l, NEW N, ReadsOn(next, lexs, l, N), IsString(l),
         NEW s, NEW t, Extends(s, t), s.path \in 0..Len(s.paths), IsSeq(s.strings), StringsOK(s, lexs),
         Stands(MaterializePath(s, s.path), lexs, Level(lexs, N + 1)),
         NEW token, NewToken(token, s, lexs, l, N), t.strings = Append(s.strings, token)
  PROVE  StringsOK(t, next)
<1> DEFINE k == Len(s.strings)
           strings == t.strings
<1>1. TokenOK(t, token, next, N + 1) BY NewTokenOK
<1>2. k \in Nat /\ Len(strings) = k + 1 /\ strings[k + 1] = token /\ \A n \in 1..k : strings[n] = s.strings[n]
  BY AppendIsSeq
<1>3. /\ N \in Nat /\ Len(lexs) = N /\ Len(next) = N + 1 /\ next[N + 1] = l /\ \A m \in 1..N : next[m] = lexs[m]
      /\ N \in 0..N /\ \A m \in 1..N : m \in 0..N
  <2>1. N \in Nat /\ Len(lexs) = N /\ Len(next) = N + 1 /\ next[N + 1] = l /\ \A m \in 1..N : next[m] = lexs[m]
    BY DEF ReadsOn, Grows
  <2>2. N \in 0..N /\ \A m \in 1..N : m \in 0..N BY <2>1
  <2>3. QED BY <2>1, <2>2
<1>4. k = StringsIn(lexs, N) BY <1>3 DEF StringsOK
<1>5. StringsIn(next, N + 1) = k + 1 /\ \A m \in 0..N : StringsIn(next, m) = StringsIn(lexs, m)
  BY <1>4 DEF ReadsOn
<1> HIDE DEF k, strings
<1>6. ASSUME NEW i \in 1..(N + 1), next[i].kind = "string"
      PROVE  StringsIn(next, i) \in 1..(k + 1) /\ TokenOK(t, strings[StringsIn(next, i)], next, i)
  <2>1. i \in 1..N \/ i = N + 1 BY <1>3, NextIndex
  <2>2. CASE i = N + 1
    <3>1. k + 1 \in 1..(k + 1) BY <1>2
    <3>2. QED BY <2>2, <3>1, <1>1, <1>2, <1>5
  <2>3. CASE i \in 1..N
    <3> DEFINE n == StringsIn(lexs, i)
    <3>1. StringsIn(next, i) = n /\ lexs[i].kind = "string" BY <2>3, <1>3, <1>5, <1>6
    <3>2. n \in 1..k /\ TokenOK(s, s.strings[n], lexs, i) BY <2>3, <3>1, <1>3 DEF StringsOK, k
    <3>3. TokenOK(t, s.strings[n], next, i) BY <2>3, <3>2, TokenStays
    <3> HIDE DEF n
    <3>4. n \in 1..(k + 1) /\ strings[n] = s.strings[n] BY <3>2, <1>2
    <3>5. QED BY <3>1, <3>3, <3>4
  <2>4. QED BY <2>1, <2>2, <2>3
<1>7. QED BY <1>2, <1>3, <1>5, <1>6 DEF StringsOK, strings

\* Nothing is read: the strings and the frames are what they were.
LEMMA StringsSame ==
  ASSUME NEW lexs, NEW s, NEW t, Extends(s, t), t.strings = s.strings, StringsOK(s, lexs)
  PROVE  StringsOK(t, lexs)
<1>1. ASSUME NEW token, NEW i, TokenOK(s, token, lexs, i) PROVE TokenOK(t, token, lexs, i)
  <2>1. token.pathRef \in 0..Len(s.paths) BY <1>1 DEF TokenOK
  <2>2. token.pathRef \in 0..Len(t.paths) /\ MaterializePath(t, token.pathRef) = MaterializePath(s, token.pathRef)
    BY <2>1, ExtendsPaths
  <2>3. QED BY <2>2, <1>1 DEF TokenOK
<1>2. ASSUME NEW i \in 1..Len(lexs), lexs[i].kind = "string"
      PROVE  StringsIn(lexs, i) \in 1..Len(t.strings) /\ TokenOK(t, t.strings[StringsIn(lexs, i)], lexs, i)
  BY <1>1, <1>2 DEF StringsOK
<1>3. Len(t.strings) = StringsIn(lexs, Len(lexs)) BY DEF StringsOK
<1>4. QED BY <1>2, <1>3 DEF StringsOK

\* The same of a frame, when nothing is read,
LEMMA FrameSame ==
  ASSUME NEW lexs, NEW s, NEW t, Extends(s, t), NEW frame, NEW n, FrameOK(s, frame, lexs, n)
  PROVE  FrameOK(t, frame, lexs, n)
<1>1. frame.path \in 0..Len(s.paths) BY DEF FrameOK
<1>2. frame.path \in 0..Len(t.paths) /\ MaterializePath(t, frame.path) = MaterializePath(s, frame.path)
  BY <1>1, ExtendsPaths
<1>3. QED BY <1>2 DEF FrameOK

\* and when something other than its own comma is read.
LEMMA FrameStays ==
  ASSUME NEW lexs, NEW next, NEW l, NEW N, Grows(next, lexs, l, N),
         NEW s, NEW t, Extends(s, t), NEW n \in Nat \ {0}, n <= Level(lexs, N + 1),
         n < Level(lexs, N + 1) \/ ~IsComma(l),
         NEW frame, FrameOK(s, frame, lexs, n)
  PROVE  FrameOK(t, frame, next, n)
<1> DEFINE v == Level(lexs, N + 1)
           k == n - 1
<1>1. v \in Int
  <2>1. N \in Nat BY DEF Grows
  <2>2. N + 1 \in 1..(N + 1) BY <2>1
  <2>3. QED BY <2>2 DEF Grows
<1>2. k \in Nat /\ k <= v /\ k < v
  <2>1. n <= v OBVIOUS
  <2> HIDE DEF v
  <2>2. QED BY <2>1, <1>1
<1>3. Stands(MaterializePath(s, frame.path), lexs, k) /\ IsContainer(frame, lexs, n) BY DEF FrameOK
<1> HIDE DEF k
<1>4. Stands(MaterializePath(s, frame.path), next, k) BY <1>2, <1>3, StandsGoesOn
<1>5. IsContainer(frame, next, n) BY <1>3, FrameGoesOn
<1>6. frame.path \in 0..Len(s.paths) BY DEF FrameOK
<1>7. frame.path \in 0..Len(t.paths) /\ MaterializePath(t, frame.path) = MaterializePath(s, frame.path)
  BY <1>6, ExtendsPaths
<1>8. QED BY <1>4, <1>5, <1>7 DEF FrameOK, k

-----------------------------------------------------------------------------
(* The steps of the scanner and the index *)

\* The stack of s is as deep as the brackets of lexs that are open.
AtLevel(s, lexs) ==
    /\ IsSeq(lexs) /\ IsSeq(s.paths) /\ IsSeq(s.strings) /\ IsSeq(s.stack)
    /\ Len(s.stack) = Level(lexs, Len(lexs) + 1)

\* The stack is as long as the level of what is read next.
LEMMA AtLevelFacts ==
  ASSUME NEW lexs, NEW next, NEW l, NEW N, Grows(next, lexs, l, N), NEW s, AtLevel(s, lexs)
  PROVE  /\ Len(s.stack) \in Nat /\ Len(s.stack) = Level(lexs, N + 1) /\ Len(s.stack) <= Level(lexs, N + 1)
         /\ Len(lexs) = N /\ Len(next) = N + 1
<1> DEFINE K == Len(s.stack)
<1>1. Len(lexs) = N /\ Len(next) = N + 1 BY DEF Grows
<1>2. K \in Nat /\ K = Level(lexs, N + 1) BY <1>1, SeqFacts DEF AtLevel
<1> HIDE DEF K
<1>3. K <= Level(lexs, N + 1) BY <1>2
<1>4. QED BY <1>1, <1>2, <1>3 DEF K

\* A lexeme that is not a comma leaves the open containers as they were.
LEMMA FramesStay ==
  ASSUME NEW lexs, NEW next, NEW l, NEW N, Grows(next, lexs, l, N), ~IsComma(l),
         NEW s, NEW t, Extends(s, t), AtLevel(s, lexs), FramesOK(s, lexs)
  PROVE  \A n \in 1..Len(s.stack) : FrameOK(t, s.stack[n], next, n)
<1> DEFINE K == Len(s.stack)
           v == Level(lexs, N + 1)
<1>1. K \in Nat /\ K = v BY AtLevelFacts
<1>2. ASSUME NEW n \in 1..K PROVE FrameOK(t, s.stack[n], next, n)
  <2>1. FrameOK(s, s.stack[n], lexs, n) BY DEF FramesOK
  <2>2. n \in Nat \ {0} /\ n <= v
    <3> HIDE DEF K, v
    <3>1. QED BY <1>1
  <2>3. QED BY <2>1, <2>2, FrameStays
<1>3. QED BY <1>2

\* OpenContainer
Opened(s, t, l) ==
    \E frame :
       /\ l.kind \in Opening /\ frame.kind = l.kind /\ frame.index = 0 /\ frame.path = s.path
       /\ s.expect = "value" /\ t.expect = "first" /\ t.path = s.path
       /\ t.paths = s.paths /\ t.strings = s.strings /\ t.stack = Append(s.stack, frame)

\* A container is opened: the new frame is entered at the path of its value.
LEMMA OpenedOK ==
  ASSUME NEW lexs, NEW next, NEW l, NEW N, ReadsOn(next, lexs, l, N),
         NEW s, NEW t, AtLevel(s, lexs), IndexOK(s, lexs), Opened(s, t, l)
  PROVE  IndexOK(t, next)
<1> DEFINE K == Len(s.stack)
           v == Level(lexs, N + 1)
           stack == t.stack
<1>1. Grows(next, lexs, l, N) BY DEF ReadsOn
<1>2. K \in Nat /\ K = v /\ K <= v /\ Len(lexs) = N /\ Len(next) = N + 1 BY <1>1, AtLevelFacts
<1>3. PICK frame : /\ l.kind \in Opening /\ frame.kind = l.kind /\ frame.index = 0 /\ frame.path = s.path
                   /\ stack = Append(s.stack, frame)
  BY DEF Opened
<1>4. /\ s.expect = "value" /\ t.expect = "first" /\ t.path = s.path
      /\ t.paths = s.paths /\ t.strings = s.strings
  BY DEF Opened
<1>5. ~IsComma(l) /\ ~Separates(l) /\ ~IsString(l) BY <1>3 DEF Opening, IsComma, IsKey, Separates, IsString
<1>6. Extends(s, t) BY <1>4, SamePathsExtend DEF AtLevel, IndexOK
<1>7. FramesOK(s, lexs) /\ HereOK(s, lexs) /\ StringsOK(s, lexs) BY DEF IndexOK
<1>8. \A n \in 1..K : FrameOK(t, s.stack[n], next, n) BY <1>1, <1>5, <1>6, <1>7, FramesStay
<1>9. Len(stack) = K + 1 /\ stack[K + 1] = frame /\ \A n \in 1..K : stack[n] = s.stack[n]
  BY <1>3, AppendIsSeq DEF AtLevel
<1>10. FrameOK(t, frame, next, K + 1)
  <2>1. IsContainer(frame, next, K + 1)
    <3>1. IsContainer(frame, next, v + 1) BY <1>1, <1>3, ContainerOpens
    <3>2. QED BY <3>1, <1>2
  <2>2. s.path \in 0..Len(s.paths) /\ Stands(MaterializePath(s, s.path), lexs, K) BY <1>4, <1>7 DEF HereOK
  <2>3. Stands(MaterializePath(s, s.path), next, K)
    <3> HIDE DEF K
    <3>1. K \in Nat /\ K <= Level(lexs, N + 1) BY <1>2
    <3>2. QED BY <3>1, <2>2, <1>1, <1>5, StandsGoesOn
  <2>4. s.path \in 0..Len(t.paths) /\ MaterializePath(t, s.path) = MaterializePath(s, s.path)
    BY <2>2, <1>6, ExtendsPaths
  <2>5. (K + 1) - 1 = K
    <3> HIDE DEF K
    <3>1. K \in Nat BY <1>2
    <3>2. QED BY <3>1
  <2>6. frame.path = s.path BY <1>3
  <2> HIDE DEF K
  <2>7. QED BY <2>1, <2>3, <2>4, <2>5, <2>6 DEF FrameOK
<1> HIDE DEF stack
<1>11. FramesOK(t, next)
  <2> HIDE DEF K
  <2>1. ASSUME NEW n \in 1..(K + 1) PROVE FrameOK(t, stack[n], next, n)
    <3>1. K \in Nat BY <1>2
    <3>2. n \in 1..K \/ n = K + 1 BY <3>1, NextIndex
    <3>3. CASE n \in 1..K BY <3>3, <1>8, <1>9
    <3>4. CASE n = K + 1 BY <3>4, <1>9, <1>10
    <3>5. QED BY <3>2, <3>3, <3>4
  <2>2. QED BY <2>1, <1>9 DEF FramesOK, stack
<1>12. HereOK(t, next)
  <2>1. t.path \in 0..Len(t.paths) BY <1>4, <1>7 DEF HereOK
  <2>2. t.path = t.stack[Len(t.stack)].path BY <1>3, <1>4, <1>9 DEF stack
  <2>3. QED BY <2>1, <2>2, <1>4 DEF HereOK
<1>13. StringsOK(t, next) BY <1>4, <1>5, <1>6, <1>7, StringsStay
<1>14. Readable(next) BY DEF ReadsOn
<1>15. Rooted(t.paths) BY <1>6 DEF Extends
<1>16. QED BY <1>11, <1>12, <1>13, <1>14, <1>15 DEF IndexOK

\* After: a value is complete, the scanner is back in the innermost container.
Back(t) ==
    /\ IsSeq(t.stack) /\ t.expect # "value"
    /\ t.path = IF t.stack = <<>> THEN 0 ELSE Last(t.stack).path

\* A sequence is empty when its length is zero.
LEMMA NotEmpty ==
  ASSUME NEW s, IsSeq(s)
  PROVE  /\ Len(s) \in Nat /\ (s = <<>> <=> Len(s) = 0)
         /\ s # <<>> => Len(s) \in Nat \ {0} /\ Len(s) \in 1..Len(s)
<1> DEFINE S == ToSet(s)
           N == Len(s)
<1>1. s \in Seq(S) BY DEF IsSeq
<1> HIDE DEF S
<1>2. N \in Nat /\ (s = <<>> <=> N = 0) BY <1>1, EmptySeq, LenProperties
<1> HIDE DEF N
<1>3. N # 0 => N \in Nat \ {0} /\ N \in 1..N BY <1>2
<1>4. QED BY <1>2, <1>3 DEF N

\* After a value the scanner is back at the path of the innermost container.
LEMMA BackHere ==
  ASSUME NEW t, Back(t), IsSeq(t.paths), NEW lexs, FramesOK(t, lexs)
  PROVE  HereOK(t, lexs)
<1> DEFINE K == Len(t.stack)
<1>1. t.expect # "value" /\ t.path = IF t.stack = <<>> THEN 0 ELSE t.stack[K].path BY DEF Back, Last
<1>2. t.stack # <<>> => K \in 1..K BY NotEmpty DEF Back
<1>3. t.stack # <<>> => t.stack[K].path \in 0..Len(t.paths) BY <1>2 DEF FramesOK, FrameOK
<1>4. 0 \in 0..Len(t.paths)
  <2>1. Len(t.paths) \in Nat BY SeqFacts
  <2>2. QED BY <2>1
<1>5. QED BY <1>1, <1>3, <1>4 DEF HereOK

\* A scalar or a string is read: the scanner goes on where the container is.
LEMMA ValueOK ==
  ASSUME NEW lexs, NEW next, NEW l, NEW N, ReadsOn(next, lexs, l, N), ~IsComma(l),
         NEW s, NEW t, AtLevel(s, lexs), IndexOK(s, lexs), t.paths = s.paths,
         t.stack = s.stack, Back(t), StringsOK(t, next)
  PROVE  IndexOK(t, next)
<1>1. Grows(next, lexs, l, N) /\ Readable(next) BY DEF ReadsOn
<1>2. Extends(s, t) BY SamePathsExtend DEF AtLevel, IndexOK
<1>3. \A n \in 1..Len(s.stack) : FrameOK(t, s.stack[n], next, n) BY <1>1, <1>2, FramesStay DEF IndexOK
<1>4. FramesOK(t, next) BY <1>3 DEF FramesOK
<1>5. Rooted(t.paths) /\ IsSeq(t.paths) BY <1>2 DEF Extends
<1>6. HereOK(t, next) BY <1>4, <1>5, BackHere
<1>7. QED BY <1>1, <1>4, <1>5, <1>6 DEF IndexOK

\* A container is closed: the path saved in the frame below is that of its container.
LEMMA ClosedOK ==
  ASSUME NEW lexs, NEW next, NEW l, NEW N, ReadsOn(next, lexs, l, N), ~IsComma(l), ~IsString(l),
         NEW s, NEW t, AtLevel(s, lexs), IndexOK(s, lexs),
         t.paths = s.paths, t.strings = s.strings, Back(t),
         Len(t.stack) = Len(s.stack) - 1, \A n \in 1..Len(t.stack) : t.stack[n] = s.stack[n]
  PROVE  IndexOK(t, next)
<1> DEFINE K == Len(s.stack)
           M == Len(t.stack)
<1>1. Grows(next, lexs, l, N) /\ Readable(next) BY DEF ReadsOn
<1>2. Extends(s, t) BY SamePathsExtend DEF AtLevel, IndexOK
<1>3. \A n \in 1..K : FrameOK(t, s.stack[n], next, n) BY <1>1, <1>2, FramesStay DEF IndexOK
<1>4. FramesOK(t, next)
  <2>1. K \in Nat /\ M = K - 1 /\ \A n \in 1..M : t.stack[n] = s.stack[n] BY SeqFacts DEF AtLevel
  <2> HIDE DEF K, M
  <2>2. \A n \in 1..M : n \in 1..K BY <2>1
  <2>3. \A n \in 1..M : FrameOK(t, t.stack[n], next, n) BY <2>1, <2>2, <1>3
  <2>4. QED BY <2>3 DEF FramesOK, M
<1>5. Rooted(t.paths) /\ IsSeq(t.paths) BY <1>2 DEF Extends
<1>6. HereOK(t, next) BY <1>4, <1>5, BackHere
<1>7. StringsOK(t, next) BY <1>2, StringsStay DEF IndexOK
<1>8. QED BY <1>1, <1>4, <1>5, <1>6, <1>7 DEF IndexOK

\* Comma: the innermost container goes on to its next child.
NextChild(s, t, K) ==
    /\ s.expect # "value" /\ t.expect # "value" /\ t.path = s.path
    /\ t.paths = s.paths /\ t.strings = s.strings
    /\ Len(t.stack) = K /\ IsSeq(t.stack)
    /\ \A n \in 1..K : n # K => t.stack[n] = s.stack[n]
    /\ K # 0 => Counts(s.stack[K], t.stack[K]) /\ t.stack[K].path = s.stack[K].path

\* A comma is read: the frame on top moves to its next child.
LEMMA CommaOK ==
  ASSUME NEW lexs, NEW next, NEW l, NEW N, ReadsOn(next, lexs, l, N), IsComma(l),
         NEW s, NEW t, AtLevel(s, lexs), IndexOK(s, lexs), NextChild(s, t, Len(s.stack))
  PROVE  IndexOK(t, next)
<1> DEFINE K == Len(s.stack)
           v == Level(lexs, N + 1)
<1>1. Grows(next, lexs, l, N) /\ Readable(next) BY DEF ReadsOn
<1>2. K \in Nat /\ K = v /\ K <= v BY <1>1, AtLevelFacts
<1>3. /\ s.expect # "value" /\ t.expect # "value" /\ t.path = s.path
      /\ t.paths = s.paths /\ t.strings = s.strings
  BY DEF NextChild
<1>4. /\ Len(t.stack) = K /\ IsSeq(t.stack)
      /\ \A n \in 1..K : n # K => t.stack[n] = s.stack[n]
      /\ K # 0 => Counts(s.stack[K], t.stack[K]) /\ t.stack[K].path = s.stack[K].path
  BY DEF NextChild
<1>5. Extends(s, t) BY <1>3, SamePathsExtend DEF AtLevel, IndexOK
<1>6. FramesOK(s, lexs) /\ HereOK(s, lexs) /\ StringsOK(s, lexs) BY DEF IndexOK
<1>7. ~IsString(l) BY DEF IsComma, IsString
<1>8. ASSUME NEW n \in 1..K PROVE FrameOK(t, t.stack[n], next, n)
  <2>1. FrameOK(s, s.stack[n], lexs, n) BY <1>6 DEF FramesOK
  <2>2. n \in Nat \ {0} /\ n <= v
    <3> HIDE DEF K, v
    <3>1. QED BY <1>2
  <2>3. CASE n # K
    <3>1. n < v
      <4> HIDE DEF K, v
      <4>1. QED BY <2>3, <1>2
    <3>2. FrameOK(t, s.stack[n], next, n) BY <2>1, <2>2, <3>1, <1>1, <1>5, FrameStays
    <3>3. QED BY <3>2, <2>3, <1>4
  <2>4. CASE n = K
    <3> DEFINE f == s.stack[n]
               g == t.stack[n]
               k == n - 1
    <3>1. K # 0
      <4> HIDE DEF K
      <4>1. QED BY <2>2, <2>4
    <3>2. Counts(f, g) /\ g.path = f.path BY <3>1, <2>4, <1>4
    <3>3. f.path \in 0..Len(s.paths) /\ Stands(MaterializePath(s, f.path), lexs, k) /\ IsContainer(f, lexs, n)
      BY <2>1 DEF FrameOK
    <3> HIDE DEF f, g
    <3>4. IsContainer(g, next, n)
      <4>1. n = Level(lexs, N + 1) /\ n \in Nat BY <2>2, <2>4, <1>2
      <4>2. QED BY <4>1, <3>2, <3>3, <1>1, CommaCounts
    <3>5. k \in Nat /\ k <= v /\ k < v
      <4> HIDE DEF K, v
      <4>1. QED BY <2>2, <2>4, <1>2
    <3> HIDE DEF k
    <3>6. Stands(MaterializePath(s, f.path), next, k) BY <3>3, <3>5, <1>1, StandsGoesOn
    <3>7. f.path \in 0..Len(t.paths) /\ MaterializePath(t, f.path) = MaterializePath(s, f.path)
      BY <3>3, <1>5, ExtendsPaths
    <3>8. FrameOK(t, g, next, n) BY <3>2, <3>4, <3>6, <3>7 DEF FrameOK, k
    <3>9. QED BY <3>8 DEF g
  <2>5. QED BY <2>3, <2>4
<1>9. FramesOK(t, next) BY <1>4, <1>8 DEF FramesOK
<1>10. HereOK(t, next)
  <2>1. t.path \in 0..Len(t.paths) BY <1>3, <1>6 DEF HereOK
  <2>2. t.stack # <<>> => K # 0 /\ s.stack # <<>> BY <1>4, NotEmpty DEF AtLevel
  <2>3. s.stack # <<>> => s.path = s.stack[K].path BY <1>3, <1>6 DEF HereOK
  <2>4. t.stack # <<>> => t.path = t.stack[Len(t.stack)].path BY <2>2, <2>3, <1>3, <1>4
  <2>5. QED BY <2>1, <2>4, <1>3 DEF HereOK
<1>11. StringsOK(t, next) BY <1>3, <1>5, <1>6, <1>7, StringsStay
<1>12. Rooted(t.paths) BY <1>5 DEF Extends
<1>13. QED BY <1>1, <1>9, <1>10, <1>11, <1>12 DEF IndexOK

\* EnterMember and EnterElement: t goes on below a new node of s.
Child(s, t, segment) ==
    /\ t.paths = Append(s.paths, [parent |-> s.path, segment |-> segment])
    /\ t.path = Len(s.paths) + 1 /\ t.expect = "value"
    /\ t.stack = s.stack /\ t.strings = s.strings

\* The path of a child node is that of the container and the segment.
LEMMA ChildPaths ==
  ASSUME NEW s, IsSeq(s.paths), Rooted(s.paths), s.path \in 0..Len(s.paths), NEW t, NEW segment, Child(s, t, segment)
  PROVE  /\ Extends(s, t) /\ Rooted(t.paths) /\ t.path \in 0..Len(t.paths)
         /\ MaterializePath(t, t.path) = Append(MaterializePath(s, s.path), segment)
<1> DEFINE node == [parent |-> s.path, segment |-> segment]
<1>1. t.paths = Append(s.paths, node) /\ t.path = Len(s.paths) + 1 BY DEF Child
<1>2. node.parent = s.path /\ node.segment = segment OBVIOUS
<1> HIDE DEF node
<1>3. node.parent \in 0..Len(s.paths) BY <1>2
<1>4. /\ Extends(s, t) /\ Rooted(t.paths) /\ Len(s.paths) + 1 \in 0..Len(t.paths)
      /\ MaterializePath(t, Len(s.paths) + 1) = Append(MaterializePath(s, node.parent), node.segment)
  BY <1>1, <1>3, NodeExtends
<1>5. QED BY <1>1, <1>2, <1>4

\* The innermost container of a scanner that stands before a child.
LEMMA InnermostFacts ==
  ASSUME NEW lexs, NEW s, AtLevel(s, lexs), IndexOK(s, lexs), s.expect # "value", s.stack # <<>>
  PROVE  /\ Len(s.stack) \in Nat \ {0} /\ FrameOK(s, Last(s.stack), lexs, Len(s.stack))
         /\ s.path = Last(s.stack).path /\ s.path \in 0..Len(s.paths)
<1> DEFINE K == Len(s.stack)
<1>1. K \in Nat \ {0} /\ K \in 1..K BY NotEmpty DEF AtLevel
<1>2. Last(s.stack) = s.stack[K] BY DEF Last
<1>3. FrameOK(s, s.stack[K], lexs, K) BY <1>1 DEF IndexOK, FramesOK
<1>4. s.path = s.stack[K].path /\ s.path \in 0..Len(s.paths) BY DEF IndexOK, HereOK
<1>5. QED BY <1>1, <1>2, <1>3, <1>4

\* An element is entered: the scanner stands at its path.
LEMMA ElementOK ==
  ASSUME NEW lexs, NEW s, NEW t, AtLevel(s, lexs), IndexOK(s, lexs), s.expect # "value", s.stack # <<>>,
         InArray(Last(s.stack)), Child(s, t, Index(Last(s.stack).index))
  PROVE  IndexOK(t, lexs)
<1> DEFINE K == Len(s.stack)
           frame == Last(s.stack)
           segment == Index(frame.index)
<1>1. K \in Nat \ {0} /\ FrameOK(s, frame, lexs, K) /\ s.path = frame.path /\ s.path \in 0..Len(s.paths)
  BY InnermostFacts
<1>2. IsSeq(lexs) /\ IsSeq(s.paths) /\ Rooted(s.paths) BY DEF AtLevel, IndexOK
<1>3. Child(s, t, segment) /\ InArray(frame) OBVIOUS
<1> HIDE DEF segment
<1>4. /\ Extends(s, t) /\ Rooted(t.paths) /\ t.path \in 0..Len(t.paths)
      /\ MaterializePath(t, t.path) = Append(MaterializePath(s, s.path), segment)
  BY <1>1, <1>2, <1>3, ChildPaths
<1>5. Stands(Append(MaterializePath(s, s.path), segment), lexs, K)
  <2>1. Stands(MaterializePath(s, s.path), lexs, K - 1) /\ IsContainer(frame, lexs, K) BY <1>1 DEF FrameOK
  <2> HIDE DEF K, frame
  <2>2. QED BY <2>1, <1>1, <1>2, <1>3, ElementStands DEF segment
<1>6. t.stack = s.stack /\ t.strings = s.strings /\ t.expect = "value" BY <1>3 DEF Child
<1>7. HereOK(t, lexs) BY <1>4, <1>5, <1>6 DEF HereOK
<1>8. FramesOK(t, lexs)
  <2>1. ASSUME NEW n \in 1..K PROVE FrameOK(t, s.stack[n], lexs, n)
    <3>1. FrameOK(s, s.stack[n], lexs, n) BY DEF IndexOK, FramesOK
    <3>2. QED BY <3>1, <1>4, FrameSame
  <2>2. QED BY <2>1, <1>6 DEF FramesOK
<1>9. StringsOK(t, lexs) BY <1>4, <1>6, StringsSame DEF IndexOK
<1>10. Readable(lexs) BY DEF IndexOK
<1>11. QED BY <1>4, <1>7, <1>8, <1>9, <1>10 DEF IndexOK

\* A key and a colon are read: the scanner stands at the path of the member.
LEMMA MemberOK ==
  ASSUME NEW lexs, NEW one, NEW two, NEW a, NEW b, NEW N, ReadsOn(one, lexs, a, N), IsKey(a),
         ReadsOn(two, one, b, N + 1), ~Separates(b), ~IsString(b),
         NEW s, NEW t, AtLevel(s, lexs), IndexOK(s, lexs), s.expect # "value", s.stack # <<>>,
         InObject(Last(s.stack)), Child(s, t, Key(a.key))
  PROVE  IndexOK(t, two)
<1> DEFINE K == Len(s.stack)
           M == N + 1
           frame == Last(s.stack)
           segment == Key(a.key)
           path == Append(MaterializePath(s, s.path), segment)
<1>1. Grows(one, lexs, a, N) /\ Grows(two, one, b, M) /\ Readable(two) BY DEF ReadsOn
<1>2. K \in Nat \ {0} /\ FrameOK(s, frame, lexs, K) /\ s.path = frame.path /\ s.path \in 0..Len(s.paths)
  BY InnermostFacts
<1>3. IsSeq(lexs) /\ IsSeq(s.paths) /\ Rooted(s.paths) /\ FramesOK(s, lexs) /\ StringsOK(s, lexs)
  BY DEF AtLevel, IndexOK
<1>4. Child(s, t, segment) /\ InObject(frame) OBVIOUS
<1> HIDE DEF segment
<1>5. /\ Extends(s, t) /\ Rooted(t.paths) /\ t.path \in 0..Len(t.paths)
      /\ MaterializePath(t, t.path) = path
  BY <1>2, <1>3, <1>4, ChildPaths
<1>6. K = Level(lexs, N + 1) /\ Len(one) = M /\ IsSeq(one)
  <2>1. K \in Nat /\ K = Level(lexs, N + 1) BY <1>1, AtLevelFacts
  <2>2. Len(one) = M /\ IsSeq(one) BY <1>1 DEF Grows
  <2>3. QED BY <2>1, <2>2
<1>7. ~IsComma(a) /\ ~IsString(a) /\ ~IsComma(b)
  <2>1. ~IsComma(a) /\ ~IsString(a) BY DEF IsKey, IsComma, IsString
  <2>2. QED BY <2>1 DEF Separates
<1>8. Stands(path, one, K)
  <2>1. Stands(MaterializePath(s, s.path), lexs, K - 1) /\ IsContainer(frame, lexs, K) BY <1>2 DEF FrameOK
  <2> HIDE DEF K, frame
  <2>2. QED BY <2>1, <1>1, <1>2, <1>4, <1>6, MemberStands DEF segment
<1> HIDE DEF path
<1>9. K = Level(one, M + 1)
  <2>1. Level(one, N + 2) = LevelAfter(Level(lexs, N + 1), a) /\ N \in Nat BY <1>1 DEF Grows
  <2>2. a.kind \notin Opening /\ a.kind \notin ClosingBrackets BY DEF IsKey, Opening, ClosingBrackets
  <2>3. Level(one, N + 2) = K BY <2>1, <2>2, <1>6 DEF LevelAfter
  <2>4. N + 2 = M + 1 BY <2>1
  <2>5. QED BY <2>3, <2>4
<1> HIDE DEF M, frame
<1>10. Extends(s, s) BY <1>3, SamePathsExtend
<1>11. AtLevel(s, one) BY <1>6, <1>9 DEF AtLevel
<1>12. FramesOK(s, one) /\ StringsOK(s, one)
  <2>1. FramesOK(s, one) BY <1>1, <1>3, <1>7, <1>10, FramesStay DEF FramesOK
  <2>2. StringsOK(s, one) BY <1>3, <1>7, <1>10, StringsStay
  <2>3. QED BY <2>1, <2>2
<1>13. t.stack = s.stack /\ t.strings = s.strings /\ t.expect = "value" BY <1>4 DEF Child
<1>14. FramesOK(t, two)
  <2>1. \A n \in 1..K : FrameOK(t, s.stack[n], two, n) BY <1>1, <1>5, <1>7, <1>11, <1>12, FramesStay
  <2>2. QED BY <2>1, <1>13 DEF FramesOK
<1>15. StringsOK(t, two)
  <2>1. ReadsOn(two, one, b, M) BY DEF M
  <2>2. QED BY <2>1, <1>5, <1>12, <1>13, StringsStay
<1>16. Stands(path, two, K)
  <2>1. K \in Nat /\ K <= Level(one, M + 1) BY <1>1, <1>11, AtLevelFacts
  <2> HIDE DEF K
  <2>2. QED BY <2>1, <1>1, <1>8, StandsGoesOn
<1>17. HereOK(t, two) BY <1>5, <1>13, <1>16 DEF HereOK
<1>18. QED BY <1>1, <1>5, <1>14, <1>15, <1>17 DEF IndexOK

\* The brackets that are open are the stack.
LEMMA LevelIsStack == IInv => AtLevel(scan, lexemes)
<1> SUFFICES ASSUME IInv PROVE AtLevel(scan, lexemes)
  OBVIOUS
<1> DEFINE N == Len(lexemes)
<1>1. IsSeq(lexemes) /\ IsSeq(scan.paths) /\ IsSeq(scan.strings) /\ IsSeq(scan.stack) BY DEF IInv, Typed
<1>2. Len(scan.stack) = Count(lexemes, N, Opening) - Count(lexemes, N, ClosingBrackets) BY DEF IInv, Nested
<1>3. Level(lexemes, N + 1) = Count(lexemes, (N + 1) - 1, Opening) - Count(lexemes, (N + 1) - 1, ClosingBrackets)
  BY DEF Level, OpensAt, ClosesAt, Count, Opening, ClosingBrackets
<1>4. (N + 1) - 1 = N
  <2>1. N \in Nat BY <1>1, SeqFacts
  <2> HIDE DEF N
  <2>2. QED BY <2>1
<1>5. QED BY <1>1, <1>2, <1>3, <1>4 DEF AtLevel

\* What Read does to the body.
LEMMA ReadIsReadsOn ==
  ASSUME IInv, IndexInv, NEW l, Read(<<l>>), IsSeq(BytesOf(l))
  PROVE  ReadsOn(lexemes', lexemes, l, Len(lexemes))
<1>1. IsSeq(lexemes) /\ Readable(lexemes) BY DEF IInv, Typed, IndexInv, IndexOK
<1>2. lexemes' = Append(lexemes, l) BY <1>1, ReadOne DEF Read
<1>3. ReadsOn(Append(lexemes, l), lexemes, l, Len(lexemes)) BY <1>1, AppendReads
<1>4. QED BY <1>2, <1>3

\* What After returns.
LEMMA AfterBack ==
  ASSUME NEW s, DOMAIN s = ScannerFields, NEW stack, IsSeq(stack)
  PROVE  Back(After(s, stack)) /\ After(s, stack).paths = s.paths /\ After(s, stack).strings = s.strings
<1> DEFINE e == IF stack = <<>> THEN "end" ELSE "after"
           p == IF stack = <<>> THEN 0 ELSE Last(stack).path
<1>1. After(s, stack) = [s EXCEPT !.expect = e, !.stack = stack, !.path = p] BY DEF After
<1>2. e # "value" OBVIOUS
<1> HIDE DEF e, p
<1> DEFINE t == After(s, stack)
<1>3. t.expect = e /\ t.stack = stack /\ t.path = p /\ t.paths = s.paths /\ t.strings = s.strings
  BY <1>1 DEF ScannerFields
<1> HIDE DEF t
<1>4. Back(t) BY <1>2, <1>3 DEF Back, p
<1>5. QED BY <1>3, <1>4 DEF t

\* What the step lemmas need of both invariants.
LEMMA InvFacts ==
  ASSUME IInv, IndexInv
  PROVE  /\ DOMAIN scan = ScannerFields /\ AtLevel(scan, lexemes) /\ IndexOK(scan, lexemes)
         /\ IsSeq(scan.stack) /\ IsSeq(scan.paths) /\ IsSeq(scan.strings)
         /\ \A n \in 1..Len(scan.stack) : IsFrame(scan.stack[n])
<1>1. /\ DOMAIN scan = ScannerFields /\ IsSeq(scan.stack) /\ IsSeq(scan.paths) /\ IsSeq(scan.strings)
      /\ \A n \in DOMAIN scan.stack : IsFrame(scan.stack[n])
  BY DEF IInv, Typed
<1>2. DOMAIN scan.stack = 1..Len(scan.stack) BY <1>1, SeqFacts
<1>3. QED BY <1>1, <1>2, LevelIsStack DEF IndexInv

\* The actions: each is one of the changes above.
LEMMA OpenContainerIndexed ==
  ASSUME IInv, IndexInv, NEW kind \in {"{", "["}, OpenContainer(kind)
  PROVE  IndexInv'
<1> DEFINE s == scan
           t == scan'
           l == Lexeme(kind)
           frame == [kind |-> kind, index |-> 0, path |-> s.path]
           stack == Append(s.stack, frame)
           nodes == s.nodes + 1
<1>1. /\ Read(<<l>>) /\ s.expect = "value"
      /\ t = [s EXCEPT !.nodes = nodes, !.expect = "first", !.stack = stack]
  BY DEF OpenContainer, ExpectValue
<1>2. DOMAIN s = ScannerFields /\ AtLevel(s, lexemes) /\ IndexOK(s, lexemes) BY InvFacts
<1>3. IsSeq(BytesOf(l))
  <2>1. kind \notin {"key", "string"} OBVIOUS
  <2>2. QED BY <2>1, LexemeBytes
<1>4. l.kind \in Opening /\ frame.kind = l.kind /\ frame.index = 0 /\ frame.path = s.path
  BY Kinds DEF Opening
<1> HIDE DEF frame, nodes
<1>5. /\ t.expect = "first" /\ t.path = s.path
      /\ t.paths = s.paths /\ t.strings = s.strings /\ t.stack = Append(s.stack, frame)
  <2> HIDE DEF stack
  <2>1. QED BY <1>1, <1>2 DEF ScannerFields, stack
<1> HIDE DEF l
<1>6. Opened(s, t, l) BY <1>1, <1>4, <1>5 DEF Opened
<1>7. ReadsOn(lexemes', lexemes, l, Len(lexemes)) BY <1>1, <1>3, ReadIsReadsOn
<1>8. IndexOK(scan', lexemes') BY <1>2, <1>6, <1>7, OpenedOK
<1>9. QED BY <1>8 DEF IndexInv

LEMMA ReadScalarIndexed ==
  ASSUME IInv, IndexInv, ReadScalar
  PROVE  IndexInv'
<1> DEFINE s == scan
           t == scan'
           l == Lexeme("scalar")
           nodes == s.nodes + 1
           u == [s EXCEPT !.nodes = nodes]
<1>1. Read(<<l>>) /\ t = After(u, s.stack) BY DEF ReadScalar
<1>2. DOMAIN s = ScannerFields /\ AtLevel(s, lexemes) /\ IndexOK(s, lexemes) /\ IsSeq(s.stack) /\ IsSeq(s.paths)
  BY InvFacts
<1>3. IsSeq(BytesOf(l)) /\ ~IsComma(l) /\ ~IsString(l)
  <2>1. "scalar" \notin {"key", "string"} /\ "scalar" # "," OBVIOUS
  <2>2. IsSeq(BytesOf(l)) BY <2>1, LexemeBytes
  <2>3. l.kind = "scalar" BY Kinds
  <2>4. QED BY <2>1, <2>2, <2>3 DEF IsComma, IsString
<1> HIDE DEF nodes, l
<1>4. DOMAIN u = ScannerFields /\ u.paths = s.paths /\ u.strings = s.strings BY <1>2 DEF ScannerFields
<1> HIDE DEF u
<1>5. Back(t) /\ t.paths = s.paths /\ t.strings = s.strings BY <1>1, <1>2, <1>4, AfterBack
<1>6. t.stack = s.stack BY <1>1, <1>4, AfterFields
<1>7. ReadsOn(lexemes', lexemes, l, Len(lexemes)) BY <1>1, <1>3, ReadIsReadsOn
<1>8. StringsOK(t, lexemes')
  <2>1. Extends(s, t) BY <1>2, <1>5, SamePathsExtend DEF IndexOK
  <2>2. QED BY <2>1, <1>2, <1>3, <1>5, <1>7, StringsStay DEF IndexOK
<1>9. IndexOK(scan', lexemes') BY <1>2, <1>3, <1>5, <1>6, <1>7, <1>8, ValueOK
<1>10. QED BY <1>9 DEF IndexInv

LEMMA ReadStringIndexed ==
  ASSUME IInv, IndexInv, NEW text \in Texts, ReadString(text)
  PROVE  IndexInv'
<1> DEFINE s == scan
           t == scan'
           N == Len(lexemes)
           l == StringLexeme(text)
           nodes == s.nodes + 1
           u == [s EXCEPT !.nodes = nodes]
           start == Len(Bytes(lexemes))
           token == [value |-> Decode(text), start |-> start, end |-> start + Len(Raw(text)),
                     parentKind |-> Parent, depth |-> Depth, pathRef |-> s.path]
           charge == StringCharge(s, Len(text))
           v == AppendString(u, token, charge)
<1>1. Read(<<l>>) /\ t = After(v, s.stack) /\ s.expect = "value" BY DEF ReadString, ExpectValue
<1>2. /\ DOMAIN s = ScannerFields /\ AtLevel(s, lexemes) /\ IndexOK(s, lexemes)
      /\ IsSeq(s.stack) /\ IsSeq(s.paths) /\ IsSeq(s.strings)
  BY InvFacts
<1>3. BytesOf(l) = Raw(text) /\ IsSeq(BytesOf(l)) BY LexemeBytes
<1>4. ~IsComma(l) /\ IsString(l) /\ l.text = text
  <2>1. l.kind = "string" BY Kinds
  <2>2. l.text = text BY DEF StringLexeme, Lexeme
  <2>3. QED BY <2>1, <2>2 DEF IsComma, IsString
<1>5. Len(s.stack) = Level(lexemes, N + 1) BY <1>2 DEF AtLevel
<1>6. NewToken(token, s, lexemes, l, N)
  <2>1. /\ token.value = Decode(text) /\ token.start = start /\ token.end = start + Len(Raw(text))
        /\ token.depth = Len(s.stack) + 1 /\ token.pathRef = s.path
    BY DEF Depth
  <2> HIDE DEF token
  <2>2. QED BY <2>1, <1>3, <1>4, <1>5 DEF NewToken
<1> HIDE DEF token, charge, nodes, l
<1>7. DOMAIN u = ScannerFields /\ u.paths = s.paths /\ u.strings = s.strings BY <1>2 DEF ScannerFields
<1> HIDE DEF u
<1>8. DOMAIN v = ScannerFields /\ v.paths = u.paths /\ v.strings = Append(u.strings, token)
  BY <1>7, AppendStringFields
<1> HIDE DEF v
<1>9. Back(t) /\ t.paths = v.paths /\ t.strings = v.strings BY <1>1, <1>2, <1>8, AfterBack
<1>10. t.stack = s.stack BY <1>1, <1>8, AfterFields
<1>11. t.paths = s.paths /\ t.strings = Append(s.strings, token) BY <1>7, <1>8, <1>9
<1>12. ReadsOn(lexemes', lexemes, l, N) BY <1>1, <1>3, ReadIsReadsOn
<1>13. StringsOK(t, lexemes')
  <2>1. Extends(s, t) BY <1>2, <1>11, SamePathsExtend DEF IndexOK
  <2>2. s.path \in 0..Len(s.paths) /\ Stands(MaterializePath(s, s.path), lexemes, Len(s.stack))
    BY <1>1, <1>2 DEF IndexOK, HereOK
  <2>3. Stands(MaterializePath(s, s.path), lexemes, Level(lexemes, N + 1)) BY <2>2, <1>5
  <2>4. StringsOK(s, lexemes) BY <1>2 DEF IndexOK
  <2> HIDE DEF s, t, N
  <2>5. QED BY <2>1, <2>2, <2>3, <2>4, <1>2, <1>4, <1>6, <1>11, <1>12, StringRead
<1>14. IndexOK(scan', lexemes') BY <1>2, <1>4, <1>9, <1>10, <1>11, <1>12, <1>13, ValueOK
<1>15. QED BY <1>14 DEF IndexInv

\* What AppendPath returns, in the place of a value.
LEMMA AppendPathChild ==
  ASSUME NEW s, DOMAIN s = ScannerFields, NEW segment, NEW charge
  PROVE  Child(s, [AppendPath(s, segment, charge) EXCEPT !.expect = "value"], segment)
<1> DEFINE node == [parent |-> s.path, segment |-> segment]
           paths == Append(s.paths, node)
           capacity == CapacityFor(s.pathCap, Len(s.paths))
           bytes == s.structuralBytes + charge
           path == Len(s.paths) + 1
           v == [s EXCEPT !.paths = paths, !.pathCap = capacity, !.structuralBytes = bytes, !.path = path]
           t == [AppendPath(s, segment, charge) EXCEPT !.expect = "value"]
<1>1. AppendPath(s, segment, charge) = v BY DEF AppendPath
<1> HIDE DEF paths, capacity, bytes, path
<1>2. t = [v EXCEPT !.expect = "value"] BY <1>1
<1>3. t.paths = paths /\ t.path = path /\ t.expect = "value" /\ t.stack = s.stack /\ t.strings = s.strings
  BY <1>2 DEF ScannerFields
<1> HIDE DEF t, v
<1>4. QED BY <1>3 DEF Child, paths, path, t

\* The scanner stands before a child only in a container of that kind.
LEMMA ExpectChildFacts ==
  ASSUME NEW kind \in Opening, ExpectChild(kind)
  PROVE  scan.expect # "value" /\ scan.stack # <<>> /\ Last(scan.stack).kind = kind
<1>1. scan.expect \in {"first", "next"} /\ Parent = kind BY DEF ExpectChild
<1>2. kind # "invalid" BY DEF Opening
<1>3. scan.stack # <<>> /\ Last(scan.stack).kind = kind BY <1>1, <1>2 DEF Parent, Top
<1>4. QED BY <1>1, <1>3

LEMMA EnterElementIndexed ==
  ASSUME IInv, IndexInv, EnterElement
  PROVE  IndexInv'
<1> DEFINE s == scan
           t == scan'
           segment == Index(Last(s.stack).index)
           charge == PathCharge(s, 0)
<1>1. /\ ExpectChild("[") /\ lexemes' = lexemes
      /\ t = [AppendPath(s, segment, charge) EXCEPT !.expect = "value"]
  BY DEF EnterElement, Top
<1>2. DOMAIN s = ScannerFields /\ AtLevel(s, lexemes) /\ IndexOK(s, lexemes) BY InvFacts
<1>3. s.expect # "value" /\ s.stack # <<>> /\ InArray(Last(s.stack))
  BY <1>1, ExpectChildFacts DEF Opening, InArray
<1> HIDE DEF charge
<1>4. Child(s, t, segment)
  <2> HIDE DEF segment
  <2>1. QED BY <1>1, <1>2, AppendPathChild
<1>5. IndexOK(scan', lexemes') BY <1>1, <1>2, <1>3, <1>4, ElementOK
<1>6. QED BY <1>5 DEF IndexInv

LEMMA EnterMemberIndexed ==
  ASSUME IInv, IndexInv, NEW k \in Keys, EnterMember(k)
  PROVE  IndexInv'
<1> DEFINE s == scan
           t == scan'
           N == Len(lexemes)
           a == KeyLexeme(k)
           b == Lexeme(":")
           one == Append(lexemes, a)
           two == Append(one, b)
           charge == PathCharge(s, KeyBytes[k])
           segment == Key(k)
<1>1. /\ ExpectChild("{") /\ lexemes' = lexemes \o <<a, b>>
      /\ t = [AppendPath(s, segment, charge) EXCEPT !.expect = "value"]
  BY DEF EnterMember, Read
<1>2. DOMAIN s = ScannerFields /\ AtLevel(s, lexemes) /\ IndexOK(s, lexemes) BY InvFacts
<1>3. s.expect # "value" /\ s.stack # <<>> /\ InObject(Last(s.stack))
  BY <1>1, ExpectChildFacts DEF Opening, InObject
<1>4. IsSeq(BytesOf(a)) /\ IsSeq(BytesOf(b)) /\ IsKey(a) /\ ~Separates(b) /\ ~IsString(b) /\ a.key = k
  <2>1. IsSeq(BytesOf(a)) /\ a.kind = "key" BY LexemeBytes, Kinds
  <2>2. a.key = k BY DEF KeyLexeme, Lexeme
  <2>3. ":" \notin {"key", "string"} /\ ":" # "," OBVIOUS
  <2>4. IsSeq(BytesOf(b)) /\ b.kind = ":" BY <2>3, LexemeBytes, Kinds
  <2>5. QED BY <2>1, <2>2, <2>3, <2>4 DEF IsKey, IsComma, Separates, IsString
<1> HIDE DEF charge, a, b
<1>5. Child(s, t, Key(a.key))
  <2>1. Child(s, t, segment)
    <3> HIDE DEF segment
    <3>1. QED BY <1>1, <1>2, AppendPathChild
  <2>2. QED BY <2>1, <1>4
<1>6. IsSeq(lexemes) /\ Readable(lexemes) BY <1>2 DEF AtLevel, IndexOK
<1>7. lexemes' = two
  <2>1. lexemes' = lexemes \o <<a, b>> BY <1>1
  <2>2. lexemes \o <<a, b>> = two BY <1>6, ReadTwo
  <2>3. QED BY <2>1, <2>2
<1>8. ReadsOn(one, lexemes, a, N) BY <1>4, <1>6, AppendReads
<1>9. ReadsOn(two, one, b, N + 1)
  <2>1. IsSeq(one) /\ Readable(one) /\ Len(one) = N + 1 BY <1>8 DEF ReadsOn, Grows
  <2> HIDE DEF one
  <2>2. ReadsOn(two, one, b, Len(one)) BY <2>1, <1>4, AppendReads
  <2>3. QED BY <2>1, <2>2
<1> HIDE DEF s, t, one, two, N
<1>10. IndexOK(t, two) BY <1>2, <1>3, <1>4, <1>5, <1>8, <1>9, MemberOK
<1>11. QED BY <1>7, <1>10 DEF IndexInv, t

LEMMA CommaIndexed ==
  ASSUME IInv, IndexInv, Comma
  PROVE  IndexInv'
<1> DEFINE s == scan
           t == scan'
           l == Lexeme(",")
           K == Len(s.stack)
           stack == [s.stack EXCEPT ![K].index = @ + 1]
<1>1. Read(<<l>>) /\ t = [s EXCEPT !.expect = "next", !.stack = stack] /\ s.expect = "after"
  BY DEF Comma
<1>2. /\ DOMAIN s = ScannerFields /\ AtLevel(s, lexemes) /\ IndexOK(s, lexemes) /\ IsSeq(s.stack)
      /\ \A n \in 1..K : IsFrame(s.stack[n])
  BY InvFacts
<1>3. IsSeq(BytesOf(l)) /\ IsComma(l)
  <2>1. "," \notin {"key", "string"} OBVIOUS
  <2>2. IsSeq(BytesOf(l)) BY <2>1, LexemeBytes
  <2>3. QED BY <2>2, Kinds DEF IsComma
<1>4. AfterComma(s.stack, stack) BY <1>2, CommaCounted
<1> HIDE DEF stack
<1>5. /\ t.expect = "next" /\ t.stack = stack /\ t.path = s.path
      /\ t.paths = s.paths /\ t.strings = s.strings
  BY <1>1, <1>2 DEF ScannerFields
<1>6. NextChild(s, t, K) BY <1>1, <1>4, <1>5 DEF NextChild, AfterComma, Counts
<1>7. ReadsOn(lexemes', lexemes, l, Len(lexemes)) BY <1>1, <1>3, ReadIsReadsOn
<1> HIDE DEF l
<1>8. IndexOK(scan', lexemes') BY <1>2, <1>3, <1>6, <1>7, CommaOK
<1>9. QED BY <1>8 DEF IndexInv

LEMMA CloseIndexed ==
  ASSUME IInv, IndexInv, Close
  PROVE  IndexInv'
<1> DEFINE s == scan
           t == scan'
           l == Lexeme(Closing(Top.kind))
           stack == Front(s.stack)
<1>1. Read(<<l>>) /\ s.stack # <<>> /\ t = After(s, stack) BY DEF Close
<1>2. DOMAIN s = ScannerFields /\ AtLevel(s, lexemes) /\ IndexOK(s, lexemes) /\ IsSeq(s.stack) BY InvFacts
<1>3. IsSeq(BytesOf(l)) /\ ~IsComma(l) /\ ~IsString(l)
  <2>1. Closing(Top.kind) \in ClosingBrackets BY DEF Closing, ClosingBrackets
  <2>2. Closing(Top.kind) \notin {"key", "string"} BY <2>1 DEF ClosingBrackets
  <2>3. IsSeq(BytesOf(l)) BY <2>2, LexemeBytes
  <2>4. l.kind \in ClosingBrackets BY <2>1, Kinds
  <2>5. QED BY <2>3, <2>4 DEF IsComma, IsString, ClosingBrackets
<1>4. /\ IsSeq(stack) /\ Len(stack) = Len(s.stack) - 1
      /\ \A n \in 1..Len(stack) : stack[n] = s.stack[n]
  BY <1>1, <1>2, FrontFacts
<1> HIDE DEF stack, l
<1>5. Back(t) /\ t.paths = s.paths /\ t.strings = s.strings BY <1>1, <1>2, <1>4, AfterBack
<1>6. t.stack = stack BY <1>1, <1>2, AfterFields
<1>7. ReadsOn(lexemes', lexemes, l, Len(lexemes)) BY <1>1, <1>3, ReadIsReadsOn
<1>8. Len(t.stack) = Len(s.stack) - 1 /\ \A n \in 1..Len(t.stack) : t.stack[n] = s.stack[n] BY <1>4, <1>6
<1>9. IndexOK(scan', lexemes')
  <2> DEFINE next == lexemes'
             lexs == lexemes
             N == Len(lexs)
  <2>1. ReadsOn(next, lexs, l, N) /\ AtLevel(s, lexs) /\ IndexOK(s, lexs) BY <1>2, <1>7
  <2> HIDE DEF s, t, next, lexs, N
  <2>2. IndexOK(t, next) BY <2>1, <1>3, <1>5, <1>8, ClosedOK
  <2>3. QED BY <2>2 DEF t, next
<1>10. QED BY <1>9 DEF IndexInv

\* Nothing is read, open or indexed at first.
LEMMA InitIndexed == Init => IndexInv
<1> SUFFICES ASSUME Init PROVE IndexInv
  OBVIOUS
<1> DEFINE s == scan
           lexs == lexemes
           empty == <<>>
<1>1. IsSeq(empty) /\ Len(empty) = 0 /\ DOMAIN empty = {} /\ 1..0 = {} BY EmptyIsSeq
<1>2. /\ lexs = empty /\ s.expect = "value" /\ s.path = 0
      /\ s.stack = empty /\ s.paths = empty /\ s.strings = empty
  BY DEF Init, NewScanner
<1> HIDE DEF empty, s, lexs
<1>3. Readable(lexs) BY <1>1, <1>2 DEF Readable
<1>4. Rooted(s.paths) BY <1>1, <1>2 DEF Rooted
<1>5. FramesOK(s, lexs) BY <1>1, <1>2 DEF FramesOK
<1>6. HereOK(s, lexs)
  <2>1. MaterializePath(s, s.path) = empty BY <1>1, <1>2, <1>4, PathsUnfolded DEF PathsUnfold, empty
  <2>2. Stands(empty, lexs, 0) BY <1>1 DEF Stands
  <2>3. 0 \in 0..0 OBVIOUS
  <2>4. s.path \in 0..Len(s.paths) BY <2>3, <1>1, <1>2
  <2>5. QED BY <2>1, <2>2, <2>4, <1>1, <1>2 DEF HereOK
<1>7. StringsOK(s, lexs)
  <2>1. StringsIn(lexs, 0) = 0
    <3>1. {j \in 1..0 : lexs[j].kind = "string"} = {} BY <1>1
    <3>2. Cardinality({}) = 0 BY FS_EmptySet
    <3>3. QED BY <3>1, <3>2 DEF StringsIn
  <2>2. QED BY <2>1, <1>1, <1>2 DEF StringsOK
<1>8. QED BY <1>3, <1>4, <1>5, <1>6, <1>7 DEF IndexInv, IndexOK, s, lexs

\* Every step keeps the index faithful; those of Replace leave body and scanner alone.
LEMMA NextIndexed == IInv /\ IndexInv /\ [Next]_vars => IndexInv'
<1> SUFFICES ASSUME IInv, IndexInv, [Next]_vars PROVE IndexInv'
  OBVIOUS
<1>1. CASE \/ BodyTooLarge \/ Cancelled \/ Malformed \/ Scanned \/ ValueRefused \/ ElementRefused
           \/ \E text \in Texts : StringRefused(text)
           \/ \E k \in Keys : MemberRefused(k)
           \/ \E reqs \in RequestLists : Replace(reqs) \/ ReplaceFails(reqs)
           \/ UNCHANGED vars
  <2>1. UNCHANGED <<lexemes, scan>>
    BY <1>1 DEF BodyTooLarge, Cancelled, Malformed, Scanned, ValueRefused, ElementRefused, StringRefused,
                MemberRefused, Replace, ReplaceFails, Fail, vars
  <2> DEFINE s == scan
             lexs == lexemes
  <2>2. scan' = s /\ lexemes' = lexs /\ IndexOK(s, lexs) BY <2>1 DEF IndexInv
  <2> HIDE DEF s, lexs
  <2>3. IndexOK(scan', lexemes') BY <2>2
  <2>4. QED BY <2>3 DEF IndexInv
<1>2. CASE ReadScalar BY <1>2, ReadScalarIndexed
<1>3. CASE \E kind \in {"{", "["} : OpenContainer(kind) BY <1>3, OpenContainerIndexed
<1>4. CASE \E text \in Texts : ReadString(text) BY <1>4, ReadStringIndexed
<1>5. CASE \E k \in Keys : EnterMember(k) BY <1>5, EnterMemberIndexed
<1>6. CASE EnterElement BY <1>6, EnterElementIndexed
<1>7. CASE Comma BY <1>7, CommaIndexed
<1>8. CASE Close BY <1>8, CloseIndexed
<1>9. QED BY <1>1, <1>2, <1>3, <1>4, <1>5, <1>6, <1>7, <1>8 DEF Next

\* The invariant implies the property.
LEMMA IndexHolds == IInv /\ IndexInv => IndexIsFaithful
<1> SUFFICES ASSUME IInv, IndexInv PROVE IndexIsFaithful
  OBVIOUS
<1>1. DOMAIN lexemes = 1..Len(lexemes) BY SeqFacts DEF IInv, Typed
<1>2. StringsOK(scan, lexemes) /\ IsSeq(scan.paths) /\ Rooted(scan.paths) BY DEF IInv, Typed, IndexInv, IndexOK
<1>3. Len(scan.strings) = StringsIn(lexemes, Len(lexemes)) BY <1>2 DEF StringsOK
<1>4. ASSUME NEW i \in DOMAIN lexemes, lexemes[i].kind = "string", NEW n, n = StringsIn(lexemes, i)
      PROVE  /\ scan.strings[n].value = Decode(lexemes[i].text)
             /\ scan.strings[n].start = Len(Bytes(SubSeq(lexemes, 1, i - 1)))
             /\ SubSeq(Bytes(lexemes), scan.strings[n].start + 1, scan.strings[n].end) = BytesOf(lexemes[i])
             /\ scan.strings[n].depth = Level(lexemes, i) + 1
             /\ IsPath(MaterializePath(scan, scan.strings[n].pathRef), lexemes, i)
             /\ IsContext(StringKeyContextAt(scan, n), MaterializePath(scan, scan.strings[n].pathRef))
  <2>1. TokenOK(scan, scan.strings[n], lexemes, i) BY <1>1, <1>2, <1>4 DEF StringsOK
  <2>2. scan.strings[n].pathRef \in 0..Len(scan.paths) BY <2>1 DEF TokenOK
  <2>3. IsContext(StringKeyContextAt(scan, n), MaterializePath(scan, scan.strings[n].pathRef))
    BY <2>2, <1>2, ContextIsPath
  <2>4. QED BY <2>1, <2>3 DEF TokenOK
<1>5. QED BY <1>3, <1>4 DEF IndexIsFaithful

\* The frames on the stack are the containers that are open, each entered at its
\* own path; the scanner stands at the path of what it is about to read; and every
\* token, also of a container long closed, is where its string is.
THEOREM IndexInvariantHolds == Spec => []IndexInv
<1>1. Init => IndexInv BY InitIndexed
<1>2. IInv /\ IndexInv /\ [Next]_vars => IndexInv' BY NextIndexed
<1>3. QED BY <1>1, <1>2, InvariantHolds, PTL DEF Spec

\* Whatever the body is, each string value is indexed in order with its decoded
\* value, the span of its raw bytes, its depth, its full path and the bounded key
\* context of that path (Scan, MaterializePath, StringKeyContextAt).
THEOREM IndexIsFaithfulHolds == Spec => []IndexIsFaithful
<1>1. IInv /\ IndexInv => IndexIsFaithful BY IndexHolds
<1>2. QED BY <1>1, InvariantHolds, IndexInvariantHolds, PTL

-----------------------------------------------------------------------------
(* What the proof about Replace needs of numbers and sequences *)

\* Induction up to N, for a set of numbers.
LEMMA UpTo ==
  ASSUME NEW N \in Nat, NEW S, 0 \in S, \A n \in 0..(N - 1) : n \in S => n + 1 \in S
  PROVE  0..N \subseteq S
<1>1. ASSUME NEW n \in 0..N, \A m \in 0..(n - 1) : m \in S PROVE n \in S
  <2>1. CASE n = 0 BY <2>1
  <2>2. CASE n # 0
    <3>1. n - 1 \in 0..(n - 1) /\ n - 1 \in 0..(N - 1) /\ (n - 1) + 1 = n BY <2>2
    <3>2. (n - 1) + 1 \in S BY <3>1, <1>1
    <3>3. QED BY <3>1, <3>2
  <2>3. QED BY <2>1, <2>2
<1>2. QED BY <1>1, CourseInduction

\* A part of a sequence.
LEMMA SubSeqFacts ==
  ASSUME NEW s, IsSeq(s), NEW a \in Nat, NEW b \in 0..Len(s), a <= b
  PROVE  /\ IsSeq(SubSeq(s, a + 1, b)) /\ Len(SubSeq(s, a + 1, b)) = b - a
         /\ \A i \in 1..(b - a) : SubSeq(s, a + 1, b)[i] = s[a + i]
<1> DEFINE S == ToSet(s)
           m == a + 1
           d == SubSeq(s, m, b)
<1>1. Len(s) \in Nat /\ \A i \in 1..Len(s) : s[i] \in S BY SeqFacts
<1> HIDE DEF S
<1>2. m \in Int /\ b \in Int /\ \A i \in m..b : s[i] \in S BY <1>1
<1>3. b - m + 1 = b - a /\ (IF m <= b THEN b - m + 1 ELSE 0) = b - a /\ \A i \in 1..(b - a) : m + i - 1 = a + i BY <1>1
<1> HIDE DEF m
<1>4. d \in Seq(S) /\ Len(d) = (IF m <= b THEN b - m + 1 ELSE 0) /\ \A i \in 1..(b - m + 1) : d[i] = s[m + i - 1]
  BY <1>2, SubSeqProperties
<1> HIDE DEF d
<1>5. IsSeq(d) BY <1>4, SeqOfOwn
<1>6. QED BY <1>3, <1>4, <1>5 DEF d, m

\* Two sequences of the same length with the same elements are equal.
LEMMA SameSeq ==
  ASSUME NEW s, NEW t, IsSeq(s), IsSeq(t), Len(s) = Len(t), \A i \in 1..Len(s) : s[i] = t[i]
  PROVE  s = t
<1> DEFINE A == ToSet(s)
           B == ToSet(t)
           S == A \cup B
<1>1. s \in Seq(A) /\ t \in Seq(B) BY DEF IsSeq
<1> HIDE DEF A, B
<1>2. s \in Seq(S) /\ t \in Seq(S) BY <1>1
<1> HIDE DEF S
<1>3. QED BY <1>2, SeqEqual

\* The elements of a concatenation.
LEMMA ConcatElements ==
  ASSUME NEW a, NEW b, IsSeq(a), IsSeq(b)
  PROVE  /\ IsSeq(a \o b) /\ Len(a) \in Nat /\ Len(b) \in Nat /\ Len(a \o b) = Len(a) + Len(b)
         /\ \A i \in 1..(Len(a) + Len(b)) : (a \o b)[i] = IF i <= Len(a) THEN a[i] ELSE b[i - Len(a)]
<1> DEFINE A == ToSet(a)
           B == ToSet(b)
           S == A \cup B
<1>1. a \in Seq(A) /\ b \in Seq(B) BY DEF IsSeq
<1> HIDE DEF A, B
<1>2. a \in Seq(S) /\ b \in Seq(S) BY <1>1
<1> HIDE DEF S
<1>3. QED BY <1>2, ConcatProperties, LenProperties, SeqOfOwn

\* Concatenation is associative.
Regroups(a, b, c) == (a \o b) \o c = a \o (b \o c)

\* Of sequences it does not matter which two are joined first.
LEMMA ConcatRegroups ==
  ASSUME NEW a, NEW b, NEW c, IsSeq(a), IsSeq(b), IsSeq(c)
  PROVE  Regroups(a, b, c)
<1> DEFINE A == ToSet(a)
           B == ToSet(b)
           C == ToSet(c)
           S == A \cup B \cup C
<1>1. a \in Seq(A) /\ b \in Seq(B) /\ c \in Seq(C) BY DEF IsSeq
<1> HIDE DEF A, B, C
<1>2. a \in Seq(S) /\ b \in Seq(S) /\ c \in Seq(S) BY <1>1
<1> HIDE DEF S
<1>3. (a \o b) \o c = a \o (b \o c) BY <1>2, ConcatAssociative
<1>4. QED BY <1>3 DEF Regroups

\* Nothing before or behind a sequence leaves it.
LEMMA ConcatEmpty ==
  ASSUME NEW a, IsSeq(a)
  PROVE  a \o <<>> = a /\ <<>> \o a = a
<1> DEFINE A == ToSet(a)
<1>1. a \in Seq(A) BY DEF IsSeq
<1> HIDE DEF A
<1>2. QED BY <1>1, ConcatEmptySeq

\* Two parts that meet are one.
LEMMA PartsJoin ==
  ASSUME NEW s, IsSeq(s), NEW a \in Nat, NEW b \in Nat, NEW c \in 0..Len(s), a <= b, b <= c
  PROVE  SubSeq(s, a + 1, b) \o SubSeq(s, b + 1, c) = SubSeq(s, a + 1, c)
<1> DEFINE d == SubSeq(s, a + 1, b)
           e == SubSeq(s, b + 1, c)
           f == SubSeq(s, a + 1, c)
<1>0. Len(s) \in Nat BY SeqFacts
<1>1. b \in 0..Len(s) /\ a <= c BY <1>0
<1>2. /\ IsSeq(d) /\ Len(d) = b - a /\ \A i \in 1..(b - a) : d[i] = s[a + i]
      /\ IsSeq(e) /\ Len(e) = c - b /\ \A i \in 1..(c - b) : e[i] = s[b + i]
      /\ IsSeq(f) /\ Len(f) = c - a /\ \A i \in 1..(c - a) : f[i] = s[a + i]
  BY <1>1, SubSeqFacts
<1> HIDE DEF d, e, f
<1>3. /\ IsSeq(d \o e) /\ Len(d \o e) = Len(d) + Len(e)
      /\ \A i \in 1..(Len(d) + Len(e)) : (d \o e)[i] = IF i <= Len(d) THEN d[i] ELSE e[i - Len(d)]
  BY <1>2, ConcatElements
<1>4. Len(d) + Len(e) = c - a BY <1>2
<1>5. ASSUME NEW i \in 1..(c - a) PROVE (d \o e)[i] = f[i]
  <2>1. CASE i <= b - a
    <3>1. i \in 1..(b - a) BY <2>1
    <3>2. QED BY <2>1, <3>1, <1>2, <1>3, <1>4
  <2>2. CASE ~(i <= b - a)
    <3> DEFINE j == i - (b - a)
    <3>1. j \in 1..(c - b) /\ b + j = a + i BY <2>2
    <3> HIDE DEF j
    <3>2. (d \o e)[i] = e[j]
      <4>1. ~(i <= Len(d)) /\ i - Len(d) = j BY <1>2, <2>2 DEF j
      <4>2. QED BY <4>1, <1>3, <1>4
    <3>3. QED BY <3>1, <3>2, <1>2
  <2>3. QED BY <2>1, <2>2
<1>6. d \o e = f BY <1>2, <1>3, <1>4, <1>5, SameSeq
<1>7. QED BY <1>6 DEF d, e, f

\* A longer prefix has one element more.
LEMMA PrefixGrows ==
  ASSUME NEW s, IsSeq(s), NEW n \in 0..(Len(s) - 1)
  PROVE  /\ IsSeq(SubSeq(s, 1, n)) /\ Len(SubSeq(s, 1, n)) = n
         /\ SubSeq(s, 1, n + 1) = Append(SubSeq(s, 1, n), s[n + 1])
         /\ \A i \in 1..n : SubSeq(s, 1, n)[i] = s[i]
<1> DEFINE d == SubSeq(s, 1, n)
           e == SubSeq(s, 1, n + 1)
           f == Append(d, s[n + 1])
           m == n + 1
<1>0. Len(s) \in Nat BY SeqFacts
<1>1. 0 \in Nat /\ n \in 0..Len(s) /\ m \in 0..Len(s) /\ 0 <= n /\ 0 <= m /\ 0 + 1 = 1 BY <1>0
<1> HIDE DEF m
<1>2. /\ IsSeq(SubSeq(s, 0 + 1, n)) /\ Len(SubSeq(s, 0 + 1, n)) = n - 0
      /\ \A i \in 1..(n - 0) : SubSeq(s, 0 + 1, n)[i] = s[0 + i]
  BY <1>1, SubSeqFacts
<1>3. /\ IsSeq(SubSeq(s, 0 + 1, m)) /\ Len(SubSeq(s, 0 + 1, m)) = m - 0
      /\ \A i \in 1..(m - 0) : SubSeq(s, 0 + 1, m)[i] = s[0 + i]
  BY <1>1, SubSeqFacts
<1>4. n - 0 = n /\ m - 0 = m /\ m = n + 1 /\ \A i \in 1..m : 0 + i = i BY <1>1 DEF m
<1>5. IsSeq(d) /\ Len(d) = n /\ \A i \in 1..n : d[i] = s[i] BY <1>1, <1>2, <1>4
<1>6. IsSeq(e) /\ Len(e) = n + 1 /\ \A i \in 1..(n + 1) : e[i] = s[i] BY <1>1, <1>3, <1>4
<1> HIDE DEF d, e
<1>7. IsSeq(f) /\ Len(f) = Len(d) + 1 /\ (\A i \in 1..Len(d) : f[i] = d[i]) /\ f[Len(d) + 1] = s[n + 1]
  BY <1>5, AppendIsSeq
<1> HIDE DEF f
<1>8. \A i \in 1..(n + 1) : i \in 1..n \/ i = n + 1 BY <1>1
<1>9. e = f
  <2>1. \A i \in 1..Len(e) : e[i] = f[i] BY <1>5, <1>6, <1>7, <1>8
  <2>2. Len(e) = Len(f) BY <1>5, <1>6, <1>7
  <2>3. QED BY <2>1, <2>2, <1>6, <1>7, SameSeq
<1>10. QED BY <1>5, <1>9 DEF d, e, f

-----------------------------------------------------------------------------
(* Where the lexemes of a body lie *)

\* The bytes of the first i lexemes.
HeadBytes(lexs, i) == Bytes(SubSeq(lexs, 1, i))

Offset(lexs, i) == Len(HeadBytes(lexs, i))

LaidOut(lexs) ==
    /\ \A i \in 0..Len(lexs) : Offset(lexs, i) \in Nat
    /\ \A i \in 0..(Len(lexs) - 1) :
          /\ IsSeq(BytesOf(lexs[i + 1])) /\ Len(BytesOf(lexs[i + 1])) \in Nat
          /\ Offset(lexs, i + 1) = Offset(lexs, i) + Len(BytesOf(lexs[i + 1]))
          /\ SubSeq(Bytes(lexs), Offset(lexs, i) + 1, Offset(lexs, i + 1)) = BytesOf(lexs[i + 1])
    /\ Offset(lexs, 0) = 0 /\ IsSeq(Bytes(lexs)) /\ Offset(lexs, Len(lexs)) = Len(Bytes(lexs))

\* One lexeme more.
LEMMA HeadGrows ==
  ASSUME NEW lexs, IsSeq(lexs), Readable(lexs), NEW i \in 0..(Len(lexs) - 1)
  PROVE  /\ IsSeq(HeadBytes(lexs, i)) /\ IsSeq(BytesOf(lexs[i + 1]))
         /\ HeadBytes(lexs, i + 1) = HeadBytes(lexs, i) \o BytesOf(lexs[i + 1])
<1> DEFINE p == SubSeq(lexs, 1, i)
           l == lexs[i + 1]
<1>1. Len(lexs) \in Nat /\ DOMAIN lexs = 1..Len(lexs) BY SeqFacts
<1>2. /\ IsSeq(p) /\ Len(p) = i /\ SubSeq(lexs, 1, i + 1) = Append(p, l)
      /\ \A n \in 1..i : p[n] = lexs[n]
  BY PrefixGrows
<1>3. IsSeq(BytesOf(l)) BY <1>1 DEF Readable
<1> HIDE DEF p, l
<1>4. Readable(p)
  <2>1. DOMAIN p = 1..i BY <1>2, SeqFacts
  <2>2. \A n \in 1..i : n \in DOMAIN lexs BY <1>1
  <2>3. QED BY <2>1, <2>2, <1>2 DEF Readable
<1>5. IsSeq(Bytes(p)) /\ Bytes(Append(p, l)) = Bytes(p) \o BytesOf(l) BY <1>2, <1>3, <1>4, BytesAppend
<1>6. QED BY <1>2, <1>3, <1>5 DEF HeadBytes, p, l

\* The lexemes lie one after the other.
LEMMA BodyIsLaidOut ==
  ASSUME NEW lexs, IsSeq(lexs), Readable(lexs)
  PROVE  LaidOut(lexs)
<1> DEFINE N == Len(lexs)
           W(i) == BytesOf(lexs[i + 1])
           O(i) == Offset(lexs, i)
           Placed(m, i) == SubSeq(HeadBytes(lexs, m), O(i) + 1, O(i + 1)) = W(i)
           T == {m \in 0..N : /\ IsSeq(HeadBytes(lexs, m)) /\ O(m) \in Nat
                              /\ \A i \in 0..(m - 1) : Placed(m, i) /\ O(i + 1) <= O(m)}
<1>1. N \in Nat BY SeqFacts
<1>2. ASSUME NEW i \in 0..(N - 1)
      PROVE  /\ IsSeq(HeadBytes(lexs, i)) /\ IsSeq(W(i)) /\ Len(W(i)) \in Nat /\ O(i) \in Nat
             /\ HeadBytes(lexs, i + 1) = HeadBytes(lexs, i) \o W(i) /\ IsSeq(HeadBytes(lexs, i + 1))
             /\ O(i + 1) = O(i) + Len(W(i))
             /\ \A m \in Int, n \in Int :
                   1 <= m /\ n <= O(i) => SubSeq(HeadBytes(lexs, i + 1), m, n) = SubSeq(HeadBytes(lexs, i), m, n)
             /\ SubSeq(HeadBytes(lexs, i + 1), O(i) + 1, O(i + 1)) = W(i)
  <2>1. IsSeq(HeadBytes(lexs, i)) /\ IsSeq(W(i)) /\ HeadBytes(lexs, i + 1) = HeadBytes(lexs, i) \o W(i) BY HeadGrows
  <2> HIDE DEF N, W
  <2> DEFINE a == HeadBytes(lexs, i)
             b == W(i)
  <2>2. IsSeq(a) /\ IsSeq(b) BY <2>1
  <2> HIDE DEF a, b
  <2>3. /\ IsSeq(a \o b) /\ Len(a) \in Nat /\ Len(b) \in Nat /\ Len(a \o b) = Len(a) + Len(b)
        /\ \A m \in Int, n \in Int : 1 <= m /\ n <= Len(a) => SubSeq(a \o b, m, n) = SubSeq(a, m, n)
        /\ SubSeq(a \o b, Len(a) + 1, Len(a) + Len(b)) = b
    BY <2>2, PartsOfConcat
  <2>4. O(i) = Len(a) /\ O(i + 1) = Len(a \o b) BY <2>1 DEF a, b, Offset
  <2>5. QED BY <2>1, <2>3, <2>4 DEF a, b
<1>3. IsSeq(HeadBytes(lexs, 0)) /\ O(0) = 0
  <2> DEFINE e == SubSeq(lexs, 1, 0)
             seqs == [n \in DOMAIN e |-> BytesOf(e[n])]
  <2>1. e = <<>> BY SubSeqEmpty
  <2> HIDE DEF e
  <2>2. seqs = <<>> BY <2>1
  <2> HIDE DEF seqs
  <2>3. FlattenSeq(<<>>) = <<>>
    BY DEF FlattenSeq
  <2>4. HeadBytes(lexs, 0) = <<>> BY <2>2, <2>3 DEF HeadBytes, Bytes, e, seqs
  <2>5. QED BY <2>4, EmptyIsSeq DEF Offset
<1>4. 0 \in T BY <1>1, <1>3
<1> HIDE DEF N, W, O
<1>5. ASSUME NEW m \in 0..(N - 1), m \in T PROVE m + 1 \in T
  <2>1. m + 1 \in 0..N /\ O(m) <= O(m + 1) /\ O(m + 1) \in Nat /\ IsSeq(HeadBytes(lexs, m + 1))
    BY <1>1, <1>2
  <2>2. ASSUME NEW i \in 0..m PROVE Placed(m + 1, i) /\ O(i + 1) <= O(m + 1)
    <3>1. CASE i = m BY <3>1, <1>2, <2>1
    <3>2. CASE i # m
      <4>1. i \in 0..(m - 1) /\ i \in 0..(N - 1) BY <3>2, <1>1
      <4>2. Placed(m, i) /\ O(i + 1) <= O(m) BY <4>1, <1>5
      <4>3. O(i) \in Nat /\ O(i + 1) \in Int /\ O(m) \in Nat BY <4>1, <1>2
      <4>4. O(i) + 1 \in Int /\ 1 <= O(i) + 1 BY <4>3
      <4>5. SubSeq(HeadBytes(lexs, m + 1), O(i) + 1, O(i + 1)) = SubSeq(HeadBytes(lexs, m), O(i) + 1, O(i + 1))
        BY <4>2, <4>3, <4>4, <1>2
      <4>6. Placed(m + 1, i) BY <4>2, <4>5
      <4> HIDE DEF Placed
      <4>7. O(i + 1) <= O(m + 1) BY <4>2, <4>3, <2>1
      <4>8. QED BY <4>6, <4>7
    <3>3. QED BY <3>1, <3>2
  <2>3. (m + 1) - 1 = m BY <1>1
  <2>4. QED BY <2>1, <2>2, <2>3
<1>6. 0..N \subseteq T
  <2> HIDE DEF T
  <2>1. QED BY <1>1, <1>4, <1>5, UpTo
<1>7. HeadBytes(lexs, N) = Bytes(lexs)
  <2>1. SubSeq(lexs, 1, N) = lexs BY PartsOfAppend DEF N
  <2>2. QED BY <2>1 DEF HeadBytes
<1>8. N \in 0..N BY <1>1
<1>9. \A i \in 0..N : O(i) \in Nat BY <1>6
<1>10. IsSeq(Bytes(lexs)) /\ \A i \in 0..(N - 1) : SubSeq(Bytes(lexs), O(i) + 1, O(i + 1)) = W(i)
  BY <1>6, <1>7, <1>8
<1>11. \A i \in 0..(N - 1) : IsSeq(W(i)) /\ Len(W(i)) \in Nat /\ O(i + 1) = O(i) + Len(W(i)) BY <1>2
<1>12. O(N) = Len(Bytes(lexs)) BY <1>7 DEF O, Offset
<1>13. QED BY <1>3, <1>9, <1>10, <1>11, <1>12 DEF LaidOut, N, O, W

\* No lexeme is empty, so that a later one starts further on.
Rises(lexs) ==
    \A i \in 0..Len(lexs), j \in 0..Len(lexs) : i < j => Offset(lexs, i) < Offset(lexs, j)

\* In a body of lexemes none of which is empty, the offsets rise.
LEMMA OffsetsRise ==
  ASSUME NEW lexs, IsSeq(lexs), LaidOut(lexs), \A i \in 1..Len(lexs) : Len(BytesOf(lexs[i])) > 0
  PROVE  Rises(lexs)
<1> DEFINE N == Len(lexs)
           O(i) == Offset(lexs, i)
           T == {m \in 0..N : \A i \in 0..(m - 1) : O(i) < O(m)}
<1>1. N \in Nat /\ \A i \in 0..N : O(i) \in Nat BY SeqFacts DEF LaidOut
<1>2. \A i \in 0..(N - 1) : O(i) < O(i + 1)
  <2>1. ASSUME NEW i \in 0..(N - 1) PROVE O(i) < O(i + 1)
    <3>1. i + 1 \in 1..N /\ i \in 0..N /\ i + 1 \in 0..N BY <1>1
    <3>2. Len(BytesOf(lexs[i + 1])) \in Nat /\ O(i + 1) = O(i) + Len(BytesOf(lexs[i + 1])) BY DEF LaidOut
    <3>3. QED BY <3>1, <3>2, <1>1
  <2>2. QED BY <2>1
<1> HIDE DEF N, O
<1>3. 0 \in T BY <1>1
<1>4. ASSUME NEW m \in 0..(N - 1), m \in T PROVE m + 1 \in T
  <2>1. \A i \in 0..((m + 1) - 1) : i \in 0..(m - 1) \/ i = m OBVIOUS
  <2>2. m \in 0..N /\ m + 1 \in 0..N /\ \A i \in 0..(m - 1) : i \in 0..N BY <1>1
  <2>3. QED BY <2>1, <2>2, <1>1, <1>2, <1>4
<1>5. 0..N \subseteq T
  <2> HIDE DEF T
  <2>1. QED BY <1>1, <1>3, <1>4, UpTo
<1>6. \A i \in 0..N, j \in 0..N : i < j => O(i) < O(j)
  <2>1. \A i \in 0..N, j \in 0..N : i < j => i \in 0..(j - 1) BY <1>1
  <2>2. QED BY <2>1, <1>5
<1>7. QED BY <1>6 DEF Rises, N, O

-----------------------------------------------------------------------------
(* The strings of a body and the tokens that name them *)

\* Each lexeme that is a string is counted once.
LEMMA StringsCounted ==
  ASSUME NEW lexs, IsSeq(lexs)
  PROVE  /\ StringsIn(lexs, 0) = 0 /\ \A n \in 0..Len(lexs) : StringsIn(lexs, n) \in Nat
         /\ \A n \in 0..(Len(lexs) - 1) :
               StringsIn(lexs, n + 1) = StringsIn(lexs, n) + (IF IsString(lexs[n + 1]) THEN 1 ELSE 0)
<1> DEFINE N == Len(lexs)
           P(n) == {j \in 1..n : lexs[j].kind = "string"}
<1>1. N \in Nat BY SeqFacts
<1> HIDE DEF N
<1>2. ASSUME NEW n \in 0..N PROVE IsFiniteSet(P(n)) /\ Cardinality(P(n)) \in Nat /\ StringsIn(lexs, n) = Cardinality(P(n))
  <2>1. IsFiniteSet(1..n) BY <1>1, FS_Interval
  <2>2. P(n) \in SUBSET (1..n) OBVIOUS
  <2> DEFINE Q == P(n)
  <2> HIDE DEF Q
  <2>3. Q \in SUBSET (1..n) BY <2>2 DEF Q
  <2>4. IsFiniteSet(Q) BY <2>1, <2>3, FS_Subset
  <2>5. Cardinality(Q) \in Nat BY <2>4, FS_CardinalityType
  <2>6. QED BY <2>4, <2>5 DEF Q, StringsIn
<1>3. StringsIn(lexs, 0) = 0
  <2>1. P(0) = {} OBVIOUS
  <2>2. Cardinality({}) = 0 BY FS_EmptySet
  <2>3. QED BY <2>1, <2>2, <1>1, <1>2
<1>4. ASSUME NEW n \in 0..(N - 1)
      PROVE  StringsIn(lexs, n + 1) = StringsIn(lexs, n) + (IF IsString(lexs[n + 1]) THEN 1 ELSE 0)
  <2>0. n \in 0..N /\ n + 1 \in 0..N BY <1>1
  <2>1. \A j : j \in 1..(n + 1) <=> j \in 1..n \/ j = n + 1 BY <1>1
  <2>2. n + 1 \notin P(n) BY <1>1
  <2>3. CASE IsString(lexs[n + 1])
    <3>1. P(n + 1) = P(n) \cup {n + 1} BY <2>1, <2>3 DEF IsString
    <3>2. Cardinality(P(n) \cup {n + 1}) = Cardinality(P(n)) + 1
      <4> DEFINE Q == P(n)
      <4>1. IsFiniteSet(Q) /\ n + 1 \notin Q BY <2>0, <2>2, <1>2
      <4> HIDE DEF Q
      <4>2. Cardinality(Q \cup {n + 1}) = Cardinality(Q) + 1 BY <4>1, FS_AddElement
      <4>3. QED BY <4>2 DEF Q
    <3>3. QED BY <2>0, <2>3, <3>1, <3>2, <1>2
  <2>4. CASE ~IsString(lexs[n + 1])
    <3>1. P(n + 1) = P(n) BY <2>1, <2>4 DEF IsString
    <3>2. StringsIn(lexs, n + 1) = StringsIn(lexs, n) /\ StringsIn(lexs, n) \in Nat BY <2>0, <3>1, <1>2
    <3>3. QED BY <2>4, <3>2
  <2>5. QED BY <2>3, <2>4
<1>5. QED BY <1>2, <1>3, <1>4 DEF N

\* There is a string of each number, and only one.
LEMMA StringsNumbered ==
  ASSUME NEW lexs, IsSeq(lexs)
  PROVE  /\ \A n \in 1..StringsIn(lexs, Len(lexs)) :
               \E i \in 1..Len(lexs) : IsString(lexs[i]) /\ StringsIn(lexs, i) = n
         /\ \A i \in 1..Len(lexs), j \in 1..Len(lexs) :
               IsString(lexs[i]) /\ IsString(lexs[j]) /\ StringsIn(lexs, i) = StringsIn(lexs, j) => i = j
<1> DEFINE N == Len(lexs)
           C(n) == StringsIn(lexs, n)
           S(i) == IsString(lexs[i])
           T == {m \in 0..N : /\ \A n \in 1..C(m) : \E i \in 1..m : S(i) /\ C(i) = n
                              /\ \A i \in 0..m : C(i) <= C(m)}
<1>1. /\ N \in Nat /\ C(0) = 0 /\ \A n \in 0..N : C(n) \in Nat
      /\ \A n \in 0..(N - 1) : C(n + 1) = C(n) + (IF S(n + 1) THEN 1 ELSE 0)
  BY SeqFacts, StringsCounted
<1> HIDE DEF N, C, S
<1>2. 0 \in T BY <1>1
<1>3. ASSUME NEW m \in 0..(N - 1), m \in T PROVE m + 1 \in T
  <2>1. /\ m \in 0..N /\ m + 1 \in 0..N /\ C(m) \in Nat /\ C(m + 1) \in Nat /\ m + 1 \in 1..(m + 1)
        /\ \A i \in 1..m : i \in 1..(m + 1)
        /\ \A i \in 0..(m + 1) : i \in 0..N /\ (i \in 0..m \/ i = m + 1)
    BY <1>1
  <2>2. C(m + 1) = C(m) + (IF S(m + 1) THEN 1 ELSE 0) BY <1>1
  <2>3. ASSUME NEW n \in 1..C(m + 1) PROVE \E i \in 1..(m + 1) : S(i) /\ C(i) = n
    <3>1. CASE n \in 1..C(m) BY <3>1, <2>1, <1>3
    <3>2. CASE n \notin 1..C(m)
      <4>1. S(m + 1) /\ C(m + 1) = n BY <3>2, <2>1, <2>2
      <4>2. QED BY <4>1, <2>1
    <3>3. QED BY <3>1, <3>2
  <2>4. ASSUME NEW i \in 0..(m + 1) PROVE C(i) <= C(m + 1)
    <3>1. CASE i = m + 1 BY <3>1, <2>1
    <3>2. CASE i # m + 1
      <4>1. C(i) <= C(m) /\ C(i) \in Nat BY <3>2, <2>1, <1>1, <1>3
      <4>2. C(m) <= C(m + 1) BY <2>1, <2>2
      <4>3. QED BY <4>1, <4>2, <2>1
    <3>3. QED BY <3>1, <3>2
  <2>5. QED BY <2>1, <2>3, <2>4
<1>4. 0..N \subseteq T
  <2> HIDE DEF T
  <2>1. QED BY <1>1, <1>2, <1>3, UpTo
<1>5. N \in 0..N BY <1>1
<1>6. \A n \in 1..C(N) : \E i \in 1..N : S(i) /\ C(i) = n BY <1>4, <1>5
<1>7. ASSUME NEW i \in 1..N, NEW j \in 1..N, S(j), i < j PROVE C(i) < C(j)
  <2>1. j - 1 \in 0..N /\ j - 1 \in 0..(N - 1) /\ (j - 1) + 1 = j /\ i \in 0..(j - 1) /\ i \in 0..N /\ j \in 0..N
    BY <1>1, <1>7
  <2>2. C(i) <= C(j - 1) BY <2>1, <1>4
  <2>3. C((j - 1) + 1) = C(j - 1) + (IF S((j - 1) + 1) THEN 1 ELSE 0) BY <2>1, <1>1
  <2>4. C(j) = C(j - 1) + 1 BY <2>1, <2>3, <1>7
  <2>5. QED BY <2>1, <2>2, <2>4, <1>1
<1>8. ASSUME NEW i \in 1..N, NEW j \in 1..N, S(i), S(j), C(i) = C(j) PROVE i = j
  <2>1. C(i) \in Nat /\ C(j) \in Nat BY <1>1
  <2>2. ~(i < j) /\ ~(j < i) BY <1>7, <1>8, <2>1
  <2>3. QED BY <2>2, <1>1
<1>9. QED BY <1>6, <1>8 DEF N, C, S

\* What stands between the quotes is a sequence.
LEMMA InnerIsSeq ==
  ASSUME NEW k \in Nat, NEW chars, DOMAIN chars = 1..k, NEW escaped
  PROVE  IsSeq(FlattenSeq([i \in DOMAIN chars |-> IF i \in escaped THEN <<Escape, chars[i]>> ELSE <<chars[i]>>]))
<1> DEFINE D == {Escape} \cup {chars[i] : i \in 1..k}
           parts == [i \in DOMAIN chars |-> IF i \in escaped THEN <<Escape, chars[i]>> ELSE <<chars[i]>>]
<1>1. parts \in [1..k -> Seq(D)]
  <2>1. ASSUME NEW i \in 1..k PROVE (IF i \in escaped THEN <<Escape, chars[i]>> ELSE <<chars[i]>>) \in Seq(D)
    <3> DEFINE c == chars[i]
               e == Escape
    <3>1. c \in D /\ e \in D OBVIOUS
    <3> HIDE DEF D, c, e
    <3>2. <<e, c>> \in Seq(D) /\ <<c>> \in Seq(D) BY <3>1
    <3>3. QED BY <3>2 DEF c, e
  <2> HIDE DEF D
  <2>2. QED BY <2>1
<1> HIDE DEF D, parts
<1>2. parts \in Seq(Seq(D)) BY <1>1, IsASeq
<1>3. FlattenSeq(parts) \in Seq(D) BY <1>2, FlattenIsSeq
<1>4. QED BY <1>3, SeqOfOwn DEF parts

\* With its quotes it is one of at least two bytes.
LEMMA QuotedIsSeq ==
  ASSUME NEW inner, IsSeq(inner)
  PROVE  IsSeq(<<Quote>> \o inner \o <<Quote>>) /\ Len(<<Quote>> \o inner \o <<Quote>>) >= 2
<1> DEFINE q == <<Quote>>
           c == q \o inner
<1>1. IsSeq(q) /\ Len(q) = 1
  <2>1. <<Quote>> \in Seq({Quote}) /\ Len(<<Quote>>) = 1 OBVIOUS
  <2>2. QED BY <2>1, SeqOfOwn
<1> HIDE DEF q
<1>2. IsSeq(c) /\ Len(c) = Len(q) + Len(inner) /\ Len(inner) \in Nat BY <1>1, ConcatElements
<1> HIDE DEF c
<1>3. IsSeq(c \o q) /\ Len(c \o q) = Len(c) + Len(q) BY <1>1, <1>2, ConcatElements
<1>4. QED BY <1>1, <1>2, <1>3 DEF c, q

\* The strings of the body are texts of the model.
TextsInv == \A i \in 1..Len(lexemes) : IsString(lexemes[i]) => lexemes[i].text \in Texts

\* A quoted text has its quotes, every other lexeme a byte.
LEMMA NoneEmpty ==
  ASSUME NEW l, IsString(l) => l.text \in Texts
  PROVE  IsSeq(BytesOf(l)) /\ Len(BytesOf(l)) > 0
<1>1. ASSUME NEW x PROVE IsSeq(<<x>>) /\ Len(<<x>>) = 1
  <2>1. <<x>> \in Seq({x}) /\ Len(<<x>>) = 1 OBVIOUS
  <2>2. QED BY <2>1, SeqOfOwn
<1>2. CASE IsString(l)
  <2> DEFINE text == l.text
             k == Len(text)
             chars == [i \in 1..k |-> text[i].char]
             escaped == {i \in 1..k : text[i].escaped}
             parts == [i \in DOMAIN text |-> IF text[i].escaped THEN <<Escape, text[i].char>> ELSE <<text[i].char>>]
             inner == FlattenSeq(parts)
  <2>1. BytesOf(l) = Raw(text) BY <1>2 DEF BytesOf, IsString
  <2>2. k \in Nat /\ DOMAIN text = 1..k
    <3> DEFINE U == UNION {ToSet(other) : other \in Texts}
    <3>1. text \in Seq(U) BY <1>2, PayloadConstants
    <3> HIDE DEF U, text
    <3>2. QED BY <3>1, LenProperties
  <2> HIDE DEF text, k
  <2>3. parts = [i \in DOMAIN chars |-> IF i \in escaped THEN <<Escape, chars[i]>> ELSE <<chars[i]>>]
    BY <2>2
  <2>4. DOMAIN chars = 1..k OBVIOUS
  <2> HIDE DEF chars, escaped, parts
  <2>5. IsSeq(inner) BY <2>2, <2>3, <2>4, InnerIsSeq
  <2>6. Raw(text) = <<Quote>> \o inner \o <<Quote>> BY DEF Raw, parts
  <2> HIDE DEF inner
  <2>7. IsSeq(Raw(text)) /\ Len(Raw(text)) >= 2 BY <2>5, <2>6, QuotedIsSeq
  <2>8. Len(Raw(text)) \in Nat BY <2>7, SeqFacts
  <2>9. QED BY <2>1, <2>7, <2>8
<1>3. CASE ~IsString(l)
  <2>1. BytesOf(l) = <<l.key>> \/ BytesOf(l) = <<l.kind>> BY <1>3 DEF BytesOf, IsString
  <2>2. QED BY <2>1, <1>1
<1>4. QED BY <1>2, <1>3

\* One more lexeme.
LEMMA TextsAppend ==
  ASSUME NEW lexs, IsSeq(lexs), \A i \in 1..Len(lexs) : IsString(lexs[i]) => lexs[i].text \in Texts,
         NEW l, IsString(l) => l.text \in Texts
  PROVE  LET next == Append(lexs, l)
         IN  IsSeq(next) /\ \A i \in 1..Len(next) : IsString(next[i]) => next[i].text \in Texts
<1> DEFINE next == Append(lexs, l)
<1>1. /\ IsSeq(next) /\ Len(lexs) \in Nat /\ Len(next) = Len(lexs) + 1
      /\ (\A n \in 1..Len(lexs) : next[n] = lexs[n]) /\ next[Len(lexs) + 1] = l
  BY AppendIsSeq
<1> HIDE DEF next
<1>2. ASSUME NEW i \in 1..Len(next), IsString(next[i]) PROVE next[i].text \in Texts
  <2>1. i \in 1..Len(lexs) \/ i = Len(lexs) + 1 BY <1>1
  <2>2. QED BY <2>1, <1>1, <1>2
<1>3. QED BY <1>1, <1>2 DEF next

\* A string of the body is one of the texts, since ReadString reads one.
LEMMA TextsKept == IInv /\ TextsInv /\ [Next]_vars => TextsInv'
<1> SUFFICES ASSUME IInv, TextsInv, [Next]_vars PROVE TextsInv'
  OBVIOUS
<1>0. IsSeq(lexemes) /\ \A i \in 1..Len(lexemes) : IsString(lexemes[i]) => lexemes[i].text \in Texts
  BY DEF IInv, Typed, TextsInv
<1>1. ASSUME UNCHANGED lexemes PROVE TextsInv'
  BY <1>0, <1>1 DEF TextsInv
<1>2. ASSUME NEW l, Read(<<l>>), IsString(l) => l.text \in Texts PROVE TextsInv'
  <2>1. lexemes' = Append(lexemes, l) BY <1>0, <1>2, ReadOne DEF Read
  <2> DEFINE lexs == lexemes
             next == Append(lexs, l)
  <2> HIDE DEF lexs
  <2>2. IsSeq(next) /\ \A i \in 1..Len(next) : IsString(next[i]) => next[i].text \in Texts
    BY <1>0, <1>2, TextsAppend DEF lexs
  <2>3. lexemes' = next BY <2>1 DEF lexs
  <2> HIDE DEF next
  <2>4. QED BY <2>2, <2>3 DEF TextsInv
<1>3. ASSUME NEW a, NEW b, Read(<<a, b>>), ~IsString(a), ~IsString(b) PROVE TextsInv'
  <2>1. lexemes' = Append(Append(lexemes, a), b) BY <1>0, <1>3, ReadTwo DEF Read
  <2> DEFINE lexs == lexemes
             one == Append(lexs, a)
             two == Append(one, b)
  <2> HIDE DEF lexs
  <2>2. IsSeq(one) /\ \A i \in 1..Len(one) : IsString(one[i]) => one[i].text \in Texts
    BY <1>0, <1>3, TextsAppend DEF lexs
  <2> HIDE DEF one
  <2>3. IsSeq(two) /\ \A i \in 1..Len(two) : IsString(two[i]) => two[i].text \in Texts
    BY <1>3, <2>2, TextsAppend
  <2>4. lexemes' = two BY <2>1 DEF lexs, one
  <2> HIDE DEF two
  <2>5. QED BY <2>3, <2>4 DEF TextsInv
<1>4. \A kind : kind # "string" => ~IsString(Lexeme(kind)) BY Kinds DEF IsString
<1>5. CASE \/ BodyTooLarge \/ Cancelled \/ Malformed \/ Scanned \/ ValueRefused \/ ElementRefused
           \/ \E text \in Texts : StringRefused(text)
           \/ \E k \in Keys : MemberRefused(k)
           \/ \E reqs \in RequestLists : Replace(reqs) \/ ReplaceFails(reqs)
           \/ UNCHANGED vars \/ EnterElement
  <2>1. UNCHANGED lexemes
    BY <1>5 DEF BodyTooLarge, Cancelled, Malformed, Scanned, ValueRefused, ElementRefused, StringRefused,
                MemberRefused, Replace, ReplaceFails, Fail, vars, EnterElement
  <2>2. QED BY <2>1, <1>1
<1>6. CASE ReadScalar
  <2>1. Read(<<Lexeme("scalar")>>) BY <1>6 DEF ReadScalar
  <2>2. QED BY <2>1, <1>2, <1>4
<1>7. CASE \E kind \in {"{", "["} : OpenContainer(kind)
  <2>1. PICK kind \in {"{", "["} : OpenContainer(kind) BY <1>7
  <2>2. Read(<<Lexeme(kind)>>) /\ kind # "string" BY <2>1 DEF OpenContainer
  <2>3. QED BY <2>2, <1>2, <1>4
<1>8. CASE \E text \in Texts : ReadString(text)
  <2>1. PICK text \in Texts : ReadString(text) BY <1>8
  <2>2. Read(<<StringLexeme(text)>>) BY <2>1 DEF ReadString
  <2>3. StringLexeme(text).text = text BY DEF StringLexeme, Lexeme
  <2>4. QED BY <2>2, <2>3, <1>2
<1>9. CASE \E k \in Keys : EnterMember(k)
  <2>1. PICK k \in Keys : EnterMember(k) BY <1>9
  <2>2. Read(<<KeyLexeme(k), Lexeme(":")>>) BY <2>1 DEF EnterMember
  <2>3. ~IsString(KeyLexeme(k)) BY Kinds DEF IsString
  <2>4. ~IsString(Lexeme(":")) BY <1>4
  <2>5. QED BY <2>2, <2>3, <2>4, <1>3
<1>10. CASE Comma
  <2>1. Read(<<Lexeme(",")>>) BY <1>10 DEF Comma
  <2>2. QED BY <2>1, <1>2, <1>4
<1>11. CASE Close
  <2>1. Read(<<Lexeme(Closing(Top.kind))>>) /\ Closing(Top.kind) # "string" BY <1>11 DEF Close, Closing
  <2>2. QED BY <2>1, <1>2, <1>4
<1>12. QED BY <1>5, <1>6, <1>7, <1>8, <1>9, <1>10, <1>11 DEF Next

\* The body, as the replacements see it: laid out, each lexeme further on.
LEMMA BodyFacts ==
  ASSUME IInv, IndexInv, TextsInv
  PROVE  /\ IsSeq(lexemes) /\ Len(lexemes) \in Nat /\ LaidOut(lexemes) /\ Rises(lexemes)
         /\ \A i \in 1..Len(lexemes) : Len(BytesOf(lexemes[i])) > 0 /\ Len(BytesOf(lexemes[i])) \in Nat
<1>1. IsSeq(lexemes) /\ Readable(lexemes) BY DEF IInv, Typed, IndexInv, IndexOK
<1>2. \A i \in 1..Len(lexemes) : IsSeq(BytesOf(lexemes[i])) /\ Len(BytesOf(lexemes[i])) > 0
  BY NoneEmpty DEF TextsInv
<1>3. Len(lexemes) \in Nat BY <1>1, SeqFacts
<1>4. LaidOut(lexemes) BY <1>1, BodyIsLaidOut
<1>5. Rises(lexemes) BY <1>1, <1>2, <1>4, OffsetsRise
<1>6. \A i \in 1..Len(lexemes) : Len(BytesOf(lexemes[i])) \in Nat BY <1>2, SeqFacts
<1>7. QED BY <1>1, <1>2, <1>3, <1>4, <1>5, <1>6

\* The token is that of the string at position i.
Names(token, lexs, i) ==
    /\ i \in 1..Len(lexs) /\ IsString(lexs[i])
    /\ token.ordinal = StringsIn(lexs, i) /\ token.value = Decode(lexs[i].text)
    /\ token.start = Offset(lexs, i - 1) /\ token.end = Offset(lexs, i)

\* Every token of the document names a string of the body.
LEMMA TokensName ==
  ASSUME IInv, IndexInv, TextsInv, NEW n \in DOMAIN scan.strings
  PROVE  \E i \in 1..Len(lexemes) : Names(TokenAt(n), lexemes, i)
<1> DEFINE N == Len(lexemes)
           t == scan.strings[n]
<1>1. n \in 1..StringsIn(lexemes, N) /\ StringsOK(scan, lexemes)
  <2>1. DOMAIN scan.strings = 1..Len(scan.strings) BY SeqFacts DEF IInv, Typed
  <2>2. StringsOK(scan, lexemes) BY DEF IndexInv, IndexOK
  <2>3. Len(scan.strings) = StringsIn(lexemes, N) BY <2>2 DEF StringsOK
  <2>4. QED BY <2>1, <2>2, <2>3
<1>2. IsSeq(lexemes) /\ N \in Nat /\ LaidOut(lexemes) /\ \A i \in 1..N : Len(BytesOf(lexemes[i])) > 0 /\ Len(BytesOf(lexemes[i])) \in Nat
  BY BodyFacts
<1>3. PICK i \in 1..N : IsString(lexemes[i]) /\ StringsIn(lexemes, i) = n BY <1>1, <1>2, StringsNumbered
<1>4. TokenOK(scan, t, lexemes, i) BY <1>1, <1>3 DEF StringsOK, IsString
<1> DEFINE body == Bytes(lexemes)
           b == BytesOf(lexemes[i])
           start == t.start
           end == t.end
           o == Offset(lexemes, i - 1)
<1>5. /\ t.value = Decode(lexemes[i].text) /\ start = o /\ start \in Nat
      /\ end \in Nat /\ end <= Len(body) /\ SubSeq(body, start + 1, end) = b
  BY <1>4 DEF TokenOK, Offset, HeadBytes
<1>6. Offset(lexemes, i) = o + Len(b) /\ IsSeq(body)
  <2>1. i - 1 \in 0..(N - 1) /\ (i - 1) + 1 = i BY <1>2
  <2>2. Offset(lexemes, (i - 1) + 1) = Offset(lexemes, i - 1) + Len(BytesOf(lexemes[(i - 1) + 1])) BY <2>1, <1>2 DEF LaidOut
  <2>3. IsSeq(body) BY <1>2 DEF LaidOut
  <2>4. QED BY <2>1, <2>2, <2>3
<1>7. Len(b) > 0 /\ Len(b) \in Nat BY <1>2
<1> HIDE DEF N, body, b, start, end, o
<1>8. Len(b) = end - start
  <2>1. CASE start <= end
    <3>1. end \in 0..Len(body) BY <1>5, <1>6, SeqFacts
    <3>2. Len(SubSeq(body, start + 1, end)) = end - start BY <2>1, <3>1, <1>5, <1>6, SubSeqFacts
    <3>3. QED BY <3>2, <1>5
  <2>2. CASE ~(start <= end)
    <3>1. start + 1 \in Int /\ end \in Int /\ end < start + 1 BY <2>2, <1>5
    <3>2. SubSeq(body, start + 1, end) = <<>> BY <3>1, SubSeqEmpty
    <3>3. Len(b) = 0 BY <3>2, <1>5, EmptyIsSeq
    <3>4. QED BY <3>3, <1>7
  <2>3. QED BY <2>1, <2>2
<1>9. end = Offset(lexemes, i) BY <1>5, <1>6, <1>7, <1>8
<1>10. /\ TokenAt(n).ordinal = n /\ TokenAt(n).value = t.value /\ TokenAt(n).start = t.start /\ TokenAt(n).end = t.end
  BY DEF TokenAt
<1>11. Names(TokenAt(n), lexemes, i) BY <1>3, <1>5, <1>9, <1>10 DEF Names, N, start, end, o
<1>12. QED BY <1>11 DEF N

-----------------------------------------------------------------------------
(* The order of the replacements *)

\* Sorted is a rearrangement of the requests in the order Before.
Arranges(order, reqs, K) ==
    /\ order \in [1..K -> 1..K] /\ \A i \in 1..K : \E n \in 1..K : order[n] = i
    /\ \A n \in 1..K : Sorted(reqs)[n] = reqs[order[n]]
    /\ \A n \in 1..K, m \in 1..K : n < m => Before(reqs, order[n], order[m])

\* Before is a strict order in which any two requests are comparable.
LEMMA BeforeIsOrder ==
  ASSUME NEW K \in Nat, NEW reqs, \A i \in 1..K : reqs[i].token.start \in Nat /\ reqs[i].token.end \in Nat
  PROVE  /\ \A i \in 1..K : ~Before(reqs, i, i)
         /\ \A i \in 1..K, j \in 1..K : i # j => Before(reqs, i, j) \/ Before(reqs, j, i)
         /\ \A i \in 1..K, j \in 1..K, m \in 1..K :
               Before(reqs, i, j) /\ Before(reqs, j, m) => Before(reqs, i, m)
<1> DEFINE a(i) == reqs[i].token.start
           e(i) == reqs[i].token.end
<1>1. \A i \in 1..K : a(i) \in Nat /\ e(i) \in Nat OBVIOUS
<1>2. \A i, j : Before(reqs, i, j) <=> a(i) < a(j) \/ (a(i) = a(j) /\ (e(i) < e(j) \/ (e(i) = e(j) /\ i < j)))
  BY DEF Before
<1> HIDE DEF a, e
<1>3. \A i \in 1..K : ~Before(reqs, i, i) BY <1>1, <1>2
<1>4. \A i \in 1..K, j \in 1..K : i # j => Before(reqs, i, j) \/ Before(reqs, j, i)
  <2>1. ASSUME NEW i \in 1..K, NEW j \in 1..K, i # j PROVE Before(reqs, i, j) \/ Before(reqs, j, i)
    <3>1. a(i) \in Nat /\ a(j) \in Nat /\ e(i) \in Nat /\ e(j) \in Nat BY <1>1
    <3>2. (i < j \/ j < i) BY <2>1
    <3>3. QED BY <3>1, <3>2, <1>2
  <2>2. QED BY <2>1
<1>5. ASSUME NEW i \in 1..K, NEW j \in 1..K, NEW m \in 1..K, Before(reqs, i, j), Before(reqs, j, m)
      PROVE  Before(reqs, i, m)
  <2>1. /\ a(i) \in Nat /\ a(j) \in Nat /\ a(m) \in Nat /\ e(i) \in Nat /\ e(j) \in Nat /\ e(m) \in Nat
        /\ i \in Nat /\ j \in Nat /\ m \in Nat
    BY <1>1
  <2>2. a(i) < a(j) \/ (a(i) = a(j) /\ (e(i) < e(j) \/ (e(i) = e(j) /\ i < j))) BY <1>2, <1>5
  <2>3. a(j) < a(m) \/ (a(j) = a(m) /\ (e(j) < e(m) \/ (e(j) = e(m) /\ j < m))) BY <1>2, <1>5
  <2>4. a(i) < a(m) \/ (a(i) = a(m) /\ (e(i) < e(m) \/ (e(i) = e(m) /\ i < m))) BY <2>1, <2>2, <2>3
  <2>5. QED BY <2>4, <1>2
<1>6. QED BY <1>3, <1>4, <1>5

\* How many requests come before one says where it is in the order.
LEMMA SortedArranges ==
  ASSUME NEW K \in Nat, NEW reqs, DOMAIN reqs = 1..K,
         \A i \in 1..K : reqs[i].token.start \in Nat /\ reqs[i].token.end \in Nat
  PROVE  IsSeq(Sorted(reqs)) /\ Len(Sorted(reqs)) = K /\ \E order : Arranges(order, reqs, K)
<1> DEFINE P(i) == {j \in 1..K : Before(reqs, j, i)}
           R(i) == Cardinality(P(i))
           rank == [i \in 1..K |-> R(i)]
           order == [n \in 1..K |-> CHOOSE i \in 1..K : R(i) = n - 1]
           sorted == Sorted(reqs)
<1>1. /\ \A i \in 1..K : ~Before(reqs, i, i)
      /\ \A i \in 1..K, j \in 1..K : i # j => Before(reqs, i, j) \/ Before(reqs, j, i)
      /\ \A i \in 1..K, j \in 1..K, m \in 1..K :
            Before(reqs, i, j) /\ Before(reqs, j, m) => Before(reqs, i, m)
  BY BeforeIsOrder
<1>2. IsFiniteSet(1..K) /\ Cardinality(1..K) = K BY FS_Interval
<1>3. ASSUME NEW i \in 1..K, NEW S \in SUBSET (1..K), P(i) \subseteq S, i \in S
      PROVE  /\ R(i) \in Nat /\ Cardinality(S) \in Nat /\ R(i) + 1 <= Cardinality(S)
  <2> DEFINE Q == P(i)
  <2>1. i \notin Q /\ Q \in SUBSET (1..K) BY <1>1
  <2>2. Q \cup {i} \in SUBSET S BY <1>3
  <2> HIDE DEF Q
  <2>3. IsFiniteSet(Q) /\ IsFiniteSet(S) BY <2>1, <1>2, FS_Subset
  <2>4. Cardinality(Q \cup {i}) = Cardinality(Q) + 1 BY <2>1, <2>3, FS_AddElement
  <2>5. Cardinality(Q \cup {i}) <= Cardinality(S) BY <2>2, <2>3, FS_Subset
  <2>6. Cardinality(Q) \in Nat /\ Cardinality(S) \in Nat BY <2>3, FS_CardinalityType
  <2>7. QED BY <2>4, <2>5, <2>6 DEF Q
<1>4. ASSUME NEW i \in 1..K PROVE R(i) \in 0..(K - 1)
  <2>1. P(i) \subseteq 1..K /\ 1..K \in SUBSET (1..K) OBVIOUS
  <2>2. R(i) \in Nat /\ R(i) + 1 <= Cardinality(1..K)
    <3> HIDE DEF P, R
    <3>1. QED BY <2>1, <1>3
  <2> HIDE DEF R
  <2>3. QED BY <2>2, <1>2
<1>5. ASSUME NEW i \in 1..K, NEW j \in 1..K, Before(reqs, i, j) PROVE R(i) < R(j)
  <2>1. P(i) \subseteq P(j) /\ i \in P(j) /\ P(j) \in SUBSET (1..K) BY <1>1, <1>5
  <2> DEFINE S == P(j)
  <2>2. P(i) \subseteq S /\ i \in S /\ S \in SUBSET (1..K) BY <2>1
  <2>3. R(j) = Cardinality(S) OBVIOUS
  <2> HIDE DEF P, R, S
  <2>4. R(i) + 1 <= R(j) /\ R(i) \in Nat /\ R(j) \in Nat BY <2>2, <2>3, <1>3
  <2>5. QED BY <2>4
<1> HIDE DEF P, R
<1>6. rank \in Injection(1..K, 0..(K - 1))
  <2>1. rank \in [1..K -> 0..(K - 1)] BY <1>4
  <2>2. ASSUME NEW i \in 1..K, NEW j \in 1..K, rank[i] = rank[j] PROVE i = j
    <3>1. R(i) = R(j) /\ R(i) \in Nat BY <2>2, <1>4
    <3>2. ~Before(reqs, i, j) /\ ~Before(reqs, j, i) BY <3>1, <1>5
    <3>3. QED BY <3>2, <1>1
  <2> HIDE DEF rank
  <2>3. DOMAIN rank = 1..K BY <2>1
  <2>4. QED BY <2>1, <2>2, <2>3 DEF Injection, IsInjective
<1>7. \A n \in 1..K : \E i \in 1..K : R(i) = n - 1
  <2> DEFINE T == 0..(K - 1)
  <2>1. IsFiniteSet(T) /\ Cardinality(T) = K
    <3>1. 0 \in Int /\ K - 1 \in Int OBVIOUS
    <3>2. IsFiniteSet(T) /\ Cardinality(T) = (IF 0 > K - 1 THEN 0 ELSE (K - 1) - 0 + 1) BY <3>1, FS_Interval
    <3>3. (IF 0 > K - 1 THEN 0 ELSE (K - 1) - 0 + 1) = K OBVIOUS
    <3>4. QED BY <3>2, <3>3
  <2>2. \A n \in 1..K : n - 1 \in T OBVIOUS
  <2>3. rank \in Injection(1..K, T) BY <1>6
  <2> HIDE DEF T
  <2>4. \A t \in T : \E i \in 1..K : rank[i] = t
    <3> DEFINE f == rank
               D == 1..K
    <3>1. f \in Injection(D, T) /\ Cardinality(D) = Cardinality(T) BY <2>1, <2>3, <1>2
    <3> HIDE DEF f, D
    <3>2. f \in Surjection(D, T) BY <3>1, <2>1, FS_Injection
    <3>3. QED BY <3>2 DEF Surjection, f, D
  <2>5. QED BY <2>2, <2>4
<1>8. \A n \in 1..K : order[n] \in 1..K /\ R(order[n]) = n - 1 BY <1>7
<1>9. \A n \in 1..K : sorted[n] = reqs[order[n]] /\ DOMAIN sorted = 1..K
  <2>1. sorted = [n \in 1..K |-> reqs[CHOOSE i \in 1..K : Cardinality({j \in 1..K : Before(reqs, j, i)}) = n - 1]]
    BY DEF Sorted
  <2>2. sorted = [n \in 1..K |-> reqs[CHOOSE i \in 1..K : R(i) = n - 1]] BY <2>1 DEF R, P
  <2> HIDE DEF sorted
  <2>3. QED BY <2>2
<1>10. DOMAIN sorted = 1..K BY DEF Sorted
<1>11. order \in [1..K -> 1..K] BY <1>8
<1> HIDE DEF order, sorted
<1>12. \A i \in 1..K : \E n \in 1..K : order[n] = i
  <2>1. ASSUME NEW i \in 1..K PROVE \E n \in 1..K : order[n] = i
    <3> DEFINE n == R(i) + 1
    <3>1. n \in 1..K /\ n - 1 = R(i) BY <1>4
    <3> HIDE DEF n
    <3>2. order[n] \in 1..K /\ R(order[n]) = R(i) BY <3>1, <1>8
    <3>3. R(i) \in Nat BY <1>4
    <3>4. ~Before(reqs, order[n], i) /\ ~Before(reqs, i, order[n]) BY <3>2, <3>3, <1>5
    <3>5. order[n] = i BY <3>2, <3>4, <1>1
    <3>6. QED BY <3>1, <3>5
  <2>2. QED BY <2>1
<1>13. ASSUME NEW n \in 1..K, NEW m \in 1..K, n < m PROVE Before(reqs, order[n], order[m])
  <2>1. order[n] \in 1..K /\ order[m] \in 1..K /\ R(order[n]) = n - 1 /\ R(order[m]) = m - 1 BY <1>8
  <2>2. order[n] # order[m] BY <2>1, <1>13
  <2>3. ~Before(reqs, order[m], order[n])
    <3>1. Before(reqs, order[m], order[n]) => R(order[m]) < R(order[n]) BY <2>1, <1>5
    <3>2. QED BY <3>1, <2>1, <1>13
  <2>4. QED BY <2>1, <2>2, <2>3, <1>1
<1>14. Arranges(order, reqs, K) BY <1>9, <1>11, <1>12, <1>13 DEF Arranges, sorted
<1>15. IsSeq(sorted) /\ Len(sorted) = K
  <2> DEFINE S == {sorted[n] : n \in 1..K}
  <2>1. sorted \in [1..K -> S]
    <3>1. sorted = [n \in 1..K |-> sorted[n]] BY <1>10 DEF sorted, Sorted
    <3>2. \A n \in 1..K : sorted[n] \in S OBVIOUS
    <3> HIDE DEF S
    <3>3. QED BY <3>1, <3>2
  <2> HIDE DEF S
  <2>2. sorted \in Seq(S) BY <2>1, IsASeq
  <2>3. Len(sorted) \in Nat /\ DOMAIN sorted = 1..Len(sorted) BY <2>2, LenProperties
  <2>4. Len(sorted) = K BY <2>3, <1>10, IntervalEqual
  <2>5. QED BY <2>2, <2>4, SeqOfOwn
<1>16. QED BY <1>14, <1>15 DEF sorted

-----------------------------------------------------------------------------
(* The loops of Replace *)

\* f starts with base and goes on by the steps.
LoopUnfolds(f, N, base, step) == f[0] = base /\ \A n \in 1..N : f[n] = step[n][f[n - 1]]

\* A loop that computes its next value from the last one defines a function.
LEMMA LoopFunctionExists ==
  ASSUME NEW N \in Nat, NEW D, NEW base \in D, NEW step \in [1..N -> [D -> D]]
  PROVE  \E f \in [0..N -> D] : LoopUnfolds(f, N, base, step)
<1> DEFINE parent == [n \in 1..N |-> n - 1]
<1>1. parent \in [1..N -> Nat] /\ \A n \in 1..N : parent[n] <= n - 1 /\ parent[n] = n - 1 OBVIOUS
<1> HIDE DEF parent
<1>2. PICK f \in [0..N -> D] : TreeUnfolds(f, N, parent, base, step) BY <1>1, TreeFunctionExists
<1>3. QED BY <1>1, <1>2 DEF TreeUnfolds, LoopUnfolds

\* The rounds of Edits.
EditsUnfold(e, sorted) ==
    /\ Edits(sorted) = e[Len(sorted)] /\ e[0] = <<>> /\ \A n \in 0..Len(sorted) : IsSeq(e[n])
    /\ \A n \in 1..Len(sorted) :
          e[n] = IF Changes(sorted[n]) THEN Append(e[n - 1], EditOf(sorted[n])) ELSE e[n - 1]

\* Edits goes through such rounds.
LEMMA EditsUnfolded ==
  ASSUME NEW sorted, IsSeq(sorted)
  PROVE  \E e : EditsUnfold(e, sorted)
<1> DEFINE N == Len(sorted)
           S == {EditOf(sorted[n]) : n \in 1..N}
           D == Seq(S)
           F(f) == [n \in 0..N |-> IF n = 0 THEN <<>>
                                   ELSE IF Changes(sorted[n]) THEN Append(f[n - 1], EditOf(sorted[n]))
                                   ELSE f[n - 1]]
           step == [n \in 1..N |-> [d \in D |-> IF Changes(sorted[n]) THEN Append(d, EditOf(sorted[n])) ELSE d]]
<1>1. N \in Nat BY SeqFacts
<1>2. \A n \in 1..N : EditOf(sorted[n]) \in S OBVIOUS
<1> HIDE DEF N, S
<1>3. <<>> \in D BY EmptySeq
<1>4. \A n \in 1..N : \A d \in D : (IF Changes(sorted[n]) THEN Append(d, EditOf(sorted[n])) ELSE d) \in D
  BY <1>2, AppendProperties
<1> HIDE DEF D
<1>5. step \in [1..N -> [D -> D]] BY <1>4
<1>6. PICK g \in [0..N -> D] : g[0] = <<>> /\ \A n \in 1..N : g[n] = step[n][g[n - 1]]
  <2> DEFINE base == <<>>
  <2>1. base \in D BY <1>3
  <2> HIDE DEF step, base
  <2>2. PICK f \in [0..N -> D] : LoopUnfolds(f, N, base, step) BY <1>1, <1>5, <2>1, LoopFunctionExists
  <2>3. QED BY <2>2 DEF LoopUnfolds, base
<1>7. g = F(g)
  <2>1. ASSUME NEW n \in 0..N
        PROVE  g[n] = IF n = 0 THEN <<>>
                      ELSE IF Changes(sorted[n]) THEN Append(g[n - 1], EditOf(sorted[n])) ELSE g[n - 1]
    <3>1. CASE n = 0 BY <3>1, <1>6
    <3>2. CASE n # 0
      <4>1. n \in 1..N /\ n - 1 \in 0..N BY <3>2, <1>1
      <4>2. g[n] = step[n][g[n - 1]] /\ g[n - 1] \in D BY <4>1, <1>6
      <4>3. QED BY <3>2, <4>1, <4>2
    <3>3. QED BY <3>1, <3>2
  <2> HIDE DEF step
  <2>2. QED BY <2>1
<1> DEFINE c == CHOOSE f : f = F(f)
<1>8. c = F(c)
  <2> HIDE DEF F
  <2>1. QED BY <1>7
<1>9. Edits(sorted) = c[N] BY Zenon DEF Edits, N
<1> HIDE DEF c
<1>10. \A n \in 0..N : c[n] = IF n = 0 THEN <<>>
                              ELSE IF Changes(sorted[n]) THEN Append(c[n - 1], EditOf(sorted[n])) ELSE c[n - 1]
  BY <1>8
<1>11. c[0] = <<>> /\ \A n \in 1..N : c[n] = IF Changes(sorted[n]) THEN Append(c[n - 1], EditOf(sorted[n])) ELSE c[n - 1]
  BY <1>1, <1>10
<1>12. \A n \in 0..N : IsSeq(c[n])
  <2> DEFINE T == {n \in 0..N : IsSeq(c[n])}
  <2>1. 0 \in T BY <1>1, <1>11, EmptyIsSeq
  <2>2. ASSUME NEW n \in 0..(N - 1), n \in T PROVE n + 1 \in T
    <3>1. n + 1 \in 1..N /\ n + 1 \in 0..N /\ (n + 1) - 1 = n BY <1>1
    <3>2. c[n + 1] = IF Changes(sorted[n + 1]) THEN Append(c[n], EditOf(sorted[n + 1])) ELSE c[n] BY <3>1, <1>11
    <3>3. IsSeq(c[n]) BY <2>2
    <3>4. IsSeq(Append(c[n], EditOf(sorted[n + 1]))) BY <3>3, AppendIsSeq
    <3>5. QED BY <3>1, <3>2, <3>3, <3>4
  <2> HIDE DEF T
  <2>3. 0..N \subseteq T BY <1>1, <2>1, <2>2, UpTo
  <2>4. QED BY <2>3 DEF T
<1>13. QED BY <1>9, <1>11, <1>12 DEF EditsUnfold, N

\* The n-th of the requests is about the string at position q[n].
InPlace(sorted, q, lexs) ==
    /\ \A n \in 1..Len(sorted) :
          /\ q[n] \in 1..Len(lexs)
          /\ sorted[n].token.start = Offset(lexs, q[n] - 1) /\ sorted[n].token.end = Offset(lexs, q[n])
    /\ \A n \in 1..Len(sorted), m \in 1..Len(sorted) : n < m => q[n] < q[m]

\* The k-th edit writes what w gives for position p[k].
EditsAt(edits, p, lexs, w) ==
    /\ IsSeq(edits)
    /\ \A k \in 1..Len(edits) :
          /\ p[k] \in 1..Len(lexs) /\ edits[k].encoded = w[p[k]]
          /\ edits[k].start = Offset(lexs, p[k] - 1) /\ edits[k].end = Offset(lexs, p[k])
    /\ \A k \in 1..Len(edits), l \in 1..Len(edits) : k < l => p[k] < p[l]

\* The edits are about those of the first n requests that change something.
FromRequests(edits, p, sorted, q, n) ==
    /\ \A k \in 1..Len(edits) : \E m \in 1..n : Changes(sorted[m]) /\ p[k] = q[m]
    /\ \A m \in 1..n : Changes(sorted[m]) => \E k \in 1..Len(edits) : p[k] = q[m]

\* One round of Edits.
LEMMA EditAdded ==
  ASSUME NEW lexs, NEW w, NEW sorted, IsSeq(sorted), NEW q, InPlace(sorted, q, lexs),
         NEW n \in 0..(Len(sorted) - 1), Changes(sorted[n + 1]),
         w[q[n + 1]] = encodeString(sorted[n + 1].value),
         NEW edits, NEW p, EditsAt(edits, p, lexs, w), FromRequests(edits, p, sorted, q, n)
  PROVE  \E r : /\ EditsAt(Append(edits, EditOf(sorted[n + 1])), r, lexs, w)
                /\ FromRequests(Append(edits, EditOf(sorted[n + 1])), r, sorted, q, n + 1)
<1> DEFINE L == Len(edits)
           e == EditOf(sorted[n + 1])
           next == Append(edits, e)
           r == [k \in 1..(L + 1) |-> IF k = L + 1 THEN q[n + 1] ELSE p[k]]
<1>1. /\ IsSeq(next) /\ L \in Nat /\ Len(next) = L + 1 /\ next[L + 1] = e
      /\ \A k \in 1..L : next[k] = edits[k]
  BY AppendIsSeq DEF EditsAt
<1>2. /\ e.start = sorted[n + 1].token.start /\ e.end = sorted[n + 1].token.end
      /\ e.encoded = encodeString(sorted[n + 1].value)
  BY DEF EditOf
<1>3. /\ n + 1 \in 1..Len(sorted) /\ Len(sorted) \in Nat
      /\ \A m \in 1..n : m \in 1..(n + 1) /\ m \in 1..Len(sorted) /\ m < n + 1
      /\ \A m \in 1..(n + 1) : m \in 1..n \/ m = n + 1
      /\ n + 1 \in 1..(n + 1)
  BY SeqFacts
<1>4. /\ q[n + 1] \in 1..Len(lexs) /\ e.start = Offset(lexs, q[n + 1] - 1) /\ e.end = Offset(lexs, q[n + 1])
      /\ e.encoded = w[q[n + 1]]
  BY <1>2, <1>3 DEF InPlace
<1>5. \A m \in 1..n : q[m] < q[n + 1] BY <1>3 DEF InPlace
<1> HIDE DEF L, e, next
<1>6. /\ \A k \in 1..(L + 1) : k \in 1..L \/ k = L + 1
      /\ \A k \in 1..L : k \in 1..(L + 1) /\ k # L + 1
      /\ L + 1 \in 1..(L + 1)
  BY <1>1
<1>7. r[L + 1] = q[n + 1] /\ \A k \in 1..L : r[k] = p[k] BY <1>6
<1> HIDE DEF r
<1>8. /\ \A k \in 1..L : p[k] \in 1..Len(lexs) /\ edits[k].encoded = w[p[k]]
                         /\ edits[k].start = Offset(lexs, p[k] - 1) /\ edits[k].end = Offset(lexs, p[k])
      /\ \A k \in 1..L, l \in 1..L : k < l => p[k] < p[l]
  BY DEF EditsAt, L
<1>9. /\ \A k \in 1..L : \E m \in 1..n : Changes(sorted[m]) /\ p[k] = q[m]
      /\ \A m \in 1..n : Changes(sorted[m]) => \E k \in 1..L : p[k] = q[m]
  BY DEF FromRequests, L
<1>10. \A k \in 1..Len(next) : /\ r[k] \in 1..Len(lexs) /\ next[k].encoded = w[r[k]]
                               /\ next[k].start = Offset(lexs, r[k] - 1) /\ next[k].end = Offset(lexs, r[k])
  BY <1>1, <1>4, <1>6, <1>7, <1>8
<1>11. ASSUME NEW k \in 1..Len(next), NEW l \in 1..Len(next), k < l PROVE r[k] < r[l]
  <2>1. k \in 1..L BY <1>1, <1>11
  <2>2. CASE l \in 1..L BY <2>1, <2>2, <1>7, <1>8, <1>11
  <2>3. CASE l = L + 1
    <3>1. PICK m \in 1..n : p[k] = q[m] BY <2>1, <1>9
    <3>2. q[m] < q[n + 1] BY <1>5
    <3>3. QED BY <2>1, <2>3, <3>1, <3>2, <1>7
  <2>4. QED BY <2>2, <2>3, <1>1, <1>6
<1>12. EditsAt(next, r, lexs, w) BY <1>1, <1>10, <1>11 DEF EditsAt
<1>13. ASSUME NEW k \in 1..Len(next) PROVE \E m \in 1..(n + 1) : Changes(sorted[m]) /\ r[k] = q[m]
  <2>1. CASE k \in 1..L
    <3>1. PICK m \in 1..n : Changes(sorted[m]) /\ p[k] = q[m] BY <2>1, <1>9
    <3>2. QED BY <2>1, <3>1, <1>3, <1>7
  <2>2. CASE k = L + 1 BY <2>2, <1>3, <1>7
  <2>3. QED BY <2>1, <2>2, <1>1, <1>6
<1>14. ASSUME NEW m \in 1..(n + 1), Changes(sorted[m]) PROVE \E k \in 1..Len(next) : r[k] = q[m]
  <2>1. CASE m \in 1..n
    <3>1. PICK k \in 1..L : p[k] = q[m] BY <2>1, <1>9, <1>14
    <3>2. QED BY <3>1, <1>1, <1>6, <1>7
  <2>2. CASE m = n + 1 BY <2>2, <1>1, <1>6, <1>7
  <2>3. QED BY <2>1, <2>2, <1>3
<1>15. FromRequests(next, r, sorted, q, n + 1) BY <1>13, <1>14 DEF FromRequests
<1>16. QED BY <1>12, <1>15 DEF next, e

\* The edits are those of the requests that change something, in their order.
LEMMA EditsInPlace ==
  ASSUME NEW lexs, NEW w, NEW sorted, IsSeq(sorted), NEW q, InPlace(sorted, q, lexs),
         \A n \in 1..Len(sorted) : Changes(sorted[n]) => w[q[n]] = encodeString(sorted[n].value)
  PROVE  \E p : EditsAt(Edits(sorted), p, lexs, w) /\ FromRequests(Edits(sorted), p, sorted, q, Len(sorted))
<1> DEFINE N == Len(sorted)
<1>1. N \in Nat BY SeqFacts
<1>2. PICK e : EditsUnfold(e, sorted) BY EditsUnfolded
<1> DEFINE T == {n \in 0..N : \E p : EditsAt(e[n], p, lexs, w) /\ FromRequests(e[n], p, sorted, q, n)}
<1>3. 0 \in T
  <2>1. e[0] = <<>> BY <1>2 DEF EditsUnfold
  <2>2. IsSeq(e[0]) /\ Len(e[0]) = 0 BY <2>1, EmptyIsSeq
  <2>3. EditsAt(e[0], <<>>, lexs, w) BY <2>2 DEF EditsAt
  <2>4. FromRequests(e[0], <<>>, sorted, q, 0) BY <2>2 DEF FromRequests
  <2>5. QED BY <2>3, <2>4, <1>1
<1>4. ASSUME NEW n \in 0..(N - 1), n \in T PROVE n + 1 \in T
  <2>1. n + 1 \in 1..N /\ n + 1 \in 0..N /\ (n + 1) - 1 = n BY <1>1
  <2>2. e[n + 1] = IF Changes(sorted[n + 1]) THEN Append(e[n], EditOf(sorted[n + 1])) ELSE e[n]
    BY <2>1, <1>2 DEF EditsUnfold
  <2>3. PICK p : EditsAt(e[n], p, lexs, w) /\ FromRequests(e[n], p, sorted, q, n) BY <1>4
  <2>4. CASE Changes(sorted[n + 1])
    <3>1. w[q[n + 1]] = encodeString(sorted[n + 1].value) BY <2>1, <2>4
    <3>2. \E r : /\ EditsAt(Append(e[n], EditOf(sorted[n + 1])), r, lexs, w)
                 /\ FromRequests(Append(e[n], EditOf(sorted[n + 1])), r, sorted, q, n + 1)
      BY <2>3, <2>4, <3>1, EditAdded
    <3>3. QED BY <2>1, <2>2, <2>4, <3>2
  <2>5. CASE ~Changes(sorted[n + 1])
    <3>1. \A m \in 1..(n + 1) : m \in 1..n \/ m = n + 1 BY <1>1
    <3>2. \A m \in 1..n : m \in 1..(n + 1) BY <1>1
    <3>3. FromRequests(e[n], p, sorted, q, n + 1) BY <2>3, <2>5, <3>1, <3>2 DEF FromRequests
    <3>4. QED BY <2>1, <2>2, <2>3, <2>5, <3>3
  <2>6. QED BY <2>4, <2>5
<1>5. 0..N \subseteq T
  <2> HIDE DEF T
  <2>1. QED BY <1>1, <1>3, <1>4, UpTo
<1>6. N \in T BY <1>1, <1>5
<1>7. Edits(sorted) = e[N] BY <1>2 DEF EditsUnfold
<1>8. QED BY <1>6, <1>7

\* The end of the n-th edit, and of what is copied before it.
EndOf(edits, n) == IF n = 0 THEN 0 ELSE edits[n].end

\* The rounds of Splice.
SpliceUnfold(f, body, edits) ==
    /\ Splice(body, edits) = f[Len(edits)] \o SubSeq(body, EndOf(edits, Len(edits)) + 1, Len(body))
    /\ f[0] = <<>>
    /\ \A n \in 1..Len(edits) :
          f[n] = f[n - 1] \o SubSeq(body, EndOf(edits, n - 1) + 1, edits[n].start) \o edits[n].encoded

\* Splice goes through such rounds when the edits lie in order within the body.
LEMMA SpliceUnfolded ==
  ASSUME NEW body, IsSeq(body), NEW edits, IsSeq(edits),
         \A n \in 1..Len(edits) : /\ IsSeq(edits[n].encoded) /\ edits[n].end \in Nat
                                  /\ edits[n].start \in 0..Len(body) /\ EndOf(edits, n - 1) <= edits[n].start
  PROVE  \E f : SpliceUnfold(f, body, edits)
<1> DEFINE N == Len(edits)
           B == ToSet(body)
           W == UNION {ToSet(edits[n].encoded) : n \in 1..N}
           S == B \cup W
           D == Seq(S)
           Gap(n) == SubSeq(body, EndOf(edits, n - 1) + 1, edits[n].start)
           F(f) == [n \in 0..N |-> IF n = 0 THEN <<>> ELSE f[n - 1] \o Gap(n) \o edits[n].encoded]
           step == [n \in 1..N |-> [d \in D |-> d \o Gap(n) \o edits[n].encoded]]
<1>1. N \in Nat /\ Len(body) \in Nat BY SeqFacts
<1>2. ASSUME NEW n \in 1..N PROVE edits[n].encoded \in D
  <2> DEFINE x == edits[n].encoded
             X == ToSet(x)
  <2>1. x \in Seq(X) BY DEF IsSeq
  <2>2. X \subseteq S OBVIOUS
  <2> HIDE DEF x, X, S
  <2>3. x \in D BY <2>1, <2>2
  <2>4. QED BY <2>3 DEF x
<1>3. ASSUME NEW n \in 1..N PROVE Gap(n) \in D
  <2> DEFINE a == EndOf(edits, n - 1)
             m == a + 1
             z == edits[n].start
  <2>1. a \in Nat
    <3>1. n - 1 = 0 \/ n - 1 \in 1..N BY <1>1
    <3>2. QED BY <3>1 DEF EndOf
  <2>2. z \in 0..Len(body) OBVIOUS
  <2>3. body \in Seq(B) BY DEF IsSeq
  <2>4. B \subseteq S OBVIOUS
  <2> HIDE DEF B, S, a, z
  <2>5. \A i \in 1..Len(body) : body[i] \in S BY <2>3, <2>4, ElementOfSeq
  <2>6. m \in Int /\ z \in Int /\ \A i \in m..z : body[i] \in S BY <2>1, <2>2, <2>5, <1>1
  <2> HIDE DEF m
  <2>7. SubSeq(body, m, z) \in Seq(S) BY <2>6, SubSeqProperties
  <2>8. QED BY <2>7 DEF m, a, z
<1> HIDE DEF N, S, Gap
<1>4. <<>> \in D BY EmptySeq
<1>5. ASSUME NEW n \in 1..N, NEW d \in D PROVE d \o Gap(n) \o edits[n].encoded \in D
  <2> DEFINE g == Gap(n)
             x == edits[n].encoded
  <2>1. g \in D /\ x \in D BY <1>2, <1>3
  <2> HIDE DEF g, x
  <2>2. d \o g \in D BY <2>1, ConcatProperties
  <2> DEFINE y == d \o g
  <2>3. y \in D BY <2>2
  <2> HIDE DEF y
  <2>4. y \o x \in D BY <2>1, <2>3, ConcatProperties
  <2>5. QED BY <2>4 DEF y, g, x
<1> HIDE DEF D
<1>6. step \in [1..N -> [D -> D]] BY <1>5
<1>7. PICK g \in [0..N -> D] : g[0] = <<>> /\ \A n \in 1..N : g[n] = step[n][g[n - 1]]
  <2> DEFINE base == <<>>
  <2>1. base \in D BY <1>4
  <2> HIDE DEF step, base
  <2>2. PICK f \in [0..N -> D] : LoopUnfolds(f, N, base, step) BY <1>1, <1>6, <2>1, LoopFunctionExists
  <2>3. QED BY <2>2 DEF LoopUnfolds, base
<1>8. g = F(g)
  <2>1. ASSUME NEW n \in 0..N
        PROVE  g[n] = IF n = 0 THEN <<>> ELSE g[n - 1] \o Gap(n) \o edits[n].encoded
    <3>1. CASE n = 0 BY <3>1, <1>7
    <3>2. CASE n # 0
      <4>1. n \in 1..N /\ n - 1 \in 0..N BY <3>2, <1>1
      <4>2. g[n] = step[n][g[n - 1]] /\ g[n - 1] \in D BY <4>1, <1>7
      <4>3. QED BY <3>2, <4>1, <4>2
    <3>3. QED BY <3>1, <3>2
  <2> HIDE DEF step
  <2>2. QED BY <2>1
<1> DEFINE c == CHOOSE f : f = F(f)
<1>9. c = F(c)
  <2> HIDE DEF F
  <2>1. QED BY <1>8
<1>10. Splice(body, edits) = c[N] \o SubSeq(body, EndOf(edits, N) + 1, Len(body)) BY Zenon DEF Splice, N, EndOf, Gap
<1> HIDE DEF c
<1>11. \A n \in 0..N : c[n] = IF n = 0 THEN <<>> ELSE c[n - 1] \o Gap(n) \o edits[n].encoded BY <1>9
<1>12. c[0] = <<>> /\ \A n \in 1..N : c[n] = c[n - 1] \o Gap(n) \o edits[n].encoded
  <2> DEFINE Y(n) == c[n - 1] \o Gap(n) \o edits[n].encoded
  <2>1. \A n \in 0..N : c[n] = IF n = 0 THEN <<>> ELSE Y(n) BY <1>11
  <2>2. 0 \in 0..N /\ \A n \in 1..N : n \in 0..N /\ n # 0 BY <1>1
  <2> HIDE DEF Y
  <2>3. c[0] = <<>> /\ \A n \in 1..N : c[n] = Y(n) BY <2>1, <2>2
  <2>4. QED BY <2>3 DEF Y
<1>13. QED BY <1>10, <1>12 DEF SpliceUnfold, N, Gap

\* The first i of the words.
Written(w, i) == FlattenSeq([j \in 1..i |-> w[j]])

\* One word more.
LEMMA WordsAdd ==
  ASSUME NEW N \in Nat, NEW w, \A i \in 1..N : IsSeq(w[i])
  PROVE  /\ Written(w, 0) = <<>> /\ \A i \in 0..N : IsSeq(Written(w, i))
         /\ \A i \in 0..(N - 1) : Written(w, i + 1) = Written(w, i) \o w[i + 1]
<1> DEFINE D == UNION {ToSet(w[i]) : i \in 1..N}
           parts(i) == [j \in 1..i |-> w[j]]
<1>1. ASSUME NEW i \in 1..N PROVE w[i] \in Seq(D)
  <2> DEFINE x == w[i]
             X == ToSet(x)
  <2>1. x \in Seq(X) BY DEF IsSeq
  <2>2. X \subseteq D OBVIOUS
  <2> HIDE DEF x, X, D
  <2>3. x \in Seq(D) BY <2>1, <2>2
  <2>4. QED BY <2>3 DEF x
<1> HIDE DEF D
<1> DEFINE S == Seq(D)
<1>2. ASSUME NEW i \in 0..N PROVE parts(i) \in Seq(S) /\ Len(parts(i)) = i
  <2> DEFINE x == parts(i)
  <2>1. x \in [1..i -> S] BY <1>1
  <2> HIDE DEF x, S
  <2>2. x \in Seq(S) BY <2>1, IsASeq
  <2>3. DOMAIN x = 1..i /\ Len(x) \in Nat /\ DOMAIN x = 1..Len(x) BY <2>1, <2>2, LenProperties
  <2>4. Len(x) = i BY <2>3, IntervalEqual
  <2>5. QED BY <2>2, <2>4 DEF x
<1>3. ASSUME NEW i \in 0..N PROVE IsSeq(Written(w, i))
  <2> DEFINE x == parts(i)
  <2>1. x \in Seq(Seq(D)) BY <1>2
  <2> HIDE DEF x
  <2>2. FlattenSeq(x) \in Seq(D) BY <2>1, FlattenIsSeq
  <2>3. QED BY <2>2, SeqOfOwn DEF x, Written
<1>4. Written(w, 0) = <<>>
  <2> DEFINE x == parts(0)
  <2>1. x = <<>> OBVIOUS
  <2> HIDE DEF x
  <2>2. FlattenSeq(<<>>) = <<>> BY DEF FlattenSeq
  <2>3. Written(w, 0) = FlattenSeq(x) BY DEF Written, x
  <2>4. QED BY <2>1, <2>2, <2>3
<1>5. ASSUME NEW i \in 0..(N - 1) PROVE Written(w, i + 1) = Written(w, i) \o w[i + 1]
  <2> DEFINE x == parts(i)
             n == i + 1
             y == parts(n)
             b == w[n]
             z == Append(x, b)
  <2>1. i \in 0..N /\ n \in 0..N /\ n \in 1..N /\ \A j \in 1..n : j \in 1..i \/ j = n OBVIOUS
  <2>2. x \in Seq(S) /\ y \in Seq(S) /\ Len(x) = i /\ Len(y) = n /\ b \in S BY <2>1, <1>1, <1>2
  <2>3. (\A j \in 1..i : x[j] = w[j]) /\ \A j \in 1..n : y[j] = w[j] OBVIOUS
  <2>4. n = i + 1 OBVIOUS
  <2> HIDE DEF x, y, S, n
  <2>5. b = w[n] OBVIOUS
  <2> HIDE DEF b
  <2>6. z \in Seq(S) /\ Len(z) = Len(x) + 1 /\ (\A j \in 1..Len(x) : z[j] = x[j]) /\ z[Len(x) + 1] = b
    BY <2>2, AppendProperties
  <2> HIDE DEF z
  <2>7. \A j \in 1..n : y[j] = z[j] BY <2>1, <2>2, <2>3, <2>4, <2>5, <2>6
  <2>8. y = z BY <2>2, <2>4, <2>6, <2>7, SeqEqual
  <2>9. FlattenSeq(Append(x, b)) = FlattenSeq(x) \o b BY <2>2, FlattenAppend DEF S
  <2>10. QED BY <2>8, <2>9 DEF x, y, z, b, n, Written
<1>6. QED BY <1>3, <1>4, <1>5

\* What is copied goes on where it stopped.
CopyMeets(u, s, k, m, n) ==
    (u \o SubSeq(s, k + 1, m)) \o SubSeq(s, m + 1, n) = u \o SubSeq(s, k + 1, n)

\* Two ranges that meet are copied one after the other as one.
LEMMA CopyGoesOn ==
  ASSUME NEW u, IsSeq(u), NEW s, IsSeq(s), NEW k \in Nat, NEW m \in Nat, NEW n \in 0..Len(s), k <= m, m <= n
  PROVE  CopyMeets(u, s, k, m, n)
<1> DEFINE x == SubSeq(s, k + 1, m)
           y == SubSeq(s, m + 1, n)
<1>0. Len(s) \in Nat BY SeqFacts
<1>1. m \in 0..Len(s) BY <1>0
<1>2. IsSeq(x) /\ IsSeq(y) BY <1>1, SubSeqFacts
<1>3. x \o y = SubSeq(s, k + 1, n) BY PartsJoin
<1> HIDE DEF x, y
<1>4. Regroups(u, x, y) BY <1>2, ConcatRegroups
<1>5. QED BY <1>3, <1>4 DEF Regroups, x, y, CopyMeets

\* The words from a to b are those of the body.
Untouched(lexs, w, a, b) ==
    /\ a \in 0..Len(lexs) /\ b \in 0..Len(lexs) /\ a <= b
    /\ \A i \in (a + 1)..b : w[i] = BytesOf(lexs[i])

\* They are copied from it.
Copied(lexs, w, a, b) ==
    Written(w, b) = Written(w, a) \o SubSeq(Bytes(lexs), Offset(lexs, a) + 1, Offset(lexs, b))

\* Words that are those of the body are copied from it.
LEMMA WordsCopied ==
  ASSUME NEW lexs, IsSeq(lexs), LaidOut(lexs), Rises(lexs), NEW w, \A i \in 1..Len(lexs) : IsSeq(w[i]),
         NEW a, NEW b, Untouched(lexs, w, a, b)
  PROVE  Copied(lexs, w, a, b)
<1> DEFINE N == Len(lexs)
           body == Bytes(lexs)
           O(i) == Offset(lexs, i)
           P(i) == Written(w, i)
           Part(i, j) == SubSeq(body, O(i) + 1, O(j))
           T == {d \in 0..(b - a) : P(a + d) = P(a) \o Part(a, a + d)}
<1>1. N \in Nat BY SeqFacts
<1>2. /\ \A i \in 0..N : O(i) \in Nat
      /\ \A i \in 0..(N - 1) : Part(i, i + 1) = BytesOf(lexs[i + 1])
      /\ IsSeq(body) /\ O(N) = Len(body)
  BY DEF LaidOut
<1>3. \A i \in 0..N, j \in 0..N : i <= j => O(i) <= O(j)
  <2>1. ASSUME NEW i \in 0..N, NEW j \in 0..N, i <= j PROVE O(i) <= O(j)
    <3>1. O(i) \in Nat /\ O(j) \in Nat BY <1>2
    <3>2. i = j \/ i < j BY <2>1
    <3>3. i < j => O(i) < O(j) BY DEF Rises
    <3> HIDE DEF O
    <3>4. QED BY <3>1, <3>2, <3>3
  <2>2. QED BY <2>1
<1>4. /\ \A i \in 0..N : IsSeq(P(i))
      /\ \A i \in 0..(N - 1) : P(i + 1) = P(i) \o w[i + 1]
  BY <1>1, WordsAdd
<1>14. a \in 0..N /\ b \in 0..N /\ b - a \in Nat /\ a <= b /\ \A i \in (a + 1)..b : w[i] = BytesOf(lexs[i])
  BY <1>1 DEF Untouched
<1>5. ASSUME NEW i \in 0..N, NEW j \in 0..N, i <= j PROVE IsSeq(Part(i, j))
  <2>1. O(i) \in Nat /\ O(j) \in Nat /\ O(i) <= O(j) /\ O(j) <= O(N)
    <3>1. N \in 0..N /\ j <= N BY <1>1
    <3> HIDE DEF O, N
    <3>2. QED BY <3>1, <1>2, <1>3, <1>5
  <2>2. O(j) \in 0..Len(body) BY <2>1, <1>2
  <2> HIDE DEF O, body
  <2>3. QED BY <2>1, <2>2, <1>2, SubSeqFacts
<1>6. ASSUME NEW i \in 0..(N - 1), a <= i PROVE (P(a) \o Part(a, i)) \o Part(i, i + 1) = P(a) \o Part(a, i + 1)
  <2>1. i + 1 \in 0..N /\ i \in 0..N /\ N \in 0..N /\ i <= i + 1 /\ i + 1 <= N BY <1>1
  <2>2. /\ O(a) \in Nat /\ O(i) \in Nat /\ O(i + 1) \in Nat /\ O(a) <= O(i) /\ O(i) <= O(i + 1) /\ O(i + 1) <= O(N)
        /\ IsSeq(P(a))
    <3> HIDE DEF O, N, P
    <3>1. QED BY <2>1, <1>2, <1>3, <1>4, <1>6, <1>14
  <2>3. O(i + 1) \in 0..Len(body) BY <2>2, <1>2
  <2> DEFINE u == P(a)
             k == O(a)
             m == O(i)
             n == O(i + 1)
  <2>4. /\ IsSeq(u) /\ IsSeq(body) /\ k \in Nat /\ m \in Nat /\ n \in 0..Len(body) /\ k <= m /\ m <= n
        /\ Part(a, i) = SubSeq(body, k + 1, m) /\ Part(i, i + 1) = SubSeq(body, m + 1, n)
        /\ Part(a, i + 1) = SubSeq(body, k + 1, n)
    BY <2>2, <2>3, <1>2
  <2> HIDE DEF body, u, k, m, n, Part
  <2>5. CopyMeets(u, body, k, m, n) BY <2>4, CopyGoesOn
  <2>6. QED BY <2>4, <2>5 DEF u, CopyMeets
<1>7. Part(a, a) = <<>>
  <2>1. O(a) \in Nat BY <1>2, <1>14
  <2> HIDE DEF O, body
  <2>2. O(a) < O(a) + 1 /\ O(a) \in Int /\ O(a) + 1 \in Int BY <2>1
  <2>3. QED BY <2>2, SubSeqEmpty
<1> HIDE DEF N, O, P, Part, body
<1>8. 0 \in T
  <2>1. a + 0 = a /\ IsSeq(P(a)) /\ b - a \in Nat BY <1>1, <1>4, <1>14
  <2>2. P(a) \o <<>> = P(a) BY <2>1, ConcatEmpty
  <2>3. P(a + 0) = P(a) \o Part(a, a + 0) BY <2>1, <2>2, <1>7
  <2>4. QED BY <2>1, <2>3
<1>9. ASSUME NEW d \in 0..((b - a) - 1), d \in T PROVE d + 1 \in T
  <2> DEFINE i == a + d
  <2>1. /\ i \in 0..(N - 1) /\ a <= i /\ i \in 0..N /\ i + 1 \in 0..N /\ i + 1 = a + (d + 1) /\ d + 1 \in 0..(b - a)
        /\ i + 1 \in (a + 1)..b /\ i <= i + 1
    BY <1>1, <1>14 DEF N
  <2>2. P(i) = P(a) \o Part(a, i) BY <1>9
  <2> HIDE DEF i
  <2>3. P(i + 1) = P(i) \o w[i + 1] BY <2>1, <1>4
  <2>4. w[i + 1] = Part(i, i + 1) BY <2>1, <1>2, <1>14
  <2>5. (P(a) \o Part(a, i)) \o Part(i, i + 1) = P(a) \o Part(a, i + 1) BY <2>1, <1>6
  <2>6. P(i + 1) = P(a) \o Part(a, i + 1) BY <2>2, <2>3, <2>4, <2>5
  <2>7. QED BY <2>1, <2>6
<1>10. 0..(b - a) \subseteq T
  <2>1. b - a \in Nat BY <1>14
  <2> HIDE DEF T
  <2>2. QED BY <2>1, <1>8, <1>9, UpTo
<1>11. b - a \in 0..(b - a) /\ a + (b - a) = b BY <1>14
<1>12. P(b) = P(a) \o Part(a, b) BY <1>10, <1>11
<1>13. QED BY <1>12 DEF Copied, P, Part, O, body

\* The position of the n-th edit, and 0 before the first.
PlaceOf(p, k) == IF k = 0 THEN 0 ELSE p[k]

\* What lies between two edits is left alone.
LEMMA EditsApart ==
  ASSUME NEW lexs, IsSeq(lexs), LaidOut(lexs), Rises(lexs), NEW w, NEW edits, NEW p, EditsAt(edits, p, lexs, w),
         \A i \in 1..Len(lexs) : (\A k \in 1..Len(edits) : p[k] # i) => w[i] = BytesOf(lexs[i])
  PROVE  /\ \A k \in 0..Len(edits) :
               /\ PlaceOf(p, k) \in 0..Len(lexs) /\ EndOf(edits, k) = Offset(lexs, PlaceOf(p, k))
         /\ \A k \in 1..Len(edits) :
               /\ Untouched(lexs, w, PlaceOf(p, k - 1), p[k] - 1)
               /\ EndOf(edits, k - 1) <= edits[k].start /\ edits[k].start \in 0..Len(Bytes(lexs))
         /\ Untouched(lexs, w, PlaceOf(p, Len(edits)), Len(lexs))
<1> DEFINE N == Len(lexs)
           L == Len(edits)
           at(k) == PlaceOf(p, k)
           O(i) == Offset(lexs, i)
           Kept(a, b) == \A i \in (a + 1)..b : w[i] = BytesOf(lexs[i])
<1>1. N \in Nat /\ L \in Nat BY SeqFacts DEF EditsAt
<1>2. /\ \A k \in 1..L : p[k] \in 1..N /\ edits[k].start = O(p[k] - 1) /\ edits[k].end = O(p[k])
      /\ \A k \in 1..L, l \in 1..L : k < l => p[k] < p[l]
  BY DEF EditsAt
<1>3. O(0) = 0 /\ O(N) = Len(Bytes(lexs)) /\ \A i \in 0..N : O(i) \in Nat BY DEF LaidOut
<1>4. \A i \in 0..N, j \in 0..N : i <= j => O(i) <= O(j)
  <2>1. ASSUME NEW i \in 0..N, NEW j \in 0..N, i <= j PROVE O(i) <= O(j)
    <3>1. O(i) \in Nat /\ O(j) \in Nat BY <1>3
    <3>2. i = j \/ i < j BY <2>1
    <3>3. i < j => O(i) < O(j) BY DEF Rises
    <3> HIDE DEF O
    <3>4. QED BY <3>1, <3>2, <3>3
  <2>2. QED BY <2>1
<1>5. \A i \in 1..N : (\A k \in 1..L : p[k] # i) => w[i] = BytesOf(lexs[i]) OBVIOUS
<1>6. ASSUME NEW k \in 0..L PROVE at(k) \in 0..N /\ EndOf(edits, k) = O(at(k))
  <2>1. CASE k = 0
    <3>1. at(k) = 0 /\ EndOf(edits, k) = 0 BY <2>1 DEF PlaceOf, EndOf
    <3>2. QED BY <3>1, <1>1, <1>3
  <2>2. CASE k # 0
    <3>1. k \in 1..L BY <2>2, <1>1
    <3>2. at(k) = p[k] /\ EndOf(edits, k) = edits[k].end BY <2>2 DEF PlaceOf, EndOf
    <3>3. p[k] \in 0..N BY <3>1, <1>1, <1>2
    <3>4. QED BY <3>1, <3>2, <3>3, <1>2
  <2>3. QED BY <2>1, <2>2
<1>7. \A k \in 0..L, l \in 1..L : /\ l <= k => p[l] <= at(k)
                                  /\ k < l => at(k) < p[l]
  <2>1. ASSUME NEW k \in 0..L, NEW l \in 1..L PROVE (l <= k => p[l] <= at(k)) /\ (k < l => at(k) < p[l])
    <3>1. p[l] \in 1..N BY <1>2
    <3>2. CASE k = 0
      <4>1. at(k) = 0 BY <3>2 DEF PlaceOf
      <4>2. QED BY <3>1, <3>2, <4>1
    <3>3. CASE k # 0
      <4>1. k \in 1..L /\ at(k) = p[k] BY <3>3, <1>1 DEF PlaceOf
      <4>2. p[k] \in 1..N /\ (l < k => p[l] < p[k]) /\ (k < l => p[k] < p[l]) BY <4>1, <1>2
      <4>3. l <= k => l < k \/ l = k BY <4>1
      <4> HIDE DEF at
      <4>4. QED BY <3>1, <4>1, <4>2, <4>3
    <3>4. QED BY <3>2, <3>3
  <2>2. QED BY <2>1
<1> HIDE DEF N, L, at, O
<1>8. ASSUME NEW k \in 1..L
      PROVE  /\ at(k - 1) \in 0..N /\ p[k] - 1 \in 0..N /\ at(k - 1) <= p[k] - 1 /\ Kept(at(k - 1), p[k] - 1)
             /\ EndOf(edits, k - 1) <= edits[k].start /\ edits[k].start \in 0..Len(Bytes(lexs))
  <2> DEFINE j == k - 1
             b == p[k] - 1
             a == at(j)
  <2>1. j \in 0..L /\ j < k /\ p[k] \in 1..N /\ k \in 1..L BY <1>1, <1>2
  <2> HIDE DEF j
  <2>2. a \in 0..N /\ EndOf(edits, j) = O(a) /\ a < p[k] BY <2>1, <1>6, <1>7
  <2> HIDE DEF a
  <2>3. b \in 0..N /\ a <= b /\ b <= N /\ N \in 0..N BY <1>1, <2>1, <2>2
  <2>4. edits[k].start = O(b) BY <1>2
  <2>5. O(a) <= O(b) /\ O(b) \in 0..Len(Bytes(lexs))
    <3> HIDE DEF b
    <3>1. O(a) <= O(b) /\ O(b) <= O(N) /\ O(b) \in Nat /\ O(N) \in Nat BY <2>2, <2>3, <1>3, <1>4
    <3>2. QED BY <3>1, <1>3
  <2>6. ASSUME NEW i \in (a + 1)..b PROVE w[i] = BytesOf(lexs[i])
    <3>1. i \in 1..N /\ a < i /\ i < p[k] BY <2>1, <2>2, <1>1
    <3>2. ASSUME NEW l \in 1..L PROVE p[l] # i
      <4>1. p[l] \in 1..N BY <1>2
      <4>2. CASE l <= j
        <5>1. p[l] <= a BY <4>2, <2>1, <1>7 DEF a
        <5>2. QED BY <5>1, <4>1, <3>1, <2>2
      <4>3. CASE ~(l <= j)
        <5>1. l = k \/ k < l BY <4>3, <2>1, <1>1 DEF j
        <5>2. l = k \/ p[k] < p[l] BY <5>1, <1>2
        <5>3. QED BY <5>2, <4>1, <3>1, <2>1
      <4>4. QED BY <4>2, <4>3
    <3>3. QED BY <3>1, <3>2, <1>5
  <2>7. QED BY <2>2, <2>3, <2>4, <2>5, <2>6 DEF a, j
<1>9. at(L) \in 0..N /\ N \in 0..N /\ at(L) <= N /\ Kept(at(L), N)
  <2> DEFINE a == at(L)
  <2>1. a \in 0..N /\ L \in 0..L BY <1>1, <1>6
  <2>2. a <= N /\ N \in 0..N BY <1>1, <2>1
  <2>3. ASSUME NEW i \in (a + 1)..N PROVE w[i] = BytesOf(lexs[i])
    <3>1. i \in 1..N /\ a < i BY <2>1, <1>1
    <3>2. ASSUME NEW l \in 1..L PROVE p[l] # i
      <4>1. p[l] \in 1..N BY <1>2
      <4>2. l <= L BY <1>1
      <4>3. p[l] <= a BY <4>2, <2>1, <1>7
      <4> HIDE DEF a
      <4>4. QED BY <3>1, <4>1, <4>3, <2>1
    <3>3. QED BY <3>1, <3>2, <1>5
  <2>4. QED BY <2>1, <2>2, <2>3
<1>10. QED BY <1>6, <1>8, <1>9 DEF Untouched, N, L, at, O

\* Splicing the edits in writes the words.
LEMMA SpliceWrites ==
  ASSUME NEW lexs, IsSeq(lexs), LaidOut(lexs), Rises(lexs), NEW w, \A i \in 1..Len(lexs) : IsSeq(w[i]),
         NEW edits, NEW p, EditsAt(edits, p, lexs, w),
         \A i \in 1..Len(lexs) : (\A k \in 1..Len(edits) : p[k] # i) => w[i] = BytesOf(lexs[i])
  PROVE  Splice(Bytes(lexs), edits) = Written(w, Len(lexs))
<1> DEFINE N == Len(lexs)
           L == Len(edits)
           body == Bytes(lexs)
           at(k) == PlaceOf(p, k)
           P(i) == Written(w, i)
<1>1. N \in Nat /\ L \in Nat /\ IsSeq(edits) /\ IsSeq(body) /\ Offset(lexs, N) = Len(body)
  BY SeqFacts DEF EditsAt, LaidOut
<1>2. /\ \A k \in 0..L : at(k) \in 0..N /\ EndOf(edits, k) = Offset(lexs, at(k))
      /\ \A k \in 1..L : Untouched(lexs, w, at(k - 1), p[k] - 1)
      /\ \A k \in 1..L : EndOf(edits, k - 1) <= edits[k].start /\ edits[k].start \in 0..Len(body)
      /\ Untouched(lexs, w, at(L), N)
  BY EditsApart
<1>3. \A k \in 1..L : /\ p[k] \in 1..N /\ edits[k].encoded = w[p[k]] /\ at(k) = p[k]
                      /\ edits[k].start = Offset(lexs, p[k] - 1) /\ edits[k].end = Offset(lexs, p[k])
  BY <1>1 DEF EditsAt, PlaceOf
<1>4. \A i \in 0..N : Offset(lexs, i) \in Nat BY DEF LaidOut
<1>5. \A k \in 1..L : IsSeq(edits[k].encoded) /\ edits[k].end \in Nat
  <2>1. ASSUME NEW k \in 1..L PROVE IsSeq(edits[k].encoded) /\ edits[k].end \in Nat
    <3>1. p[k] \in 1..N /\ edits[k].encoded = w[p[k]] /\ edits[k].end = Offset(lexs, p[k]) BY <1>3
    <3>2. p[k] \in 0..N BY <3>1, <1>1
    <3>3. IsSeq(w[p[k]]) BY <3>1
    <3>4. QED BY <3>1, <3>2, <3>3, <1>4
  <2>2. QED BY <2>1
<1>6. PICK f : SpliceUnfold(f, body, edits)
  <2> HIDE DEF body, L
  <2>1. QED BY <1>1, <1>2, <1>5, SpliceUnfolded DEF L
<1>7. P(0) = <<>> /\ \A i \in 0..(N - 1) : P(i + 1) = P(i) \o w[i + 1] BY <1>1, WordsAdd
<1>8. /\ \A k \in 1..L : Copied(lexs, w, at(k - 1), p[k] - 1)
      /\ Copied(lexs, w, at(L), N)
  <2> HIDE DEF at, L, N
  <2>1. QED BY <1>2, WordsCopied
<1> DEFINE Gap(k) == SubSeq(body, Offset(lexs, at(k - 1)) + 1, Offset(lexs, p[k] - 1))
           T == {k \in 0..L : f[k] = P(at(k))}
<1>9. /\ Splice(body, edits) = f[L] \o SubSeq(body, EndOf(edits, L) + 1, Len(body)) /\ f[0] = <<>>
      /\ \A k \in 1..L : f[k] = f[k - 1] \o SubSeq(body, EndOf(edits, k - 1) + 1, edits[k].start) \o edits[k].encoded
  BY <1>6 DEF SpliceUnfold
<1>10. at(0) = 0 BY DEF PlaceOf
<1> HIDE DEF N, L, body, at, P
<1>11. 0 \in T BY <1>1, <1>7, <1>9, <1>10
<1>12. ASSUME NEW k \in 0..(L - 1), k \in T PROVE k + 1 \in T
  <2> DEFINE m == k + 1
             j == p[m]
             i == j - 1
             gap == SubSeq(body, Offset(lexs, at(k)) + 1, Offset(lexs, i))
  <2>1. m \in 1..L /\ m \in 0..L /\ m - 1 = k /\ k \in 0..L BY <1>1
  <2> HIDE DEF m
  <2>2. j \in 1..N /\ at(m) = j /\ edits[m].encoded = w[j] /\ edits[m].start = Offset(lexs, i) BY <2>1, <1>3
  <2> HIDE DEF j
  <2>3. i \in 0..(N - 1) /\ i + 1 = j BY <2>2, <1>1
  <2>4. P(j) = P(i) \o w[j] BY <2>3, <1>7
  <2> HIDE DEF i
  <2>5. EndOf(edits, k) = Offset(lexs, at(k)) BY <2>1, <1>2
  <2>6. f[m] = f[k] \o gap \o edits[m].encoded BY <2>1, <2>2, <2>5, <1>9
  <2>7. P(i) = P(at(k)) \o gap
    <3>1. Copied(lexs, w, at(m - 1), p[m] - 1) BY <2>1, <1>8
    <3>2. Copied(lexs, w, at(k), i) BY <3>1, <2>1 DEF i, j
    <3>3. QED BY <3>2 DEF Copied, P, body
  <2> HIDE DEF gap
  <2>8. f[k] = P(at(k)) BY <1>12
  <2>9. f[m] = P(at(m)) BY <2>2, <2>4, <2>6, <2>7, <2>8
  <2>10. QED BY <2>1, <2>9 DEF m
<1>13. 0..L \subseteq T
  <2> HIDE DEF T
  <2>1. QED BY <1>1, <1>11, <1>12, UpTo
<1>14. f[L] = P(at(L)) /\ EndOf(edits, L) = Offset(lexs, at(L))
  <2>1. L \in 0..L BY <1>1
  <2>2. QED BY <2>1, <1>2, <1>13
<1>15. P(N) = P(at(L)) \o SubSeq(body, Offset(lexs, at(L)) + 1, Len(body))
  <2>1. P(N) = P(at(L)) \o SubSeq(body, Offset(lexs, at(L)) + 1, Offset(lexs, N)) BY <1>8 DEF Copied, P, body
  <2>2. QED BY <2>1, <1>1
<1>16. Splice(body, edits) = P(N) BY <1>9, <1>14, <1>15
<1>17. QED BY <1>16 DEF body, P, N

-----------------------------------------------------------------------------
(* The requests of a caller *)

\* The requests are a list of tokens, each with an ordinal of this document, and new values.
LEMMA RequestsListed ==
  ASSUME IInv, NEW reqs \in RequestLists
  PROVE  /\ IsSeq(reqs) /\ Len(reqs) \in Nat /\ DOMAIN reqs = 1..Len(reqs)
         /\ \A i \in 1..Len(reqs) : reqs[i].token.ordinal \in DOMAIN scan.strings /\ reqs[i].value \in NewValues
<1> DEFINE R == Requests
<1>1. PICK K \in Nat : reqs \in [1..K -> R]
  <2>1. CASE reqs \in BoundedSeq(Requests, MaxRequests)
    <3>1. PICK m \in 0..MaxRequests : reqs \in [1..m -> R] BY <2>1 DEF BoundedSeq, SeqOf, R
    <3>2. MaxRequests \in Nat BY PayloadConstants
    <3>3. m \in Nat BY <3>2
    <3>4. QED BY <3>1, <3>3
  <2>2. CASE reqs \in {[i \in 1..(MaxReplacements + 1) |-> r] : r \in Requests}
    <3>1. PICK r \in R : reqs = [i \in 1..(MaxReplacements + 1) |-> r] BY <2>2
    <3>2. MaxReplacements + 1 \in Nat BY PayloadConstants
    <3>3. QED BY <3>1, <3>2
  <2>3. QED BY <2>1, <2>2 DEF RequestLists
<1>2. \A r \in R : r.token \in Tokens /\ r.value \in NewValues BY DEF Requests
<1> HIDE DEF R
<1>3. reqs \in Seq(R) BY <1>1, IsASeq
<1>4. IsSeq(reqs) BY <1>3, SeqOfOwn
<1>5. Len(reqs) \in Nat /\ DOMAIN reqs = 1..Len(reqs) /\ \A i \in 1..Len(reqs) : reqs[i] \in R
  BY <1>3, LenProperties, ElementOfSeq
<1>6. ASSUME NEW t \in Tokens PROVE t.ordinal \in DOMAIN scan.strings
  <2>1. CASE t \in {TokenAt(n) : n \in DOMAIN scan.strings}
    <3>1. PICK n \in DOMAIN scan.strings : t = TokenAt(n) BY <2>1
    <3>2. QED BY <3>1 DEF TokenAt
  <2>2. CASE scan.strings # <<>> /\ t \in {[TokenAt(1) EXCEPT !.document = "other"], [TokenAt(1) EXCEPT !.end = @ + 1]}
    <3>1. TokenAt(1).ordinal = 1 BY DEF TokenAt
    <3>2. t.ordinal = 1 BY <2>2, <3>1 DEF TokenAt
    <3>3. 1 \in DOMAIN scan.strings
      <4>1. IsSeq(scan.strings) BY DEF IInv, Typed
      <4> DEFINE strings == scan.strings
      <4>2. IsSeq(strings) /\ strings # <<>> BY <4>1, <2>2
      <4> HIDE DEF strings
      <4>3. 1 \in DOMAIN strings
        <5> DEFINE S == ToSet(strings)
        <5>1. strings \in Seq(S) BY <4>2 DEF IsSeq
        <5> HIDE DEF S
        <5>2. Len(strings) \in Nat /\ DOMAIN strings = 1..Len(strings) /\ Len(strings) # 0
          BY <5>1, <4>2, LenProperties, EmptySeq
        <5>3. QED BY <5>2
      <4>4. QED BY <4>3 DEF strings
    <3>4. QED BY <3>2, <3>3
  <2>3. QED BY <2>1, <2>2 DEF Tokens
<1>7. \A i \in 1..Len(reqs) : reqs[i].token \in Tokens /\ reqs[i].value \in NewValues BY <1>2, <1>5
<1>8. QED BY <1>4, <1>5, <1>6, <1>7

\* Every request names the string at its place.
Placed(reqs, at, lexs) == \A i \in 1..Len(reqs) : Names(reqs[i].token, lexs, at[i])

\* The requests that are accepted have a place.
LEMMA RequestsPlaced ==
  ASSUME IInv, IndexInv, TextsInv, NEW reqs, \A i \in 1..Len(reqs) : Canonical(reqs[i].token)
  PROVE  /\ \E at : Placed(reqs, at, lexemes)
         /\ \A i \in 1..Len(reqs) : reqs[i].token = TokenAt(reqs[i].token.ordinal)
<1> DEFINE at == [i \in 1..Len(reqs) |-> CHOOSE j \in 1..Len(lexemes) : Names(reqs[i].token, lexemes, j)]
<1>1. \A i \in 1..Len(reqs) : /\ reqs[i].token = TokenAt(reqs[i].token.ordinal)
                              /\ reqs[i].token.ordinal \in DOMAIN scan.strings
  BY DEF Canonical
<1>2. ASSUME NEW i \in 1..Len(reqs) PROVE Names(reqs[i].token, lexemes, at[i])
  <2> DEFINE t == reqs[i].token
             n == t.ordinal
  <2>1. t = TokenAt(n) /\ n \in DOMAIN scan.strings BY <1>1
  <2> HIDE DEF n
  <2>2. \E j \in 1..Len(lexemes) : Names(TokenAt(n), lexemes, j) BY <2>1, TokensName
  <2>3. \E j \in 1..Len(lexemes) : Names(t, lexemes, j) BY <2>1, <2>2
  <2> HIDE DEF t
  <2>4. Names(t, lexemes, CHOOSE j \in 1..Len(lexemes) : Names(t, lexemes, j)) BY <2>3
  <2>5. QED BY <2>4 DEF t
<1> HIDE DEF at
<1>3. QED BY <1>1, <1>2 DEF Placed

\* Two requests are about one string when they have the same ordinal.
LEMMA SameString ==
  ASSUME NEW lexs, IsSeq(lexs), NEW t, NEW u, NEW i, NEW j, Names(t, lexs, i), Names(u, lexs, j)
  PROVE  t.ordinal = u.ordinal <=> i = j
<1>1. /\ i \in 1..Len(lexs) /\ IsString(lexs[i]) /\ t.ordinal = StringsIn(lexs, i)
      /\ j \in 1..Len(lexs) /\ IsString(lexs[j]) /\ u.ordinal = StringsIn(lexs, j)
  BY DEF Names
<1>2. QED BY <1>1, StringsNumbered

\* Sorted, the requests overlap when two of them are about one string, and are
\* otherwise in the order of the body.
LEMMA SortedInPlace ==
  ASSUME NEW lexs, IsSeq(lexs), LaidOut(lexs), Rises(lexs), NEW reqs, Len(reqs) \in Nat,
         NEW at, Placed(reqs, at, lexs), NEW order, Arranges(order, reqs, Len(reqs)), Len(Sorted(reqs)) = Len(reqs)
  PROVE  /\ Overlapping(Sorted(reqs)) => \E i, j \in 1..Len(reqs) : i # j /\ at[i] = at[j]
         /\ ~Overlapping(Sorted(reqs)) =>
              /\ InPlace(Sorted(reqs), [n \in 1..Len(reqs) |-> at[order[n]]], lexs)
              /\ \A i \in 1..Len(reqs), j \in 1..Len(reqs) : at[i] = at[j] => i = j
<1> DEFINE N == Len(lexs)
           K == Len(reqs)
           sorted == Sorted(reqs)
           q == [n \in 1..K |-> at[order[n]]]
           O(i) == Offset(lexs, i)
<1>1. N \in Nat /\ K \in Nat BY SeqFacts
<1>2. \A i \in 0..N : O(i) \in Nat BY DEF LaidOut
<1>3. \A i \in 0..N, j \in 0..N : i < j => O(i) < O(j) BY DEF Rises
<1>4. /\ \A n \in 1..K : order[n] \in 1..K /\ sorted[n] = reqs[order[n]]
      /\ \A i \in 1..K : \E n \in 1..K : order[n] = i
      /\ \A n \in 1..K, m \in 1..K : n < m => Before(reqs, order[n], order[m])
  BY DEF Arranges
<1>5. \A i \in 1..K : at[i] \in 1..N /\ reqs[i].token.start = O(at[i] - 1) /\ reqs[i].token.end = O(at[i])
  BY DEF Placed, Names
<1>6. \A i \in 1..K, j \in 1..K : Before(reqs, i, j) => i # j /\ (reqs[i].token.start <= reqs[j].token.start)
  <2>1. ASSUME NEW i \in 1..K, NEW j \in 1..K, Before(reqs, i, j)
        PROVE  i # j /\ reqs[i].token.start <= reqs[j].token.start
    <3> DEFINE a == reqs[i].token.start
               b == reqs[j].token.start
               c == reqs[i].token.end
               d == reqs[j].token.end
    <3>1. at[i] - 1 \in 0..N /\ at[j] - 1 \in 0..N /\ at[i] \in 0..N /\ at[j] \in 0..N BY <1>1, <1>5
    <3>2. a \in Nat /\ b \in Nat /\ c \in Nat /\ d \in Nat BY <3>1, <1>2, <1>5
    <3>3. a < b \/ (a = b /\ (c < d \/ (c = d /\ i < j))) BY <2>1 DEF Before
    <3>4. i = j => a = b /\ c = d OBVIOUS
    <3> HIDE DEF a, b, c, d
    <3>5. i # j /\ a <= b BY <3>2, <3>3, <3>4
    <3>6. QED BY <3>5 DEF a, b
  <2>2. QED BY <2>1
<1>7. \A n \in 1..K : q[n] \in 1..N /\ sorted[n].token.start = O(q[n] - 1) /\ sorted[n].token.end = O(q[n])
  <2>1. ASSUME NEW n \in 1..K PROVE q[n] \in 1..N /\ sorted[n].token.start = O(q[n] - 1) /\ sorted[n].token.end = O(q[n])
    <3>1. q[n] = at[order[n]] OBVIOUS
    <3> DEFINE i == order[n]
    <3>2. i \in 1..K /\ sorted[n] = reqs[i] /\ q[n] = at[i] BY <3>1, <1>4
    <3> HIDE DEF i, q, sorted, O, K, N
    <3>3. QED BY <3>2, <1>5
  <2>2. QED BY <2>1
<1>8. \A n \in 1..K, m \in 1..K : n < m => order[n] # order[m] /\ sorted[n].token.start <= sorted[m].token.start
  <2>1. ASSUME NEW n \in 1..K, NEW m \in 1..K, n < m
        PROVE  order[n] # order[m] /\ sorted[n].token.start <= sorted[m].token.start
    <3> DEFINE i == order[n]
               j == order[m]
    <3>1. i \in 1..K /\ j \in 1..K /\ Before(reqs, i, j) /\ sorted[n] = reqs[i] /\ sorted[m] = reqs[j]
      <4> HIDE DEF sorted
      <4>1. QED BY <2>1, <1>4
    <3> HIDE DEF i, j, sorted, K
    <3>2. i # j /\ reqs[i].token.start <= reqs[j].token.start BY <3>1, <1>6
    <3>3. QED BY <3>1, <3>2 DEF i, j
  <2>2. QED BY <2>1
<1>9. \A n \in 1..K : \A i : order[n] = i => q[n] = at[i] OBVIOUS
<1> HIDE DEF N, K, sorted, q, O
<1>10. ASSUME NEW n \in 1..K, NEW m \in 1..K, n < m PROVE q[n] <= q[m]
  <2>1. O(q[n] - 1) <= O(q[m] - 1) BY <1>7, <1>8, <1>10
  <2> DEFINE a == q[n] - 1
             b == q[m] - 1
  <2>2. a \in 0..N /\ b \in 0..N /\ q[n] = a + 1 /\ q[m] = b + 1
    <3> DEFINE c == q[n]
               d == q[m]
    <3>1. c \in 1..N /\ d \in 1..N BY <1>7
    <3> HIDE DEF c, d
    <3>2. c - 1 \in 0..N /\ d - 1 \in 0..N /\ c = (c - 1) + 1 /\ d = (d - 1) + 1 BY <3>1, <1>1
    <3>3. QED BY <3>2 DEF c, d
  <2>3. O(a) <= O(b) BY <2>1
  <2> HIDE DEF a, b
  <2>4. O(a) \in Nat /\ O(b) \in Nat /\ (b < a => O(b) < O(a)) BY <2>2, <1>2, <1>3
  <2>5. a <= b BY <2>2, <2>3, <2>4
  <2>6. QED BY <2>2, <2>5
<1>11. ASSUME NEW n \in 1..K, NEW m \in 1..K
       PROVE  sorted[m].token.start < sorted[n].token.end <=> q[m] <= q[n]
  <2> DEFINE a == q[m] - 1
             b == q[n]
  <2>1. a \in 0..N /\ b \in 0..N /\ q[m] = a + 1 BY <1>1, <1>7
  <2>2. sorted[m].token.start = O(a) /\ sorted[n].token.end = O(b) BY <1>7
  <2> HIDE DEF a
  <2>3. O(a) \in Nat /\ O(b) \in Nat /\ (b < a => O(b) < O(a)) /\ (a < b => O(a) < O(b)) BY <2>1, <1>2, <1>3
  <2>4. a = b => O(a) = O(b) OBVIOUS
  <2>5. O(a) < O(b) <=> a < b
    <3> HIDE DEF b
    <3>1. QED BY <2>1, <2>3, <2>4
  <2>6. a < b <=> q[m] <= q[n] BY <2>1
  <2>7. QED BY <2>2, <2>5, <2>6
<1>12. Overlapping(sorted) <=> \E n \in 1..(K - 1) : sorted[n + 1].token.start < sorted[n].token.end
  BY DEF Overlapping, K, sorted
<1>13. ASSUME Overlapping(sorted) PROVE \E i, j \in 1..K : i # j /\ at[i] = at[j]
  <2>1. PICK n \in 1..(K - 1) : sorted[n + 1].token.start < sorted[n].token.end BY <1>12, <1>13
  <2>2. n \in 1..K /\ n + 1 \in 1..K /\ n < n + 1 BY <1>1
  <2>3. q[n + 1] <= q[n] /\ q[n] <= q[n + 1] BY <2>1, <2>2, <1>10, <1>11
  <2>4. q[n + 1] \in 1..N /\ q[n] \in 1..N BY <2>2, <1>7
  <2>5. q[n + 1] = q[n] BY <2>3, <2>4
  <2>6. order[n] # order[n + 1] /\ order[n] \in 1..K /\ order[n + 1] \in 1..K BY <2>2, <1>4, <1>8
  <2>7. at[order[n]] = at[order[n + 1]] BY <2>2, <2>5, <1>9
  <2>8. QED BY <2>6, <2>7
<1>14. ASSUME ~Overlapping(sorted) PROVE \A n \in 1..K, m \in 1..K : n < m => q[n] < q[m]
  <2>1. ASSUME NEW n \in 1..K, NEW m \in 1..K, n < m PROVE q[n] < q[m]
    <3> DEFINE k == n + 1
    <3>1. n \in 1..(K - 1) /\ k \in 1..K /\ (k = m \/ k < m) BY <1>1, <2>1
    <3>2. ~(sorted[k].token.start < sorted[n].token.end) BY <3>1, <1>12, <1>14
    <3> HIDE DEF k
    <3>3. ~(q[k] <= q[n]) BY <3>1, <3>2, <1>11
    <3>4. q[k] <= q[m]
      <4>1. CASE k = m BY <4>1, <1>7, <3>1
      <4>2. CASE k < m BY <4>2, <3>1, <1>10
      <4>3. QED BY <4>1, <4>2, <3>1
    <3>5. q[n] \in 1..N /\ q[k] \in 1..N /\ q[m] \in 1..N BY <3>1, <1>7
    <3>6. QED BY <3>3, <3>4, <3>5
  <2>2. QED BY <2>1
<1>15. ASSUME ~Overlapping(sorted) PROVE \A i \in 1..K, j \in 1..K : at[i] = at[j] => i = j
  <2>1. ASSUME NEW i \in 1..K, NEW j \in 1..K, at[i] = at[j] PROVE i = j
    <3>1. PICK n \in 1..K : order[n] = i BY <1>4
    <3>2. PICK m \in 1..K : order[m] = j BY <1>4
    <3>3. q[n] = q[m] BY <3>1, <3>2, <2>1, <1>9
    <3>4. ~(n < m) /\ ~(m < n)
      <4>1. q[n] \in 1..N /\ q[m] \in 1..N BY <1>7
      <4>2. (n < m => q[n] < q[m]) /\ (m < n => q[m] < q[n]) BY <1>14, <1>15
      <4>3. QED BY <4>1, <4>2, <3>3
    <3>5. n = m BY <3>4, <1>1
    <3>6. QED BY <3>1, <3>2, <3>5
  <2>2. QED BY <2>1
<1>16. ASSUME ~Overlapping(sorted) PROVE InPlace(sorted, q, lexs)
  <2>1. Len(sorted) = K BY DEF sorted, K
  <2>2. QED BY <2>1, <1>7, <1>14, <1>16 DEF InPlace, N, O
<1>17. QED BY <1>13, <1>15, <1>16 DEF K, sorted, q

-----------------------------------------------------------------------------
(* What the requests make of the body *)

\* A new value is a sequence, and so is its encoding.
LEMMA EncodedIsSeq ==
  ASSUME NEW value \in NewValues
  PROVE  IsSeq(value) /\ IsSeq(encodeString(value))
<1> DEFINE U == UNION {ToSet(other) : other \in NewValues}
           k == Len(value)
           escaped == {i \in 1..k : value[i] \in Controls}
           parts == [i \in DOMAIN value |-> IF value[i] \in Controls THEN <<Escape, value[i]>> ELSE <<value[i]>>]
           inner == FlattenSeq(parts)
<1>1. value \in Seq(U) BY PayloadConstants
<1> HIDE DEF U
<1>2. IsSeq(value) /\ k \in Nat /\ DOMAIN value = 1..k BY <1>1, SeqOfOwn, LenProperties
<1> HIDE DEF k
<1>3. parts = [i \in DOMAIN value |-> IF i \in escaped THEN <<Escape, value[i]>> ELSE <<value[i]>>] BY <1>2
<1>4. encodeString(value) = <<Quote>> \o inner \o <<Quote>> BY DEF encodeString
<1> HIDE DEF escaped, parts
<1>5. IsSeq(inner) BY <1>2, <1>3, InnerIsSeq
<1> HIDE DEF inner
<1>6. IsSeq(encodeString(value)) BY <1>4, <1>5, QuotedIsSeq
<1>7. QED BY <1>2, <1>6

\* What is written for a value is legal JSON and decodes to it.
LEMMA ReadsBack ==
  ASSUME NEW value \in NewValues
  PROVE  \E text \in [DOMAIN value -> [char : ToSet(value), escaped : BOOLEAN]] :
            Legal(text) /\ Decode(text) = value /\ Raw(text) = encodeString(value)
<1> DEFINE D == DOMAIN value
           C == ToSet(value)
           text == [i \in D |-> [char |-> value[i], escaped |-> value[i] \in Controls]]
           left == [i \in DOMAIN text |-> IF text[i].escaped THEN <<Escape, text[i].char>> ELSE <<text[i].char>>]
           right == [i \in D |-> IF value[i] \in Controls THEN <<Escape, value[i]>> ELSE <<value[i]>>]
<1>1. value = [i \in D |-> value[i]] /\ \A i \in D : value[i] \in C
  <2> DEFINE k == Len(value)
  <2>1. IsSeq(value) BY EncodedIsSeq
  <2>2. k \in Nat /\ D = 1..k /\ \A i \in 1..k : value[i] \in C BY <2>1, SeqFacts
  <2>3. value \in Seq(C) BY <2>1 DEF IsSeq
  <2> HIDE DEF C
  <2>4. value \in [1..k -> C] BY <2>3, LenProperties
  <2> HIDE DEF k
  <2>5. value = [i \in 1..k |-> value[i]] BY <2>4
  <2>6. QED BY <2>2, <2>5
<1>2. DOMAIN text = D /\ \A i \in D : text[i].char = value[i] /\ text[i].escaped = (value[i] \in Controls) OBVIOUS
<1>3. text \in [D -> [char : C, escaped : BOOLEAN]] BY <1>1
<1> HIDE DEF C, D, text
<1>4. Legal(text) BY <1>2 DEF Legal
<1>5. Decode(text) = value
  <2>1. Decode(text) = [i \in D |-> text[i].char] BY <1>2 DEF Decode
  <2>2. [i \in D |-> text[i].char] = [i \in D |-> value[i]] BY <1>2
  <2>3. QED BY <2>1, <2>2, <1>1
<1>6. left = right
  <2>1. left = [i \in D |-> IF text[i].escaped THEN <<Escape, text[i].char>> ELSE <<text[i].char>>] BY <1>2
  <2>2. ASSUME NEW i \in D
        PROVE  (IF text[i].escaped THEN <<Escape, text[i].char>> ELSE <<text[i].char>>)
                  = (IF value[i] \in Controls THEN <<Escape, value[i]>> ELSE <<value[i]>>)
    <3>1. CASE value[i] \in Controls
      <4>1. text[i].escaped /\ text[i].char = value[i] BY <3>1, <1>2
      <4>2. QED BY <3>1, <4>1
    <3>2. CASE value[i] \notin Controls
      <4>1. ~text[i].escaped /\ text[i].char = value[i] BY <3>2, <1>2
      <4>2. QED BY <3>2, <4>1
    <3>3. QED BY <3>1, <3>2
  <2>3. QED BY <2>1, <2>2
<1>7. Raw(text) = <<Quote>> \o FlattenSeq(left) \o <<Quote>> BY DEF Raw
<1>8. encodeString(value) = <<Quote>> \o FlattenSeq(right) \o <<Quote>> BY DEF encodeString, D
<1>9. Raw(text) = encodeString(value) BY <1>6, <1>7, <1>8
<1>10. QED BY <1>3, <1>4, <1>5, <1>9 DEF D, C

\* Wanted and Rewritten, of any requests and body.
WantedBy(reqs, n, old) ==
    LET asked == {i \in DOMAIN reqs : reqs[i].token.ordinal = n}
    IN  IF asked = {} THEN old ELSE reqs[CHOOSE i \in asked : TRUE].value

RewrittenBy(reqs, lexs, i) ==
    LET n == StringsIn(lexs, i)
        old == Decode(lexs[i].text)
    IN  IF lexs[i].kind # "string" \/ WantedBy(reqs, n, old) = old
        THEN BytesOf(lexs[i]) ELSE encodeString(WantedBy(reqs, n, old))

\* A string that a request changes is written again, and no other lexeme is.
LEMMA RequestsRewrite ==
  ASSUME NEW lexs, IsSeq(lexs), NEW reqs, DOMAIN reqs = 1..Len(reqs), NEW at, Placed(reqs, at, lexs),
         \A i \in 1..Len(reqs), j \in 1..Len(reqs) : at[i] = at[j] => i = j
  PROVE  /\ \A i \in 1..Len(reqs) :
               Changes(reqs[i]) => RewrittenBy(reqs, lexs, at[i]) = encodeString(reqs[i].value)
         /\ \A j \in 1..Len(lexs) :
               (\A i \in 1..Len(reqs) : Changes(reqs[i]) => at[i] # j) => RewrittenBy(reqs, lexs, j) = BytesOf(lexs[j])
<1> DEFINE K == Len(reqs)
           Asked(j) == {i \in 1..K : reqs[i].token.ordinal = StringsIn(lexs, j)}
           Old(j) == Decode(lexs[j].text)
           Want(j) == WantedBy(reqs, StringsIn(lexs, j), Old(j))
<1>1. /\ \A i \in 1..K : /\ at[i] \in 1..Len(lexs) /\ IsString(lexs[at[i]])
                         /\ reqs[i].token.ordinal = StringsIn(lexs, at[i]) /\ reqs[i].token.value = Old(at[i])
  BY DEF Placed, Names
<1>2. \A j : Want(j) = IF Asked(j) = {} THEN Old(j) ELSE reqs[CHOOSE i \in Asked(j) : TRUE].value BY DEF WantedBy
<1>3. \A j : RewrittenBy(reqs, lexs, j) = IF ~IsString(lexs[j]) \/ Want(j) = Old(j) THEN BytesOf(lexs[j]) ELSE encodeString(Want(j))
  BY DEF RewrittenBy, IsString
<1>4. \A j \in 1..Len(lexs) : IsString(lexs[j]) => \A i \in 1..K : i \in Asked(j) => at[i] = j
  BY <1>1, StringsNumbered
<1> HIDE DEF K, Want, Old
<1>5. ASSUME NEW i \in 1..K, Changes(reqs[i]) PROVE RewrittenBy(reqs, lexs, at[i]) = encodeString(reqs[i].value)
  <2> DEFINE j == at[i]
  <2>1. j \in 1..Len(lexs) /\ IsString(lexs[j]) /\ i \in Asked(j) /\ reqs[i].token.value = Old(j) BY <1>1
  <2>2. \A l \in Asked(j) : l = i BY <2>1, <1>4 DEF K
  <2> DEFINE c == CHOOSE l \in Asked(j) : TRUE
  <2>3. c \in Asked(j) BY <2>1
  <2>4. c = i BY <2>2, <2>3
  <2>5. Want(j) = reqs[i].value BY <2>1, <2>4, <1>2
  <2>6. Want(j) # Old(j) BY <2>1, <2>5, <1>5 DEF Changes
  <2>7. QED BY <2>1, <2>5, <2>6, <1>3
<1>6. ASSUME NEW j \in 1..Len(lexs), \A i \in 1..K : Changes(reqs[i]) => at[i] # j
      PROVE  RewrittenBy(reqs, lexs, j) = BytesOf(lexs[j])
  <2>1. CASE ~IsString(lexs[j]) BY <2>1, <1>3
  <2>2. CASE IsString(lexs[j]) /\ Asked(j) = {} BY <2>2, <1>2, <1>3
  <2>3. CASE IsString(lexs[j]) /\ Asked(j) # {}
    <3> DEFINE c == CHOOSE l \in Asked(j) : TRUE
    <3>1. c \in Asked(j) BY <2>3
    <3>2. c \in 1..K /\ at[c] = j BY <3>1, <2>3, <1>4
    <3>3. Want(j) = reqs[c].value BY <2>3, <1>2
    <3> HIDE DEF c
    <3>4. reqs[c].value = reqs[c].token.value BY <3>2, <1>6 DEF Changes
    <3>5. Want(j) = Old(j) BY <3>2, <3>3, <3>4, <1>1
    <3>6. QED BY <3>5, <1>3
  <2>4. QED BY <2>1, <2>2, <2>3
<1>7. QED BY <1>5, <1>6 DEF K

\* The words of the body are sequences.
LEMMA RewrittenIsSeq ==
  ASSUME IInv, IndexInv, TextsInv, NEW reqs, \A i \in DOMAIN reqs : reqs[i].value \in NewValues, NEW j \in 1..Len(lexemes)
  PROVE  IsSeq(RewrittenBy(reqs, lexemes, j))
<1> DEFINE n == StringsIn(lexemes, j)
           old == Decode(lexemes[j].text)
           want == WantedBy(reqs, n, old)
<1>1. IsSeq(BytesOf(lexemes[j])) BY NoneEmpty DEF TextsInv
<1>2. RewrittenBy(reqs, lexemes, j) = BytesOf(lexemes[j]) \/ (want # old /\ RewrittenBy(reqs, lexemes, j) = encodeString(want))
  BY DEF RewrittenBy
<1>3. want # old => want \in NewValues
  <2> DEFINE asked == {i \in DOMAIN reqs : reqs[i].token.ordinal = n}
  <2>1. want = IF asked = {} THEN old ELSE reqs[CHOOSE i \in asked : TRUE].value BY DEF WantedBy
  <2>2. asked # {} => (CHOOSE i \in asked : TRUE) \in asked OBVIOUS
  <2>3. \A i \in asked : reqs[i].value \in NewValues OBVIOUS
  <2> HIDE DEF asked, want, old
  <2>4. QED BY <2>1, <2>2, <2>3
<1> HIDE DEF want
<1>4. want # old => IsSeq(encodeString(want)) BY <1>3, EncodedIsSeq
<1>5. QED BY <1>1, <1>2, <1>4

\* The body with the strings that the requests change written again.
RewrittenBody(reqs, lexs) == FlattenSeq([i \in DOMAIN lexs |-> RewrittenBy(reqs, lexs, i)])

\* What the accepted requests come to: the body is rewritten in place and says
\* whether it changed, no string is asked for twice, and those that overlap
\* are two about one string.
LEMMA RequestsComeTo ==
  ASSUME IInv, IndexInv, TextsInv, NEW reqs \in RequestLists, \A i \in DOMAIN reqs : Canonical(reqs[i].token)
  PROVE  /\ \A i \in DOMAIN reqs : reqs[i].token = TokenAt(reqs[i].token.ordinal)
         /\ Overlapping(Sorted(reqs)) => \E i, j \in DOMAIN reqs : i # j /\ reqs[i].token = reqs[j].token
         /\ ~Overlapping(Sorted(reqs)) =>
              /\ \A i \in DOMAIN reqs, j \in DOMAIN reqs : reqs[i].token.ordinal = reqs[j].token.ordinal => i = j
              /\ Edits(Sorted(reqs)) = <<>> => Bytes(lexemes) = RewrittenBody(reqs, lexemes)
              /\ Edits(Sorted(reqs)) # <<>> =>
                    Splice(Bytes(lexemes), Edits(Sorted(reqs))) = RewrittenBody(reqs, lexemes)
              /\ Edits(Sorted(reqs)) # <<>> <=> \E i \in DOMAIN reqs : Changes(reqs[i])
<1> DEFINE lexs == lexemes
           N == Len(lexs)
           K == Len(reqs)
           sorted == Sorted(reqs)
           edits == Edits(sorted)
           w == [i \in 1..N |-> RewrittenBy(reqs, lexs, i)]
<1>1. IsSeq(lexs) /\ N \in Nat /\ DOMAIN lexs = 1..N /\ LaidOut(lexs) /\ Rises(lexs) BY BodyFacts, SeqFacts
<1>2. /\ IsSeq(reqs) /\ K \in Nat /\ DOMAIN reqs = 1..K
      /\ \A i \in 1..K : reqs[i].value \in NewValues
  BY RequestsListed
<1>3. /\ \E at : Placed(reqs, at, lexs)
      /\ \A i \in 1..K : reqs[i].token = TokenAt(reqs[i].token.ordinal)
  BY <1>2, RequestsPlaced
<1>4. PICK at : Placed(reqs, at, lexs) BY <1>3
<1>5. \A i \in 1..K : reqs[i].token.start \in Nat /\ reqs[i].token.end \in Nat
  <2>1. ASSUME NEW i \in 1..K PROVE reqs[i].token.start \in Nat /\ reqs[i].token.end \in Nat
    <3>1. /\ at[i] \in 1..N
          /\ reqs[i].token.start = Offset(lexs, at[i] - 1) /\ reqs[i].token.end = Offset(lexs, at[i])
      BY <1>4 DEF Placed, Names
    <3>2. at[i] \in 0..N /\ at[i] - 1 \in 0..N BY <3>1, <1>1
    <3>3. \A j \in 0..N : Offset(lexs, j) \in Nat BY <1>1 DEF LaidOut
    <3>4. QED BY <3>1, <3>2, <3>3
  <2>2. QED BY <2>1
<1>6. IsSeq(sorted) /\ Len(sorted) = K /\ \E order : Arranges(order, reqs, K)
  <2> HIDE DEF K
  <2>1. QED BY <1>2, <1>5, SortedArranges
<1>7. PICK order : Arranges(order, reqs, K) BY <1>6
<1> DEFINE q == [n \in 1..K |-> at[order[n]]]
<1>8. /\ Overlapping(sorted) => \E i, j \in 1..K : i # j /\ at[i] = at[j]
      /\ ~Overlapping(sorted) => InPlace(sorted, q, lexs) /\ \A i \in 1..K, j \in 1..K : at[i] = at[j] => i = j
  <2> HIDE DEF lexs
  <2>1. QED BY <1>1, <1>2, <1>4, <1>6, <1>7, SortedInPlace
<1>9. \A i \in 1..K, j \in 1..K : reqs[i].token.ordinal = reqs[j].token.ordinal <=> at[i] = at[j]
  <2>1. \A i \in 1..K : Names(reqs[i].token, lexs, at[i]) BY <1>4 DEF Placed
  <2> HIDE DEF lexs, K
  <2>2. QED BY <2>1, <1>1, SameString
<1>10. /\ \A n \in 1..K : order[n] \in 1..K /\ sorted[n] = reqs[order[n]]
       /\ \A i \in 1..K : \E n \in 1..K : order[n] = i
  BY <1>7 DEF Arranges
<1>11. \A n \in 1..K : q[n] = at[order[n]] OBVIOUS
<1>12. \A j \in 1..N : IsSeq(w[j]) /\ w[j] = RewrittenBy(reqs, lexs, j) BY <1>2, RewrittenIsSeq
<1>13. RewrittenBody(reqs, lexs) = Written(w, N)
  <2>1. [j \in 1..N |-> w[j]] = [i \in 1..N |-> RewrittenBy(reqs, lexs, i)] OBVIOUS
  <2>2. QED BY <2>1, <1>1 DEF RewrittenBody, Written
<1> HIDE DEF lexs, N, K, sorted, edits, w, q
<1>14. ASSUME Overlapping(sorted) PROVE \E i, j \in 1..K : i # j /\ reqs[i].token = reqs[j].token
  <2>1. PICK i \in 1..K, j \in 1..K : i # j /\ at[i] = at[j] BY <1>8, <1>14
  <2>2. reqs[i].token.ordinal = reqs[j].token.ordinal BY <2>1, <1>9
  <2>3. reqs[i].token = TokenAt(reqs[i].token.ordinal) /\ reqs[j].token = TokenAt(reqs[j].token.ordinal) BY <1>3
  <2>4. reqs[i].token = reqs[j].token BY <2>2, <2>3
  <2>5. QED BY <2>1, <2>4
<1>15. ASSUME ~Overlapping(sorted)
       PROVE  /\ \A i \in 1..K, j \in 1..K : reqs[i].token.ordinal = reqs[j].token.ordinal => i = j
              /\ edits = <<>> => Bytes(lexs) = Written(w, N)
              /\ edits # <<>> => Splice(Bytes(lexs), edits) = Written(w, N)
              /\ edits # <<>> <=> \E i \in 1..K : Changes(reqs[i])
  <2>1. InPlace(sorted, q, lexs) /\ \A i \in 1..K, j \in 1..K : at[i] = at[j] => i = j BY <1>8, <1>15
  <2>2. /\ \A i \in 1..K : Changes(reqs[i]) => RewrittenBy(reqs, lexs, at[i]) = encodeString(reqs[i].value)
        /\ \A j \in 1..N :
              (\A i \in 1..K : Changes(reqs[i]) => at[i] # j) => RewrittenBy(reqs, lexs, j) = BytesOf(lexs[j])
    BY <2>1, <1>1, <1>2, <1>4, RequestsRewrite DEF K, N
  <2>3. ASSUME NEW n \in 1..Len(sorted), Changes(sorted[n]) PROVE w[q[n]] = encodeString(sorted[n].value)
    <3> DEFINE i == order[n]
               j == q[n]
    <3>1. i \in 1..K /\ sorted[n] = reqs[i] /\ j = at[i] /\ j \in 1..N
      <4>1. n \in 1..K BY <1>6
      <4>2. q[n] \in 1..Len(lexs) BY <2>1 DEF InPlace
      <4>3. QED BY <4>1, <4>2, <1>10, <1>11 DEF N
    <3> HIDE DEF i, j
    <3>2. w[j] = RewrittenBy(reqs, lexs, j) BY <3>1, <1>12
    <3>3. RewrittenBy(reqs, lexs, at[i]) = encodeString(reqs[i].value) BY <3>1, <2>2, <2>3
    <3>4. QED BY <3>1, <3>2, <3>3 DEF j
  <2>4. PICK p : EditsAt(edits, p, lexs, w) /\ FromRequests(edits, p, sorted, q, Len(sorted))
    BY <2>1, <2>3, <1>6, EditsInPlace DEF edits
  <2>5. /\ \A k \in 1..Len(edits) : \E m \in 1..K : Changes(sorted[m]) /\ p[k] = q[m]
        /\ \A m \in 1..K : Changes(sorted[m]) => \E k \in 1..Len(edits) : p[k] = q[m]
    BY <2>4, <1>6 DEF FromRequests
  <2>6. \A i \in 1..K : Changes(reqs[i]) => \E k \in 1..Len(edits) : p[k] = at[i]
    <3>1. ASSUME NEW i \in 1..K, Changes(reqs[i]) PROVE \E k \in 1..Len(edits) : p[k] = at[i]
      <4>1. PICK n \in 1..K : order[n] = i BY <1>10
      <4>2. Changes(sorted[n]) /\ q[n] = at[i] BY <4>1, <3>1, <1>10, <1>11
      <4>3. QED BY <4>2, <2>5
    <3>2. QED BY <3>1
  <2>7. ASSUME NEW j \in 1..N, \A k \in 1..Len(edits) : p[k] # j PROVE w[j] = BytesOf(lexs[j])
    <3>1. \A i \in 1..K : Changes(reqs[i]) => at[i] # j BY <2>6, <2>7
    <3>2. RewrittenBy(reqs, lexs, j) = BytesOf(lexs[j]) BY <3>1, <2>2
    <3>3. QED BY <3>2, <1>12
  <2>8. Splice(Bytes(lexs), edits) = Written(w, N)
    BY <2>4, <2>7, <1>1, <1>12, SpliceWrites DEF N
  <2>9. IsSeq(edits) /\ Len(edits) \in Nat BY <2>4, SeqFacts DEF EditsAt
  <2>10. edits = <<>> <=> Len(edits) = 0
    <3> DEFINE S == ToSet(edits)
    <3>1. edits \in Seq(S) BY <2>9 DEF IsSeq
    <3> HIDE DEF S
    <3>2. QED BY <3>1, EmptySeq, LenProperties
  <2>11. edits # <<>> <=> \E i \in 1..K : Changes(reqs[i])
    <3>1. ASSUME edits # <<>> PROVE \E i \in 1..K : Changes(reqs[i])
      <4>1. 1 \in 1..Len(edits) BY <3>1, <2>9, <2>10
      <4>2. PICK m \in 1..K : Changes(sorted[m]) BY <4>1, <2>5
      <4>3. order[m] \in 1..K /\ Changes(reqs[order[m]]) BY <4>2, <1>10
      <4>4. QED BY <4>3
    <3>2. ASSUME NEW i \in 1..K, Changes(reqs[i]) PROVE edits # <<>>
      <4>1. PICK k \in 1..Len(edits) : p[k] = at[i] BY <3>2, <2>6
      <4>2. Len(edits) # 0 BY <4>1
      <4>3. QED BY <4>2, <2>10
    <3>3. QED BY <3>1, <3>2
  <2>12. ASSUME edits = <<>> PROVE Bytes(lexs) = Written(w, N)
    <3>1. \A j \in 1..N : w[j] = BytesOf(lexs[j])
      <4>1. \A k : k \notin 1..Len(edits) BY <2>10, <2>12
      <4>2. QED BY <4>1, <2>7
    <3>2. [j \in 1..N |-> w[j]] = [j \in 1..N |-> BytesOf(lexs[j])] BY <3>1
    <3>3. QED BY <3>2, <1>1 DEF Bytes, Written
  <2>13. QED BY <2>1, <2>8, <2>11, <2>12, <1>9
<1>16. QED BY <1>2, <1>3, <1>13, <1>14, <1>15 DEF lexs, sorted, edits, K

\* Why a list of requests is refused.
LEMMA RefusalKinds ==
  ASSUME NEW reqs, DOMAIN reqs = 1..Len(reqs)
  PROVE  /\ Refusal(reqs) \in {"none", "ErrOverlappingReplacements"} => \A i \in DOMAIN reqs : ~Unacceptable(reqs[i])
         /\ Refusal(reqs) = "none" => ~Overlapping(Sorted(reqs))
         /\ Refusal(reqs) = "ErrOverlappingReplacements" => Overlapping(Sorted(reqs))
         /\ Refusal(reqs) = "ErrInvalidToken" => \E i \in DOMAIN reqs : ~Canonical(reqs[i].token)
         /\ Refusal(reqs) # "replaced"
<1> DEFINE bad == {i \in DOMAIN reqs : Unacceptable(reqs[i])}
           c == CHOOSE i \in bad : \A j \in bad : i <= j
           too == Len(reqs) > MaxReplacements
           some == \E i \in DOMAIN reqs : Unacceptable(reqs[i])
           over == Overlapping(Sorted(reqs))
           long == EncodedBytes(Edits(Sorted(reqs))) > MaxReplacementBytes
<1>1. Refusal(reqs) = IF too THEN "ErrReplacementLimit" ELSE IF some THEN FirstError(reqs)
                      ELSE IF over THEN "ErrOverlappingReplacements"
                      ELSE IF long THEN "ErrReplacementLimit" ELSE "none"
  BY DEF Refusal
<1>2. FirstError(reqs) = IF ~Canonical(reqs[c].token) THEN "ErrInvalidToken" ELSE "ErrStringTooLarge"
  BY DEF FirstError
<1>3. some => c \in DOMAIN reqs
  <2>1. some => bad # {} OBVIOUS
  <2>2. bad \in SUBSET Nat /\ bad \subseteq DOMAIN reqs OBVIOUS
  <2> HIDE DEF bad
  <2>3. bad # {} => \E i \in bad : \A j \in bad : i <= j BY <2>2, LeastElement
  <2>4. bad # {} => c \in bad BY <2>3
  <2>5. QED BY <2>1, <2>2, <2>4
<1> HIDE DEF c, too, over, long
<1>4. FirstError(reqs) \in {"ErrInvalidToken", "ErrStringTooLarge"} BY <1>2
<1>5. some /\ FirstError(reqs) = "ErrInvalidToken" => \E i \in DOMAIN reqs : ~Canonical(reqs[i].token) BY <1>2, <1>3
<1>6. Refusal(reqs) = "ErrInvalidToken" => some /\ FirstError(reqs) = "ErrInvalidToken"
  <2> HIDE DEF some
  <2>1. QED BY <1>1
<1>7. Refusal(reqs) \in {"none", "ErrOverlappingReplacements"} => ~some
  <2> HIDE DEF some
  <2>1. QED BY <1>1, <1>4
<1>8. /\ Refusal(reqs) = "none" => ~over
      /\ Refusal(reqs) = "ErrOverlappingReplacements" => over
      /\ Refusal(reqs) # "replaced"
  <2> HIDE DEF some
  <2>1. QED BY <1>1, <1>4
<1>9. QED BY <1>5, <1>6, <1>7, <1>8 DEF over

\* TokenAt, of any scanner.
TokenIn(s, n) ==
    [document |-> "this", ordinal |-> n, path |-> MaterializePath(s, s.strings[n].pathRef),
     value |-> s.strings[n].value, start |-> s.strings[n].start, end |-> s.strings[n].end,
     parentKind |-> s.strings[n].parentKind, depth |-> s.strings[n].depth]

\* A request is about a string of its own, and its value reads back.
Answered(reqs, s, i) ==
    /\ reqs[i].token = TokenIn(s, reqs[i].token.ordinal)
    /\ \A j \in DOMAIN reqs : reqs[i].token.ordinal = reqs[j].token.ordinal => i = j
    /\ Changes(reqs[i]) =>
          \E text \in [DOMAIN reqs[i].value -> [char : ToSet(reqs[i].value), escaped : BOOLEAN]] :
              Legal(text) /\ Decode(text) = reqs[i].value /\ Raw(text) = encodeString(reqs[i].value)

\* ReplaceIsExact, of any requests, body, scanner and result.
Exact(st, reqs, lexs, s, o) ==
    /\ st = "replaced" =>
          /\ o.body = RewrittenBody(reqs, lexs)
          /\ o.changed <=> \E i \in DOMAIN reqs : Changes(reqs[i])
          /\ \A i \in DOMAIN reqs : Answered(reqs, s, i)
    /\ st = "ErrInvalidToken" => \E i \in DOMAIN reqs : reqs[i].token # TokenIn(s, reqs[i].token.ordinal)
    /\ st = "ErrOverlappingReplacements" => \E i, j \in DOMAIN reqs : i # j /\ reqs[i].token = reqs[j].token

\* ReplaceIsExact is Exact of the variables, now and after a step.
LEMMA ExactIsReplaceIsExact ==
  /\ ReplaceIsExact <=> Exact(status, requests, lexemes, scan, out)
  /\ ReplaceIsExact' <=> Exact(status', requests', lexemes', scan', out')
<1>1. ReplaceIsExact <=> Exact(status, requests, lexemes, scan, out)
  BY DEF ReplaceIsExact, Exact, Answered, Rewritten, RewrittenBy, RewrittenBody, Wanted, WantedBy,
         TokenAt, TokenIn
<1>2. ReplaceIsExact' <=> Exact(status', requests', lexemes', scan', out')
  BY DEF ReplaceIsExact, Exact, Answered, Rewritten, RewrittenBy, RewrittenBody, Wanted, WantedBy,
         TokenAt, TokenIn
<1>3. QED BY <1>1, <1>2

\* Replace is exact: what it writes is what the requests come to.
LEMMA ReplaceStep ==
  ASSUME IInv, IndexInv, TextsInv, NEW reqs \in RequestLists, Replace(reqs)
  PROVE  ReplaceIsExact'
<1> DEFINE body == Bytes(lexemes)
           edits == Edits(Sorted(reqs))
           changing == \E i \in DOMAIN reqs : Changes(reqs[i])
<1>1. /\ Refusal(reqs) = "none" /\ status' = "replaced" /\ requests' = reqs /\ lexemes' = lexemes /\ scan' = scan
      /\ out' = IF edits = <<>> THEN [body |-> body, changed |-> FALSE]
                                ELSE [body |-> Splice(body, edits), changed |-> TRUE]
  BY DEF Replace
<1>2. DOMAIN reqs = 1..Len(reqs) /\ \A i \in DOMAIN reqs : reqs[i].value \in NewValues BY RequestsListed
<1>3. (\A i \in DOMAIN reqs : ~Unacceptable(reqs[i])) /\ ~Overlapping(Sorted(reqs)) BY <1>1, <1>2, RefusalKinds
<1>4. \A i \in DOMAIN reqs : Canonical(reqs[i].token) BY <1>3 DEF Unacceptable
<1>5. /\ \A i \in DOMAIN reqs : reqs[i].token = TokenAt(reqs[i].token.ordinal)
      /\ \A i \in DOMAIN reqs, j \in DOMAIN reqs : reqs[i].token.ordinal = reqs[j].token.ordinal => i = j
      /\ edits = <<>> => body = RewrittenBody(reqs, lexemes)
      /\ edits # <<>> => Splice(body, edits) = RewrittenBody(reqs, lexemes)
      /\ edits # <<>> <=> changing
  BY <1>3, <1>4, RequestsComeTo
<1> HIDE DEF body, edits, changing
<1>6. out'.body = RewrittenBody(reqs, lexemes) /\ (out'.changed <=> changing)
  <2>1. CASE edits = <<>> BY <2>1, <1>1, <1>5
  <2>2. CASE edits # <<>> BY <2>2, <1>1, <1>5
  <2>3. QED BY <2>1, <2>2
<1>7. ASSUME NEW i \in DOMAIN reqs PROVE Answered(reqs, scan, i)
  <2>1. reqs[i].token = TokenIn(scan, reqs[i].token.ordinal) BY <1>5 DEF TokenAt, TokenIn
  <2>2. \A j \in DOMAIN reqs : reqs[i].token.ordinal = reqs[j].token.ordinal => i = j BY <1>5
  <2> DEFINE value == reqs[i].value
  <2>3. value \in NewValues BY <1>2
  <2> HIDE DEF value
  <2>4. \E text \in [DOMAIN value -> [char : ToSet(value), escaped : BOOLEAN]] :
           Legal(text) /\ Decode(text) = value /\ Raw(text) = encodeString(value)
    BY <2>3, ReadsBack
  <2>5. QED BY <2>1, <2>2, <2>4 DEF Answered, value
<1>8. Exact("replaced", reqs, lexemes, scan, out') BY <1>6, <1>7 DEF Exact, changing
<1>9. Exact(status', requests', lexemes', scan', out') BY <1>1, <1>8
<1>10. QED BY <1>9, ExactIsReplaceIsExact

\* What is refused as a foreign token or as an overlap is one.
LEMMA ReplaceFailsStep ==
  ASSUME IInv, IndexInv, TextsInv, NEW reqs \in RequestLists, ReplaceFails(reqs)
  PROVE  ReplaceIsExact'
<1>1. status' = Refusal(reqs) /\ requests' = reqs /\ lexemes' = lexemes /\ scan' = scan BY DEF ReplaceFails
<1>2. DOMAIN reqs = 1..Len(reqs) /\ \A i \in 1..Len(reqs) : reqs[i].token.ordinal \in DOMAIN scan.strings
  BY RequestsListed
<1>3. Refusal(reqs) # "replaced" BY <1>2, RefusalKinds
<1>4. ASSUME Refusal(reqs) = "ErrInvalidToken"
      PROVE  \E i \in DOMAIN reqs : reqs[i].token # TokenIn(scan, reqs[i].token.ordinal)
  <2>1. PICK i \in DOMAIN reqs : ~Canonical(reqs[i].token) BY <1>2, <1>4, RefusalKinds
  <2> DEFINE t == reqs[i].token
             n == t.ordinal
  <2>2. n \in DOMAIN scan.strings BY <1>2
  <2>3. t.document # "this" \/ t # TokenAt(n) BY <2>1, <2>2 DEF Canonical
  <2> HIDE DEF t, n
  <2>4. TokenAt(n).document = "this" BY DEF TokenAt
  <2>5. t # TokenAt(n) BY <2>3, <2>4
  <2>6. TokenAt(n) = TokenIn(scan, n) BY DEF TokenAt, TokenIn
  <2>7. QED BY <2>5, <2>6 DEF t, n
<1>5. ASSUME Refusal(reqs) = "ErrOverlappingReplacements"
      PROVE  \E i, j \in DOMAIN reqs : i # j /\ reqs[i].token = reqs[j].token
  <2>1. (\A i \in DOMAIN reqs : ~Unacceptable(reqs[i])) /\ Overlapping(Sorted(reqs)) BY <1>2, <1>5, RefusalKinds
  <2>2. \A i \in DOMAIN reqs : Canonical(reqs[i].token) BY <2>1 DEF Unacceptable
  <2>3. QED BY <2>1, <2>2, RequestsComeTo
<1>6. Exact(Refusal(reqs), reqs, lexemes, scan, out') BY <1>3, <1>4, <1>5 DEF Exact
<1>7. Exact(status', requests', lexemes', scan', out') BY <1>1, <1>6
<1>8. QED BY <1>7, ExactIsReplaceIsExact

\* No step of the scanner ends in an outcome of Replace.
LEMMA NextIsExact == IInv /\ IndexInv /\ TextsInv /\ ReplaceIsExact /\ [Next]_vars => ReplaceIsExact'
<1> SUFFICES ASSUME IInv, IndexInv, TextsInv, ReplaceIsExact, [Next]_vars PROVE ReplaceIsExact'
  OBVIOUS
<1> DEFINE Outcomes == {"replaced", "ErrInvalidToken", "ErrOverlappingReplacements"}
<1>1. ASSUME status' \notin Outcomes PROVE ReplaceIsExact'
  <2>1. Exact(status', requests', lexemes', scan', out') BY <1>1 DEF Exact
  <2>2. QED BY <2>1, ExactIsReplaceIsExact
<1>2. CASE \/ BodyTooLarge \/ Cancelled \/ Malformed \/ Scanned \/ ValueRefused \/ ElementRefused
           \/ \E text \in Texts : StringRefused(text)
           \/ \E k \in Keys : MemberRefused(k)
  <2>1. status' \in {"ErrBodyTooLarge", "context", "ErrInvalidJSON", "scanned", "ErrDepthLimit", "ErrNodeLimit",
                     "ErrStructuralLimit", "ErrStringTooLarge"}
    BY <1>2 DEF BodyTooLarge, Cancelled, Malformed, Scanned, ValueRefused, ElementRefused, StringRefused,
                MemberRefused, Fail
  <2>2. QED BY <2>1, <1>1
<1>3. CASE \/ ReadScalar \/ EnterElement \/ Comma \/ Close
           \/ \E kind \in {"{", "["} : OpenContainer(kind)
           \/ \E text \in Texts : ReadString(text)
           \/ \E k \in Keys : EnterMember(k)
  <2>1. status = "scanning" /\ status' = status
    BY <1>3 DEF ReadScalar, EnterElement, Comma, Close, OpenContainer, ReadString, EnterMember, ExpectValue, ExpectChild, Read
  <2>2. QED BY <2>1, <1>1
<1>4. CASE \E reqs \in RequestLists : Replace(reqs) \/ ReplaceFails(reqs)
  BY <1>4, ReplaceStep, ReplaceFailsStep
<1>5. CASE UNCHANGED vars
  <2>1. Exact(status, requests, lexemes, scan, out) BY ExactIsReplaceIsExact
  <2>2. status' = status /\ requests' = requests /\ lexemes' = lexemes /\ scan' = scan /\ out' = out BY <1>5 DEF vars
  <2>3. Exact(status', requests', lexemes', scan', out') BY <2>1, <2>2
  <2>4. QED BY <2>3, ExactIsReplaceIsExact
<1>6. QED BY <1>2, <1>3, <1>4, <1>5 DEF Next

\* Whatever the body and the requests, in whatever order, Replace writes the
\* strings it was asked to change and copies every other byte, the new strings
\* read back as the values asked for, and a foreign, an edited or a repeated
\* token is refused as what it is (Replace, canonicalToken, encodeStringContext).
THEOREM ReplaceIsExactHolds == Spec => []ReplaceIsExact
<1>1. Init => TextsInv /\ ReplaceIsExact
  <2>1. ASSUME Init PROVE TextsInv
    <3>1. lexemes = <<>> BY <2>1 DEF Init
    <3>2. Len(lexemes) = 0 BY <3>1, EmptyIsSeq
    <3>3. QED BY <3>2 DEF TextsInv
  <2>2. ASSUME Init PROVE ReplaceIsExact BY <2>2 DEF Init, ReplaceIsExact
  <2>3. QED BY <2>1, <2>2
<1>2. IInv /\ TextsInv /\ [Next]_vars => TextsInv' BY TextsKept
<1>3. IInv /\ IndexInv /\ TextsInv /\ ReplaceIsExact /\ [Next]_vars => ReplaceIsExact' BY NextIsExact
<1>4. QED BY <1>1, <1>2, <1>3, InvariantHolds, IndexInvariantHolds, PTL DEF Spec

=============================================================================
