-------------------------- MODULE Collector_proofs --------------------------
(***************************************************************************)
(* Every body that a walker lets pass has each of its strings either       *)
(* selected or protected, whatever the walker does and however many        *)
(* strings the body has; and Registry.Walk, on any walk functions, is such *)
(* a walker.                                                               *)
(*                                                                         *)
(* EveryStringDisposed is not inductive: that nothing is both accepted and *)
(* undisposed of needs the fact that whatever has been rejected has also   *)
(* been reported, and that a finished walk has looked at every string.     *)
(***************************************************************************)
EXTENDS Walker, SequenceTheorems, WellFoundedInduction, TLAPS

\* What is rejected has been reported, and only a finished walk is accepted:
\* then no string is left out.
Accounted ==
    /\ rejected # {} => unsupported
    /\ status = "done" => strings \subseteq targets \cup opaque \cup rejected

DispositionsApart ==
    /\ targets \cap opaque = {}
    /\ targets \cap rejected = {}
    /\ opaque \cap rejected = {}

IInv == CollectorTypeOK /\ DispositionsApart /\ Accounted

LEMMA InitEstablishes == CollectorInit => IInv
  BY DEF CollectorInit, IInv, CollectorTypeOK, DispositionsApart, Accounted

LEMMA RefusePreserves ==
  ASSUME IInv, NEW reason \in Errors, Refuse(reason)
  PROVE  IInv'
  BY DEF Refuse, IInv, CollectorTypeOK, DispositionsApart, Accounted, Errors

\* No disposition is given to a string that has a conflicting one, even by the
\* call that finds the conflict.
LEMMA AddPreserves ==
  ASSUME IInv, NEW S \in SUBSET Strings, AddTargets(S)
  PROVE  IInv'
<1>1. status' \in {status, "internal"} /\ status = "walking"
  BY DEF AddTargets, Claim
<1>2. CollectorTypeOK'
  BY <1>1 DEF AddTargets, Claim, IInv, CollectorTypeOK, Errors
<1>3. DispositionsApart'
  BY DEF AddTargets, IInv, DispositionsApart
<1>4. Accounted'
  BY <1>1 DEF AddTargets, IInv, Accounted
<1>5. QED
  BY <1>2, <1>3, <1>4 DEF IInv

LEMMA MarkPreserves ==
  ASSUME IInv, NEW S \in SUBSET Strings, MarkOpaque(S)
  PROVE  IInv'
<1>1. status' \in {status, "internal"} /\ status = "walking"
  BY DEF MarkOpaque, Claim
<1>2. CollectorTypeOK'
  BY <1>1 DEF MarkOpaque, Claim, IInv, CollectorTypeOK, Errors
<1>3. DispositionsApart'
  BY DEF MarkOpaque, IInv, DispositionsApart
<1>4. Accounted'
  BY <1>1 DEF MarkOpaque, IInv, Accounted
<1>5. QED
  BY <1>2, <1>3, <1>4 DEF IInv

LEMMA ReportPreserves ==
  ASSUME IInv, NEW S \in SUBSET Strings, ReportUnsupported(S)
  PROVE  IInv'
<1>1. CollectorTypeOK'
  BY DEF ReportUnsupported, Undisposed, IInv, CollectorTypeOK
<1>2. DispositionsApart'
  BY DEF ReportUnsupported, Undisposed, IInv, DispositionsApart
<1>3. Accounted'
  BY DEF ReportUnsupported, IInv, Accounted
<1>4. QED
  BY <1>1, <1>2, <1>3 DEF IInv

LEMMA FinishPreserves ==
  ASSUME IInv, NEW S \in SUBSET Strings, EnsureStringDisposition(S)
  PROVE  IInv'
<1>1. unsupported' \in BOOLEAN
  BY DEF EnsureStringDisposition, IInv, CollectorTypeOK
<1>2. CollectorTypeOK'
  BY <1>1 DEF EnsureStringDisposition, Undisposed, IInv, CollectorTypeOK
<1>3. DispositionsApart'
  BY DEF EnsureStringDisposition, Undisposed, IInv, DispositionsApart
<1>4. strings' \subseteq targets' \cup opaque' \cup rejected'
  BY DEF EnsureStringDisposition, Undisposed
<1>5. rejected' # {} => unsupported'
  BY DEF EnsureStringDisposition, IInv, Accounted
<1>6. QED
  BY <1>2, <1>3, <1>4, <1>5 DEF IInv, Accounted

LEMMA StutterPreserves ==
  ASSUME IInv, UNCHANGED collector
  PROVE  IInv'
  BY DEF collector, IInv, CollectorTypeOK, DispositionsApart, Accounted

LEMMA NextPreserves == IInv /\ [CollectorNext]_collector => IInv'
<1> SUFFICES ASSUME IInv, [CollectorNext]_collector PROVE IInv'
  OBVIOUS
<1>1. CASE \E reason \in Errors : Refuse(reason)
  BY <1>1, RefusePreserves
<1>2. CASE \E S \in SUBSET Strings :
              AddTargets(S) \/ MarkOpaque(S) \/ ReportUnsupported(S) \/ EnsureStringDisposition(S)
  <2> PICK S \in SUBSET Strings :
              AddTargets(S) \/ MarkOpaque(S) \/ ReportUnsupported(S) \/ EnsureStringDisposition(S)
    BY <1>2
  <2> QED
    BY AddPreserves, MarkPreserves, ReportPreserves, FinishPreserves
<1>3. CASE UNCHANGED collector
  BY <1>3, StutterPreserves
<1>4. QED
  BY <1>1, <1>2, <1>3 DEF CollectorNext

LEMMA InvariantHolds == CollectorSpec => []IInv
  BY InitEstablishes, NextPreserves, PTL DEF CollectorSpec

\* The collector's sets hold only strings of the document, and a walk ends with
\* a result or one of the errors of package walker.
THEOREM CollectorTypeCorrect == CollectorSpec => []CollectorTypeOK
<1>1. IInv => CollectorTypeOK
  BY DEF IInv
<1>2. QED
  BY <1>1, InvariantHolds, PTL

\* Whatever calls a protocol walker makes, in whatever order, a body that
\* registry.Walk returns without an unsupported shape has every string selected or
\* protected and none both: ensureStringDisposition makes the walkers fail safe.
THEOREM AllStringsDisposed == CollectorSpec => []EveryStringDisposed
<1>1. IInv => EveryStringDisposed
  <2> SUFFICES ASSUME IInv, Accepted PROVE strings = targets \cup opaque
    BY DEF IInv, DispositionsApart, EveryStringDisposed
  <2>1. strings \subseteq targets \cup opaque
    BY DEF IInv, Accounted, Accepted
  <2>2. QED
    BY <2>1 DEF IInv, CollectorTypeOK
<1>2. QED
  BY <1>1, InvariantHolds, PTL

-----------------------------------------------------------------------------
(* The walkers keep to the collector's contract: every step of Walker, for any
   walk functions, is a step of CollectorSpec or leaves the collector alone.
   What that needs to know of a document is that its nodes are the strings'
   names, that members point to nodes, and that functions walk nodes. *)

IsList(s, k) == k \in Nat /\ s = [i \in 1 .. k |-> s[i]]

NodeOK(r, k) ==
    /\ DOMAIN r = {"kind", "parent", "key", "value", "scope", "open", "members"}
    /\ \A key \in DOMAIN r.members : r.members[key] \in 0 .. k

DocOK(d, k) == IsList(d, k) /\ \A m \in 1 .. k : NodeOK(d[m], k)

FrameOK(f, k) == DOMAIN f = {"node", "prog", "each", "at", "scope"} /\ f.node \in 1 .. k

StackOK(s, k) == \E l \in Nat : IsList(s, l) /\ \A i \in 1 .. l : FrameOK(s[i], k)

WellFormed == \E k \in 0 .. MaxNodes : DocOK(doc, k) /\ StackOK(stack, k)

LEMMA ListLength ==
  ASSUME NEW s, NEW k, IsList(s, k)
  PROVE  Len(s) = k /\ DOMAIN s = 1 .. k
<1>1. s \in Seq({s[i] : i \in 1 .. k})
  BY IsASeq DEF IsList
<1>2. QED
  BY <1>1, LenProperties DEF IsList

\* t is the list s of length k with e at its end.
IsExtended(t, s, k, e) ==
    IsList(t, k + 1) /\ (\A i \in 1 .. k : t[i] = s[i]) /\ t[k + 1] = e

LEMMA ListAppend ==
  ASSUME NEW s, NEW k, IsList(s, k), NEW e
  PROVE  IsExtended(Append(s, e), s, k, e)
<1>1. s \in Seq({s[i] : i \in 1 .. k} \cup {e})
  BY IsASeq DEF IsList
<1>2. Append(s, e) \in Seq({s[i] : i \in 1 .. k} \cup {e}) /\ Len(Append(s, e)) = k + 1
  BY <1>1, AppendProperties, ListLength
<1>3. Append(s, e) = [i \in 1 .. k + 1 |-> Append(s, e)[i]]
  BY <1>2, LenProperties
<1>4. QED
  BY <1>1, <1>3, AppendProperties, ListLength DEF IsList, IsExtended

LEMMA ListPrefix ==
  ASSUME NEW s, NEW k, IsList(s, k), NEW j \in 0 .. k
  PROVE  IsList(SubSeq(s, 1, j), j) /\ \A i \in 1 .. j : SubSeq(s, 1, j)[i] = s[i]
<1>1. s \in Seq({s[i] : i \in 1 .. k}) /\ Len(s) = k
  BY IsASeq, ListLength DEF IsList
<1>2. SubSeq(s, 1, j) = [i \in 1 .. j |-> s[i]]
  BY <1>1 DEF IsList
<1>3. QED
  BY <1>2 DEF IsList

LEMMA ListUpdate ==
  ASSUME NEW s, NEW k, IsList(s, k), NEW n, NEW v
  PROVE  /\ IsList([s EXCEPT ![n] = v], k)
         /\ \A i \in 1 .. k : [s EXCEPT ![n] = v][i] = IF i = n THEN v ELSE s[i]
  BY DEF IsList

LEMMA ListFunction ==
  ASSUME NEW s, NEW k, IsList(s, k), NEW t, t = [i \in DOMAIN s |-> t[i]]
  PROVE  IsList(t, k)
  BY ListLength DEF IsList

\* A document and a stack stay well formed when there are more nodes.
LEMMA NodeGrows ==
  ASSUME NEW k \in Nat, NEW j \in Nat, k <= j, NEW r, NodeOK(r, k)
  PROVE  NodeOK(r, j)
  BY DEF NodeOK

LEMMA StackGrows ==
  ASSUME NEW k \in Nat, NEW j \in Nat, k <= j, NEW s, StackOK(s, k)
  PROVE  StackOK(s, j)
  BY DEF StackOK, FrameOK

LEMMA StackPrefix ==
  ASSUME NEW k, NEW s, StackOK(s, k), NEW j \in 0 .. Len(s)
  PROVE  StackOK(SubSeq(s, 1, j), k)
<1>1. PICK l \in Nat : IsList(s, l) /\ \A i \in 1 .. l : FrameOK(s[i], k)
  BY DEF StackOK
<1>2. j \in 0 .. l /\ j \in Nat
  BY <1>1, ListLength
<1>3. IsList(SubSeq(s, 1, j), j) /\ \A i \in 1 .. j : SubSeq(s, 1, j)[i] = s[i]
  BY <1>1, <1>2, ListPrefix
<1>4. QED
  BY <1>1, <1>2, <1>3 DEF StackOK

LEMMA StackFront ==
  ASSUME NEW k, NEW s, StackOK(s, k), s # << >>
  PROVE  StackOK(Front(s), k)
<1>1. PICK l \in Nat : IsList(s, l)
  BY DEF StackOK
<1>2. Len(s) = l /\ l # 0
  BY <1>1, ListLength DEF IsList
<1>3. Len(s) - 1 \in 0 .. Len(s)
  BY <1>2
<1>4. QED
  BY <1>3, StackPrefix DEF Front

LEMMA StackPush ==
  ASSUME NEW k, NEW s, StackOK(s, k), NEW f, FrameOK(f, k)
  PROVE  StackOK(Append(s, f), k)
<1>1. PICK l \in Nat : IsList(s, l) /\ \A i \in 1 .. l : FrameOK(s[i], k)
  BY DEF StackOK
<1> DEFINE t == Append(s, f)
<1>2. IsExtended(t, s, l, f)
  BY <1>1, ListAppend
<1> HIDE DEF t
<1>3. ASSUME NEW i \in 1 .. l + 1 PROVE FrameOK(t[i], k)
  <2>1. i \in 1 .. l \/ i = l + 1
    OBVIOUS
  <2>2. QED
    BY <1>1, <1>2, <2>1 DEF IsExtended
<1>4. StackOK(t, k)
  <2>1. l + 1 \in Nat /\ IsList(t, l + 1)
    BY <1>2 DEF IsExtended
  <2>2. QED
    BY <1>3, <2>1 DEF StackOK
<1>5. QED
  BY <1>4 DEF t

LEMMA StackReplace ==
  ASSUME NEW k, NEW s, StackOK(s, k), NEW n, NEW f, n \in DOMAIN s => FrameOK(f, k)
  PROVE  StackOK([s EXCEPT ![n] = f], k)
<1>1. PICK l \in Nat : IsList(s, l) /\ \A i \in 1 .. l : FrameOK(s[i], k)
  BY DEF StackOK
<1> DEFINE t == [s EXCEPT ![n] = f]
<1>2. IsList(t, l) /\ \A i \in 1 .. l : t[i] = IF i = n THEN f ELSE s[i]
  BY <1>1, ListUpdate
<1> HIDE DEF t
<1>3. ASSUME NEW i \in 1 .. l PROVE FrameOK(t[i], k)
  BY <1>1, <1>2, ListLength
<1>4. StackOK(t, k)
  BY <1>2, <1>3 DEF StackOK
<1>5. QED
  BY <1>4 DEF t

\* What a function changes of its own frame is never the node it walks.
LEMMA StackSet ==
  ASSUME NEW k, NEW s, StackOK(s, k), NEW n, NEW v
  PROVE  StackOK([s EXCEPT ![n].scope = v], k) /\ StackOK([s EXCEPT ![n].at = v], k)
<1>1. n \in DOMAIN s => FrameOK(s[n], k)
  BY ListLength DEF StackOK
<1>2. n \in DOMAIN s => FrameOK([s[n] EXCEPT !.scope = v], k) /\ FrameOK([s[n] EXCEPT !.at = v], k)
  BY <1>1 DEF FrameOK
<1>3. StackOK([s EXCEPT ![n] = [s[n] EXCEPT !.scope = v]], k)
  BY <1>2, StackReplace
<1>4. StackOK([s EXCEPT ![n] = [s[n] EXCEPT !.at = v]], k)
  BY <1>2, StackReplace
<1>5. QED
  BY <1>3, <1>4

-----------------------------------------------------------------------------
(* Documents *)

LEMMA StringsAreNodes ==
  ASSUME NEW d, NEW k \in 0 .. MaxNodes, DocOK(d, k), NEW n
  PROVE  StringsOf(d, n) \in SUBSET Strings /\ Below(d, n) \subseteq 1 .. k
<1>1. DOMAIN d = 1 .. k
  BY ListLength DEF DocOK
<1>2. Below(d, n) \subseteq DOMAIN d
  BY DEF Below
<1>3. 1 .. k \subseteq Strings
  BY WalkerAssumption
<1>4. QED
  BY <1>1, <1>2, <1>3 DEF StringsOf

\* A node may be replaced by one whose members are nodes.
LEMMA DocReplace ==
  ASSUME NEW d, NEW k, DocOK(d, k), NEW n, NEW r, n \in DOMAIN d => NodeOK(r, k)
  PROVE  DocOK([d EXCEPT ![n] = r], k)
<1> DEFINE e == [d EXCEPT ![n] = r]
<1>1. IsList(e, k) /\ \A i \in 1 .. k : e[i] = IF i = n THEN r ELSE d[i]
  BY ListUpdate DEF DocOK
<1> HIDE DEF e
<1>2. ASSUME NEW i \in 1 .. k PROVE NodeOK(e[i], k)
  BY <1>1, ListLength DEF DocOK
<1>3. DocOK(e, k)
  BY <1>1, <1>2 DEF DocOK
<1>4. QED
  BY <1>3 DEF e

\* Fields other than the members do not matter.
LEMMA NodeFields ==
  ASSUME NEW r, NEW k, NodeOK(r, k), NEW v
  PROVE  /\ NodeOK([r EXCEPT !.open = v], k)
         /\ NodeOK([r EXCEPT !.scope = v], k)
         /\ NodeOK([r EXCEPT !.value = v], k)
<1>1. ASSUME NEW t, DOMAIN t = DOMAIN r, t.members = r.members PROVE NodeOK(t, k)
  BY <1>1 DEF NodeOK
<1>2. QED
  BY <1>1 DEF NodeOK

LEMMA DocFields ==
  ASSUME NEW d, NEW k, DocOK(d, k), NEW n, NEW v
  PROVE  /\ DocOK([d EXCEPT ![n].open = v], k)
         /\ DocOK([d EXCEPT ![n].scope = v], k)
         /\ DocOK([d EXCEPT ![n].value = v], k)
<1>1. n \in DOMAIN d => NodeOK(d[n], k)
  BY ListLength DEF DocOK
<1>2. DocOK([d EXCEPT ![n] = [d[n] EXCEPT !.open = v]], k)
  BY <1>1, NodeFields, DocReplace
<1>3. DocOK([d EXCEPT ![n] = [d[n] EXCEPT !.scope = v]], k)
  BY <1>1, NodeFields, DocReplace
<1>4. DocOK([d EXCEPT ![n] = [d[n] EXCEPT !.value = v]], k)
  BY <1>1, NodeFields, DocReplace
<1>5. QED
  BY <1>2, <1>3, <1>4

LEMMA DocScopes ==
  ASSUME NEW d, NEW k, DocOK(d, k), NEW B, NEW v
  PROVE  DocOK([m \in DOMAIN d |-> IF m \in B THEN [d[m] EXCEPT !.scope = v] ELSE d[m]], k)
<1> DEFINE e == [m \in DOMAIN d |-> IF m \in B THEN [d[m] EXCEPT !.scope = v] ELSE d[m]]
<1>1. DOMAIN d = 1 .. k /\ k \in Nat
  BY ListLength DEF DocOK, IsList
<1>2. IsList(e, k)
  BY <1>1 DEF IsList
<1>3. ASSUME NEW m \in 1 .. k PROVE NodeOK(e[m], k)
  <2>1. NodeOK(d[m], k)
    BY DEF DocOK
  <2>2. e[m] \in {d[m], [d[m] EXCEPT !.scope = v]}
    BY <1>1
  <2>3. NodeOK([d[m] EXCEPT !.scope = v], k)
    BY <2>1, NodeFields
  <2> HIDE DEF e
  <2>4. QED
    BY <2>1, <2>2, <2>3
<1> HIDE DEF e
<1>4. DocOK(e, k)
  BY <1>2, <1>3 DEF DocOK
<1>5. QED
  BY <1>4 DEF e

LEMMA DocAppend ==
  ASSUME NEW d, NEW k \in Nat, DocOK(d, k), NEW r, NodeOK(r, k + 1)
  PROVE  DocOK(Append(d, r), k + 1)
<1> DEFINE e == Append(d, r)
<1>1. IsExtended(e, d, k, r)
  BY ListAppend DEF DocOK
<1> HIDE DEF e
<1>2. ASSUME NEW i \in 1 .. k + 1 PROVE NodeOK(e[i], k + 1)
  <2>1. CASE i = k + 1
    BY <1>1, <2>1 DEF IsExtended
  <2>2. CASE i \in 1 .. k
    <3>1. e[i] = d[i] /\ NodeOK(d[i], k)
      BY <1>1, <2>2 DEF IsExtended, DocOK
    <3>2. QED
      BY <3>1, NodeGrows
  <2>3. QED
    BY <2>1, <2>2
<1>3. DocOK(e, k + 1)
  BY <1>1, <1>2 DEF DocOK, IsExtended
<1>4. QED
  BY <1>3 DEF e

LEMMA AbsentNoted ==
  ASSUME NEW d, NEW k \in Nat, DocOK(d, k), NEW n, NEW keys
  PROVE  DocOK(WithoutMembers(d, n, keys), k)
<1> DEFINE old == d[n].members
           new == [j \in DOMAIN old \cup keys |-> IF j \in DOMAIN old THEN old[j] ELSE 0]
           r == [d[n] EXCEPT !.members = new]
<1>1. ASSUME n \in DOMAIN d PROVE NodeOK(r, k)
  <2>1. NodeOK(d[n], k)
    BY <1>1, ListLength DEF DocOK
  <2>2. DOMAIN r = DOMAIN d[n] /\ r.members = new
    BY <2>1 DEF NodeOK
  <2>3. \A j \in DOMAIN new : new[j] \in 0 .. k
    BY <2>1 DEF NodeOK
  <2> HIDE DEF r, new
  <2>4. QED
    BY <2>1, <2>2, <2>3 DEF NodeOK
<1>2. WithoutMembers(d, n, keys) = [d EXCEPT ![n] = r]
  BY DEF WithoutMembers
<1> HIDE DEF r
<1>3. n \in DOMAIN d => NodeOK(r, k)
  BY <1>1
<1>4. DocOK([d EXCEPT ![n] = r], k)
  BY <1>3, DocReplace
<1>5. QED
  BY <1>2, <1>4

LEMMA NewNode ==
  ASSUME NEW kind, NEW parent, NEW key, NEW k
  PROVE  NodeOK(Node(kind, parent, key), k)
<1>1. DOMAIN << >> = {}
  OBVIOUS
<1>2. QED
  BY <1>1 DEF NodeOK, Node

LEMMA MemberAdded ==
  ASSUME NEW d, NEW k \in Nat, DocOK(d, k), NEW n, NEW key, NEW kind
  PROVE  /\ DocOK(WithMember(d, n, key, kind), k + 1)
         /\ Len(WithMember(d, n, key, kind)) = k + 1
<1> DEFINE old == d[n].members
           new == [j \in DOMAIN old \cup {key} |-> IF j = key THEN Len(d) + 1 ELSE old[j]]
           r == [d[n] EXCEPT !.members = new]
           e == [d EXCEPT ![n] = r]
<1>1. Len(d) = k /\ DOMAIN d = 1 .. k /\ IsList(d, k)
  BY ListLength DEF DocOK
<1>2. ASSUME n \in DOMAIN d PROVE NodeOK(r, k + 1)
  <2>1. NodeOK(d[n], k)
    BY <1>1, <1>2 DEF DocOK
  <2>2. DOMAIN r = DOMAIN d[n] /\ r.members = new
    BY <2>1 DEF NodeOK
  <2>3. \A j \in DOMAIN new : new[j] \in 0 .. k + 1
    BY <1>1, <2>1 DEF NodeOK
  <2> HIDE DEF r, new
  <2>4. QED
    BY <2>1, <2>2, <2>3 DEF NodeOK
<1>3. WithMember(d, n, key, kind) = Append(e, Node(kind, n, key))
  BY DEF WithMember
<1> HIDE DEF r
<1>4. IsList(e, k) /\ \A i \in 1 .. k : e[i] = IF i = n THEN r ELSE d[i]
  BY <1>1, ListUpdate
<1> HIDE DEF e
<1>5. ASSUME NEW i \in 1 .. k PROVE NodeOK(e[i], k + 1)
  <2>1. NodeOK(d[i], k + 1)
    BY NodeGrows DEF DocOK
  <2>2. QED
    BY <1>1, <1>2, <1>4, <2>1
<1> DEFINE t == Append(e, Node(kind, n, key))
<1>6. IsExtended(t, e, k, Node(kind, n, key))
  BY <1>4, ListAppend
<1>7. NodeOK(Node(kind, n, key), k + 1)
  BY NewNode
<1> HIDE DEF t
<1>8. ASSUME NEW i \in 1 .. k + 1 PROVE NodeOK(t[i], k + 1)
  <2>1. i \in 1 .. k \/ i = k + 1
    OBVIOUS
  <2>2. QED
    BY <1>5, <1>6, <1>7, <2>1 DEF IsExtended
<1>9. DocOK(t, k + 1) /\ Len(t) = k + 1
  BY <1>6, <1>8, ListLength DEF DocOK, IsExtended
<1>10. QED
  BY <1>3, <1>9 DEF t

\* A value made up with a member: the last node of the document is replaced.
LEMMA LastReplaced ==
  ASSUME NEW d, NEW k \in Nat, DocOK(d, k + 1), NEW v
  PROVE  DocOK(Append(Front(d), [Last(d) EXCEPT !.value = v]), k + 1)
<1> DEFINE e == SubSeq(d, 1, k)
           r == [d[k + 1] EXCEPT !.value = v]
<1>1. IsList(d, k + 1) /\ Len(d) = k + 1
  BY ListLength DEF DocOK
<1>2. Front(d) = e /\ Last(d) = d[k + 1]
  BY <1>1 DEF Front, Last
<1>3. IsList(e, k) /\ \A i \in 1 .. k : e[i] = d[i]
  BY <1>1, ListPrefix
<1>4. NodeOK(r, k + 1)
  <2>1. NodeOK(d[k + 1], k + 1)
    BY DEF DocOK
  <2>2. QED
    BY <2>1, NodeFields
<1> HIDE DEF e, r
<1> DEFINE t == Append(e, r)
<1>5. IsExtended(t, e, k, r)
  BY <1>3, ListAppend
<1> HIDE DEF t
<1>6. ASSUME NEW i \in 1 .. k + 1 PROVE NodeOK(t[i], k + 1)
  <2>1. i \in 1 .. k \/ i = k + 1
    OBVIOUS
  <2>2. i \in 1 .. k => t[i] = d[i]
    BY <1>3, <1>5 DEF IsExtended
  <2>3. i = k + 1 => t[i] = r
    BY <1>5 DEF IsExtended
  <2>4. NodeOK(d[i], k + 1)
    BY DEF DocOK
  <2>5. QED
    BY <1>4, <2>1, <2>2, <2>3, <2>4
<1>7. DocOK(t, k + 1)
  BY <1>5, <1>6 DEF DocOK, IsExtended
<1>8. QED
  BY <1>2, <1>7 DEF t, r

-----------------------------------------------------------------------------
(* Steps *)

\* What a step has to do: keep to the contract and the document well formed.
Keeps == [CollectorNext]_collector /\ WellFormed'

LEMMA StatesKept ==
  ASSUME NEW k \in 0 .. MaxNodes, DocOK(doc', k), StackOK(stack', k)
  PROVE  WellFormed'
  BY DEF WellFormed

LEMMA CollectorSteps ==
  ASSUME NEW S \in SUBSET Strings,
         AddTargets(S) \/ MarkOpaque(S) \/ ReportUnsupported(S) \/ EnsureStringDisposition(S)
  PROVE  CollectorNext
  BY DEF CollectorNext

LEMMA FailKeeps ==
  ASSUME NEW reason \in Errors, Fail(reason)
  PROVE  Keeps
<1>1. CollectorNext
  BY DEF Fail, CollectorNext
<1>2. IsList(<< >>, 0)
  BY DEF IsList
<1>3. DocOK(<< >>, 0)
  BY <1>2 DEF DocOK
<1>4. StackOK(<< >>, 0)
  <2>1. 0 \in Nat /\ \A i \in 1 .. 0 : FrameOK(<< >>[i], 0)
    OBVIOUS
  <2>2. QED
    BY <1>2, <2>1 DEF StackOK
<1>5. doc' = << >> /\ stack' = << >>
  BY DEF Fail
<1>6. 0 \in 0 .. MaxNodes
  BY WalkerAssumption
<1>7. WellFormed'
  BY <1>3, <1>4, <1>5, <1>6, StatesKept
<1>8. QED
  BY <1>1, <1>7 DEF Keeps

\* The stack a function leaves behind is part of the one it was on.
LEMMA ReturnKeeps ==
  ASSUME NEW k, NEW s, StackOK(s, k), NEW d, NEW m, ReturnFrom(s, d, m)
  PROVE  StackOK(stack', k)
<1>1. PICK j \in 0 .. Len(s) : stack' = SubSeq(s, 1, j)
  BY DEF ReturnFrom
<1>2. QED
  BY <1>1, StackPrefix

LEMMA PerformKeeps ==
  ASSUME NEW a, NEW k \in 0 .. MaxNodes, NEW n \in 1 .. k, NEW d, DocOK(d, k),
         NEW s, StackOK(s, k), s # << >>, Perform(a, n, d, s)
  PROVE  Keeps
<1> DEFINE up(m, j) == IF j = 0 THEN m ELSE IF j = 1 THEN d[m].parent ELSE d[d[m].parent].parent
<1>1. \A m : StringsOf(d, m) \in SUBSET Strings
  BY StringsAreNodes
<1>2. {n} \in SUBSET Strings
  BY WalkerAssumption
<1>3. SUFFICES Keeps \/ ([CollectorNext]_collector /\ DocOK(doc', k) /\ StackOK(stack', k))
  BY <1>3, StatesKept DEF Keeps
<1>4. CASE a.act = "skip" /\ doc' = d /\ stack' = s /\ UNCHANGED collector
  BY <1>4
<1>5. CASE MarkOpaque(StringsOf(d, n)) /\ doc' = d /\ ReturnFrom(s, d, n)
  BY <1>1, <1>5, CollectorSteps, ReturnKeeps
<1>6. CASE /\ ReportUnsupported(StringsOf(d, up(n, a.up)))
           /\ doc' = d /\ ReturnFrom(s, d, up(n, a.up))
  BY <1>1, <1>6, CollectorSteps, ReturnKeeps
<1>7. CASE doc' = [d EXCEPT ![n].open = TRUE] /\ stack' = s /\ UNCHANGED collector
  BY <1>7, DocFields
<1>8. CASE /\ AddTargets(StringsOf(d, n))
           /\ doc' = [m \in DOMAIN d |->
                        IF m \in Below(d, n) THEN [d[m] EXCEPT !.scope = ScopeOf(a)] ELSE d[m]]
           /\ ReturnFrom(s, d, n)
  <2>1. DocOK(doc', k)
    BY <1>8, DocScopes
  <2>2. QED
    BY <1>1, <1>8, <2>1, CollectorSteps, ReturnKeeps
<1>9. CASE AddTargets({n}) /\ doc' = [d EXCEPT ![n].scope = ScopeOf(a)] /\ stack' = s
  BY <1>2, <1>9, CollectorSteps, DocFields
<1>10. CASE /\ doc' = [d EXCEPT ![n].open = @ \/ a.act = "each"]
            /\ stack' = Append(s, Frame(n, a.prog, a.act = "each", ScopeOf(a)))
            /\ UNCHANGED collector
  <2>1. FrameOK(Frame(n, a.prog, a.act = "each", ScopeOf(a)), k)
    BY DEF Frame, FrameOK
  <2>2. StackOK(stack', k)
    BY <1>10, <2>1, StackPush
  <2>3. \A v : DocOK([d EXCEPT ![n].open = v], k)
    BY DocFields
  <2>4. DocOK([d EXCEPT ![n].open = (d[n].open \/ a.act = "each")], k)
    BY <2>3
  <2>5. QED
    BY <1>10, <2>2, <2>4
<1>11. CASE doc' = d /\ stack' = Front(s) /\ UNCHANGED collector
  BY <1>11, StackFront
<1>12. CASE doc' = d /\ stack' = [s EXCEPT ![Len(s)].scope = a.scope] /\ UNCHANGED collector
  BY <1>12, StackSet
<1>13. CASE /\ ReportUnsupported(StringsOf(d, d[n].members["role"]))
            /\ doc' = d /\ stack' = [s EXCEPT ![Len(s)].scope = a.scope]
  BY <1>1, <1>13, CollectorSteps, StackSet
<1>14. CASE Fail("shape")
  BY <1>14, FailKeeps DEF Errors
<1>15. QED
  BY <1>4, <1>5, <1>6, <1>7, <1>8, <1>9, <1>10, <1>11, <1>12, <1>13, <1>14 DEF Perform

\* The facts about the function on top of the stack that its steps use.
LEMMA TopFacts ==
  ASSUME NEW k \in 0 .. MaxNodes, DocOK(doc, k), StackOK(stack, k), stack # << >>
  PROVE  /\ top.node \in 1 .. k
         /\ \A i : StackOK(At(i), k) /\ At(i) # << >>
         /\ \A code, i : DocOK(Settled(code, i), k)
<1>1. PICK l \in Nat : IsList(stack, l) /\ \A i \in 1 .. l : FrameOK(stack[i], k)
  BY DEF StackOK
<1>2. Len(stack) = l /\ DOMAIN stack = 1 .. l /\ l # 0
  BY <1>1, ListLength DEF IsList
<1>3. top.node \in 1 .. k
  BY <1>1, <1>2 DEF top, FrameOK
<1>4. ASSUME NEW i PROVE StackOK(At(i), k) /\ At(i) # << >>
  <2>1. StackOK(At(i), k)
    BY StackSet DEF At
  <2>2. DOMAIN At(i) = 1 .. l
    BY <1>2 DEF At
  <2>3. QED
    BY <1>2, <2>1, <2>2
<1>5. \A code, i : DocOK(Settled(code, i), k)
  BY AbsentNoted DEF Settled
<1>6. QED
  BY <1>3, <1>4, <1>5

\* A member that is there is a node.
LEMMA MemberIsNode ==
  ASSUME NEW k \in Nat, DocOK(doc, k), NEW n \in 1 .. k, NEW key, Present(doc, n, key)
  PROVE  doc[n].members[key] \in 1 .. k
<1>1. NodeOK(doc[n], k)
  BY DEF DocOK
<1>2. doc[n].members[key] \in 0 .. k /\ doc[n].members[key] # 0
  BY <1>1 DEF NodeOK, Present, Known
<1>3. QED
  BY <1>2

LEMMA FindKeeps ==
  ASSUME NEW k \in 0 .. MaxNodes, DocOK(doc, k), StackOK(stack, k), stack # << >>,
         NEW code, NEW i, Find(code, i)
  PROVE  Keeps
<1> DEFINE step == code.steps[i]
           old == Settled(code, i)
           s == At(i + 1)
<1>1. top.node \in 1 .. k /\ StackOK(s, k) /\ s # << >> /\ DocOK(old, k)
  BY TopFacts
<1>2. CASE /\ Present(doc, top.node, step.key)
           /\ Dispatch(step.cases, doc[top.node].members[step.key], old, s)
  <2>1. doc[top.node].members[step.key] \in 1 .. k
    BY <1>1, <1>2, MemberIsNode
  <2> HIDE DEF step, old, s
  <2>2. QED
    BY <1>1, <1>2, <2>1, PerformKeeps DEF Dispatch
<1>3. CASE /\ Len(doc) < MaxNodes
           /\ \E kind \in step.kinds :
                LET d == WithMember(old, top.node, step.key, kind)
                IN  Dispatch(step.cases, Len(d), d, s)
  <2>1. PICK kind :
           Dispatch(step.cases, Len(WithMember(old, top.node, step.key, kind)),
                    WithMember(old, top.node, step.key, kind), s)
    BY <1>3
  <2> DEFINE d == WithMember(old, top.node, step.key, kind)
  <2>2. Len(doc) = k /\ k + 1 \in 0 .. MaxNodes
    BY <1>3, ListLength, WalkerAssumption DEF DocOK
  <2> HIDE DEF step, old, s
  <2>3. DocOK(d, k + 1) /\ Len(d) = k + 1
    BY <1>1, MemberAdded
  <2>4. StackOK(s, k + 1)
    BY <1>1, <2>2, StackGrows
  <2>5. Dispatch(step.cases, k + 1, d, s)
    BY <2>1, <2>3
  <2>6. k + 1 \in 1 .. k + 1
    OBVIOUS
  <2> HIDE DEF d
  <2>7. QED
    BY <1>1, <2>2, <2>3, <2>4, <2>5, <2>6, PerformKeeps DEF Dispatch
<1>4. QED
  BY <1>2, <1>3 DEF Find

LEMMA DiscriminatorKeeps ==
  ASSUME NEW k \in 0 .. MaxNodes, DocOK(doc, k), StackOK(stack, k), stack # << >>,
         NEW code, WalkDiscriminator(code)
  PROVE  Keeps
<1> DEFINE i == nextStep(code)
           step == code.steps[i]
           value == doc[top.node].members[step.key]
           settled == Settled(code, i)
           made == WithMember(settled, top.node, step.key, "string")
<1>1. top.node \in 1 .. k /\ StackOK(At(i), k) /\ DocOK(settled, k)
  BY TopFacts
<1>2. CASE /\ doc' = WithoutMembers(settled, top.node, {step.key})
           /\ stack' = At(i)
           /\ UNCHANGED collector
  <2>1. DocOK(doc', k)
    BY <1>1, <1>2, AbsentNoted
  <2>2. StackOK(stack', k)
    BY <1>1, <1>2
  <2>3. QED
    BY <1>2, <2>1, <2>2, StatesKept DEF Keeps
<1>3. CASE /\ Len(doc) < MaxNodes
           /\ \E v \in step.values : doc' = Append(Front(made), [Last(made) EXCEPT !.value = v])
           /\ MarkOpaque({Len(made)})
           /\ stack' = At(i)
  <2>1. Len(doc) = k /\ k + 1 \in 0 .. MaxNodes /\ k + 1 \in Strings
    BY <1>3, ListLength, WalkerAssumption DEF DocOK
  <2>2. DocOK(made, k + 1) /\ Len(made) = k + 1
    BY <1>1, MemberAdded
  <2>3. CollectorNext
    <3>1. {k + 1} \in SUBSET Strings /\ MarkOpaque({k + 1})
      BY <1>3, <2>1, <2>2
    <3>2. QED
      BY <3>1, CollectorSteps
  <2> HIDE DEF made
  <2>4. DocOK(doc', k + 1)
    BY <1>3, <2>2, LastReplaced
  <2>5. StackOK(stack', k + 1)
    BY <1>1, <1>3, <2>1, StackGrows
  <2>6. QED
    BY <2>1, <2>3, <2>4, <2>5, StatesKept DEF Keeps
<1>4. CASE /\ Present(doc, top.node, step.key)
           /\ \E v \in step.values : doc' = [settled EXCEPT ![value].value = v]
           /\ MarkOpaque({value})
           /\ stack' = At(i)
  <2>1. value \in 1 .. k
    <3> HIDE DEF step
    <3> QED
      BY <1>1, <1>4, MemberIsNode
  <2>2. {value} \in SUBSET Strings
    BY <2>1, WalkerAssumption
  <2>3. DocOK(doc', k)
    <3>1. PICK v : doc' = [settled EXCEPT ![value].value = v]
      BY <1>4
    <3> HIDE DEF settled, value
    <3>2. QED
      BY <1>1, <3>1, DocFields
  <2>4. QED
    BY <1>1, <1>4, <2>2, <2>3, CollectorSteps, StatesKept DEF Keeps
<1>5. CASE Fail("shape")
  BY <1>5, FailKeeps DEF Errors
<1>6. QED
  BY <1>2, <1>3, <1>4, <1>5 DEF WalkDiscriminator

LEMMA StepKeeps ==
  ASSUME WellFormed, WalkStep
  PROVE  Keeps
<1>1. PICK k \in 0 .. MaxNodes : DocOK(doc, k) /\ StackOK(stack, k)
  BY DEF WellFormed
<1>2. stack # << >>
  BY DEF WalkStep
<1>3. PICK code : \/ WalkMember(code) \/ WalkMissing(code) \/ WalkAmbiguous(code) \/ WalkThis(code)
                  \/ WalkDiscriminator(code) \/ WalkSwitch(code) \/ WalkReturn(code)
  BY DEF WalkStep
<1> DEFINE i == nextStep(code)
<1>4. /\ top.node \in 1 .. k
      /\ StackOK(At(i + 1), k) /\ At(i + 1) # << >>
      /\ DocOK(Settled(code, i), k)
  BY <1>1, <1>2, TopFacts
<1>5. CASE WalkMember(code)
  BY <1>1, <1>2, <1>5, FindKeeps DEF WalkMember
<1>6. CASE WalkMissing(code)
  BY <1>6, FailKeeps DEF WalkMissing, Errors
<1>7. CASE WalkAmbiguous(code)
  BY <1>7, FailKeeps DEF WalkAmbiguous, Errors
<1>8. CASE WalkThis(code)
  <2>1. Dispatch(code.steps[i].cases, top.node, Settled(code, i), At(i + 1))
    BY <1>8 DEF WalkThis
  <2> HIDE DEF i
  <2>2. QED
    BY <1>4, <2>1, PerformKeeps DEF Dispatch
<1>9. CASE WalkDiscriminator(code)
  BY <1>1, <1>2, <1>9, DiscriminatorKeeps
<1>10. CASE WalkSwitch(code)
  <2>1. PICK a : Perform(a, top.node, Settled(code, i), At(i + 1))
    BY <1>10 DEF WalkSwitch
  <2> HIDE DEF i
  <2>2. QED
    BY <1>4, <2>1, PerformKeeps
<1>11. CASE WalkReturn(code)
  <2>1. doc' = Settled(code, i) /\ stack' = Front(stack) /\ UNCHANGED collector
    BY <1>11 DEF WalkReturn, collector
  <2>2. StackOK(stack', k)
    BY <1>1, <1>2, <2>1, StackFront
  <2> HIDE DEF i
  <2>3. DocOK(doc', k)
    BY <1>4, <2>1
  <2>4. QED
    BY <2>1, <2>2, <2>3, StatesKept DEF Keeps
<1>12. QED
  BY <1>3, <1>5, <1>6, <1>7, <1>8, <1>9, <1>10, <1>11

LEMMA ElementKeeps ==
  ASSUME WellFormed, WalkElement
  PROVE  Keeps
<1>1. PICK k \in 0 .. MaxNodes : DocOK(doc, k) /\ StackOK(stack, k)
  BY DEF WellFormed
<1>2. stack # << >> /\ UNCHANGED collector
  BY DEF WalkElement
<1>3. CASE stack' = Front(stack) /\ doc' = doc
  BY <1>1, <1>2, <1>3, StackFront, StatesKept DEF Keeps
<1>4. CASE /\ Len(doc) < MaxNodes
           /\ \E kind : doc' = Append(doc, Node(kind, top.node, ""))
           /\ stack' = Append(stack, Frame(Len(doc) + 1, top.prog, FALSE, top.scope))
  <2>1. Len(doc) = k /\ k + 1 \in 0 .. MaxNodes
    <3>1. Len(doc) = k
      BY <1>1, ListLength DEF DocOK
    <3>2. Len(doc) < MaxNodes
      BY <1>4, Zenon
    <3>3. QED
      BY <3>1, <3>2, WalkerAssumption
  <2>2. DocOK(doc', k + 1)
    <3>1. PICK kind : doc' = Append(doc, Node(kind, top.node, ""))
      BY <1>4
    <3>2. NodeOK(Node(kind, top.node, ""), k + 1)
      BY NewNode
    <3>3. k \in Nat
      OBVIOUS
    <3>4. QED
      BY <1>1, <3>1, <3>2, <3>3, DocAppend
  <2>3. FrameOK(Frame(k + 1, top.prog, FALSE, top.scope), k + 1)
    BY DEF FrameOK, Frame
  <2>4. StackOK(stack, k + 1)
    BY <1>1, <2>1, StackGrows
  <2>5. StackOK(stack', k + 1)
    BY <1>4, <2>1, <2>3, <2>4, StackPush
  <2>6. QED
    BY <1>2, <2>1, <2>2, <2>5, StatesKept DEF Keeps
<1>5. QED
  BY <1>3, <1>4 DEF WalkElement

LEMMA FinishKeeps ==
  ASSUME WellFormed, Finish
  PROVE  Keeps
<1>1. PICK k \in 0 .. MaxNodes : DocOK(doc, k) /\ StackOK(stack, k)
  BY DEF WellFormed
<1>2. DOMAIN doc \subseteq Strings
  BY <1>1, ListLength, WalkerAssumption DEF DocOK
<1>3. PICK S \in SUBSET DOMAIN doc : EnsureStringDisposition(S)
  BY DEF Finish
<1>4. CollectorNext
  BY <1>2, <1>3, CollectorSteps
<1>5. QED
  BY <1>1, <1>4, StatesKept DEF Finish, Keeps

LEMMA WalkerKeeps ==
  ASSUME WellFormed, [Next]_vars
  PROVE  Keeps
<1>1. CASE Interrupt
  BY <1>1, FailKeeps DEF Interrupt, Errors
<1>2. CASE UNCHANGED vars
  BY <1>2 DEF vars, collector, Keeps, WellFormed
<1>3. QED
  BY <1>1, <1>2, StepKeeps, ElementKeeps, FinishKeeps DEF Next

LEMMA WalkerStarts == Init => CollectorInit /\ WellFormed
<1> SUFFICES ASSUME Init PROVE WellFormed
  BY DEF Init
<1>1. PICK protocol :
         /\ doc = <<Node("object", 0, protocol)>>
         /\ stack = <<Frame(1, entries[protocol], FALSE, "user"),
                      Frame(1, "validateRootControls", FALSE, "user")>>
  BY DEF Init
<1>2. DocOK(doc, 1)
  <2>1. IsList(doc, 1) /\ doc[1] = Node("object", 0, protocol)
    BY <1>1 DEF IsList
  <2>2. NodeOK(doc[1], 1)
    BY <2>1, NewNode
  <2>3. QED
    BY <2>1, <2>2 DEF DocOK
<1>3. StackOK(stack, 1)
  <2>1. IsList(stack, 2)
    BY <1>1 DEF IsList
  <2>2. FrameOK(stack[1], 1) /\ FrameOK(stack[2], 1)
    BY <1>1 DEF FrameOK, Frame
  <2>3. \A i \in 1 .. 2 : FrameOK(stack[i], 1)
    BY <2>2
  <2>4. QED
    BY <2>1, <2>3 DEF StackOK
<1>4. 1 \in 0 .. MaxNodes
  BY WalkerAssumption
<1>5. QED
  BY <1>2, <1>3, <1>4 DEF WellFormed

\* Registry.Walk refines the collector's contract: for any walk functions, on any
\* body, everything a walk does to the dispositions is a call of the collector.
THEOREM WalkersKeepTheContract == Spec => CollectorSpec
<1>1. WellFormed /\ [Next]_vars => WellFormed' /\ [CollectorNext]_collector
  BY WalkerKeeps DEF Keeps
<1>2. QED
  BY <1>1, WalkerStarts, PTL DEF Spec, CollectorSpec

\* So a body that any walker of the registry accepts has every string selected or
\* protected and none both, however the walk functions are written.
THEOREM WalkedBodiesAreDisposed == Spec => []EveryStringDisposed
  BY WalkersKeepTheContract, AllStringsDisposed, PTL

\* And no walk selects, protects or rejects a string the body does not have.
THEOREM WalkedTypeCorrect == Spec => []CollectorTypeOK
  BY WalkersKeepTheContract, CollectorTypeCorrect, PTL

-----------------------------------------------------------------------------
(* Values a walker does not know.  While a walk goes on, every such value has been
   reported, or the function on top of the stack stands at the switch that has just
   read it.  What that needs to know of the walk functions is ProgramsAssumption:
   the invariant follows which function of the protocol each frame executes. *)

FrameIn(f, programs) == f.prog \in DOMAIN programs /\ f.at \in Nat \ {0}
FramesIn(s, programs) == \A i \in DOMAIN s : FrameIn(s[i], programs)

Placed == stack # << >> => Protocol \in Protocols /\ FramesIn(stack, Programs)

\* The document e is d grown or changed, without a value nobody knows.
Follows(e, d) ==
    /\ e[1].key = d[1].key
    /\ \A n \in DOMAIN e : e[n].value = "unknown" => n \in DOMAIN d /\ d[n].value = "unknown"

LEMMA FollowsOn ==
  ASSUME NEW d, NEW e, NEW f, Follows(e, d), Follows(f, e)
  PROVE  Follows(f, d)
  BY DEF Follows

LEMMA ReplaceFollows ==
  ASSUME NEW d, NEW k \in Nat \ {0}, DocOK(d, k), NEW n, NEW r,
         n \in DOMAIN d => r.key = d[n].key /\ r.value = d[n].value
  PROVE  Follows([d EXCEPT ![n] = r], d)
<1> DEFINE e == [d EXCEPT ![n] = r]
<1>1. DOMAIN e = DOMAIN d /\ 1 \in DOMAIN d
  BY ListLength DEF DocOK
<1>2. ASSUME NEW i \in DOMAIN d PROVE e[i].key = d[i].key /\ e[i].value = d[i].value
  <2>1. e[i] = IF i = n THEN r ELSE d[i]
    OBVIOUS
  <2> HIDE DEF e
  <2>2. QED
    BY <2>1
<1> HIDE DEF e
<1>3. Follows(e, d)
  BY <1>1, <1>2 DEF Follows
<1>4. QED
  BY <1>3 DEF e

LEMMA FieldsFollow ==
  ASSUME NEW d, NEW k \in Nat \ {0}, DocOK(d, k), NEW n, NEW v
  PROVE  /\ Follows([d EXCEPT ![n].open = v], d)
         /\ Follows([d EXCEPT ![n].scope = v], d)
         /\ Follows([d EXCEPT ![n].members = v], d)
<1>1. n \in DOMAIN d => DOMAIN d[n] = {"kind", "parent", "key", "value", "scope", "open", "members"}
  BY ListLength DEF DocOK, NodeOK
<1>2. Follows([d EXCEPT ![n] = [d[n] EXCEPT !.open = v]], d)
  BY <1>1, ReplaceFollows
<1>3. Follows([d EXCEPT ![n] = [d[n] EXCEPT !.scope = v]], d)
  BY <1>1, ReplaceFollows
<1>4. Follows([d EXCEPT ![n] = [d[n] EXCEPT !.members = v]], d)
  BY <1>1, ReplaceFollows
<1>5. QED
  BY <1>2, <1>3, <1>4

LEMMA ScopesFollow ==
  ASSUME NEW d, NEW k \in Nat \ {0}, DocOK(d, k), NEW B, NEW v
  PROVE  Follows([m \in DOMAIN d |-> IF m \in B THEN [d[m] EXCEPT !.scope = v] ELSE d[m]], d)
<1> DEFINE e == [m \in DOMAIN d |-> IF m \in B THEN [d[m] EXCEPT !.scope = v] ELSE d[m]]
<1>1. DOMAIN e = DOMAIN d /\ 1 \in DOMAIN d
  BY ListLength DEF DocOK
<1>2. ASSUME NEW i \in DOMAIN d PROVE e[i].key = d[i].key /\ e[i].value = d[i].value
  <2>1. e[i] \in {d[i], [d[i] EXCEPT !.scope = v]}
    OBVIOUS
  <2>2. DOMAIN d[i] = {"kind", "parent", "key", "value", "scope", "open", "members"}
    BY ListLength DEF DocOK, NodeOK
  <2> HIDE DEF e
  <2>3. QED
    BY <2>1, <2>2
<1> HIDE DEF e
<1>3. Follows(e, d)
  BY <1>1, <1>2 DEF Follows
<1>4. QED
  BY <1>3 DEF e

LEMMA AppendFollows ==
  ASSUME NEW d, NEW k \in Nat \ {0}, DocOK(d, k), NEW r, r.value # "unknown"
  PROVE  Follows(Append(d, r), d)
<1> DEFINE e == Append(d, r)
<1>1. IsExtended(e, d, k, r)
  BY ListAppend DEF DocOK
<1>2. DOMAIN d = 1 .. k
  BY ListLength DEF DocOK
<1> HIDE DEF e
<1>3. DOMAIN e = 1 .. k + 1
  BY <1>1, ListLength DEF IsExtended
<1>4. ASSUME NEW n \in DOMAIN e, e[n].value = "unknown"
      PROVE  n \in DOMAIN d /\ d[n].value = "unknown"
  <2>1. n \in 1 .. k \/ n = k + 1
    BY <1>3
  <2>2. n # k + 1
    BY <1>1, <1>4 DEF IsExtended
  <2>3. e[n] = d[n]
    BY <1>1, <2>1, <2>2 DEF IsExtended
  <2>4. QED
    BY <1>2, <1>4, <2>1, <2>2, <2>3
<1>5. e[1] = d[1]
  BY <1>1 DEF IsExtended
<1>6. Follows(e, d)
  BY <1>4, <1>5 DEF Follows
<1>7. QED
  BY <1>6 DEF e

LEMMA AbsentFollows ==
  ASSUME NEW d, NEW k \in Nat \ {0}, DocOK(d, k), NEW n, NEW keys
  PROVE  Follows(WithoutMembers(d, n, keys), d)
  BY FieldsFollow DEF WithoutMembers

\* What a member that is looked up for the first time changes.
IsMade(e, d, k, n, key, kind) ==
    /\ DocOK(e, k + 1) /\ Follows(e, d)
    /\ e[k + 1] = Node(kind, n, key)
    /\ n \in 1 .. k => key \in DOMAIN e[n].members /\ e[n].members[key] = k + 1

LEMMA MemberMade ==
  ASSUME NEW d, NEW k \in Nat \ {0}, DocOK(d, k), NEW n, NEW key, NEW kind
  PROVE  IsMade(WithMember(d, n, key, kind), d, k, n, key, kind)
<1> DEFINE old == d[n].members
           new == [j \in DOMAIN old \cup {key} |-> IF j = key THEN Len(d) + 1 ELSE old[j]]
           b == [d EXCEPT ![n].members = new]
           r == Node(kind, n, key)
           e == Append(b, r)
<1>1. WithMember(d, n, key, kind) = e
  BY DEF WithMember
<1>2. DocOK(WithMember(d, n, key, kind), k + 1)
  BY MemberAdded
<1>3. IsList(d, k) /\ Len(d) = k /\ DOMAIN d = 1 .. k
  BY ListLength DEF DocOK
<1>4. IsList(b, k) /\ Follows(b, d)
  <2>1. \A v : Follows([d EXCEPT ![n].members = v], d)
    BY FieldsFollow
  <2>2. \A v : IsList([d EXCEPT ![n].members = v], k)
    BY <1>3, ListUpdate
  <2> HIDE DEF new
  <2>3. QED
    BY <2>1, <2>2
<1>5. n \in 1 .. k => key \in DOMAIN b[n].members /\ b[n].members[key] = k + 1
  <2> SUFFICES ASSUME n \in 1 .. k PROVE key \in DOMAIN b[n].members /\ b[n].members[key] = k + 1
    OBVIOUS
  <2>1. DOMAIN d[n] = {"kind", "parent", "key", "value", "scope", "open", "members"}
    BY DEF DocOK, NodeOK
  <2>2. key \in DOMAIN new /\ new[key] = k + 1
    BY <1>3
  <2> HIDE DEF new
  <2>3. b[n].members = new
    BY <1>3, <2>1
  <2> HIDE DEF b
  <2>4. QED
    BY <2>2, <2>3
<1> HIDE DEF b, r
<1>6. IsExtended(e, b, k, r)
  BY <1>4, ListAppend
<1>7. DOMAIN b = 1 .. k /\ DOMAIN e = 1 .. k + 1
  BY <1>4, <1>6, ListLength DEF IsExtended
<1> HIDE DEF e
<1>8. r.value # "unknown"
  BY DEF r, Node
<1>9. Follows(e, b)
  <2>1. e[1] = b[1]
    BY <1>6 DEF IsExtended
  <2>2. ASSUME NEW m \in DOMAIN e, e[m].value = "unknown"
        PROVE  m \in DOMAIN b /\ b[m].value = "unknown"
    <3>1. m \in 1 .. k \/ m = k + 1
      BY <1>7
    <3>2. m # k + 1
      BY <1>6, <1>8, <2>2 DEF IsExtended
    <3>3. e[m] = b[m]
      BY <1>6, <3>1, <3>2 DEF IsExtended
    <3>4. QED
      BY <1>7, <2>2, <3>1, <3>2, <3>3
  <2>3. QED
    BY <2>1, <2>2 DEF Follows
<1>10. Follows(e, d)
  BY <1>4, <1>9, FollowsOn
<1>11. e[k + 1] = Node(kind, n, key)
  BY <1>6 DEF IsExtended, r
<1>12. n \in 1 .. k => e[n] = b[n]
  BY <1>6 DEF IsExtended
<1>13. IsMade(e, d, k, n, key, kind)
  BY <1>1, <1>2, <1>5, <1>10, <1>11, <1>12 DEF IsMade
<1>14. QED
  BY <1>1, <1>13

LEMMA FramesPrefix ==
  ASSUME NEW k, NEW s, StackOK(s, k), NEW programs, FramesIn(s, programs), NEW j \in 0 .. Len(s)
  PROVE  FramesIn(SubSeq(s, 1, j), programs)
<1>1. PICK l \in Nat : IsList(s, l)
  BY DEF StackOK
<1>2. Len(s) = l /\ DOMAIN s = 1 .. l
  BY <1>1, ListLength
<1> DEFINE t == SubSeq(s, 1, j)
<1>3. IsList(t, j) /\ \A i \in 1 .. j : t[i] = s[i]
  BY <1>1, <1>2, ListPrefix
<1> HIDE DEF t
<1>4. DOMAIN t = 1 .. j /\ 1 .. j \subseteq 1 .. l
  BY <1>2, <1>3, ListLength
<1>5. FramesIn(t, programs)
  BY <1>2, <1>3, <1>4 DEF FramesIn
<1>6. QED
  BY <1>5 DEF t

LEMMA FramesFront ==
  ASSUME NEW k, NEW s, StackOK(s, k), s # << >>, NEW programs, FramesIn(s, programs)
  PROVE  FramesIn(Front(s), programs)
<1>1. PICK l \in Nat : IsList(s, l)
  BY DEF StackOK
<1>2. Len(s) = l /\ l # 0
  BY <1>1, ListLength DEF IsList
<1>3. Len(s) - 1 \in 0 .. Len(s)
  BY <1>2
<1>4. QED
  BY <1>3, FramesPrefix DEF Front

LEMMA FramesPush ==
  ASSUME NEW k, NEW s, StackOK(s, k), NEW programs, FramesIn(s, programs),
         NEW f, FrameIn(f, programs)
  PROVE  FramesIn(Append(s, f), programs)
<1>1. PICK l \in Nat : IsList(s, l)
  BY DEF StackOK
<1> DEFINE t == Append(s, f)
<1>2. IsExtended(t, s, l, f)
  BY <1>1, ListAppend
<1> HIDE DEF t
<1>3. DOMAIN s = 1 .. l /\ DOMAIN t = 1 .. l + 1
  BY <1>1, <1>2, ListLength DEF IsExtended
<1>4. ASSUME NEW i \in DOMAIN t PROVE FrameIn(t[i], programs)
  <2>1. i \in 1 .. l \/ i = l + 1
    BY <1>3
  <2>2. QED
    BY <1>2, <1>3, <2>1 DEF IsExtended, FramesIn
<1>5. FramesIn(t, programs)
  BY <1>4 DEF FramesIn
<1>6. QED
  BY <1>5 DEF t

LEMMA FramesReplace ==
  ASSUME NEW s, NEW programs, FramesIn(s, programs), NEW n, NEW f,
         n \in DOMAIN s => FrameIn(f, programs)
  PROVE  FramesIn([s EXCEPT ![n] = f], programs)
<1> DEFINE t == [s EXCEPT ![n] = f]
<1>1. DOMAIN t = DOMAIN s /\ \A i \in DOMAIN s : t[i] = IF i = n THEN f ELSE s[i]
  OBVIOUS
<1> HIDE DEF t
<1>2. FramesIn(t, programs)
  BY <1>1 DEF FramesIn
<1>3. QED
  BY <1>2 DEF t

LEMMA FramesSet ==
  ASSUME NEW k, NEW s, StackOK(s, k), NEW programs, FramesIn(s, programs), NEW n, NEW v
  PROVE  /\ FramesIn([s EXCEPT ![n].scope = v], programs)
         /\ v \in Nat \ {0} => FramesIn([s EXCEPT ![n].at = v], programs)
<1>1. n \in DOMAIN s => /\ DOMAIN s[n] = {"node", "prog", "each", "at", "scope"}
                        /\ FrameIn(s[n], programs)
  BY ListLength DEF StackOK, FrameOK, FramesIn
<1>2. n \in DOMAIN s => FrameIn([s[n] EXCEPT !.scope = v], programs)
  BY <1>1 DEF FrameIn
<1>3. v \in Nat \ {0} /\ n \in DOMAIN s => FrameIn([s[n] EXCEPT !.at = v], programs)
  BY <1>1 DEF FrameIn
<1>4. FramesIn([s EXCEPT ![n] = [s[n] EXCEPT !.scope = v]], programs)
  BY <1>2, FramesReplace
<1>5. v \in Nat \ {0} => FramesIn([s EXCEPT ![n] = [s[n] EXCEPT !.at = v]], programs)
  BY <1>3, FramesReplace
<1>6. QED
  BY <1>4, <1>5

\* A step that reads no new value: the walk has failed, or the document follows the
\* one before, what has been reported stays reported, and the walk is not over.
Fails == doc' = << >> /\ stack' = << >>
GoesOn == (unsupported => unsupported') /\ status' # "done"
Steady(d, programs) == Fails \/ (Follows(doc', d) /\ FramesIn(stack', programs) /\ GoesOn)

LEMMA CallsGoOn ==
  ASSUME NEW S, status = "walking",
         AddTargets(S) \/ MarkOpaque(S) \/ ReportUnsupported(S) \/ UNCHANGED collector
  PROVE  GoesOn
<1>1. CASE AddTargets(S)
  BY <1>1 DEF AddTargets, Claim, GoesOn
<1>2. CASE MarkOpaque(S)
  BY <1>2 DEF MarkOpaque, Claim, GoesOn
<1>3. CASE ReportUnsupported(S)
  BY <1>3 DEF ReportUnsupported, GoesOn
<1>4. CASE UNCHANGED collector
  BY <1>4 DEF collector, GoesOn
<1>5. QED
  BY <1>1, <1>2, <1>3, <1>4

LEMMA SameFollows ==
  ASSUME NEW d
  PROVE  Follows(d, d)
  BY DEF Follows

LEMMA ReturnPlaces ==
  ASSUME NEW k, NEW s, StackOK(s, k), NEW programs, FramesIn(s, programs),
         NEW d, NEW m, ReturnFrom(s, d, m)
  PROVE  FramesIn(stack', programs)
<1>1. PICK j \in 0 .. Len(s) : stack' = SubSeq(s, 1, j)
  BY DEF ReturnFrom
<1>2. QED
  BY <1>1, FramesPrefix

LEMMA PerformSteady ==
  ASSUME NEW a, NEW k \in Nat \ {0}, NEW n, NEW d, DocOK(d, k),
         NEW s, StackOK(s, k), s # << >>, NEW programs, FramesIn(s, programs),
         a.act \in {"run", "each"} => a.prog \in DOMAIN programs,
         status = "walking", Perform(a, n, d, s)
  PROVE  Steady(d, programs)
<1> DEFINE up(m, j) == IF j = 0 THEN m ELSE IF j = 1 THEN d[m].parent ELSE d[d[m].parent].parent
<1>1. Follows(d, d)
  BY SameFollows
<1>2. SUFFICES ASSUME ~Fails
      PROVE  Follows(doc', d) /\ FramesIn(stack', programs) /\ GoesOn
  BY DEF Steady
<1>3. CASE a.act = "skip" /\ doc' = d /\ stack' = s /\ UNCHANGED collector
  BY <1>1, <1>3, CallsGoOn
<1>4. CASE MarkOpaque(StringsOf(d, n)) /\ doc' = d /\ ReturnFrom(s, d, n)
  BY <1>1, <1>4, CallsGoOn, ReturnPlaces
<1>5. CASE /\ ReportUnsupported(StringsOf(d, up(n, a.up)))
           /\ doc' = d /\ ReturnFrom(s, d, up(n, a.up))
  BY <1>1, <1>5, CallsGoOn, ReturnPlaces
<1>6. CASE doc' = [d EXCEPT ![n].open = TRUE] /\ stack' = s /\ UNCHANGED collector
  BY <1>6, CallsGoOn, FieldsFollow
<1>7. CASE /\ AddTargets(StringsOf(d, n))
           /\ doc' = [m \in DOMAIN d |->
                        IF m \in Below(d, n) THEN [d[m] EXCEPT !.scope = ScopeOf(a)] ELSE d[m]]
           /\ ReturnFrom(s, d, n)
  <2>1. Follows(doc', d)
    BY <1>7, ScopesFollow
  <2>2. QED
    BY <1>7, <2>1, CallsGoOn, ReturnPlaces
<1>8. CASE AddTargets({n}) /\ doc' = [d EXCEPT ![n].scope = ScopeOf(a)] /\ stack' = s
  BY <1>8, CallsGoOn, FieldsFollow
<1>9. CASE /\ a.act \in {"run", "each"}
           /\ doc' = [d EXCEPT ![n].open = @ \/ a.act = "each"]
           /\ stack' = Append(s, Frame(n, a.prog, a.act = "each", ScopeOf(a)))
           /\ UNCHANGED collector
  <2>1. FrameIn(Frame(n, a.prog, a.act = "each", ScopeOf(a)), programs)
    BY <1>9 DEF Frame, FrameIn
  <2>2. FramesIn(stack', programs)
    BY <1>9, <2>1, FramesPush
  <2>3. \A v : Follows([d EXCEPT ![n].open = v], d)
    BY FieldsFollow
  <2>4. Follows([d EXCEPT ![n].open = (d[n].open \/ a.act = "each")], d)
    BY <2>3
  <2>5. QED
    BY <1>9, <2>2, <2>4, CallsGoOn
<1>10. CASE doc' = d /\ stack' = Front(s) /\ UNCHANGED collector
  BY <1>1, <1>10, CallsGoOn, FramesFront
<1>11. CASE doc' = d /\ stack' = [s EXCEPT ![Len(s)].scope = a.scope] /\ UNCHANGED collector
  BY <1>1, <1>11, CallsGoOn, FramesSet
<1>12. CASE /\ ReportUnsupported(StringsOf(d, d[n].members["role"]))
            /\ doc' = d /\ stack' = [s EXCEPT ![Len(s)].scope = a.scope]
  BY <1>1, <1>12, CallsGoOn, FramesSet
<1>13. CASE Fail("shape")
  BY <1>2, <1>13 DEF Fail, Fails
<1>14. QED
  BY <1>3, <1>4, <1>5, <1>6, <1>7, <1>8, <1>9, <1>10, <1>11, <1>12, <1>13 DEF Perform

\* What ProgramsAssumption says of one function of a protocol.
CallsKnown(step, programs) ==
    \A a \in ActionsOf(step) : a.act \in {"run", "each"} => a.prog \in DOMAIN programs
RefusesOthers(step) ==
    step.op = "switch" =>
        /\ step.guard = << >>
        /\ "unknown" \notin DOMAIN step.table
        /\ step.other.act \in {"reject", "role"}
Sound(steps, programs) ==
    /\ Len(steps) \in Nat /\ DOMAIN steps = 1 .. Len(steps)
    /\ \A i \in DOMAIN steps : CallsKnown(steps[i], programs) /\ RefusesOthers(steps[i])

\* The function on top of the stack is one of the protocol's.
LEMMA TopPlaced ==
  ASSUME NEW k, StackOK(stack, k), stack # << >>, Placed
  PROVE  /\ top.prog \in DOMAIN Programs /\ top.at \in Nat \ {0}
         /\ Sound(Programs[top.prog], Programs)
<1>1. PICK l \in Nat : IsList(stack, l)
  BY DEF StackOK
<1>2. DOMAIN stack = 1 .. l /\ Len(stack) \in DOMAIN stack
  BY <1>1, ListLength DEF IsList
<1>3. FrameIn(top, Programs)
  BY <1>2 DEF top, Placed, FramesIn
<1>4. Protocol \in Protocols
  BY DEF Placed
<1>5. ASSUME NEW p \in DOMAIN Programs PROVE Sound(Programs[p], Programs)
  BY <1>4, <1>5, ProgramsAssumption DEF Programs, Sound, CallsKnown, RefusesOthers
<1>6. QED
  BY <1>3, <1>5 DEF FrameIn

\* A set of natural numbers that is not empty has a least element.
LEMMA LeastElement ==
  ASSUME NEW T \in SUBSET Nat, T # {}
  PROVE  Min(T) \in T /\ \A y \in T : Min(T) <= y
<1> DEFINE R == OpToRel(<, Nat)
<1>1. IsWellFoundedOn(R, Nat)
  BY NatLessThanWellFounded
<1>2. PICK x \in T : \A y \in T : ~(<<y, x>> \in R)
  <2> HIDE DEF R
  <2>1. QED
    BY <1>1, WFMin
<1>3. ASSUME NEW u \in Nat, NEW v \in Nat, v < u PROVE <<v, u>> \in R
  <2>1. <<v, u>>[1] < <<v, u>>[2] /\ <<v, u>> \in Nat \X Nat
    BY <1>3
  <2>2. QED
    BY <2>1, Zenon DEF OpToRel
<1> HIDE DEF R
<1>4. ASSUME NEW y \in T PROVE x <= y
  <2>1. ~(y < x)
    BY <1>2, <1>3
  <2>2. QED
    BY <2>1
<1>5. QED
  BY <1>4 DEF Min

\* The next step is one of the function, or its return.
LEMMA NextStepBounds ==
  ASSUME NEW code, Len(code.steps) \in Nat, top.at \in Nat \ {0}
  PROVE  nextStep(code) \in Nat \ {0}
<1> DEFINE end == Len(code.steps) + 1
           T == {end} \cup {i \in top.at .. end - 1 : ~MayPass(code.steps[i])}
<1>1. T \in SUBSET (Nat \ {0}) /\ T # {}
  OBVIOUS
<1>2. nextStep(code) = Min(T)
  BY DEF nextStep
<1> HIDE DEF T
<1>3. QED
  BY <1>1, <1>2, LeastElement

\* A step that is certain to do something is the next one when its turn comes.
LEMMA NextStepIsAt ==
  ASSUME NEW code, Len(code.steps) \in Nat, top.at \in 1 .. Len(code.steps),
         ~MayPass(code.steps[top.at])
  PROVE  nextStep(code) = top.at
<1> DEFINE end == Len(code.steps) + 1
           T == {end} \cup {i \in top.at .. end - 1 : ~MayPass(code.steps[i])}
<1>1. T \in SUBSET Nat /\ top.at \in T /\ \A y \in T : top.at <= y
  OBVIOUS
<1>2. nextStep(code) = Min(T)
  BY DEF nextStep
<1> HIDE DEF T
<1>3. Min(T) \in T /\ Min(T) <= top.at
  BY <1>1, LeastElement
<1>4. top.at <= Min(T) /\ Min(T) \in Nat /\ top.at \in Nat
  BY <1>1, <1>3
<1>5. QED
  BY <1>2, <1>3, <1>4

LEMMA SteadyOn ==
  ASSUME NEW d, NEW e, Follows(e, d), NEW programs, Steady(e, programs)
  PROVE  Steady(d, programs)
  BY FollowsOn DEF Steady

\* The actions by the kind of a value call functions of the protocol.
LEMMA DispatchSteady ==
  ASSUME NEW step, NEW programs, CallsKnown(step, programs), step.op \in {"member", "this"},
         NEW k \in Nat \ {0}, NEW n, NEW d, DocOK(d, k),
         NEW s, StackOK(s, k), s # << >>, FramesIn(s, programs),
         status = "walking", Dispatch(step.cases, n, d, s)
  PROVE  Steady(d, programs)
<1> DEFINE a == ActionFor(step.cases, d[n].kind)
<1>1. a.act \in {"run", "each"} => a.prog \in DOMAIN programs
  <2>1. CASE d[n].kind \in DOMAIN step.cases
    <3>1. a = step.cases[d[n].kind]
      BY <2>1 DEF ActionFor
    <3>2. a \in ActionsOf(step)
      BY <2>1, <3>1 DEF ActionsOf
    <3>3. QED
      BY <3>2 DEF CallsKnown
  <2>2. CASE d[n].kind \notin DOMAIN step.cases
    BY <2>2 DEF ActionFor, InvalidShape
  <2>3. QED
    BY <2>1, <2>2
<1>2. Perform(a, n, d, s)
  BY DEF Dispatch
<1> HIDE DEF a
<1>3. QED
  BY <1>1, <1>2, PerformSteady

\* The function on top of the stack goes on at a step of its own.
LEMMA TopAt ==
  ASSUME NEW k, StackOK(stack, k), stack # << >>, NEW v
  PROVE  LET s == At(v)
             t == s[Len(s)]
         IN  /\ s # << >>
             /\ t.at = v /\ t.node = top.node /\ t.prog = top.prog /\ t.each = top.each
<1>1. PICK l \in Nat : IsList(stack, l) /\ \A i \in 1 .. l : FrameOK(stack[i], k)
  BY DEF StackOK
<1>2. Len(stack) = l /\ DOMAIN stack = 1 .. l /\ l # 0
  BY <1>1, ListLength DEF IsList
<1> DEFINE f == [stack[l] EXCEPT !.at = v]
           s == At(v)
<1>3. s = [stack EXCEPT ![l] = f]
  BY <1>2 DEF At
<1>4. DOMAIN stack[l] = {"node", "prog", "each", "at", "scope"}
  BY <1>1, <1>2 DEF FrameOK
<1>5. f.at = v /\ f.node = top.node /\ f.prog = top.prog /\ f.each = top.each
  BY <1>2, <1>4 DEF top
<1> HIDE DEF f, s
<1>6. IsList(s, l) /\ s[l] = f
  <2>1. IsList(stack, l) /\ l \in 1 .. l
    BY <1>1, <1>2
  <2>2. QED
    BY <1>3, <2>1 DEF IsList
<1>7. Len(s) = l /\ s # << >>
  BY <1>2, <1>6, ListLength
<1>8. QED
  BY <1>5, <1>6, <1>7 DEF s

LEMMA FindSteady ==
  ASSUME NEW k \in 1 .. MaxNodes, DocOK(doc, k), StackOK(stack, k), stack # << >>,
         Placed, status = "walking", NEW code, NEW i \in Nat,
         CallsKnown(code.steps[i], Programs), code.steps[i].op = "member", Find(code, i)
  PROVE  Steady(doc, Programs)
<1> DEFINE step == code.steps[i]
           old == Settled(code, i)
           s == At(i + 1)
<1>1. k \in Nat \ {0} /\ k \in 0 .. MaxNodes
  BY WalkerAssumption
<1>2. StackOK(s, k) /\ s # << >> /\ DocOK(old, k)
  BY <1>1, TopFacts
<1>3. Follows(old, doc)
  BY <1>1, AbsentFollows DEF Settled
<1>4. FramesIn(s, Programs)
  <2>1. i + 1 \in Nat \ {0}
    OBVIOUS
  <2>2. QED
    BY <2>1, FramesSet DEF At, Placed
<1>5. CASE Dispatch(step.cases, doc[top.node].members[step.key], old, s)
  <2> HIDE DEF step, old, s
  <2>1. Steady(old, Programs)
    BY <1>1, <1>2, <1>4, <1>5, DispatchSteady DEF step
  <2>2. QED
    BY <1>3, <2>1, SteadyOn
<1>6. CASE \E kind \in step.kinds :
                LET d == WithMember(old, top.node, step.key, kind)
                IN  Dispatch(step.cases, Len(d), d, s)
  <2>1. PICK kind :
           Dispatch(step.cases, Len(WithMember(old, top.node, step.key, kind)),
                    WithMember(old, top.node, step.key, kind), s)
    BY <1>6
  <2> DEFINE d == WithMember(old, top.node, step.key, kind)
  <2> HIDE DEF step, old, s
  <2>2. DocOK(d, k + 1) /\ Follows(d, old)
    BY <1>1, <1>2, MemberMade DEF IsMade
  <2>3. StackOK(s, k + 1) /\ k + 1 \in Nat \ {0}
    BY <1>1, <1>2, StackGrows
  <2>4. Dispatch(step.cases, Len(d), d, s)
    BY <2>1
  <2> HIDE DEF d
  <2>5. Steady(d, Programs)
    BY <1>2, <1>4, <2>2, <2>3, <2>4, DispatchSteady DEF step
  <2>6. QED
    BY <1>3, <2>2, <2>5, SteadyOn
<1>7. QED
  BY <1>5, <1>6 DEF Find

\* The functions on the stack, and the document, of a walk that goes on.
Walking(k) ==
    /\ k \in 1 .. MaxNodes /\ DocOK(doc, k) /\ StackOK(stack, k) /\ stack # << >>
    /\ Placed /\ status = "walking"

LEMMA OrdinarySteady ==
  ASSUME NEW k, Walking(k),
         \/ WalkMember(Code) \/ WalkMissing(Code) \/ WalkAmbiguous(Code) \/ WalkThis(Code)
         \/ WalkSwitch(Code) \/ WalkReturn(Code)
  PROVE  Steady(doc, Programs)
<1> DEFINE steps == Programs[top.prog]
           i == nextStep(Code)
<1>1. /\ k \in Nat \ {0} /\ k \in 0 .. MaxNodes
      /\ DocOK(doc, k) /\ StackOK(stack, k) /\ stack # << >> /\ Placed /\ status = "walking"
      /\ FramesIn(stack, Programs)
  BY WalkerAssumption DEF Walking, Placed
<1>2. Code.steps = steps
  BY DEF Code
<1>3. top.at \in Nat \ {0} /\ Sound(steps, Programs)
  BY <1>1, TopPlaced
<1>4. i \in Nat \ {0}
  BY <1>2, <1>3, NextStepBounds DEF Sound
<1> HIDE DEF i
<1>5. ASSUME NEW j \in Nat \ {0}, j <= Len(steps)
      PROVE  CallsKnown(steps[j], Programs) /\ RefusesOthers(steps[j])
  <2>1. j \in DOMAIN steps
    BY <1>3, <1>5 DEF Sound
  <2>2. QED
    BY <1>3, <2>1 DEF Sound
<1> HIDE DEF steps
<1>6. \A j : DocOK(Settled(Code, j), k) /\ Follows(Settled(Code, j), doc)
  <2>1. \A j : DocOK(Settled(Code, j), k)
    BY <1>1, TopFacts
  <2>2. \A j : Follows(Settled(Code, j), doc)
    BY <1>1, AbsentFollows DEF Settled
  <2>3. QED
    BY <2>1, <2>2
<1>7. StackOK(At(i + 1), k) /\ At(i + 1) # << >> /\ FramesIn(At(i + 1), Programs)
  <2>1. i + 1 \in Nat \ {0}
    BY <1>4
  <2>2. FramesIn(At(i + 1), Programs)
    BY <1>1, <2>1, FramesSet DEF At
  <2>3. QED
    BY <1>1, <2>2, TopFacts
<1>8. CASE WalkMember(Code)
  <2>1. PICK j \in top.at .. i :
           /\ j <= Len(steps) /\ Code.steps[j].op = "member" /\ Find(Code, j)
    BY <1>2, <1>8 DEF WalkMember, i
  <2>2. j \in Nat \ {0}
    BY <1>3, <1>4
  <2>3. CallsKnown(Code.steps[j], Programs)
    BY <1>2, <1>5, <2>1, <2>2
  <2>4. QED
    BY <1>1, <2>1, <2>2, <2>3, FindSteady DEF Walking
<1>9. CASE WalkMissing(Code)
  BY <1>9 DEF WalkMissing, Fail, Steady, Fails
<1>10. CASE WalkAmbiguous(Code)
  BY <1>10 DEF WalkAmbiguous, Fail, Steady, Fails
<1>11. CASE WalkThis(Code)
  <2>1. /\ i <= Len(steps) /\ steps[i].op = "this"
        /\ Dispatch(steps[i].cases, top.node, Settled(Code, i), At(i + 1))
    BY <1>2, <1>11 DEF WalkThis, i
  <2>2. CallsKnown(steps[i], Programs)
    BY <1>4, <1>5, <2>1
  <2>3. Steady(Settled(Code, i), Programs)
    BY <1>1, <1>6, <1>7, <2>1, <2>2, DispatchSteady
  <2>4. QED
    BY <1>6, <2>3, SteadyOn
<1>12. CASE WalkSwitch(Code)
  <2> DEFINE step == steps[i]
             value == doc[doc[top.node].members[step.key]].value
             a == IF ~Present(doc, top.node, step.key) THEN step.absent
                  ELSE IF value \in DOMAIN step.table THEN step.table[value] ELSE step.other
  <2>1. i <= Len(steps) /\ step.op = "switch" /\ Perform(a, top.node, Settled(Code, i), At(i + 1))
    BY <1>2, <1>12 DEF WalkSwitch, i
  <2>2. CallsKnown(step, Programs)
    BY <1>4, <1>5, <2>1
  <2>3. a \in ActionsOf(step)
    BY <2>1 DEF ActionsOf
  <2>4. a.act \in {"run", "each"} => a.prog \in DOMAIN Programs
    BY <2>2, <2>3 DEF CallsKnown
  <2> HIDE DEF a
  <2>5. Steady(Settled(Code, i), Programs)
    BY <1>1, <1>6, <1>7, <2>1, <2>4, PerformSteady
  <2>6. QED
    BY <1>6, <2>5, SteadyOn
<1>13. CASE WalkReturn(Code)
  <2>1. doc' = Settled(Code, i) /\ stack' = Front(stack) /\ UNCHANGED collector
    BY <1>13 DEF WalkReturn, collector, i
  <2>2. FramesIn(stack', Programs)
    BY <1>1, <2>1, FramesFront
  <2>3. GoesOn
    BY <1>1, <2>1, CallsGoOn
  <2>4. QED
    BY <1>6, <2>1, <2>2, <2>3 DEF Steady
<1>14. QED
  BY <1>8, <1>9, <1>10, <1>11, <1>12, <1>13

LEMMA ElementSteady ==
  ASSUME NEW k, Walking(k), WalkElement
  PROVE  Steady(doc, Programs)
<1>1. /\ k \in Nat \ {0} /\ DocOK(doc, k) /\ StackOK(stack, k) /\ stack # << >>
      /\ FramesIn(stack, Programs) /\ status = "walking"
  BY WalkerAssumption DEF Walking, Placed
<1>2. GoesOn
  <2>1. UNCHANGED collector
    BY DEF WalkElement
  <2>2. QED
    BY <1>1, <2>1, CallsGoOn
<1>3. CASE stack' = Front(stack) /\ doc' = doc
  BY <1>1, <1>2, <1>3, FramesFront, SameFollows DEF Steady
<1>4. CASE /\ \E kind : doc' = Append(doc, Node(kind, top.node, ""))
           /\ stack' = Append(stack, Frame(Len(doc) + 1, top.prog, FALSE, top.scope))
  <2>1. PICK kind : doc' = Append(doc, Node(kind, top.node, ""))
    BY <1>4
  <2>2. Node(kind, top.node, "").value # "unknown"
    BY DEF Node
  <2>3. Follows(doc', doc)
    BY <1>1, <2>1, <2>2, AppendFollows
  <2>4. top.prog \in DOMAIN Programs
    BY <1>1, TopPlaced DEF Walking
  <2>5. FrameIn(Frame(Len(doc) + 1, top.prog, FALSE, top.scope), Programs)
    BY <2>4 DEF Frame, FrameIn
  <2>6. FramesIn(stack', Programs)
    BY <1>1, <1>4, <2>5, FramesPush
  <2>7. QED
    BY <1>2, <2>3, <2>6 DEF Steady
<1>5. QED
  BY <1>3, <1>4 DEF WalkElement

\* The function on top of the stack stands at a switch on the string at node n.
NextOnTop == Programs[top.prog][top.at]
AtSwitch(n) ==
    /\ stack # << >> /\ ~top.each
    /\ top.at \in 1 .. Len(Programs[top.prog]) /\ NextOnTop.op = "switch"
    /\ Present(doc, top.node, NextOnTop.key)
    /\ doc[top.node].members[NextOnTop.key] = n

\* From there the walk can only report the value, or fail.
LEMMA SwitchReports ==
  ASSUME NEW k, Walking(k), NEW n, AtSwitch(n), doc[n].value = "unknown", WalkStep
  PROVE  Fails \/ unsupported'
<1> DEFINE steps == Programs[top.prog]
           step == steps[top.at]
<1>1. Sound(steps, Programs)
  BY TopPlaced DEF Walking
<1>2. /\ Code.steps = steps /\ top.at \in 1 .. Len(steps) /\ step.op = "switch"
      /\ Known(doc, top.node, step.key) /\ Present(doc, top.node, step.key)
      /\ doc[doc[top.node].members[step.key]].value = "unknown"
  BY DEF AtSwitch, NextOnTop, Code, Present
<1>3. /\ Len(steps) \in Nat /\ step.guard = << >>
      /\ "unknown" \notin DOMAIN step.table /\ step.other.act \in {"reject", "role"}
  BY <1>1, <1>2 DEF Sound, RefusesOthers
<1>4. ~MayPass(step)
  <2>1. DOMAIN << >> = {}
    OBVIOUS
  <2>2. Enabled(step)
    BY <1>3, <2>1 DEF Enabled
  <2>3. QED
    BY <1>2, <2>2 DEF MayPass
<1>5. nextStep(Code) = top.at
  BY <1>2, <1>3, <1>4, NextStepIsAt
<1>6. Code.steps[nextStep(Code)] = step
  BY <1>2, <1>5
<1> HIDE DEF steps, step
<1>7. \/ WalkMember(Code) \/ WalkMissing(Code) \/ WalkAmbiguous(Code) \/ WalkThis(Code)
      \/ WalkDiscriminator(Code) \/ WalkSwitch(Code) \/ WalkReturn(Code)
  BY DEF WalkStep
<1>8. ~WalkMember(Code)
  <2>1. SUFFICES ASSUME NEW j \in top.at .. nextStep(Code) PROVE Code.steps[j].op # "member"
    BY DEF WalkMember
  <2>2. j = top.at
    BY <1>2, <1>5
  <2>3. QED
    BY <1>2, <1>5, <1>6, <2>2
<1>9. ~WalkThis(Code) /\ ~WalkReturn(Code)
  BY <1>2, <1>3, <1>5, <1>6 DEF WalkThis, WalkReturn
<1>10. CASE WalkMissing(Code) \/ WalkAmbiguous(Code)
  BY <1>10 DEF WalkMissing, WalkAmbiguous, Fail, Fails
<1>11. CASE WalkDiscriminator(Code)
  <2>1. Fail("shape")
    BY <1>2, <1>6, <1>11 DEF WalkDiscriminator
  <2>2. QED
    BY <2>1 DEF Fail, Fails
<1>12. CASE WalkSwitch(Code)
  <2>1. PICK d, s : Perform(step.other, top.node, d, s)
    BY <1>2, <1>3, <1>6, <1>12 DEF WalkSwitch
  <2>2. \E S : ReportUnsupported(S)
    BY <1>3, <2>1 DEF Perform
  <2>3. QED
    BY <2>2 DEF ReportUnsupported
<1>13. QED
  BY <1>7, <1>8, <1>9, <1>10, <1>11, <1>12

\* The document made up with a value, which is the last node's.
LEMMA LastChanged ==
  ASSUME NEW d, NEW k \in Nat, DocOK(d, k + 1), NEW v
  PROVE  LET e == Append(Front(d), [Last(d) EXCEPT !.value = v])
         IN  DOMAIN e = 1 .. k + 1 /\ \A i \in 1 .. k : e[i] = d[i]
<1> DEFINE b == SubSeq(d, 1, k)
           r == [Last(d) EXCEPT !.value = v]
           e == Append(b, r)
<1>1. IsList(d, k + 1) /\ Len(d) = k + 1
  BY ListLength DEF DocOK
<1>2. Front(d) = b
  BY <1>1 DEF Front
<1>3. IsList(b, k) /\ \A i \in 1 .. k : b[i] = d[i]
  BY <1>1, ListPrefix
<1> HIDE DEF b, r
<1>4. IsExtended(e, b, k, r)
  BY <1>3, ListAppend
<1> HIDE DEF e
<1>5. DOMAIN e = 1 .. k + 1 /\ \A i \in 1 .. k : e[i] = d[i]
  BY <1>3, <1>4, ListLength DEF IsExtended
<1>6. QED
  BY <1>2, <1>5 DEF e, r

\* Noting which members are absent changes no member that is there.
LEMMA SettledKeeps ==
  ASSUME NEW k, DocOK(doc, k), NEW n \in 1 .. k, NEW key, Present(doc, n, key), NEW code, NEW i
  PROVE  /\ key \in DOMAIN Settled(code, i)[n].members
         /\ Settled(code, i)[n].members[key] = doc[n].members[key]
<1>1. PICK keys : Settled(code, i) = WithoutMembers(doc, top.node, keys)
  BY DEF Settled
<1> DEFINE old == doc[top.node].members
           new == [j \in DOMAIN old \cup keys |-> IF j \in DOMAIN old THEN old[j] ELSE 0]
           e == [doc EXCEPT ![top.node].members = new]
<1>2. Settled(code, i) = e
  BY <1>1 DEF WithoutMembers
<1>3. n \in DOMAIN doc /\ DOMAIN doc[n] = {"kind", "parent", "key", "value", "scope", "open", "members"}
  BY ListLength DEF DocOK, NodeOK
<1>4. key \in DOMAIN doc[n].members
  BY DEF Present, Known
<1>5. n = top.node => key \in DOMAIN new /\ new[key] = doc[n].members[key]
  BY <1>4
<1> HIDE DEF new
<1>6. e[n] = IF n = top.node THEN [doc[n] EXCEPT !.members = new] ELSE doc[n]
  BY <1>3
<1> HIDE DEF e
<1>7. key \in DOMAIN e[n].members /\ e[n].members[key] = doc[n].members[key]
  BY <1>3, <1>4, <1>5, <1>6
<1>8. QED
  BY <1>2, <1>7

\* A function that stays at a switch whose string is there stands at it.
LEMMA StaysAtSwitch ==
  ASSUME NEW k, StackOK(stack, k), stack # << >>, ~top.each, NEW i, stack' = At(i),
         doc'[1].key = doc[1].key,
         i \in 1 .. Len(Programs[top.prog]), Programs[top.prog][i].op = "switch",
         NEW n, n # 0,
         LET key == Programs[top.prog][i].key
         IN  key \in DOMAIN doc'[top.node].members /\ doc'[top.node].members[key] = n
  PROVE  AtSwitch(n)'
<1>1. /\ stack' # << >> /\ top'.at = i /\ top'.node = top.node
      /\ top'.prog = top.prog /\ top'.each = top.each
  BY TopAt DEF top
<1>2. Programs' = Programs
  BY DEF Programs, Protocol
<1>3. NextOnTop' = Programs[top.prog][i]
  BY <1>1, <1>2 DEF NextOnTop
<1>4. Present(doc, top.node, NextOnTop.key)' /\ (doc[top.node].members[NextOnTop.key] = n)'
  BY <1>1, <1>3 DEF Present, Known
<1>5. QED
  BY <1>1, <1>2, <1>3, <1>4 DEF AtSwitch

NoneUnknown == \A n \in DOMAIN doc : doc[n].value # "unknown"
UnknownAtSwitch == \A n \in DOMAIN doc : doc[n].value = "unknown" => AtSwitch(n)

\* A step that reads a value leaves the walk at the switch on it.
Reads ==
    /\ doc'[1].key = doc[1].key /\ FramesIn(stack', Programs) /\ GoesOn
    /\ NoneUnknown => UnknownAtSwitch'

LEMMA DiscriminatorReads ==
  ASSUME NEW k, Walking(k), ~top.each, WalkDiscriminator(Code)
  PROVE  Fails \/ Reads
<1> DEFINE steps == Programs[top.prog]
           i == nextStep(Code)
           step == steps[i]
           n == top.node
           value == doc[n].members[step.key]
           settled == Settled(Code, i)
           made == WithMember(settled, n, step.key, "string")
<1>1. /\ k \in Nat \ {0} /\ k \in 0 .. MaxNodes
      /\ DocOK(doc, k) /\ StackOK(stack, k) /\ stack # << >> /\ Placed /\ status = "walking"
      /\ FramesIn(stack, Programs)
  BY WalkerAssumption DEF Walking, Placed
<1>2. Code.steps = steps
  BY DEF Code
<1>3. top.at \in Nat \ {0} /\ Sound(steps, Programs)
  BY <1>1, TopPlaced
<1>4. i \in Nat \ {0}
  BY <1>2, <1>3, NextStepBounds DEF Sound
<1>5. i \in 1 .. Len(steps) /\ step.op = "switch"
  <2>1. i <= Len(steps) /\ step.op = "switch"
    BY <1>2 DEF WalkDiscriminator
  <2> HIDE DEF i
  <2>2. QED
    BY <1>3, <1>4, <2>1 DEF Sound
<1>6. /\ n \in 1 .. k /\ DocOK(settled, k) /\ Follows(settled, doc)
      /\ FramesIn(At(i), Programs) /\ DOMAIN settled = 1 .. k /\ DOMAIN doc = 1 .. k
  <2>1. n \in 1 .. k /\ DocOK(settled, k)
    BY <1>1, TopFacts
  <2>2. Follows(settled, doc)
    BY <1>1, AbsentFollows DEF Settled
  <2> HIDE DEF i
  <2>3. FramesIn(At(i), Programs)
    BY <1>1, <1>4, FramesSet DEF At
  <2> HIDE DEF settled
  <2>4. QED
    BY <1>1, <2>1, <2>2, <2>3, ListLength DEF DocOK
<1>7. CASE /\ doc' = WithoutMembers(settled, n, {step.key})
           /\ stack' = At(i) /\ UNCHANGED collector
  <2>1. Follows(doc', settled)
    BY <1>1, <1>6, <1>7, AbsentFollows
  <2>2. Follows(doc', doc)
    BY <1>6, <2>1, FollowsOn
  <2>3. NoneUnknown => UnknownAtSwitch'
    BY <2>2 DEF Follows, NoneUnknown, UnknownAtSwitch
  <2>4. GoesOn
    BY <1>1, <1>7, CallsGoOn
  <2>5. QED
    BY <1>6, <1>7, <2>2, <2>3, <2>4 DEF Reads, Follows
<1>8. CASE /\ \E v : doc' = Append(Front(made), [Last(made) EXCEPT !.value = v])
           /\ MarkOpaque({Len(made)})
           /\ stack' = At(i)
  <2>1. IsMade(made, settled, k, n, step.key, "string")
    BY <1>1, <1>6, MemberMade
  <2>2. GoesOn
    BY <1>1, <1>8, CallsGoOn
  <2> HIDE DEF made
  <2>3. DocOK(made, k + 1) /\ Follows(made, settled)
    BY <2>1 DEF IsMade
  <2>4. step.key \in DOMAIN made[n].members /\ made[n].members[step.key] = k + 1
    BY <1>6, <2>1 DEF IsMade
  <2>5. DOMAIN doc' = 1 .. k + 1 /\ \A m \in 1 .. k : doc'[m] = made[m]
    <3>1. PICK v : doc' = Append(Front(made), [Last(made) EXCEPT !.value = v])
      BY <1>8
    <3> DEFINE e == Append(Front(made), [Last(made) EXCEPT !.value = v])
    <3>2. DOMAIN e = 1 .. k + 1 /\ \A m \in 1 .. k : e[m] = made[m]
      BY <1>1, <2>3, LastChanged
    <3> HIDE DEF e
    <3>3. doc' = e
      BY <3>1 DEF e
    <3>4. QED
      BY <3>2, <3>3
  <2>6. Follows(made, doc)
    BY <1>6, <2>3, FollowsOn
  <2>7. doc'[1].key = doc[1].key
    BY <1>1, <2>5, <2>6 DEF Follows
  <2>8. AtSwitch(k + 1)'
    <3>1. doc'[n] = made[n] /\ k + 1 # 0
      BY <1>1, <1>6, <2>5
    <3> HIDE DEF i
    <3>2. QED
      BY <1>1, <1>5, <1>8, <2>4, <2>7, <3>1, StaysAtSwitch
  <2>9. ASSUME NoneUnknown, NEW m \in DOMAIN doc', doc'[m].value = "unknown"
        PROVE  AtSwitch(m)'
    <3>1. m \in 1 .. k \/ m = k + 1
      BY <1>1, <2>5
    <3>2. ASSUME m \in 1 .. k PROVE FALSE
      <4>1. DOMAIN made = 1 .. k + 1
        BY <2>3, ListLength DEF DocOK
      <4>2. m \in DOMAIN made /\ made[m].value = "unknown"
        BY <1>1, <2>5, <2>9, <3>2, <4>1
      <4>3. QED
        BY <2>6, <2>9, <4>2 DEF Follows, NoneUnknown
    <3>3. m = k + 1
      BY <3>1, <3>2
    <3>4. QED
      BY <2>8, <3>3
  <2>10. NoneUnknown => UnknownAtSwitch'
    BY <2>9 DEF UnknownAtSwitch
  <2>11. QED
    BY <1>6, <1>8, <2>2, <2>7, <2>10 DEF Reads
<1>9. CASE /\ Present(doc, n, step.key)
           /\ \E v : doc' = [settled EXCEPT ![value].value = v]
           /\ MarkOpaque({value})
           /\ stack' = At(i)
  <2>1. PICK c : c = value
    OBVIOUS
  <2>2. c # 0 /\ step.key \in DOMAIN settled[n].members /\ settled[n].members[step.key] = c
    <3>1. \A key : Present(doc, n, key) =>
             key \in DOMAIN settled[n].members /\ settled[n].members[key] = doc[n].members[key]
      BY <1>1, <1>6, SettledKeeps
    <3> HIDE DEF settled, n, step
    <3>2. QED
      BY <1>9, <2>1, <3>1 DEF Present
  <2>3. GoesOn
    BY <1>1, <1>9, CallsGoOn
  <2>4. PICK v : doc' = [settled EXCEPT ![c].value = v]
    BY <1>9, <2>1
  <2> HIDE DEF settled, value, i
  <2>5. /\ DOMAIN doc' = 1 .. k
        /\ \A m \in 1 .. k : doc'[m] = IF m = c THEN [settled[m] EXCEPT !.value = v] ELSE settled[m]
    BY <1>6, <2>4
  <2>6. ASSUME NEW m \in 1 .. k
        PROVE  /\ doc'[m].key = settled[m].key /\ doc'[m].members = settled[m].members
               /\ m # c => doc'[m].value = settled[m].value
    <3>1. DOMAIN settled[m] = {"kind", "parent", "key", "value", "scope", "open", "members"}
      BY <1>6 DEF DocOK, NodeOK
    <3>2. QED
      BY <2>5, <3>1
  <2>7. doc'[1].key = doc[1].key
    BY <1>1, <1>6, <2>6 DEF Follows
  <2>8. AtSwitch(c)'
    <3>1. doc'[n].members = settled[n].members
      BY <1>6, <2>6
    <3>2. QED
      BY <1>1, <1>5, <1>9, <2>2, <2>7, <3>1, StaysAtSwitch
  <2>9. ASSUME NoneUnknown, NEW m \in DOMAIN doc', doc'[m].value = "unknown"
        PROVE  AtSwitch(m)'
    <3>1. m \in 1 .. k
      BY <2>5
    <3>2. m = c
      BY <1>6, <2>6, <2>9, <3>1 DEF Follows, NoneUnknown
    <3>3. QED
      BY <2>8, <3>2
  <2>10. NoneUnknown => UnknownAtSwitch'
    BY <2>9 DEF UnknownAtSwitch
  <2>11. QED
    BY <1>6, <1>9, <2>3, <2>7, <2>10 DEF Reads
<1>10. CASE Fail("shape")
  BY <1>10 DEF Fail, Fails
<1>11. QED
  BY <1>2, <1>7, <1>8, <1>9, <1>10 DEF WalkDiscriminator

\* Unknown values are reported, or about to be; and a walk that is over has returned
\* from all its functions.
UnknownInv ==
    /\ WellFormed /\ Placed
    /\ status = "done" => stack = << >>
    /\ unsupported \/ UnknownAtSwitch

LEMMA UnknownStarts == Init => UnknownInv
<1> SUFFICES ASSUME Init PROVE UnknownInv
  OBVIOUS
<1>1. WellFormed /\ status = "walking"
  BY WalkerStarts DEF CollectorInit, Init
<1>2. PICK protocol \in Protocols :
         /\ doc = <<Node("object", 0, protocol)>>
         /\ stack = <<Frame(1, entries[protocol], FALSE, "user"),
                      Frame(1, "validateRootControls", FALSE, "user")>>
  BY DEF Init
<1>3. Protocol = protocol /\ NoneUnknown
  <2>1. DOMAIN doc = {1} /\ doc[1] = Node("object", 0, protocol)
    BY <1>2
  <2> DEFINE root == Node("object", 0, protocol)
  <2>2. root.key = protocol /\ root.value = ""
    BY DEF Node
  <2> HIDE DEF root
  <2>3. doc[1] = root
    BY <2>1 DEF root
  <2>4. QED
    BY <2>1, <2>2, <2>3 DEF Protocol, NoneUnknown
<1>4. {entries[protocol], "validateRootControls"} \subseteq DOMAIN Programs
  BY <1>3, ProgramsAssumption DEF Programs
<1>5. DOMAIN stack = {1, 2}
  BY <1>2
<1>6. FrameIn(stack[1], Programs) /\ FrameIn(stack[2], Programs)
  BY <1>2, <1>4 DEF Frame, FrameIn
<1>7. Placed
  BY <1>3, <1>5, <1>6 DEF Placed, FramesIn
<1>8. UnknownAtSwitch
  BY <1>3 DEF NoneUnknown, UnknownAtSwitch
<1>9. QED
  BY <1>1, <1>7, <1>8 DEF UnknownInv

LEMMA FailurePreserves ==
  ASSUME Fails, WellFormed'
  PROVE  UnknownInv'
<1>1. DOMAIN << >> = {}
  OBVIOUS
<1>2. QED
  BY <1>1 DEF Fails, UnknownInv, Placed, UnknownAtSwitch

LEMMA StepPreserves ==
  ASSUME UnknownInv, WalkStep \/ WalkElement, WellFormed'
  PROVE  UnknownInv'
<1>1. PICK k \in 0 .. MaxNodes : DocOK(doc, k) /\ StackOK(stack, k)
  BY DEF UnknownInv, WellFormed
<1>2. stack # << >> /\ status = "walking"
  BY DEF WalkStep, WalkElement
<1>3. Walking(k)
  <2>1. top.node \in 1 .. k
    BY <1>1, <1>2, TopFacts
  <2>2. k \in 1 .. MaxNodes
    BY <2>1, WalkerAssumption
  <2>3. QED
    BY <1>1, <1>2, <2>2 DEF Walking, UnknownInv
<1>4. SUFFICES ASSUME ~Fails PROVE UnknownInv'
  BY FailurePreserves
<1>5. Steady(doc, Programs) \/ (WalkStep /\ Reads)
  <2>1. CASE WalkElement
    BY <1>3, <2>1, ElementSteady
  <2>2. CASE WalkStep
    <3>1. ~top.each
      BY <2>2 DEF WalkStep
    <3>2. \/ WalkMember(Code) \/ WalkMissing(Code) \/ WalkAmbiguous(Code) \/ WalkThis(Code)
          \/ WalkDiscriminator(Code) \/ WalkSwitch(Code) \/ WalkReturn(Code)
      BY <2>2 DEF WalkStep
    <3>3. QED
      BY <1>3, <1>4, <2>2, <3>1, <3>2, OrdinarySteady, DiscriminatorReads
  <2>3. QED
    BY <2>1, <2>2
<1>6. /\ doc'[1].key = doc[1].key /\ FramesIn(stack', Programs) /\ GoesOn
      /\ NoneUnknown => UnknownAtSwitch'
  <2>1. Steady(doc, Programs) =>
          /\ doc'[1].key = doc[1].key /\ FramesIn(stack', Programs) /\ GoesOn
          /\ NoneUnknown => UnknownAtSwitch'
    BY <1>4 DEF Steady, Follows, NoneUnknown, UnknownAtSwitch
  <2>2. QED
    BY <1>5, <2>1 DEF Reads
<1>7. Placed'
  <2>1. Protocol' = Protocol /\ Programs' = Programs /\ Protocol \in Protocols
    BY <1>2, <1>6 DEF Programs, Protocol, UnknownInv, Placed
  <2>2. QED
    BY <1>6, <2>1 DEF Placed
<1>8. unsupported' \/ UnknownAtSwitch'
  <2>1. CASE unsupported
    BY <1>6, <2>1 DEF GoesOn
  <2>2. CASE NoneUnknown
    BY <1>6, <2>2
  <2>3. CASE ~unsupported /\ ~NoneUnknown
    <3>1. PICK n \in DOMAIN doc : doc[n].value = "unknown" /\ AtSwitch(n)
      BY <2>3 DEF NoneUnknown, UnknownInv, UnknownAtSwitch
    <3>2. ~WalkElement
      BY <3>1 DEF AtSwitch, WalkElement
    <3>3. QED
      BY <1>3, <1>4, <3>1, <3>2, SwitchReports
  <2>4. QED
    BY <2>1, <2>2, <2>3
<1>9. QED
  BY <1>6, <1>7, <1>8 DEF UnknownInv, GoesOn

LEMMA EndPreserves ==
  ASSUME UnknownInv, Finish, WellFormed'
  PROVE  UnknownInv'
<1>1. stack = << >> /\ stack' = << >> /\ doc' = doc
  BY DEF Finish
<1>2. unsupported => unsupported'
  BY DEF Finish, EnsureStringDisposition
<1>3. unsupported \/ NoneUnknown
  BY <1>1 DEF UnknownInv, UnknownAtSwitch, AtSwitch, NoneUnknown
<1>4. unsupported' \/ UnknownAtSwitch'
  BY <1>1, <1>2, <1>3 DEF NoneUnknown, UnknownAtSwitch
<1>5. QED
  BY <1>1, <1>4 DEF UnknownInv, Placed

LEMMA UnknownPreserved == UnknownInv /\ [Next]_vars => UnknownInv'
<1> SUFFICES ASSUME UnknownInv, [Next]_vars PROVE UnknownInv'
  OBVIOUS
<1>1. WellFormed'
  BY WalkerKeeps DEF UnknownInv, Keeps
<1>2. CASE Interrupt
  BY <1>1, <1>2, FailurePreserves DEF Interrupt, Fail, Fails
<1>3. CASE UNCHANGED vars
  BY <1>1, <1>3 DEF vars, UnknownInv, Placed, FramesIn, Programs, Protocol, UnknownAtSwitch,
                    AtSwitch, NextOnTop, top, Present, Known
<1>4. QED
  BY <1>1, <1>2, <1>3, StepPreserves, EndPreserves DEF Next

\* No body is accepted in which a walk function has switched on a role or type it did
\* not know, however large the body is and however deep in it the value stands: what
\* has been read is reported before anything else happens, even if the value is all
\* there is to report, and no later call takes the report back.
THEOREM UnknownIsRefused == Spec => []UnknownRefused
<1>1. UnknownInv => UnknownRefused
  BY DEF UnknownInv, UnknownRefused, Accepted, UnknownAtSwitch, AtSwitch
<1>2. QED
  BY <1>1, UnknownStarts, UnknownPreserved, PTL DEF Spec
=============================================================================
