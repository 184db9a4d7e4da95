-------------------------- MODULE Interceptor_proofs --------------------------
(***************************************************************************)
(* Proofs about Interceptor, for any number of threads, requests, policies *)
(* and scan states, and for bodies of any length.                          *)
(*                                                                         *)
(* The inductive invariant says of every scan state that its placeholders  *)
(* are numbered apart (RendererOK) and that what it remembers as scanned   *)
(* is clean under its own policy (MemoryOK), and of every pass that it     *)
(* uses a state of its own revision and that the positions it has been     *)
(* through are sifted (PassOK): nothing sensitive is left there, nothing   *)
(* blocked was there, a sensitive text was replaced by what the state now  *)
(* holds for it, and a placeholder in a credential field is one the state  *)
(* vouches for.  What the state had produced when the pass began to scan   *)
(* is still there and was not touched.  Other passes only ever add to what *)
(* a state has produced (Extends), so all of this lasts.                   *)
(***************************************************************************)
EXTENDS Interceptor, SequenceTheorems, TLAPS

-----------------------------------------------------------------------------
(* The inductive invariant *)

Keys == Kinds \X Texts
Replacements == (Labels \X Nat) \cup {<<>>}
SeenMap == UNION {[D -> Replacements] : D \in SUBSET Keys}
Renderer == [ready : BOOLEAN, seen : SeenMap, next : [Kinds -> Nat]]
Revisioned == 1..Len(Policies)
State == [revision : Revisioned, recorded : BOOLEAN, fingerprint : Seq(Texts),
          renderer : Renderer]
Scanning == {"seen", "trust", "render"}
Pass == [pc : {"idle", "begin"} \cup Scanning, rid : RequestIDs \cup {NoRequestID},
         revision : Revisioned, body : Seq(Texts), out : Seq(Texts), known : SUBSET Nat,
         state : Nat, at : Nat, failed : BOOLEAN,
         verdict : {"none", "forward", "terminate"}]

TypeOK ==
    /\ installed \in Revisioned
    /\ states \in Seq(State)
    /\ DOMAIN entries \subseteq RequestIDs
    /\ \A r \in DOMAIN entries : entries[r] \in 1..Len(states)
    /\ pass \in [Threads -> Pass]
    /\ \A t \in Threads : pass[t].state <= Len(states)

\* What a renderer has produced, given the configured replacements: nothing for a
\* kind that removes its values; otherwise a counted placeholder, and no two
\* values of a kind share one.  A renderer that was not created yet has none.
RendererOK(replacement, r) ==
    /\ \A k \in DOMAIN r.seen :
         IF replacement[k[1]] = NoText THEN r.seen[k] = <<>>
         ELSE r.seen[k] \in Labels \X Nat /\ r.seen[k][2] <= r.next[k[1]]
    /\ \A k, l \in DOMAIN r.seen :
         (k[1] = l[1] /\ replacement[k[1]] # NoText /\ r.seen[k] = r.seen[l]) => k = l
    /\ ~r.ready => DOMAIN r.seen = {}

\* What a renderer that has seen these keys has produced.
Shown(seen) == {seen[k] : k \in DOMAIN seen}

\* A text that may stand at position i of what is forwarded.
Passable(policy, seen, i, text) ==
    /\ ~IsSensitive(policy, i, text)
    /\ (i \in Credential /\ IsPlaceholder(text)) => policy.recognised \/ text \in Shown(seen)

Clean(policy, seen, body) == \A i \in DOMAIN body : Passable(policy, seen, i, body[i])

\* What a state of a redacting revision remembers as scanned is clean.
MemoryOK(s) ==
    (s.recorded /\ Policies[s.revision].mode = "redact") =>
        Clean(Policies[s.revision], s.renderer.seen, s.fingerprint)

StateOK(s) == RendererOK(Policies[s.revision].replacement, s.renderer) /\ MemoryOK(s)

\* Position i of the pass p is done.
Sifted(p, seen, i) ==
    LET policy == Policies[p.revision]
    IN /\ Passable(policy, seen, i, p.out[i])
       /\ ~IsBlocked(policy, p.body[i])
       /\ IsSensitive(policy, i, p.body[i]) =>
            LET key == FindingKey(policy, i, p.body[i])
            IN key \in DOMAIN seen /\ p.out[i] = seen[key]

\* What the renderer had produced when the pass began to scan is untouched.
Kept(p, seen) ==
    \A i \in p.known :
        i \in 1..Len(p.body) /\ p.body[i] \in Shown(seen) /\ p.out[i] = p.body[i]

\* A pass that uses the state s.
ScanOK(p, s) ==
    /\ s.revision = p.revision
    /\ ~Policies[p.revision].skip
    /\ p.pc \in {"trust", "render"} =>
         /\ s.renderer.ready
         /\ Len(p.out) = Len(p.body)
         /\ p.at \in 1..(Len(p.body) + 1)
         /\ \A i \in p.at..Len(p.body) : p.out[i] = p.body[i]
         /\ Kept(p, s.renderer.seen)
         /\ Policies[p.revision].mode = "redact" =>
              \A i \in 1..(p.at - 1) : Sifted(p, s.renderer.seen, i)
    /\ p.pc = "render" =>
         /\ p.at <= Len(p.body) /\ IsFinding(Policies[p.revision], p.at, p.body[p.at])
         /\ p.at \notin p.known

\* A pass that has forwarded its request and had no reason to let findings through.
Delivered(p) == p.verdict = "forward" /\ ~(Policies[p.revision].mode = "audit"
                                           \/ Policies[p.revision].skip \/ p.failed)

DeliveredOK(p, s) ==
    /\ s.revision = p.revision
    /\ Len(p.out) = Len(p.body)
    /\ \A i \in 1..Len(p.body) : Sifted(p, s.renderer.seen, i)

PassOK(p) ==
    /\ p.pc \in Scanning => p.state # 0 /\ ScanOK(p, states[p.state])
    /\ p.verdict = "forward" =>
         p.pc = "idle" /\ \A i \in p.known : p.out[i] = p.body[i]
    /\ Delivered(p) => p.state # 0 /\ DeliveredOK(p, states[p.state])

IInv ==
    /\ TypeOK
    /\ \A s \in 1..Len(states) : StateOK(states[s])
    /\ \A t \in Threads : PassOK(pass[t])

-----------------------------------------------------------------------------
(* The texts and what a policy finds in them *)

LEMMA PolicyType ==
    ASSUME NEW i \in Revisioned
    PROVE  Policies[i] \in Policy /\ Policies[i].blocked \subseteq Policies[i].found
BY InterceptorConstants DEF Revisioned

LEMMA TextShape ==
    ASSUME NEW x \in Texts
    PROVE  \/ IsPlaceholder(x) /\ ~IsPlain(x) /\ x \in Labels \X Nat
           \/ IsPlain(x) /\ ~IsPlaceholder(x) /\ x[1] \in Values
           \/ x = <<>> /\ ~IsPlain(x) /\ ~IsPlaceholder(x)
BY DEF Texts, IsPlaceholder, IsPlain

\* A replacement is a text, and none of the plain ones.
LEMMA ReplacementText ==
    ASSUME NEW x \in Replacements PROVE x \in Texts /\ ~IsPlain(x)
BY DEF Replacements, Texts, IsPlain

\* What is not plain is neither sensitive nor blocked.
LEMMA NotPlainHarmless ==
    ASSUME NEW x, ~IsPlain(x), NEW policy, NEW i
    PROVE  ~IsSensitive(policy, i, x) /\ ~IsBlocked(policy, x)
BY DEF IsSensitive, IsBlocked

\* The engine reports what is sensitive, and what a blocking rule matches is.
LEMMA SensitiveIsFound ==
    ASSUME NEW policy \in Policy, policy.blocked \subseteq policy.found, NEW i, NEW x
    PROVE  /\ IsSensitive(policy, i, x) => IsFinding(policy, i, x)
           /\ IsBlocked(policy, x) => IsSensitive(policy, i, x)
<1>1. IsPlain(x) => x # <<>> /\ ~IsPlaceholder(x)
  BY DEF IsPlain, IsPlaceholder
<1> QED BY <1>1 DEF IsSensitive, IsFinding, IsBlocked

LEMMA KeyIsKey ==
    ASSUME NEW policy \in Policy, NEW i, NEW x \in Texts, IsFinding(policy, i, x)
    PROVE  FindingKey(policy, i, x) \in Keys
<1>1. (i \in Credential /\ ~IsBlocked(policy, x)) \/ x[1] \in Values
  BY TextShape DEF IsFinding, IsBlocked
<1>2. (IF i \in Credential /\ ~IsBlocked(policy, x) THEN "secret" ELSE KindOf[x[1]]) \in Kinds
  BY <1>1, InterceptorConstants
<1> QED BY <1>2 DEF FindingKey, Keys

LEMMA KeyText == \A policy, i, x : FindingKey(policy, i, x)[2] = x
BY DEF FindingKey

-----------------------------------------------------------------------------
(* The renderer *)

\* Every placeholder of f is one of g.
Extends(f, g) == \A k \in DOMAIN f : k \in DOMAIN g /\ g[k] = f[k]

LEMMA SeenMapType ==
    ASSUME NEW f \in SeenMap
    PROVE  DOMAIN f \subseteq Keys /\ \A k \in DOMAIN f : f[k] \in Replacements
BY DEF SeenMap

LEMMA NoRendererOK ==
    /\ NoRenderer \in Renderer /\ DOMAIN NoRenderer.seen = {}
    /\ [NoRenderer EXCEPT !.ready = TRUE] \in Renderer
    /\ [NoRenderer EXCEPT !.ready = TRUE].ready
    /\ \A base : RendererOK(base, NoRenderer) /\ RendererOK(base, [NoRenderer EXCEPT !.ready = TRUE])
<1> DEFINE f == [k \in {} |-> <<>>]
           g == [k \in Kinds |-> 0]
<1>1. f \in [{} -> Replacements] /\ DOMAIN f = {}
  OBVIOUS
<1>2. f \in SeenMap
  <2>1. {} \in SUBSET Keys
    OBVIOUS
  <2> HIDE DEF f
  <2> QED BY <1>1, <2>1 DEF SeenMap
<1>3. g \in [Kinds -> Nat]
  OBVIOUS
<1>4. NoRenderer = [ready |-> FALSE, seen |-> f, next |-> g]
  BY DEF NoRenderer
<1> HIDE DEF f, g
<1> QED BY <1>1, <1>2, <1>3, <1>4 DEF Renderer, RendererOK

\* GetOrCreateRendererState keeps what there is.
LEMMA RendererOfOK ==
    ASSUME NEW s \in State, NEW base, RendererOK(base, s.renderer)
    PROVE  /\ RendererOf(s) \in Renderer /\ RendererOK(base, RendererOf(s)) /\ RendererOf(s).ready
           /\ Extends(s.renderer.seen, RendererOf(s).seen)
<1>1. CASE s.renderer.ready
  BY <1>1 DEF RendererOf, State, Extends
<1>2. CASE ~s.renderer.ready
  <2>1. RendererOf(s) = [NoRenderer EXCEPT !.ready = TRUE] /\ DOMAIN s.renderer.seen = {}
    BY <1>2 DEF RendererOf, RendererOK
  <2> QED BY <2>1, NoRendererOK DEF Extends
<1> QED BY <1>1, <1>2

\* numberedPlaceholder
LEMMA NumberedType ==
    ASSUME NEW base \in Labels \cup {NoText}, NEW n \in Nat
    PROVE  /\ NumberedPlaceholder(base, n) \in Replacements
           /\ base = NoText => NumberedPlaceholder(base, n) = <<>>
           /\ base # NoText => /\ NumberedPlaceholder(base, n) \in Labels \X Nat
                           /\ NumberedPlaceholder(base, n)[2] = n
BY DEF NumberedPlaceholder, Replacements

\* Render numbers a new plaintext apart from the others of its kind, unless the
\* kind removes its values, and keeps a known one.
LEMMA RendererAfterOK ==
    ASSUME NEW base \in [Kinds -> Labels \cup {NoText}],
           NEW r \in Renderer, RendererOK(base, r), r.ready, NEW key \in Keys
    PROVE  LET q == RendererAfter(r, base, key)
           IN /\ q \in Renderer /\ RendererOK(base, q) /\ q.ready
              /\ Extends(r.seen, q.seen) /\ key \in DOMAIN q.seen
              /\ q.seen[key] \in Replacements
<1>0. /\ r.seen \in SeenMap /\ r.next \in [Kinds -> Nat] /\ key[1] \in Kinds
      /\ DOMAIN r.seen \subseteq Keys /\ \A k \in DOMAIN r.seen : r.seen[k] \in Replacements
  BY SeenMapType DEF Renderer, Keys
<1>1. CASE key \in DOMAIN r.seen
  BY <1>0, <1>1 DEF RendererAfter, Extends
<1>2. CASE key \notin DOMAIN r.seen
  <2> DEFINE n == r.next[key[1]] + 1
             x == NumberedPlaceholder(base[key[1]], n)
             D == DOMAIN r.seen \cup {key}
             f == [k \in D |-> IF k = key THEN x ELSE r.seen[k]]
             g == [r.next EXCEPT ![key[1]] = n]
             q == [ready |-> r.ready, seen |-> f, next |-> g]
  <2>1. RendererAfter(r, base, key) = q
    BY <1>0, <1>2 DEF RendererAfter, Renderer
  <2>2. n \in Nat /\ g \in [Kinds -> Nat] /\ g[key[1]] = n /\ r.next[key[1]] \in Nat
    BY <1>0
  <2>3. \A c \in Kinds : r.next[c] <= g[c]
    BY <1>0, <2>2
  <2>4. /\ base[key[1]] \in Labels \cup {NoText} /\ x \in Replacements
        /\ base[key[1]] = NoText => x = <<>>
        /\ base[key[1]] # NoText => x \in Labels \X Nat /\ x[2] = n
    <3>1. base[key[1]] \in Labels \cup {NoText}
      BY <1>0
    <3> HIDE DEF n
    <3> QED BY <2>2, <3>1, NumberedType
  <2> HIDE DEF x
  <2>5. DOMAIN f = D /\ f[key] = x /\ \A k \in DOMAIN r.seen : f[k] = r.seen[k]
    BY <1>2
  <2>6. f \in [D -> Replacements] /\ D \in SUBSET Keys
    BY <1>0, <2>4
  <2> HIDE DEF f, g, D
  <2>7. f \in SeenMap
    BY <2>6 DEF SeenMap
  <2>8. q \in Renderer /\ q.ready /\ q.seen = f /\ q.next = g
    BY <2>2, <2>7 DEF Renderer
  <2>9. \A k \in DOMAIN f : IF base[k[1]] = NoText THEN f[k] = <<>>
                             ELSE f[k] \in Labels \X Nat /\ f[k][2] <= g[k[1]]
    <3>1. ASSUME NEW k \in DOMAIN r.seen
          PROVE  IF base[k[1]] = NoText THEN f[k] = <<>>
                 ELSE f[k] \in Labels \X Nat /\ f[k][2] <= g[k[1]]
      <4>1. f[k] = r.seen[k] /\ k[1] \in Kinds
        BY <1>0, <2>5, <3>1 DEF Keys
      <4>2. CASE base[k[1]] = NoText
        BY <3>1, <4>1, <4>2 DEF RendererOK
      <4>3. CASE base[k[1]] # NoText
        <5>1. r.seen[k] \in Labels \X Nat /\ r.seen[k][2] <= r.next[k[1]]
          BY <3>1, <4>3 DEF RendererOK
        <5>2. r.seen[k][2] \in Nat /\ r.next[k[1]] \in Nat /\ g[k[1]] \in Nat
              /\ r.next[k[1]] <= g[k[1]]
          BY <1>0, <2>2, <2>3, <4>1, <5>1
        <5>3. r.seen[k][2] <= g[k[1]]
          BY <5>1, <5>2
        <5> QED BY <4>1, <4>3, <5>1, <5>3
      <4> QED BY <4>2, <4>3
    <3>2. IF base[key[1]] = NoText THEN f[key] = <<>>
          ELSE f[key] \in Labels \X Nat /\ f[key][2] <= g[key[1]]
      BY <2>2, <2>4, <2>5
    <3> QED BY <3>1, <3>2, <2>5 DEF D
  <2>10. ASSUME NEW k \in DOMAIN r.seen, k[1] = key[1], base[key[1]] # NoText PROVE f[k] # f[key]
    <3>1. r.seen[k] \in Labels \X Nat /\ r.seen[k][2] <= r.next[key[1]]
      BY <2>10 DEF RendererOK
    <3>2. f[key][2] = r.next[key[1]] + 1 /\ r.next[key[1]] \in Nat
      BY <2>2, <2>4, <2>5, <2>10
    <3> QED BY <2>5, <3>1, <3>2
  <2>11. \A k, l \in DOMAIN f : (k[1] = l[1] /\ base[k[1]] # NoText /\ f[k] = f[l]) => k = l
    BY <2>5, <2>10 DEF D, RendererOK
  <2> HIDE DEF q
  <2> QED BY <2>1, <2>4, <2>5, <2>6, <2>8, <2>9, <2>11 DEF RendererOK, Extends, D
<1> QED BY <1>1, <1>2

\* What a renderer has produced is a replacement.
LEMMA ProducedAreReplacements ==
    ASSUME NEW r \in Renderer, NEW x \in Produced(r) PROVE x \in Replacements
BY SeenMapType DEF Produced, Renderer

LEMMA ProducedIsShown == \A r : Produced(r) = Shown(r.seen)
BY DEF Produced, Shown

-----------------------------------------------------------------------------
(* What the steps of other passes do to a pass: they only add placeholders *)

Extended(s, q) ==
    /\ q.revision = s.revision
    /\ s.renderer.ready => q.renderer.ready
    /\ Extends(s.renderer.seen, q.renderer.seen)

Grows ==
    /\ states' \in Seq(State)
    /\ Len(states) <= Len(states')
    /\ \A s \in 1..Len(states) : Extended(states[s], states'[s])

LEMMA ShownKeeps ==
    ASSUME NEW f, NEW g, Extends(f, g) PROVE Shown(f) \subseteq Shown(g)
BY DEF Shown, Extends

LEMMA PassableKeeps ==
    ASSUME NEW f, NEW g, Extends(f, g), NEW policy, NEW i, NEW x, Passable(policy, f, i, x)
    PROVE  Passable(policy, g, i, x)
BY ShownKeeps DEF Passable

LEMMA SiftedKeeps ==
    ASSUME NEW p, NEW f, NEW g, Extends(f, g), NEW i, Sifted(p, f, i) PROVE Sifted(p, g, i)
<1> DEFINE policy == Policies[p.revision]
<1>1. Passable(policy, g, i, p.out[i])
  BY PassableKeeps DEF Sifted
<1> QED BY <1>1 DEF Sifted, Extends

LEMMA KeptKeeps ==
    ASSUME NEW p, NEW f, NEW g, Extends(f, g), Kept(p, f) PROVE Kept(p, g)
BY ShownKeeps DEF Kept

LEMMA PassKeeps ==
    ASSUME TypeOK, Grows, NEW p \in Pass, p.state <= Len(states), PassOK(p)
    PROVE  PassOK(p)'
<1>1. p.state \in Nat /\ Len(states) \in Nat
  BY DEF Pass, TypeOK
<1>2. p.state # 0 => Extended(states[p.state], states'[p.state])
  BY <1>1 DEF Grows
<1> DEFINE s == states[p.state]
           q == states'[p.state]
<1>3. ASSUME p.pc \in Scanning PROVE p.state # 0 /\ ScanOK(p, q)
  <2>1. p.state # 0 /\ ScanOK(p, s) /\ Extended(s, q)
    BY <1>2, <1>3 DEF PassOK
  <2> HIDE DEF s, q
  <2> QED BY <2>1, SiftedKeeps, KeptKeeps DEF ScanOK, Extended
<1>4. ASSUME Delivered(p) PROVE p.state # 0 /\ DeliveredOK(p, q)
  <2>1. p.state # 0 /\ DeliveredOK(p, s) /\ Extended(s, q)
    BY <1>2, <1>4 DEF PassOK
  <2> HIDE DEF s, q
  <2> QED BY <2>1, SiftedKeeps DEF DeliveredOK, Extended
<1> QED BY <1>3, <1>4 DEF PassOK

\* The step of pass t that leaves it as p.
LEMMA PassStep ==
    ASSUME IInv, Grows, \A s \in 1..Len(states') : StateOK(states'[s]),
           installed' = installed, DOMAIN entries' \subseteq RequestIDs,
           \A r \in DOMAIN entries' : entries'[r] \in 1..Len(states'),
           NEW t \in Threads, NEW p \in Pass, p.state <= Len(states'), PassOK(p)',
           pass' = [pass EXCEPT ![t] = p]
    PROVE  IInv'
<1>0. TypeOK /\ pass \in [Threads -> Pass] /\ Len(states) \in Nat /\ Len(states') \in Nat
  BY DEF IInv, TypeOK, Grows
<1>1. pass' \in [Threads -> Pass] /\ pass'[t] = p /\ \A u \in Threads \ {t} : pass'[u] = pass[u]
  BY <1>0
<1>2. \A u \in Threads \ {t} : pass[u] \in Pass /\ pass[u].state <= Len(states) /\ PassOK(pass[u])
                               /\ pass[u].state \in Nat
  BY <1>0 DEF IInv, TypeOK, Pass
<1>3. ASSUME NEW u \in Threads PROVE pass'[u].state <= Len(states') /\ PassOK(pass[u])'
  <2>1. CASE u = t
    BY <1>1, <2>1 DEF PassOK
  <2>2. CASE u # t
    <3>1. PICK w \in Pass : w = pass[u]
      BY <1>2, <2>2
    <3>2. PassOK(w)' /\ w = pass'[u] /\ w.state <= Len(states')
      BY <1>0, <1>1, <1>2, <2>2, <3>1, PassKeeps DEF Grows
    <3> QED BY <3>2 DEF PassOK
  <2> QED BY <2>1, <2>2
<1>4. TypeOK'
  BY <1>0, <1>1, <1>3 DEF TypeOK, Grows
<1>5. (\A s \in 1..Len(states) : StateOK(states[s]))'
  BY DEF StateOK
<1> QED BY <1>3, <1>4, <1>5 DEF IInv

\* The steps that leave the scan states alone.
LEMMA SameStates ==
    ASSUME IInv, states' = states
    PROVE  /\ Grows /\ \A s \in 1..Len(states') : StateOK(states'[s])
           /\ \A p \in Pass : PassOK(p)' <=> PassOK(p)
<1>1. states \in Seq(State) /\ Len(states) <= Len(states)
  BY DEF IInv, TypeOK
<1>2. \A s \in 1..Len(states) : Extended(states[s], states[s])
  BY DEF Extended, Extends
<1> QED BY <1>1, <1>2 DEF IInv, Grows, PassOK

-----------------------------------------------------------------------------
(* Every step keeps the invariant *)

\* What the steps of pass t start from.
LEMMA Before ==
    ASSUME IInv, NEW t \in Threads
    PROVE  /\ TypeOK /\ pass[t] \in Pass /\ PassOK(pass[t]) /\ pass[t].state <= Len(states)
           /\ pass \in [Threads -> Pass] /\ states \in Seq(State) /\ Len(states) \in Nat
           /\ DOMAIN entries \subseteq RequestIDs
           /\ \A r \in DOMAIN entries : entries[r] \in 1..Len(states)
BY DEF IInv, TypeOK

\* The pass after the interception has forwarded out.
Sent(p, out, failed) ==
    [pc |-> "idle", rid |-> NoRequestID, revision |-> p.revision, body |-> p.body, out |-> out,
     known |-> p.known, state |-> p.state, at |-> 0, failed |-> failed, verdict |-> "forward"]

Ended == [pc |-> "idle", rid |-> NoRequestID, revision |-> 1, body |-> <<>>, out |-> <<>>,
          known |-> {}, state |-> 0, at |-> 0, failed |-> FALSE, verdict |-> "terminate"]

LEMMA RevisionOne == 1 \in Revisioned /\ Len(Policies) \in Nat
BY InterceptorConstants, EmptySeq, LenProperties DEF Revisioned

LEMMA SetTerminated ==
    ASSUME NEW i \in Pass
    PROVE  [i EXCEPT !.verdict = "terminate"]
           = [pc |-> i.pc, rid |-> i.rid, revision |-> i.revision, body |-> i.body,
              out |-> i.out, known |-> i.known, state |-> i.state, at |-> i.at,
              failed |-> i.failed, verdict |-> "terminate"]
BY DEF Pass

LEMMA IdlePass ==
    /\ Idle \in Pass /\ Idle.pc = "idle" /\ Idle.rid = NoRequestID /\ Idle.revision = 1
    /\ Idle.body = <<>> /\ Idle.out = <<>> /\ Idle.known = {} /\ Idle.state = 0 /\ Idle.at = 0
    /\ Idle.failed = FALSE /\ Idle.verdict = "none"
<1>1. <<>> \in Seq(Texts)
  OBVIOUS
<1> QED BY <1>1, RevisionOne DEF Idle, Pass

LEMMA SentIs ==
    ASSUME NEW t \in Threads, NEW out, NEW failed, Forward(t, out, failed)
    PROVE  pass' = [pass EXCEPT ![t] = Sent(pass[t], out, failed)]
BY DEF Forward, Sent

LEMMA EndedIs ==
    ASSUME NEW t \in Threads, Terminate(t) PROVE pass' = [pass EXCEPT ![t] = Ended]
<1> DEFINE d == [Idle EXCEPT !.verdict = "terminate"]
<1>1. d = Ended
  BY SetTerminated, IdlePass DEF Ended
<1>2. pass' = [pass EXCEPT ![t] = d]
  BY DEF Terminate
<1> HIDE DEF d
<1> QED BY <1>1, <1>2

LEMMA SentType ==
    ASSUME NEW p \in Pass, NEW out \in Seq(Texts), NEW failed \in BOOLEAN
    PROVE  Sent(p, out, failed) \in Pass
BY DEF Sent, Pass

LEMMA EndedType == Ended \in Pass /\ Ended.state = 0 /\ PassOK(Ended)'
<1>1. Ended.pc = "idle" /\ Ended.verdict = "terminate" /\ Ended.state = 0
  BY DEF Ended
<1>2. Ended \in Pass
  <2>1. <<>> \in Seq(Texts)
    OBVIOUS
  <2> QED BY <2>1, RevisionOne DEF Ended, Pass
<1>3. PassOK(Ended)'
  BY <1>1 DEF PassOK, Scanning, Delivered
<1> QED BY <1>1, <1>2, <1>3

\* A pass that forwards its body and is waived has nothing more to show.
LEMMA WaivedOK ==
    ASSUME NEW p \in Pass, NEW failed \in BOOLEAN,
           failed \/ Policies[p.revision].skip
    PROVE  PassOK(Sent(p, p.body, failed))'
BY DEF PassOK, Sent, Scanning, Delivered

\* handleFailure either ends the request or forwards it as failed.
LEMMA FailureOK ==
    ASSUME IInv, Grows, \A s \in 1..Len(states') : StateOK(states'[s]),
           installed' = installed, entries' = entries,
           NEW t \in Threads, NEW blocked \in BOOLEAN, HandleFailure(t, blocked)
    PROVE  IInv'
<1>1. /\ pass[t] \in Pass /\ pass[t].state <= Len(states) /\ pass[t].state \in Nat
      /\ Len(states) \in Nat /\ Len(states') \in Nat /\ Len(states) <= Len(states')
      /\ DOMAIN entries \subseteq RequestIDs
      /\ \A r \in DOMAIN entries : entries[r] \in 1..Len(states)
  BY Before DEF Pass, Grows
<1>2. PICK p \in Pass : p = pass[t]
  BY <1>1
<1>5. /\ DOMAIN entries' \subseteq RequestIDs
      /\ \A r \in DOMAIN entries' : entries'[r] \in 1..Len(states')
  BY <1>1
<1>3. CASE Forward(t, pass[t].body, ~blocked) /\ ~blocked
  <2>1. pass' = [pass EXCEPT ![t] = Sent(p, p.body, TRUE)]
    BY <1>2, <1>3, SentIs
  <2>2. Sent(p, p.body, TRUE) \in Pass /\ PassOK(Sent(p, p.body, TRUE))'
        /\ Sent(p, p.body, TRUE).state = p.state
    BY SentType, WaivedOK DEF Pass, Sent
  <2>3. Sent(p, p.body, TRUE).state <= Len(states')
    <3>1. p.state <= Len(states')
      BY <1>1, <1>2
    <3> QED BY <2>2, <3>1
  <2> QED BY <1>5, <2>1, <2>2, <2>3, PassStep
<1>4. CASE Terminate(t)
  <2>1. pass' = [pass EXCEPT ![t] = Ended] /\ Ended.state <= Len(states')
    BY <1>1, <1>4, EndedIs, EndedType
  <2> QED BY <1>5, <2>1, EndedType, PassStep
<1> QED BY <1>3, <1>4 DEF HandleFailure

LEMMA InitOK == Init => IInv
<1> SUFFICES ASSUME Init PROVE IInv OBVIOUS
<1>1. Idle \in Pass /\ Idle.state = 0 /\ Idle.pc = "idle" /\ Idle.verdict = "none"
  BY IdlePass
<1>2. PassOK(Idle)
  BY <1>1 DEF PassOK, Scanning, Delivered
<1>3. states \in Seq(State) /\ Len(states) = 0 /\ DOMAIN entries = {}
  BY DEF Init
<1>4. \A t \in Threads : pass[t] = Idle
  BY DEF Init
<1>5. TypeOK
  BY <1>1, <1>3, <1>4, RevisionOne DEF Init, TypeOK
<1> QED BY <1>2, <1>3, <1>4, <1>5 DEF IInv

LEMMA BeginOK ==
    ASSUME IInv, NEW t \in Threads, NEW rid \in RequestIDs \cup {NoRequestID},
           NEW body \in Submitted, Begin(t, rid, body)
    PROVE  IInv'
<1>1. body \in Seq(Texts) /\ installed \in Revisioned /\ <<>> \in Seq(Texts)
  BY InterceptorConstants DEF Submitted, IInv, TypeOK, Pass
<1> DEFINE d == [pc |-> "begin", rid |-> rid, revision |-> installed, body |-> body,
                 out |-> <<>>, known |-> {}, state |-> 0, at |-> 0, failed |-> FALSE,
                 verdict |-> "none"]
<1>2. d.pc = "begin" /\ d.verdict = "none" /\ d.state = 0 /\ d \in Pass
  BY <1>1 DEF Pass
<1>3. pass' = [pass EXCEPT ![t] = d] /\ states' = states
      /\ installed' = installed /\ entries' = entries
  BY DEF Begin
<1> HIDE DEF d
<1>5. PICK q \in Pass : q = d
  BY <1>2
<1>6. q.pc = "begin" /\ q.verdict = "none" /\ q.state = 0
  BY <1>2, <1>5
<1>7. PassOK(q)
  BY <1>6 DEF PassOK, Scanning, Delivered
<1>8. Grows /\ (\A s \in 1..Len(states') : StateOK(states'[s])) /\ PassOK(q)'
  BY <1>3, <1>7, SameStates
<1>9. /\ q.state <= Len(states') /\ DOMAIN entries' \subseteq RequestIDs
      /\ \A r \in DOMAIN entries' : entries'[r] \in 1..Len(states')
  BY <1>3, <1>6, Before
<1>10. pass' = [pass EXCEPT ![t] = q] /\ installed' = installed
  BY <1>3, <1>5
<1> QED BY <1>8, <1>9, <1>10, PassStep

LEMMA SkipOK ==
    ASSUME IInv, NEW t \in Threads, Skip(t) PROVE IInv'
<1>1. PICK p \in Pass : p = pass[t]
  BY Before
<1> DEFINE q == Sent(p, p.body, FALSE)
<1>2. pass' = [pass EXCEPT ![t] = q]
  BY <1>1, SentIs DEF Skip
<1>3. q \in Pass /\ PassOK(q)' /\ q.state = p.state
  BY <1>1, SentType, WaivedOK DEF Pass, Sent, Skip, PolicyOf
<1>4. Grows /\ \A s \in 1..Len(states') : StateOK(states'[s])
  BY SameStates DEF Skip
<1>5. installed' = installed /\ entries' = entries /\ states' = states
  BY DEF Skip
<1> HIDE DEF q
<1> QED BY <1>1, <1>2, <1>3, <1>4, <1>5, Before, PassStep

LEMMA FailsOK ==
    ASSUME IInv, NEW t \in Threads, EmptyBody(t) \/ ScanFails(t) PROVE IInv'
<1>1. states' = states /\ installed' = installed /\ entries' = entries /\ HandleFailure(t, FALSE)
  BY DEF EmptyBody, ScanFails
<1> QED BY <1>1, SameStates, FailureOK

\* A state whose renderer, or whose memory, is replaced.
LEMMA NewStateOK ==
    ASSUME NEW r \in Revisioned PROVE NewState(r) \in State /\ StateOK(NewState(r))
                                      /\ NewState(r).revision = r
<1>1. <<>> \in Seq(Texts)
  OBVIOUS
<1>2. PICK n \in Renderer : n = NoRenderer
  BY NoRendererOK
<1>3. NewState(r) = [revision |-> r, recorded |-> FALSE, fingerprint |-> <<>>, renderer |-> n]
  BY <1>2 DEF NewState
<1> QED BY <1>1, <1>2, <1>3, NoRendererOK DEF State, StateOK, MemoryOK

LEMMA SetRenderer ==
    ASSUME NEW s \in State, NEW r \in Renderer
    PROVE  LET q == [s EXCEPT !.renderer = r]
           IN /\ q \in State /\ q.renderer = r /\ q.revision = s.revision
              /\ q.recorded = s.recorded /\ q.fingerprint = s.fingerprint
BY DEF State

LEMMA RendererReplaced ==
    ASSUME IInv, NEW s \in 1..Len(states), NEW r \in Renderer,
           RendererOK(Policies[states[s].revision].replacement, r),
           states[s].renderer.ready => r.ready, Extends(states[s].renderer.seen, r.seen),
           states' = [states EXCEPT ![s].renderer = r]
    PROVE  /\ Grows /\ \A q \in 1..Len(states') : StateOK(states'[q])
           /\ Len(states') = Len(states) /\ states'[s].renderer = r
<1> DEFINE d == [states[s] EXCEPT !.renderer = r]
<1>0. states \in Seq(State) /\ states[s] \in State /\ Len(states) \in Nat /\ StateOK(states[s])
  BY DEF IInv, TypeOK
<1>1. /\ d \in State /\ d.renderer = r /\ d.revision = states[s].revision
      /\ d.recorded = states[s].recorded /\ d.fingerprint = states[s].fingerprint
  BY <1>0, SetRenderer
<1>2. states' = [states EXCEPT ![s] = d]
  OBVIOUS
<1> HIDE DEF d
<1>3. /\ states' \in Seq(State) /\ Len(states') = Len(states) /\ states'[s] = d
      /\ \A q \in 1..Len(states) : q # s => states'[q] = states[q]
  BY <1>0, <1>1, <1>2, ExceptSeq
<1>4. Extended(states[s], d) /\ StateOK(d)
  <2>1. MemoryOK(d)
    BY <1>0, <1>1, PassableKeeps DEF StateOK, MemoryOK, Clean
  <2> QED BY <1>0, <1>1, <2>1 DEF Extended, StateOK
<1>5. \A q \in 1..Len(states) : Extended(states[q], states[q])
  BY DEF Extended, Extends
<1>6. \A q \in 1..Len(states) : Extended(states[q], states'[q]) /\ StateOK(states'[q])
  BY <1>3, <1>4, <1>5 DEF IInv
<1> QED BY <1>0, <1>1, <1>3, <1>6 DEF Grows

LEMMA AcquireOK ==
    ASSUME IInv, NEW t \in Threads, Acquire(t) PROVE IInv'
<1>0. PICK p \in Pass : p = pass[t]
  BY Before
<1>1. /\ ~Policies[p.revision].skip /\ p.pc = "begin" /\ PassOK(p) /\ p.revision \in Revisioned
      /\ installed' = installed /\ pass \in [Threads -> Pass]
      /\ states \in Seq(State) /\ Len(states) \in Nat
  BY <1>0, Before DEF Acquire, PolicyOf, Pass
\* Whatever state the pass is given, it is one of its revision.
<1>2. ASSUME NEW n \in Nat, Grows, \A s \in 1..Len(states') : StateOK(states'[s]),
             n \in 1..Len(states'), states'[n].revision = p.revision,
             DOMAIN entries' \subseteq RequestIDs,
             \A r \in DOMAIN entries' : entries'[r] \in 1..Len(states'),
             pass' = [pass EXCEPT ![t].pc = "seen", ![t].state = n]
      PROVE  IInv'
  <2> DEFINE e == [p EXCEPT !.pc = "seen", !.state = n]
  <2>1. pass' = [pass EXCEPT ![t] = e]
    BY <1>0, <1>1, <1>2
  <2>2. e \in Pass /\ e.pc = "seen" /\ e.state = n /\ e.revision = p.revision /\ e.verdict = p.verdict
    BY DEF Pass, Scanning
  <2> HIDE DEF e
  <2>3. PICK q \in Pass : q = e
    BY <2>2
  <2>4. q.pc = "seen" /\ q.state = n /\ q.revision = p.revision /\ q.verdict # "forward"
    BY <1>1, <2>2, <2>3 DEF PassOK
  <2>5. PassOK(q)'
    BY <1>1, <1>2, <2>4 DEF PassOK, ScanOK, Delivered, Scanning
  <2>6. pass' = [pass EXCEPT ![t] = q] /\ q.state <= Len(states')
    <3>1. n \in 1..Len(states') /\ Len(states') \in Nat
      BY <1>2 DEF Grows
    <3> QED BY <2>1, <2>3, <2>4, <3>1
  <2> QED BY <1>1, <1>2, <2>5, <2>6, PassStep
<1>3. CASE Bound(p.rid, p.revision) /\ UNCHANGED <<entries, states>>
           /\ pass' = [pass EXCEPT ![t].pc = "seen", ![t].state = entries[p.rid]]
  <2>1. entries[p.rid] \in 1..Len(states) /\ states[entries[p.rid]].revision = p.revision
    BY <1>3, Before DEF Bound
  <2>2. PICK n \in 1..Len(states) : n = entries[p.rid]
    BY <2>1
  <2>3. /\ n \in Nat /\ n \in 1..Len(states') /\ states'[n].revision = p.revision
        /\ DOMAIN entries' \subseteq RequestIDs
        /\ \A r \in DOMAIN entries' : entries'[r] \in 1..Len(states')
    BY <1>1, <1>3, <2>1, <2>2, Before
  <2>4. Grows /\ \A s \in 1..Len(states') : StateOK(states'[s])
    BY <1>3, SameStates
  <2>5. pass' = [pass EXCEPT ![t].pc = "seen", ![t].state = n]
    BY <1>3, <2>2
  <2> QED BY <1>2, <2>3, <2>4, <2>5
<1>4. CASE /\ states' = Append(states, NewState(p.revision))
           /\ entries' = Bind(p.rid, Len(states) + 1)
           /\ pass' = [pass EXCEPT ![t].pc = "seen", ![t].state = Len(states) + 1]
  <2>0. PICK d \in State : d = NewState(p.revision) /\ StateOK(d) /\ d.revision = p.revision
    BY <1>1, NewStateOK
  <2>1. /\ states' \in Seq(State) /\ Len(states') = Len(states) + 1
        /\ states'[Len(states) + 1] = d /\ \A s \in 1..Len(states) : states'[s] = states[s]
    BY <1>1, <1>4, <2>0
  <2>2. \A s \in 1..Len(states) : Extended(states[s], states[s])
    BY DEF Extended, Extends
  <2>3. \A s \in 1..Len(states') : s \in 1..Len(states) \/ s = Len(states) + 1
    BY <1>1, <2>1
  <2>4. Grows /\ \A s \in 1..Len(states') : StateOK(states'[s])
    BY <1>1, <2>0, <2>1, <2>2, <2>3 DEF Grows, IInv
  <2>5. /\ DOMAIN entries' \subseteq RequestIDs
        /\ \A r \in DOMAIN entries' : entries'[r] \in 1..Len(states')
    <3>1. p.rid \in RequestIDs \/ p.rid = NoRequestID
      BY DEF Pass
    <3>2. /\ DOMAIN entries \subseteq RequestIDs
          /\ \A r \in DOMAIN entries : entries[r] \in 1..(Len(states) + 1)
      BY <1>1, Before
    <3> QED BY <1>1, <1>4, <2>1, <3>1, <3>2 DEF Bind
  <2>6. PICK n \in Nat : n = Len(states) + 1
    BY <1>1
  <2>7. /\ n \in 1..Len(states') /\ states'[n].revision = p.revision
        /\ pass' = [pass EXCEPT ![t].pc = "seen", ![t].state = n]
    BY <1>1, <1>4, <2>0, <2>1, <2>6
  <2> QED BY <1>2, <2>4, <2>5, <2>6, <2>7
<1> QED BY <1>0, <1>3, <1>4 DEF Acquire

\* A body that was recognised as scanned is forwarded as it is.
LEMMA SeenBeforeOK ==
    ASSUME IInv, NEW t \in Threads, SeenBefore(t) PROVE IInv'
<1>0. PICK p \in Pass : p = pass[t]
  BY Before
<1>1. /\ p.pc = "seen" /\ PassOK(p) /\ p.state <= Len(states) /\ p.state \in Nat
      /\ installed' = installed /\ entries' = entries /\ states' = states
      /\ Seen(states[p.state], p.body) /\ p.revision \in Revisioned /\ p.body \in Seq(Texts)
      /\ states \in Seq(State) /\ Len(states) \in Nat
  BY <1>0, Before DEF SeenBefore, Pass
<1>2. PICK s \in State : s = states[p.state] /\ StateOK(s) /\ p.state \in 1..Len(states)
  BY <1>1 DEF IInv, PassOK, Scanning
<1>3. s.revision = p.revision /\ s.recorded /\ s.fingerprint = p.body
  BY <1>1, <1>2 DEF PassOK, ScanOK, Scanning, Seen
<1> DEFINE d == Sent(p, p.body, FALSE)
<1>4. /\ d \in Pass /\ d.pc = "idle" /\ d.verdict = "forward" /\ d.state = p.state
      /\ d.revision = p.revision /\ d.body = p.body /\ d.out = p.body
  BY <1>1, SentType DEF Sent
<1>5. pass' = [pass EXCEPT ![t] = d]
  BY <1>0, SentIs DEF SeenBefore
<1>6. PICK q \in Pass : q = d
  BY <1>4
<1>7. /\ q.pc = "idle" /\ q.verdict = "forward" /\ q.state = p.state /\ q.revision = p.revision
      /\ q.body = p.body /\ q.out = p.body
  BY <1>4, <1>6
<1> HIDE DEF d
<1>8. ASSUME Delivered(q) PROVE DeliveredOK(q, s)
  <2> DEFINE policy == Policies[q.revision]
  <2>1. policy \in Policy /\ policy.blocked \subseteq policy.found /\ policy.mode = "redact"
    BY <1>1, <1>7, <1>8, PolicyType DEF Delivered, Policy
  <2>2. Clean(policy, s.renderer.seen, q.body)
    BY <1>2, <1>3, <1>7, <2>1 DEF StateOK, MemoryOK
  <2>3. \A i \in 1..Len(q.body) : Passable(policy, s.renderer.seen, i, q.body[i])
    BY <1>1, <1>7, <2>2 DEF Clean
  <2>4. \A i \in 1..Len(q.body) : ~IsSensitive(policy, i, q.body[i])
    BY <2>3 DEF Passable
  <2>5. \A i \in 1..Len(q.body) : ~IsBlocked(policy, q.body[i])
    BY <2>1, <2>4, SensitiveIsFound
  <2> QED BY <1>3, <1>7, <2>3, <2>4, <2>5 DEF DeliveredOK, Sifted
<1>9. PassOK(q)
  BY <1>2, <1>7, <1>8 DEF PassOK, Scanning
<1>10. Grows /\ (\A u \in 1..Len(states') : StateOK(states'[u])) /\ PassOK(q)'
  BY <1>1, <1>9, SameStates
<1>11. /\ pass' = [pass EXCEPT ![t] = q] /\ q.state <= Len(states')
       /\ DOMAIN entries' \subseteq RequestIDs
       /\ \A r \in DOMAIN entries' : entries'[r] \in 1..Len(states')
  BY <1>1, <1>5, <1>6, <1>7, Before
<1> QED BY <1>1, <1>10, <1>11, PassStep

LEMMA GetOrCreateOK ==
    ASSUME IInv, NEW t \in Threads, GetOrCreateRendererState(t) PROVE IInv'
<1>0. PICK p \in Pass : p = pass[t]
  BY Before
<1>1. /\ p.pc = "seen" /\ PassOK(p) /\ p.state <= Len(states) /\ p.state \in Nat
      /\ installed' = installed /\ entries' = entries
      /\ states' = [states EXCEPT ![p.state].renderer = RendererOf(states[p.state])]
      /\ pass' = [pass EXCEPT ![t].pc = "trust", ![t].at = 1, ![t].out = p.body,
                              ![t].known = Known(RendererOf(states[p.state]), p.body)]
      /\ p.body \in Seq(Texts) /\ pass \in [Threads -> Pass]
      /\ states \in Seq(State) /\ Len(states) \in Nat
  BY <1>0, Before DEF GetOrCreateRendererState, Pass
<1>2. PICK s \in State : s = states[p.state] /\ StateOK(s) /\ p.state \in 1..Len(states)
                         /\ ScanOK(p, s)
  BY <1>1 DEF IInv, PassOK, Scanning
<1>3. PICK r \in Renderer : r = RendererOf(s) /\ r.ready /\ Extends(s.renderer.seen, r.seen)
                            /\ RendererOK(Policies[s.revision].replacement, r)
  BY <1>2, RendererOfOK DEF StateOK
<1>4. /\ Grows /\ \A q \in 1..Len(states') : StateOK(states'[q])
      /\ Len(states') = Len(states) /\ states'[p.state].renderer = r
  BY <1>1, <1>2, <1>3, RendererReplaced
<1>5. states'[p.state].revision = s.revision
  BY <1>2, <1>4 DEF Grows, Extended
<1>k. PICK known \in SUBSET Nat :
          /\ known = Known(r, p.body)
          /\ \A i \in known : i \in 1..Len(p.body) /\ p.body[i] \in Shown(r.seen)
  <2>1. Known(r, p.body) = {i \in 1..Len(p.body) : p.body[i] \in Shown(r.seen)}
    BY <1>1, ProducedIsShown DEF Known
  <2>2. Len(p.body) \in Nat
    BY <1>1
  <2>3. Known(r, p.body) \in SUBSET Nat
    BY <2>1, <2>2
  <2> QED BY <2>1, <2>3
<1> DEFINE d == [p EXCEPT !.pc = "trust", !.at = 1, !.out = p.body, !.known = known]
<1>6. /\ d \in Pass /\ d.pc = "trust" /\ d.at = 1 /\ d.out = p.body /\ d.body = p.body
      /\ d.known = known
      /\ d.state = p.state /\ d.revision = p.revision /\ d.verdict = p.verdict
  BY <1>1 DEF Pass, Scanning
<1>7. pass' = [pass EXCEPT ![t] = d]
  BY <1>0, <1>1, <1>2, <1>3, <1>k
<1> HIDE DEF d
<1>8. PICK q \in Pass : q = d
  BY <1>6
<1>9. /\ q.pc = "trust" /\ q.at = 1 /\ q.out = p.body /\ q.body = p.body
      /\ q.known = known /\ q.state = p.state /\ q.revision = p.revision /\ q.verdict # "forward"
  BY <1>1, <1>6, <1>8 DEF PassOK
<1>10. Len(p.body) \in Nat
  BY <1>1
<1>k2. Kept(q, states'[p.state].renderer.seen)
  BY <1>4, <1>9, <1>k DEF Kept
<1>11. ScanOK(q, states'[p.state])
  BY <1>2, <1>3, <1>4, <1>5, <1>9, <1>10, <1>k2 DEF ScanOK
<1>12. PassOK(q)'
  BY <1>2, <1>9, <1>11 DEF PassOK, Delivered
<1>13. /\ pass' = [pass EXCEPT ![t] = q] /\ q.state <= Len(states')
       /\ DOMAIN entries' \subseteq RequestIDs
       /\ \A u \in DOMAIN entries' : entries'[u] \in 1..Len(states')
  BY <1>1, <1>4, <1>7, <1>8, <1>9, Before
<1> QED BY <1>1, <1>4, <1>12, <1>13, PassStep

\* A position that is passed over is sifted, because its text is harmless.
LEMMA PassedOver ==
    ASSUME NEW p, NEW f, NEW i, p.out[i] = p.body[i],
           Passable(Policies[p.revision], f, i, p.body[i]),
           ~IsBlocked(Policies[p.revision], p.body[i])
    PROVE  Sifted(p, f, i)
BY DEF Sifted, Passable

LEMMA AdvanceOK ==
    ASSUME IInv, NEW t \in Threads, NEW p \in Pass, p = pass[t],
           p.pc = "trust", p.at <= Len(p.body),
           Passable(Policies[p.revision], states[p.state].renderer.seen, p.at, p.body[p.at]),
           ~IsBlocked(Policies[p.revision], p.body[p.at]),
           pass' = [pass EXCEPT ![t].at = p.at + 1],
           UNCHANGED <<installed, entries, states>>
    PROVE  IInv'
<1>1. /\ PassOK(p) /\ p.state <= Len(states) /\ p.state \in Nat /\ p.at \in Nat
      /\ p.body \in Seq(Texts) /\ pass \in [Threads -> Pass] /\ Len(p.body) \in Nat
      /\ Len(states) \in Nat
  BY Before DEF Pass
<1>2. PICK s : s = states[p.state] /\ ScanOK(p, s) /\ p.state # 0
  BY <1>1 DEF PassOK, Scanning
<1>n. PICK n \in Nat : n = p.at + 1
  BY <1>1
<1> DEFINE d == [p EXCEPT !.at = n]
<1>3. /\ d \in Pass /\ d.pc = p.pc /\ d.at = n /\ d.out = p.out /\ d.body = p.body
      /\ d.known = p.known /\ d.state = p.state /\ d.revision = p.revision /\ d.verdict = p.verdict
  BY DEF Pass
<1>4. pass' = [pass EXCEPT ![t] = d]
  BY <1>1, <1>n
<1> HIDE DEF d
<1>5. PICK q \in Pass : q = d
  BY <1>3
<1>6. /\ q.pc = "trust" /\ q.at = p.at + 1 /\ q.out = p.out /\ q.body = p.body
      /\ q.known = p.known /\ q.state = p.state /\ q.revision = p.revision /\ q.verdict # "forward"
  BY <1>1, <1>n, <1>3, <1>5 DEF PassOK
<1>7. /\ s.revision = p.revision /\ ~Policies[p.revision].skip /\ s.renderer.ready
      /\ Len(p.out) = Len(p.body) /\ p.at \in 1..(Len(p.body) + 1)
      /\ \A i \in p.at..Len(p.body) : p.out[i] = p.body[i]
      /\ Kept(p, s.renderer.seen)
      /\ Policies[p.revision].mode = "redact" =>
           \A i \in 1..(p.at - 1) : Sifted(p, s.renderer.seen, i)
  BY <1>2 DEF ScanOK
<1>8. Sifted(p, s.renderer.seen, p.at)
  BY <1>1, <1>2, <1>7, PassedOver
<1>9. ASSUME Policies[q.revision].mode = "redact", NEW i \in 1..(q.at - 1)
      PROVE  Sifted(q, s.renderer.seen, i)
  <2>1. Sifted(p, s.renderer.seen, i)
    BY <1>1, <1>6, <1>7, <1>8, <1>9
  <2> QED BY <1>6, <2>1 DEF Sifted
<1>k. Kept(q, s.renderer.seen)
  BY <1>6, <1>7 DEF Kept
<1>10. ScanOK(q, s)
  BY <1>1, <1>6, <1>7, <1>9, <1>k DEF ScanOK
<1>11. PassOK(q)
  BY <1>2, <1>6, <1>10 DEF PassOK, Delivered
<1>12. Grows /\ (\A u \in 1..Len(states') : StateOK(states'[u])) /\ PassOK(q)'
  BY <1>11, SameStates
<1>13. /\ pass' = [pass EXCEPT ![t] = q] /\ q.state <= Len(states')
       /\ DOMAIN entries' \subseteq RequestIDs
       /\ \A r \in DOMAIN entries' : entries'[r] \in 1..Len(states')
  BY <1>1, <1>4, <1>5, <1>6, Before
<1> QED BY <1>12, <1>13, PassStep

LEMMA PreserveOK ==
    ASSUME IInv, NEW t \in Threads, PreservePlaceholder(t) PROVE IInv'
<1>0. PICK p \in Pass : p = pass[t]
  BY Before
<1>1. /\ p.pc = "trust" /\ p.at <= Len(p.body) /\ PassOK(p) /\ p.state <= Len(states)
      /\ p.state \in Nat /\ p.body[p.at] \in Produced(states[p.state].renderer)
      /\ pass' = [pass EXCEPT ![t].at = p.at + 1]
      /\ UNCHANGED <<installed, entries, states>>
  BY <1>0, Before DEF PreservePlaceholder, Text, Pass
<1>2. states[p.state].renderer \in Renderer
  <2>1. p.state \in 1..Len(states) /\ states \in Seq(State)
    BY <1>1, Before DEF PassOK, Scanning
  <2>2. states[p.state] \in State
    BY <2>1
  <2> QED BY <2>2 DEF State
<1>3. ~IsPlain(p.body[p.at]) /\ p.body[p.at] \in Shown(states[p.state].renderer.seen)
  BY <1>1, <1>2, ProducedAreReplacements, ReplacementText, ProducedIsShown
<1>4. /\ Passable(Policies[p.revision], states[p.state].renderer.seen, p.at, p.body[p.at])
      /\ ~IsBlocked(Policies[p.revision], p.body[p.at])
  BY <1>3, NotPlainHarmless DEF Passable
<1> QED BY <1>0, <1>1, <1>4, AdvanceOK

LEMMA DetectOK ==
    ASSUME IInv, NEW t \in Threads, Detect(t) PROVE IInv'
<1>0. PICK p \in Pass : p = pass[t]
  BY Before
<1>1. /\ p.pc = "trust" /\ p.at <= Len(p.body) /\ PassOK(p) /\ p.state <= Len(states)
      /\ p.state \in Nat /\ p.revision \in Revisioned /\ pass \in [Threads -> Pass]
      /\ UNCHANGED <<installed, entries, states>>
      /\ Len(states) \in Nat /\ p.at \in Nat /\ p.body \in Seq(Texts)
      /\ p.body[p.at] \notin Produced(states[p.state].renderer)
  BY <1>0, Before DEF Detect, Text, Pass
<1>2. CASE ~IsFinding(Policies[p.revision], p.at, p.body[p.at])
  <2>1. pass' = [pass EXCEPT ![t].at = p.at + 1]
    BY <1>0, <1>2 DEF Detect, PolicyOf, Text
  <2>2. /\ ~IsSensitive(Policies[p.revision], p.at, p.body[p.at])
        /\ ~IsBlocked(Policies[p.revision], p.body[p.at])
    BY <1>1, <1>2, PolicyType, SensitiveIsFound
  <2>3. Passable(Policies[p.revision], states[p.state].renderer.seen, p.at, p.body[p.at])
    BY <1>2, <2>2 DEF Passable, IsFinding, IsPlaceholder
  <2> QED BY <2>3, <1>0, <1>1, <2>1, <2>2, AdvanceOK
<1>3. CASE IsFinding(Policies[p.revision], p.at, p.body[p.at])
  <2>1. pass' = [pass EXCEPT ![t].pc = "render"]
    BY <1>0, <1>3 DEF Detect, PolicyOf, Text
  <2> DEFINE d == [p EXCEPT !.pc = "render"]
  <2>2. /\ d \in Pass /\ d.pc = "render" /\ d.at = p.at /\ d.out = p.out /\ d.body = p.body
        /\ d.known = p.known /\ d.state = p.state /\ d.revision = p.revision /\ d.verdict = p.verdict
    BY DEF Pass, Scanning
  <2>3. pass' = [pass EXCEPT ![t] = d]
    BY <1>0, <1>1, <2>1
  <2> HIDE DEF d
  <2>4. PICK q \in Pass : q = d
    BY <2>2
  <2>5. /\ q.pc = "render" /\ q.at = p.at /\ q.out = p.out /\ q.body = p.body
        /\ q.known = p.known /\ q.state = p.state /\ q.revision = p.revision /\ q.verdict # "forward"
    BY <1>1, <2>2, <2>4 DEF PassOK
  <2>6. p.state # 0 /\ ScanOK(p, states[p.state])
    BY <1>1 DEF PassOK, Scanning
  <2>k. Kept(p, states[p.state].renderer.seen) /\ p.at \notin p.known
    BY <1>1, <2>6, ProducedIsShown DEF ScanOK, Kept
  <2>k2. Kept(q, states[p.state].renderer.seen) /\ q.at \notin q.known
    BY <2>5, <2>k DEF Kept
  <2>7. ScanOK(q, states[p.state])
    BY <1>1, <1>3, <2>5, <2>6, <2>k2 DEF ScanOK, Sifted
  <2>8. PassOK(q)
    BY <2>5, <2>6, <2>7 DEF PassOK, Delivered
  <2>9. Grows /\ (\A u \in 1..Len(states') : StateOK(states'[u])) /\ PassOK(q)'
    BY <1>1, <2>8, SameStates
  <2>10. /\ pass' = [pass EXCEPT ![t] = q] /\ q.state <= Len(states')
         /\ DOMAIN entries' \subseteq RequestIDs
         /\ \A r \in DOMAIN entries' : entries'[r] \in 1..Len(states')
    BY <1>1, <2>3, <2>4, <2>5, Before
  <2> QED BY <1>1, <2>9, <2>10, PassStep
<1> QED BY <1>2, <1>3

\* The pass after one finding was replaced by x.
LEMMA RenderedOK ==
    ASSUME NEW p \in Pass, NEW q \in Pass, NEW s, NEW r, NEW x \in Replacements,
           NEW key, key = FindingKey(Policies[p.revision], p.at, p.body[p.at]),
           ScanOK(p, s), p.pc = "render", Extended(s, r), r.renderer.ready,
           key \in DOMAIN r.renderer.seen, x = r.renderer.seen[key],
           ~(Policies[p.revision].mode = "redact"
             /\ IsBlocked(Policies[p.revision], p.body[p.at])),
           q.pc = "trust", q.at = p.at + 1, q.body = p.body, q.revision = p.revision,
           q.known = p.known,
           q.out = IF Policies[p.revision].mode = "audit" THEN p.out
                   ELSE [p.out EXCEPT ![p.at] = x]
    PROVE  ScanOK(q, r)
<1>1. /\ s.revision = p.revision /\ ~Policies[p.revision].skip /\ r.revision = p.revision
      /\ Len(p.out) = Len(p.body) /\ p.at \in 1..(Len(p.body) + 1) /\ p.at <= Len(p.body)
      /\ \A i \in p.at..Len(p.body) : p.out[i] = p.body[i]
      /\ Policies[p.revision].mode = "redact" =>
           \A i \in 1..(p.at - 1) : Sifted(p, s.renderer.seen, i)
      /\ Extends(s.renderer.seen, r.renderer.seen)
      /\ Kept(p, s.renderer.seen) /\ p.at \notin p.known
  BY DEF ScanOK, Extended
<1>2. /\ p.out \in Seq(Texts) /\ Len(p.body) \in Nat /\ p.at \in 1..Len(p.out) /\ p.at \in Nat
      /\ x \in Texts
  BY <1>1, ReplacementText DEF Pass
<1>3. /\ Len(q.out) = Len(p.out) /\ q.at \in 1..(Len(q.body) + 1)
      /\ \A i \in 1..Len(p.out) : i # p.at => q.out[i] = p.out[i]
      /\ Policies[p.revision].mode # "audit" => q.out[p.at] = x
  BY <1>1, <1>2, ExceptSeq
<1>4. \A i \in q.at..Len(q.body) : q.out[i] = q.body[i]
  BY <1>1, <1>2, <1>3
<1>5. ASSUME Policies[q.revision].mode = "redact", NEW i \in 1..(q.at - 1)
      PROVE  Sifted(q, r.renderer.seen, i)
  <2>1. CASE i = p.at
    <3>1. ~IsPlain(x) /\ x \in Shown(r.renderer.seen)
      BY ReplacementText DEF Shown
    <3>2. Passable(Policies[p.revision], r.renderer.seen, i, x) /\ ~IsSensitive(Policies[p.revision], i, x)
      BY <3>1, NotPlainHarmless DEF Passable
    <3>3. q.out[i] = x /\ ~IsBlocked(Policies[p.revision], p.body[i])
      BY <1>3, <1>5, <2>1
    <3> QED BY <2>1, <3>2, <3>3 DEF Sifted
  <2>2. CASE i # p.at
    <3>1. i \in 1..(p.at - 1) /\ q.out[i] = p.out[i]
      BY <1>1, <1>2, <1>3, <2>2
    <3>2. Sifted(p, r.renderer.seen, i)
      BY <1>1, <1>5, <3>1, SiftedKeeps
    <3> QED BY <3>1, <3>2 DEF Sifted
  <2> QED BY <2>1, <2>2
<1>6. Kept(q, r.renderer.seen)
  <2>1. Kept(p, r.renderer.seen)
    BY <1>1, KeptKeeps
  <2>2. ASSUME NEW i \in q.known PROVE i \in 1..Len(p.out) /\ i # p.at
    BY <1>1, <2>1, <2>2 DEF Kept
  <2> QED BY <1>3, <2>1, <2>2 DEF Kept
<1> QED BY <1>1, <1>3, <1>4, <1>5, <1>6 DEF ScanOK

LEMMA RenderOK ==
    ASSUME IInv, NEW t \in Threads, Render(t) PROVE IInv'
<1>0. PICK p \in Pass : p = pass[t]
  BY Before
<1> DEFINE policy == Policies[p.revision]
           k == FindingKey(policy, p.at, p.body[p.at])
<1>1. /\ p.pc = "render" /\ PassOK(p) /\ p.state <= Len(states) /\ p.state \in Nat
      /\ p.revision \in Revisioned /\ pass \in [Threads -> Pass] /\ p.body \in Seq(Texts)
      /\ p.out \in Seq(Texts) /\ p.at \in Nat /\ states \in Seq(State) /\ Len(states) \in Nat
      /\ installed' = installed /\ entries' = entries
  BY <1>0, Before DEF Render, Pass
<1>2. PICK s \in State : s = states[p.state] /\ StateOK(s) /\ p.state \in 1..Len(states)
                         /\ ScanOK(p, s)
  BY <1>1 DEF IInv, PassOK, Scanning
<1>3. /\ IsFinding(policy, p.at, p.body[p.at]) /\ p.body[p.at] \in Texts
      /\ policy \in Policy /\ policy.blocked \subseteq policy.found /\ s.renderer.ready
  <2>1. IsFinding(policy, p.at, p.body[p.at]) /\ p.at \in 1..Len(p.body) /\ s.renderer.ready
    BY <1>1, <1>2 DEF ScanOK
  <2> QED BY <1>1, <2>1, PolicyType
<1>4. PICK key \in Keys : key = k
  BY <1>3, KeyIsKey
<1>5. PICK r \in Renderer : /\ r = RendererAfter(s.renderer, policy.replacement, key) /\ r.ready
                            /\ RendererOK(Policies[s.revision].replacement, r)
                            /\ Extends(s.renderer.seen, r.seen) /\ key \in DOMAIN r.seen
                            /\ r.seen[key] \in Replacements
  <2>1. /\ s.renderer \in Renderer /\ RendererOK(policy.replacement, s.renderer)
        /\ s.revision = p.revision /\ policy.replacement \in [Kinds -> Labels \cup {NoText}]
    BY <1>2, <1>3 DEF State, StateOK, ScanOK, Policy
  <2> QED BY <1>3, <2>1, RendererAfterOK
<1>6. /\ states' = [states EXCEPT ![p.state].renderer = r]
      /\ \/ HandleFailure(t, TRUE)
         \/ /\ ~(policy.mode = "redact" /\ IsBlocked(policy, p.body[p.at]))
            /\ pass' = [pass EXCEPT ![t].pc = "trust", ![t].at = p.at + 1,
                                    ![t].out = Substituted(t, r.seen[key])]
  BY <1>0, <1>2, <1>4, <1>5 DEF Render, PolicyOf, Text
<1>7. /\ Grows /\ \A q \in 1..Len(states') : StateOK(states'[q])
      /\ Len(states') = Len(states) /\ states'[p.state].renderer = r
  BY <1>2, <1>5, <1>6, RendererReplaced
<1>8. CASE HandleFailure(t, TRUE)
  BY <1>1, <1>7, <1>8, FailureOK
<1>9. CASE /\ ~(policy.mode = "redact" /\ IsBlocked(policy, p.body[p.at]))
           /\ pass' = [pass EXCEPT ![t].pc = "trust", ![t].at = p.at + 1,
                                   ![t].out = Substituted(t, r.seen[key])]
  <2> DEFINE x == r.seen[key]
  <2>0. PICK o : o = Substituted(t, x)
    OBVIOUS
  <2>1. o = IF policy.mode = "audit" THEN p.out ELSE [p.out EXCEPT ![p.at] = x]
    BY <1>0, <2>0 DEF Substituted, PolicyOf
  <2>2. o \in Seq(Texts)
    <3>1. p.at \in 1..Len(p.out) /\ x \in Texts
      BY <1>1, <1>2, <1>5, ReplacementText DEF ScanOK
    <3> QED BY <1>1, <2>1, <3>1, ExceptSeq
  <2>3. PICK n \in Nat : n = p.at + 1
    BY <1>1
  <2> DEFINE d == [p EXCEPT !.pc = "trust", !.at = n, !.out = o]
  <2>4. /\ d \in Pass /\ d.pc = "trust" /\ d.at = n /\ d.out = o /\ d.body = p.body
        /\ d.known = p.known /\ d.state = p.state /\ d.revision = p.revision /\ d.verdict = p.verdict
    BY <2>2 DEF Pass, Scanning
  <2>5. pass' = [pass EXCEPT ![t] = d]
    BY <1>0, <1>1, <1>9, <2>0, <2>3
  <2> HIDE DEF d
  <2>6. PICK q \in Pass : q = d
    BY <2>4
  <2>7. /\ q.pc = "trust" /\ q.at = p.at + 1 /\ q.out = o /\ q.body = p.body
        /\ q.known = p.known /\ q.state = p.state /\ q.revision = p.revision /\ q.verdict # "forward"
    BY <1>1, <2>3, <2>4, <2>6 DEF PassOK
  <2>8. ~(policy.mode = "redact" /\ IsBlocked(policy, p.body[p.at]))
    BY <1>9
  <2>9. ScanOK(q, states'[p.state])
    <3>1. PICK z : z = states'[p.state] /\ Extended(s, z) /\ z.renderer = r
      BY <1>2, <1>7 DEF Grows
    <3>2. PICK y \in Replacements : y = z.renderer.seen[key] /\ y = x
      BY <1>5, <3>1
    <3>3. /\ z.renderer.ready /\ key \in DOMAIN z.renderer.seen /\ p.pc = "render"
          /\ q.out = IF policy.mode = "audit" THEN p.out ELSE [p.out EXCEPT ![p.at] = y]
      BY <1>1, <1>5, <2>1, <2>7, <3>1, <3>2
    <3>4. ScanOK(q, z)
      BY <1>2, <1>4, <2>7, <2>8, <3>1, <3>2, <3>3, RenderedOK
    <3> QED BY <3>1, <3>4
  <2>10. PassOK(q)'
    BY <1>2, <2>7, <2>9 DEF PassOK, Delivered
  <2>11. /\ pass' = [pass EXCEPT ![t] = q] /\ q.state <= Len(states')
         /\ DOMAIN entries' \subseteq RequestIDs
         /\ \A u \in DOMAIN entries' : entries'[u] \in 1..Len(states')
    BY <1>1, <1>7, <2>5, <2>6, <2>7, Before
  <2> QED BY <1>1, <1>7, <2>10, <2>11, PassStep
<1> QED BY <1>6, <1>8, <1>9

\* Record: the state keeps its renderer and remembers the clean output.
LEMMA FinishOK ==
    ASSUME IInv, NEW t \in Threads, Finish(t) PROVE IInv'
<1>0. PICK p \in Pass : p = pass[t]
  BY Before
<1>1. /\ p.pc = "trust" /\ PassOK(p) /\ p.state <= Len(states) /\ p.state \in Nat
      /\ p.at > Len(p.body) /\ p.at \in Nat
      /\ p.revision \in Revisioned /\ pass \in [Threads -> Pass] /\ p.body \in Seq(Texts)
      /\ p.out \in Seq(Texts) /\ states \in Seq(State) /\ Len(states) \in Nat
      /\ installed' = installed /\ entries' = entries
  BY <1>0, Before DEF Finish, Pass
<1>2. PICK s \in State : s = states[p.state] /\ StateOK(s) /\ p.state \in 1..Len(states)
                         /\ ScanOK(p, s)
  BY <1>1 DEF IInv, PassOK, Scanning
<1>3. /\ s.revision = p.revision /\ Len(p.out) = Len(p.body) /\ Kept(p, s.renderer.seen)
      /\ Policies[p.revision].mode = "redact" =>
           \A i \in 1..Len(p.body) : Sifted(p, s.renderer.seen, i)
  <2>1. Len(p.body) \in Nat /\ p.at - 1 = Len(p.body)
    BY <1>1, <1>2 DEF ScanOK
  <2> QED BY <1>1, <1>2, <2>1 DEF ScanOK
<1> DEFINE d == [s EXCEPT !.recorded = TRUE, !.fingerprint = p.out]
<1>4. /\ d \in State /\ d.revision = s.revision /\ d.renderer = s.renderer
      /\ d.recorded = TRUE /\ d.fingerprint = p.out
  BY <1>1 DEF State
<1>5. states' = [states EXCEPT ![p.state] = d]
  BY <1>0, <1>1, <1>2 DEF Finish, Record
<1> HIDE DEF d
<1>6. /\ states' \in Seq(State) /\ Len(states') = Len(states) /\ states'[p.state] = d
      /\ \A q \in 1..Len(states) : q # p.state => states'[q] = states[q]
  BY <1>1, <1>2, <1>4, <1>5, ExceptSeq
<1>7. MemoryOK(d)
  <2> SUFFICES ASSUME Policies[d.revision].mode = "redact"
               PROVE  Clean(Policies[d.revision], d.renderer.seen, d.fingerprint)
    BY DEF MemoryOK
  <2>1. \A i \in 1..Len(p.body) : Passable(Policies[p.revision], s.renderer.seen, i, p.out[i])
    BY <1>3, <1>4 DEF Sifted
  <2>2. DOMAIN p.out = 1..Len(p.body)
    BY <1>1, <1>3
  <2> QED BY <1>3, <1>4, <2>1, <2>2 DEF Clean
<1>8. StateOK(d) /\ Extended(s, d)
  BY <1>2, <1>4, <1>7 DEF StateOK, Extended, Extends
<1>9. \A q \in 1..Len(states) : Extended(states[q], states[q])
  BY DEF Extended, Extends
<1>10. \A q \in 1..Len(states) : Extended(states[q], states'[q]) /\ StateOK(states'[q])
  BY <1>2, <1>6, <1>8, <1>9 DEF IInv
<1>11. Grows /\ \A q \in 1..Len(states') : StateOK(states'[q])
  <2>1. \A q \in 1..Len(states') : StateOK(states'[q])
    BY <1>6, <1>10
  <2> QED BY <1>1, <1>6, <1>10, <2>1 DEF Grows
<1> DEFINE e == Sent(p, p.out, FALSE)
<1>12. /\ e \in Pass /\ e.pc = "idle" /\ e.verdict = "forward" /\ e.state = p.state
       /\ e.revision = p.revision /\ e.body = p.body /\ e.out = p.out /\ e.known = p.known
  BY <1>1, SentType DEF Sent
<1>13. pass' = [pass EXCEPT ![t] = e]
  BY <1>0, SentIs DEF Finish
<1> HIDE DEF e
<1>14. PICK q \in Pass : q = e
  BY <1>12
<1>15. /\ q.pc = "idle" /\ q.verdict = "forward" /\ q.state = p.state /\ q.revision = p.revision
       /\ q.body = p.body /\ q.out = p.out /\ q.known = p.known
  BY <1>12, <1>14
<1>16. ASSUME Delivered(q) PROVE DeliveredOK(q, d)
  <2>1. Policies[p.revision].mode = "redact"
    BY <1>1, <1>15, <1>16, PolicyType DEF Delivered, Policy
  <2>2. \A i \in 1..Len(p.body) : Sifted(p, d.renderer.seen, i)
    BY <1>3, <1>4, <2>1
  <2> QED BY <1>3, <1>4, <1>15, <2>2 DEF DeliveredOK, Sifted
<1>17. PassOK(q)'
  BY <1>2, <1>3, <1>6, <1>15, <1>16 DEF PassOK, Scanning, Kept
<1>18. /\ pass' = [pass EXCEPT ![t] = q] /\ q.state <= Len(states')
       /\ DOMAIN entries' \subseteq RequestIDs
       /\ \A r \in DOMAIN entries' : entries'[r] \in 1..Len(states')
  BY <1>1, <1>6, <1>13, <1>14, <1>15, Before
<1> QED BY <1>1, <1>11, <1>17, <1>18, PassStep

\* The steps of the host, and stuttering, leave the passes alone.
LEMMA HostOK ==
    ASSUME IInv, Reconfigure \/ (\E rid \in RequestIDs : Unbind(rid)) \/ UNCHANGED vars
    PROVE  IInv'
<1>1. pass' = pass /\ states' = states
  BY DEF Reconfigure, Unbind, vars
<1>2. installed' \in Revisioned
  <2>1. installed \in Revisioned
    BY DEF IInv, TypeOK
  <2>2. installed' = installed \/ (installed < Len(Policies) /\ installed' = installed + 1)
    BY DEF Reconfigure, Unbind, vars
  <2> QED BY <2>1, <2>2, RevisionOne DEF Revisioned
<1>3. DOMAIN entries' \subseteq DOMAIN entries /\ \A r \in DOMAIN entries' : entries'[r] = entries[r]
  <2>1. CASE Reconfigure \/ UNCHANGED vars
    BY <2>1 DEF Reconfigure, vars
  <2>2. ASSUME NEW rid \in RequestIDs, Unbind(rid)
        PROVE  DOMAIN entries' \subseteq DOMAIN entries
               /\ \A r \in DOMAIN entries' : entries'[r] = entries[r]
    BY <2>2 DEF Unbind
  <2> QED BY <2>1, <2>2
<1>4. TypeOK'
  BY <1>1, <1>2, <1>3 DEF IInv, TypeOK
<1> QED BY <1>1, <1>4 DEF IInv, StateOK, PassOK

\* The steps of one pass.
PassNext(t) ==
    \/ \E rid \in RequestIDs \cup {NoRequestID}, body \in Submitted : Begin(t, rid, body)
    \/ Skip(t) \/ EmptyBody(t) \/ Acquire(t) \/ SeenBefore(t)
    \/ GetOrCreateRendererState(t) \/ PreservePlaceholder(t) \/ Detect(t)
    \/ Render(t) \/ ScanFails(t) \/ Finish(t)

LEMMA NextIs ==
    ASSUME [Next]_vars
    PROVE  \/ Reconfigure \/ (\E rid \in RequestIDs : Unbind(rid)) \/ UNCHANGED vars
           \/ \E t \in Threads : PassNext(t)
BY DEF Next, PassNext

LEMMA NextOK == IInv /\ [Next]_vars => IInv'
<1> SUFFICES ASSUME IInv, [Next]_vars PROVE IInv' OBVIOUS
<1>1. ASSUME NEW t \in Threads, PassNext(t) PROVE IInv'
  BY <1>1, BeginOK, SkipOK, FailsOK, AcquireOK, SeenBeforeOK, GetOrCreateOK, PreserveOK,
     DetectOK, RenderOK, FinishOK DEF PassNext
<1> QED BY <1>1, HostOK, NextIs

LEMMA Invariance == Spec => []IInv
BY InitOK, NextOK, PTL DEF Spec

-----------------------------------------------------------------------------
(* Theorems *)

LEMMA DeliveredPasses ==
    ASSUME IInv, NEW t \in Threads, pass[t].verdict = "forward", ~Waived(t)
    PROVE  /\ pass[t].body \in Seq(Texts) /\ pass[t].out \in Seq(Texts)
           /\ Len(pass[t].out) = Len(pass[t].body)
           /\ pass[t].state \in 1..Len(states) /\ pass[t].revision \in Revisioned
           /\ states[pass[t].state].revision = pass[t].revision
           /\ \A i \in 1..Len(pass[t].body) :
                Sifted(pass[t], states[pass[t].state].renderer.seen, i)
<1>1. Delivered(pass[t])
  BY DEF Delivered, Waived, PolicyOf
<1>2. pass[t] \in Pass /\ PassOK(pass[t]) /\ pass[t].state <= Len(states) /\ Len(states) \in Nat
  BY Before
<1> QED BY <1>1, <1>2 DEF Pass, PassOK, DeliveredOK

\* Under redact mode nothing the policy of the pass finds leaves the plugin,
\* however many passes share the scan state, whichever revision is installed
\* meanwhile and whether the body was scanned or recognised as scanned before.
THEOREM NothingSensitiveLeaves == Spec => []NothingSensitiveForwarded
<1>1. IInv => NothingSensitiveForwarded
  <2> SUFFICES ASSUME IInv, NEW t \in Threads, pass[t].verdict = "forward", ~Waived(t)
               PROVE  \A i \in DOMAIN pass[t].out : ~IsSensitive(PolicyOf(t), i, pass[t].out[i])
    BY DEF NothingSensitiveForwarded
  <2>1. DOMAIN pass[t].out = 1..Len(pass[t].body)
    BY DeliveredPasses
  <2> QED BY <2>1, DeliveredPasses DEF Sifted, Passable, PolicyOf
<1> QED BY <1>1, Invariance, PTL

\* A body with a value a blocking rule matches is never forwarded under redact
\* mode, not even on a retry that the scan state recognises.
THEOREM BlockedStaysBlocked == Spec => []BlockedNeverForwarded
<1>1. IInv => BlockedNeverForwarded
  <2> SUFFICES ASSUME IInv, NEW t \in Threads, pass[t].verdict = "forward", ~Waived(t)
               PROVE  \A i \in DOMAIN pass[t].body : ~IsBlocked(PolicyOf(t), pass[t].body[i])
    BY DEF BlockedNeverForwarded
  <2>1. DOMAIN pass[t].body = 1..Len(pass[t].body)
    BY DeliveredPasses
  <2> QED BY <2>1, DeliveredPasses DEF Sifted, PolicyOf
<1> QED BY <1>1, Invariance, PTL

\* Across all the passes that share a scan state, two values of a kind get the
\* same replacement exactly when they are equal or their kind is configured to
\* remove its values.
THEOREM PlaceholdersAreConsistent == Spec => []ConsistentPlaceholders
<1>1. IInv => ConsistentPlaceholders
  <2> SUFFICES ASSUME IInv, NEW t \in Threads, NEW u \in Threads, ForwardedTogether(t, u),
                      NEW i \in DOMAIN pass[t].body, NEW j \in DOMAIN pass[u].body,
                      IsSensitive(PolicyOf(t), i, pass[t].body[i]),
                      IsSensitive(PolicyOf(u), j, pass[u].body[j]),
                      FindingKey(PolicyOf(u), j, pass[u].body[j])[1]
                        = FindingKey(PolicyOf(t), i, pass[t].body[i])[1]
               PROVE  (pass[t].out[i] = pass[u].out[j])
                        <=> \/ pass[t].body[i] = pass[u].body[j]
                            \/ PolicyOf(t).replacement[FindingKey(PolicyOf(t), i, pass[t].body[i])[1]] = NoText
    BY DEF ConsistentPlaceholders
  <2> DEFINE k == FindingKey(PolicyOf(t), i, pass[t].body[i])
             l == FindingKey(PolicyOf(u), j, pass[u].body[j])
             s == states[pass[t].state]
             seen == s.renderer.seen
             base == PolicyOf(t).replacement
  <2>1. /\ pass[t].verdict = "forward" /\ ~Waived(t) /\ pass[u].verdict = "forward" /\ ~Waived(u)
        /\ pass[u].state = pass[t].state
    BY DEF ForwardedTogether
  <2>2. i \in 1..Len(pass[t].body) /\ j \in 1..Len(pass[u].body)
    BY <2>1, DeliveredPasses
  <2>3. k \in DOMAIN seen /\ pass[t].out[i] = seen[k] /\ l \in DOMAIN seen /\ pass[u].out[j] = seen[l]
    BY <2>1, <2>2, DeliveredPasses DEF Sifted, PolicyOf
  <2>4. RendererOK(base, s.renderer)
    <3>1. pass[t].state \in 1..Len(states) /\ s.revision = pass[t].revision
      BY <2>1, DeliveredPasses
    <3> QED BY <3>1 DEF IInv, StateOK, PolicyOf
  <2>5. k[2] = pass[t].body[i] /\ l[2] = pass[u].body[j] /\ k[1] = l[1]
    BY KeyText
  <2>6. k = <<k[1], k[2]>> /\ l = <<l[1], l[2]>>
    BY DEF FindingKey
  <2> HIDE DEF k, l, s, base
  <2>7. (seen[k] = seen[l]) <=> (k = l \/ base[k[1]] = NoText)
    BY <2>3, <2>4, <2>5 DEF RendererOK
  <2>8. k = l <=> pass[t].body[i] = pass[u].body[j]
    BY <2>5, <2>6
  <2> QED BY <2>3, <2>7, <2>8 DEF k, base
<1> QED BY <1>1, Invariance, PTL

\* What the request had produced when a pass began to scan leaves the pass
\* untouched: a position with such a text is never rendered, since what a
\* renderer has produced is never taken back while the pass goes through it.
THEOREM ProducedIsUntouched == Spec => []ProducedIsTrusted
<1>1. IInv => ProducedIsTrusted
  BY DEF IInv, PassOK, ProducedIsTrusted
<1> QED BY <1>1, Invariance, PTL

\* No pass lets a placeholder through in a credential field that the renderer of
\* its own request has not produced, unless the engine takes it for one by its
\* looks; this holds of the bodies that are recognised as scanned before too.
THEOREM ForeignIsNotTrusted == Spec => []OnlyProducedIsTrusted
<1>1. IInv => OnlyProducedIsTrusted
  <2> SUFFICES ASSUME IInv, NEW t \in Threads, pass[t].verdict = "forward", ~Waived(t),
                      NEW i \in DOMAIN pass[t].out \cap Credential, IsPlaceholder(pass[t].out[i]),
                      ~PolicyOf(t).recognised
               PROVE  pass[t].out[i] \in Produced(states[pass[t].state].renderer)
    BY DEF OnlyProducedIsTrusted
  <2>1. Sifted(pass[t], states[pass[t].state].renderer.seen, i)
    BY DeliveredPasses
  <2> QED BY <2>1, ProducedIsShown DEF Sifted, Passable, PolicyOf
<1> QED BY <1>1, Invariance, PTL

\* Every step of a pass only adds to the renderers.
LEMMA PassGrows ==
    ASSUME IInv, NEW t \in Threads, PassNext(t) PROVE Grows
<1>0. PICK p \in Pass : p = pass[t]
  BY Before
<1>1. /\ PassOK(p) /\ p.state <= Len(states) /\ p.state \in Nat /\ Len(states) \in Nat
      /\ states \in Seq(State) /\ p.revision \in Revisioned
      /\ \A q \in 1..Len(states) : Extended(states[q], states[q])
  BY <1>0, Before DEF Pass, Extended, Extends
<1>2. CASE states' = states
  BY <1>2, SameStates
<1>3. CASE GetOrCreateRendererState(t)
  <2>1. PICK s \in State : s = states[p.state] /\ StateOK(s) /\ p.state \in 1..Len(states)
    BY <1>0, <1>1, <1>3 DEF IInv, PassOK, Scanning, GetOrCreateRendererState
  <2>2. states' = [states EXCEPT ![p.state].renderer = RendererOf(s)]
    BY <1>0, <1>3, <2>1 DEF GetOrCreateRendererState
  <2>3. /\ RendererOf(s) \in Renderer /\ RendererOf(s).ready
        /\ RendererOK(Policies[s.revision].replacement, RendererOf(s))
        /\ Extends(s.renderer.seen, RendererOf(s).seen)
    BY <2>1, RendererOfOK DEF StateOK
  <2> QED BY <2>1, <2>2, <2>3, RendererReplaced
<1>4. CASE Render(t)
  <2>1. PICK s \in State : s = states[p.state] /\ StateOK(s) /\ p.state \in 1..Len(states)
                           /\ ScanOK(p, s) /\ p.pc = "render"
    BY <1>0, <1>1, <1>4 DEF IInv, PassOK, Scanning, Render
  <2> DEFINE policy == Policies[p.revision]
             key == FindingKey(policy, p.at, p.body[p.at])
  <2>2. states' = [states EXCEPT ![p.state].renderer
                        = RendererAfter(s.renderer, policy.replacement, key)]
    BY <1>0, <1>4, <2>1 DEF Render, PolicyOf, Text
  <2>3. IsFinding(policy, p.at, p.body[p.at]) /\ p.body[p.at] \in Texts /\ s.renderer.ready
        /\ policy \in Policy
    <3>1. IsFinding(policy, p.at, p.body[p.at]) /\ p.at \in 1..Len(p.body) /\ s.renderer.ready
      BY <2>1 DEF ScanOK, Pass
    <3> QED BY <1>1, <3>1, PolicyType DEF Pass
  <2>4. /\ key \in Keys /\ s.renderer \in Renderer /\ RendererOK(policy.replacement, s.renderer)
        /\ s.revision = p.revision /\ policy.replacement \in [Kinds -> Labels \cup {NoText}]
    BY <2>1, <2>3, KeyIsKey DEF State, StateOK, ScanOK, Policy
  <2>5. PICK r \in Renderer : /\ r = RendererAfter(s.renderer, policy.replacement, key) /\ r.ready
                              /\ RendererOK(Policies[s.revision].replacement, r)
                              /\ Extends(s.renderer.seen, r.seen)
    BY <2>3, <2>4, RendererAfterOK
  <2> QED BY <2>1, <2>2, <2>5, RendererReplaced
<1>5. CASE Finish(t)
  <2>1. p.state \in 1..Len(states) /\ states[p.state] \in State /\ p.out \in Seq(Texts)
    BY <1>0, <1>1, <1>5 DEF PassOK, Scanning, Finish, Pass
  <2> DEFINE d == [states[p.state] EXCEPT !.recorded = TRUE, !.fingerprint = p.out]
  <2>2. PICK s \in State : s = states[p.state]
    BY <2>1
  <2>3. d \in State /\ d.revision = s.revision /\ d.renderer = s.renderer
    BY <2>1, <2>2 DEF State
  <2>4. states' = [states EXCEPT ![p.state] = d]
    BY <1>0, <1>1, <1>5, <2>1 DEF Finish, Record
  <2> HIDE DEF d
  <2>5. /\ states' \in Seq(State) /\ Len(states') = Len(states) /\ states'[p.state] = d
        /\ \A q \in 1..Len(states) : q # p.state => states'[q] = states[q]
    BY <1>1, <2>1, <2>3, <2>4, ExceptSeq
  <2>6. Extended(s, d)
    BY <2>3 DEF Extended, Extends
  <2> QED BY <1>1, <2>2, <2>5, <2>6 DEF Grows
<1>6. CASE Acquire(t) /\ states' # states
  <2>1. states' = Append(states, NewState(p.revision))
    BY <1>0, <1>6 DEF Acquire
  <2>2. PICK d \in State : d = NewState(p.revision)
    BY <1>1, NewStateOK
  <2>3. /\ states' \in Seq(State) /\ Len(states') = Len(states) + 1
        /\ \A s \in 1..Len(states) : states'[s] = states[s]
    BY <1>1, <2>1, <2>2
  <2> QED BY <1>1, <2>3 DEF Grows
<1> QED BY <1>2, <1>3, <1>4, <1>5, <1>6
        DEF PassNext, Begin, Skip, EmptyBody, SeenBefore, PreservePlaceholder, Detect, ScanFails

\* What PlaceholdersStable says of one step.
StableStep ==
    \A s \in DOMAIN states :
        \A k \in DOMAIN states[s].renderer.seen :
            /\ k \in DOMAIN states'[s].renderer.seen
            /\ states'[s].renderer.seen[k] = states[s].renderer.seen[k]

\* A request never changes the placeholder it has given a value, whatever its
\* concurrent passes do: requestRenderer.Render only adds to seen, and
\* GetOrCreateRendererState creates the renderer once.
THEOREM PlaceholdersAreStable == Spec => PlaceholdersStable
<1>1. IInv /\ [Next]_vars => [StableStep]_vars
  <2> SUFFICES ASSUME IInv, [Next]_vars PROVE StableStep
    OBVIOUS
  <2>1. Grows
    <3>1. CASE Reconfigure \/ (\E rid \in RequestIDs : Unbind(rid)) \/ UNCHANGED vars
      BY <3>1, SameStates DEF Reconfigure, Unbind, vars
    <3> QED BY <3>1, PassGrows, NextIs
  <2>2. DOMAIN states = 1..Len(states)
    BY DEF IInv, TypeOK
  <2> QED BY <2>1, <2>2 DEF Grows, Extended, Extends, StableStep
<1>2. Spec => [][StableStep]_vars
  <2> HIDE DEF StableStep
  <2> QED BY <1>1, Invariance, PTL DEF Spec
<1> QED BY <1>2 DEF StableStep, PlaceholdersStable

=============================================================================
