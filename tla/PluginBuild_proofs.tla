------------------------- MODULE PluginBuild_proofs -------------------------
(***************************************************************************)
(* Theorems about PluginBuild: for files of any length and any content the *)
(* report of a build accounts for every rule (ReportAccounts), and the     *)
(* plugin that is built enforces what its files say (PolicyAsWritten).     *)
(*                                                                         *)
(* The argument follows a rule through the three loops it passes.          *)
(* parseRuleSet reads the file: IsParsed relates what it has so far to the *)
(* rules it has read, rule by rule, and to the issues it has reported.     *)
(* compileAllowlist reads the lists of a rule: ListIssues says what it     *)
(* reports of them, and UsableExempts that what it keeps exempts what was  *)
(* written.  New adds the custom rules to the embedded ones: IsMerged      *)
(* relates the engine to the two parsed files.  Under the policy "error"   *)
(* every issue is a rejection, so that a build that gets on has none.      *)
(***************************************************************************)
EXTENDS PluginBuild, SequenceTheorems, WellFoundedInduction, TLAPS

-----------------------------------------------------------------------------
(* Induction over the natural numbers in a form a proof can cite: the statement *)
(* proved by induction is a set, the step of a recursive function a function.   *)

\* A set of natural numbers that is not empty has a least element.
LEMMA LeastElement ==
  ASSUME NEW T \in SUBSET Nat, T # {}
  PROVE  \E x \in T : \A y \in T : x <= y
<1> DEFINE R == OpToRel(<, Nat)
<1>1. IsWellFoundedOn(R, Nat)
  BY NatLessThanWellFounded
<1>2. \E x \in T : \A y \in T : ~(<<y, x>> \in R)
  <2> HIDE DEF R
  <2> QED BY <1>1, WFMin
<1>3. ASSUME NEW x \in Nat, NEW y \in Nat, y < x PROVE <<y, x>> \in R
  <2>1. <<y, x>>[1] < <<y, x>>[2] /\ <<y, x>> \in Nat \X Nat
    BY <1>3
  <2>2. QED
    BY <2>1, Zenon DEF OpToRel
<1>4. QED
  <2> HIDE DEF R
  <2>1. PICK x \in T : \A y \in T : ~(<<y, x>> \in R)
    BY <1>2
  <2>2. ASSUME NEW y \in T PROVE x <= y
    <3>1. ~(y < x) BY <2>1, <1>3
    <3>2. QED BY <3>1
  <2>3. QED BY <2>2

\* Induction from 0 up to N.
LEMMA SetInduction ==
  ASSUME NEW N \in Nat, NEW S, 0 \in S, \A n \in 0..(N - 1) : n \in S => n + 1 \in S
  PROVE  0..N \subseteq S
<1> SUFFICES ASSUME NEW m \in 0..N, m \notin S PROVE FALSE
  OBVIOUS
<1> DEFINE T == {n \in 0..N : n \notin S}
<1>1. PICK x \in T : \A y \in T : x <= y
  <2>1. T \in SUBSET Nat /\ T # {} OBVIOUS
  <2> HIDE DEF T
  <2> QED BY <2>1, LeastElement
<1>2. x # 0 /\ x \in 0..N /\ x \notin S OBVIOUS
<1>3. x - 1 \in 0..(N - 1) /\ x - 1 \in S BY <1>1, <1>2
<1>4. QED BY <1>2, <1>3

\* f starts from base and takes the step of every n to get there.
Unfolds(f, N, base, step) ==
    f[0] = base /\ \A n \in 1..N : f[n] = step[n][f[n - 1]]

\* A function given by its value at 0 and by a step from each value to the next
\* exists.
LEMMA RecursiveFunctionExists ==
  ASSUME NEW N \in Nat, NEW D, NEW base \in D, NEW step \in [1..N -> [D -> D]]
  PROVE  \E f \in [0..N -> D] : Unfolds(f, N, base, step)
<1> DEFINE S == {m \in 0..N : \E f \in [0..m -> D] :
                    f[0] = base /\ \A n \in 1..m : f[n] = step[n][f[n - 1]]}
<1>1. 0 \in S
  <2>1. [k \in 0..0 |-> base] \in [0..0 -> D] /\ [k \in 0..0 |-> base][0] = base
    OBVIOUS
  <2>2. \A n \in 1..0 : FALSE
    OBVIOUS
  <2>3. \E f \in [0..0 -> D] : f[0] = base /\ \A n \in 1..0 : f[n] = step[n][f[n - 1]]
    BY <2>1, <2>2
  <2>4. QED BY <2>3
<1>2. ASSUME NEW m \in 0..(N - 1), m \in S PROVE m + 1 \in S
  <2>1. PICK f \in [0..m -> D] :
            f[0] = base /\ \A n \in 1..m : f[n] = step[n][f[n - 1]]
    BY <1>2
  <2>2. f[m] \in D /\ m + 1 \in 1..N OBVIOUS
  <2>3. step[m + 1] \in [D -> D] BY <2>2
  <2>4. step[m + 1][f[m]] \in D BY <2>2, <2>3
  <2> DEFINE v == step[m + 1][f[m]]
             g == [k \in 0..(m + 1) |-> IF k = m + 1 THEN v ELSE f[k]]
  <2>5. g \in [0..(m + 1) -> D]
    <3> HIDE DEF v
    <3>1. v \in D BY <2>4 DEF v
    <3>2. QED BY <3>1
  <2>6. g[0] = base BY <2>1
  <2>7. ASSUME NEW n \in 1..(m + 1) PROVE g[n] = step[n][g[n - 1]]
    <3>1. g[n - 1] = f[n - 1] BY <2>7
    <3>2. CASE n = m + 1
      <4>1. g[n] = v BY <3>2
      <4>2. n - 1 = m BY <3>2
      <4>3. QED BY <4>1, <4>2, <3>1, <3>2
    <3>3. CASE n \in 1..m
      <4>1. g[n] = f[n] BY <3>3
      <4>2. QED BY <4>1, <3>1, <3>3, <2>1
    <3>4. QED BY <2>7, <3>2, <3>3
  <2>8. QED
    <3> HIDE DEF g
    <3>1. m + 1 \in 0..N OBVIOUS
    <3>2. QED BY <3>1, <2>5, <2>6, <2>7
<1>3. N \in S
  <2> HIDE DEF S
  <2>1. 0..N \subseteq S BY <1>1, <1>2, SetInduction
  <2>2. QED BY <2>1
<1>4. QED BY <1>3 DEF Unfolds

-----------------------------------------------------------------------------

RuleIDs == {NoID} \cup {rule.id : rule \in Rules}

FeatureNames == {"id", "path", "path-only", "regex", "entropy", "secretGroup", "keywords"}

Features == FeatureNames \cup {"toml", "global", "rules", "allowlist", "condition", "regexTarget",
                               "regexes", "stopwords", "paths", "commits", "criteria"}

Policies == {"skip", "error"}

\* The issues a file may give.
IssuesOf(source, policy) ==
    [source : {source}, id : RuleIDs, feature : Features,
     action : IF policy = "skip" THEN {"ignored", "skipped"} ELSE {"rejected"}]

\* The issues that account for a rule that is not loaded.
Naming(source, id, policy) ==
    {Issue(source, id, feature, IF policy = "skip" THEN "skipped" ELSE "rejected") :
        feature \in FeatureNames}

UsableLists(lists, policy) == {list \in ToSet(lists) : Usable(list, policy)}

\* The secretRule made of the n-th rule of a file.
Compiled(rules, n, source, policy) ==
    [id |-> rules[n].id, source |-> source, origin |-> n, regex |-> rules[n].regex,
     keywords |-> rules[n].keywords,
     allowlists |-> UsableLists(rules[n].single \o rules[n].plural, policy)]

CompiledFrom(rules, source, policy) == {Compiled(rules, n, source, policy) : n \in DOMAIN rules}

\* parseRuleSet keeps a rule it can honour unless an earlier one has its id.
Accepted(rules, n) == Honourable(rules[n]) /\ \A k \in 1..(n - 1) : rules[k].id # rules[n].id

Keeps(p, n) == \E m \in DOMAIN p.rules : p.rules[m].origin = n

DistinctIds(rules) == \A m, n \in DOMAIN rules : rules[m].id = rules[n].id => m = n

ParsedRecords(R, G, Q, I) ==
    [rules : R, globals : G, seenIDs : I,
     report : [seen : Nat, loaded : Nat, skipped : Nat, issues : Q]]

ParsedType(p, rules, source, policy) ==
    p \in ParsedRecords(Seq(CompiledFrom(rules, source, policy)), SUBSET Allowlists,
                        Seq(IssuesOf(source, policy)), SUBSET RuleIDs)

Counted(p, rules, policy) ==
    /\ p.report.seen = Len(rules)
    /\ p.report.loaded = Len(p.rules)
    /\ \/ p.report.seen = p.report.loaded + p.report.skipped
       \/ policy = "error" /\ p.report.issues # <<>>

Selected(p, rules) ==
    /\ p.seenIDs = Ids(rules) \ {NoID}
    /\ DistinctIds(p.rules)
    /\ \A n \in DOMAIN rules : Keeps(p, n) <=> Accepted(rules, n)

Named(p, rules, source, policy) ==
    \A n \in DOMAIN rules :
        ~Keeps(p, n) => \E i \in DOMAIN p.report.issues :
                            p.report.issues[i] \in Naming(source, rules[n].id, policy)

\* Without an issue, the policy "error" has met no criterion it does not support.
Heard(p, file, policy) ==
    policy = "error" /\ p.report.issues = <<>> =>
        /\ \A list \in ListsOf(file) : ~Unsupported(list)
        /\ \A n \in DOMAIN file.rules : \A list \in ListsOf(file.rules[n]) : ~Unsupported(list)

\* What parseRuleSet has made of a file, of which it has read the rules so far.
IsParsed(p, file, source, policy) ==
    /\ ParsedType(p, file.rules, source, policy)
    /\ p.globals = UsableLists(file.single \o file.plural, policy)
    /\ Counted(p, file.rules, policy)
    /\ Selected(p, file.rules)
    /\ Named(p, file.rules, source, policy)
    /\ Heard(p, file, policy)

Files == [undecoded : {file.undecoded : file \in Heads} \cup {FALSE}, single : Seq(Allowlists), plural : Seq(Allowlists), rules : Seq(Rules)]

AllIssues == IssuesOf("embedded", "skip") \cup IssuesOf("custom", "skip") \cup IssuesOf("custom", "error")

Reports == [seen : Nat, loaded : Int, skipped : Nat, issues : Seq(AllIssues)]

\* What New has made of the rules of the files after k custom ones.
IsMerged(e, first, second, k) ==
    /\ e.rules \in Seq(ToSet(first.rules) \cup {second.rules[j] : j \in 1..k})
    /\ e.globals = first.globals \cup second.globals
    /\ DistinctIds(e.rules)
    /\ ToSet(first.rules) \subseteq ToSet(e.rules)
    /\ \A j \in 1..k : second.rules[j] \in ToSet(e.rules) <=> second.rules[j].id \notin Ids(first.rules)

IsReported(e, first, second, k, policy) ==
    /\ e.report.loaded = Len(e.rules) + Len(second.rules) - k
    /\ e.report.seen = e.report.loaded + e.report.skipped
    /\ ToSet(first.report.issues) \cup ToSet(second.report.issues) \subseteq ToSet(e.report.issues)
    /\ \A i \in ToSet(e.report.issues) :
          i.action # "rejected" /\ (policy = "error" => i.source = "embedded")
    /\ \A j \in 1..k : second.rules[j] \notin ToSet(e.rules) =>
          Issue("custom", second.rules[j].id, "id", "skipped") \in ToSet(e.report.issues)

Before == {"config", "config refused", "material", "rules unreadable", "file", "rules", "rules incompatible", "merge"}
Joining == {"extend", "pinned", "rules not pinned", "replacements", "replacement refused",
            "log", "log refused", "built"}

TypeOK ==
    /\ phase \in Before \cup Joining
    /\ cfg \in Configs
    /\ embedded \in EmbeddedFiles
    /\ files \in Seq(Read)
    /\ phase \in {"file", "rules"} => files # <<>>
    /\ raw \in [Sources -> Files]
    /\ DOMAIN parsed = Sources
    /\ engine.report \in Reports
    /\ engine = [rules |-> engine.rules, globals |-> engine.globals, report |-> engine.report]

FilesParsed == \A source \in Sources : IsParsed(parsed[source], raw[source], source, Policy(source))

UnreadEmpty == \A source \in Sources \ Read : parsed[source].rules = <<>> /\ raw[source] = NoFile

\* A file that has been read to its end was not refused.
NotRefused ==
    phase # "rules incompatible" =>
        \A source \in Sources :
            HasRejected(parsed[source].report) => phase = "rules" /\ source = files[1]

Refused ==
    phase = "rules incompatible" =>
        HasRejected(Joined(engine.report, Joined(parsed["embedded"].report, parsed["custom"].report)))

EngineMerged ==
    phase \in Joining =>
        /\ merged \in 0..Len(parsed["custom"].rules)
        /\ IsMerged(engine, parsed["embedded"], parsed["custom"], merged)
        /\ IsReported(engine, parsed["embedded"], parsed["custom"], merged, Policy("custom"))
        /\ phase # "extend" => merged = Len(parsed["custom"].rules)

LabelsSafe ==
    phase \in {"log", "log refused", "built"} =>
        \A k \in DOMAIN labels : labels[k] # NoMatch => ~Detects(engine, labels[k])

IInv ==
    /\ TypeOK
    /\ FilesParsed
    /\ UnreadEmpty
    /\ NotRefused
    /\ Refused
    /\ EngineMerged
    /\ LabelsSafe

-----------------------------------------------------------------------------
(* Sequences *)

LEMMA WhenIsSeq ==
  ASSUME NEW c, NEW S, NEW feature \in S
  PROVE  When(c, feature) \in Seq(S) /\ (When(c, feature) = <<>> <=> ~c)
BY DEF When

LEMMA ConcatEmpty ==
  ASSUME NEW S, NEW s \in Seq(S), NEW t \in Seq(S)
  PROVE  /\ s \o t \in Seq(S)
         /\ s \o t = <<>> <=> s = <<>> /\ t = <<>>
BY ConcatProperties, EmptySeq

LEMMA ToSetConcat ==
  ASSUME NEW S, NEW s \in Seq(S), NEW t \in Seq(S)
  PROVE  ToSet(s \o t) = ToSet(s) \cup ToSet(t)
<1>1. /\ Len(s \o t) = Len(s) + Len(t) /\ s \o t \in Seq(S)
      /\ \A i \in 1..(Len(s) + Len(t)) : (s \o t)[i] = IF i <= Len(s) THEN s[i] ELSE t[i - Len(s)]
  BY ConcatProperties
<1>2. Len(s) \in Nat /\ Len(t) \in Nat
      /\ DOMAIN s = 1..Len(s) /\ DOMAIN t = 1..Len(t) /\ DOMAIN (s \o t) = 1..Len(s \o t)
  BY <1>1, LenProperties
<1> DEFINE u == s \o t
<1>3. ASSUME NEW x \in ToSet(u) PROVE x \in ToSet(s) \cup ToSet(t)
  <2>1. PICK i \in DOMAIN u : x = u[i] BY <1>3 DEF ToSet
  <2>2. CASE i <= Len(s)
    <3>1. i \in DOMAIN s /\ x = s[i] BY <2>1, <2>2, <1>1, <1>2
    <3>2. QED BY <3>1 DEF ToSet
  <2>3. CASE ~(i <= Len(s))
    <3>1. i - Len(s) \in DOMAIN t /\ x = t[i - Len(s)] BY <2>1, <2>3, <1>1, <1>2
    <3>2. QED BY <3>1 DEF ToSet
  <2>4. QED BY <2>2, <2>3
<1>4. ASSUME NEW x \in ToSet(s) PROVE x \in ToSet(u)
  <2>1. PICK i \in DOMAIN s : x = s[i] BY <1>4 DEF ToSet
  <2>2. i \in DOMAIN u /\ x = u[i] BY <2>1, <1>1, <1>2
  <2>3. QED BY <2>2 DEF ToSet
<1>5. ASSUME NEW x \in ToSet(t) PROVE x \in ToSet(u)
  <2>1. PICK i \in DOMAIN t : x = t[i] BY <1>5 DEF ToSet
  <2>2. Len(s) + i \in DOMAIN u /\ (Len(s) + i) - Len(s) = i /\ ~(Len(s) + i <= Len(s)) BY <2>1, <1>1, <1>2
  <2>3. x = u[Len(s) + i] BY <2>1, <2>2, <1>1, <1>2
  <2>4. QED BY <2>2, <2>3 DEF ToSet
<1>6. QED BY <1>3, <1>4, <1>5

LEMMA ToSetAppend ==
  ASSUME NEW S, NEW s \in Seq(S), NEW x \in S
  PROVE  ToSet(Append(s, x)) = ToSet(s) \cup {x}
<1>1. /\ Len(Append(s, x)) = Len(s) + 1 /\ Append(s, x) \in Seq(S)
      /\ \A i \in 1..Len(s) : Append(s, x)[i] = s[i]
      /\ Append(s, x)[Len(s) + 1] = x
  BY AppendProperties
<1>2. Len(s) \in Nat /\ DOMAIN s = 1..Len(s) /\ DOMAIN Append(s, x) = 1..(Len(s) + 1)
  BY <1>1, LenProperties
<1> DEFINE u == Append(s, x)
<1>3. ASSUME NEW y \in ToSet(u) PROVE y \in ToSet(s) \cup {x}
  <2>1. PICK i \in DOMAIN u : y = u[i] BY <1>3 DEF ToSet
  <2>2. CASE i = Len(s) + 1 BY <2>1, <2>2, <1>1
  <2>3. CASE i \in DOMAIN s BY <2>1, <2>3, <1>1, <1>2 DEF ToSet
  <2>4. QED BY <2>2, <2>3, <1>2
<1>4. ASSUME NEW y \in ToSet(s) PROVE y \in ToSet(u)
  <2>1. PICK i \in DOMAIN s : y = s[i] BY <1>4 DEF ToSet
  <2>2. i \in DOMAIN u /\ y = u[i] BY <2>1, <1>1, <1>2
  <2>3. QED BY <2>2 DEF ToSet
<1>5. x \in ToSet(u)
  <2>1. Len(s) + 1 \in DOMAIN u BY <1>2
  <2>2. QED BY <2>1, <1>1 DEF ToSet
<1>6. QED BY <1>3, <1>4, <1>5

LEMMA ToSetElements ==
  ASSUME NEW S, NEW s \in Seq(S)
  PROVE  ToSet(s) \subseteq S
<1>1. ASSUME NEW i \in DOMAIN s PROVE s[i] \in S
  BY LenProperties, ElementOfSeq
<1>2. QED BY <1>1 DEF ToSet

LEMMA EmptyToSet == ToSet(<<>>) = {}
BY DEF ToSet

\* f follows the recursion of FlattenSeq.
Flattens(f, seqs) ==
    \A i \in 1..Len(seqs) : f[i] = IF i = 1 THEN seqs[i] ELSE f[i - 1] \o seqs[i]

LEMMA FlattenFunction ==
  ASSUME NEW S, NEW seqs \in Seq(Seq(S)), seqs # <<>>
  PROVE  \E f : Flattens(f, seqs) /\ FlattenSeq(seqs) = f[Len(seqs)]
<1> DEFINE N == Len(seqs)
           F(f) == [i \in 1..N |-> IF i = 1 THEN seqs[i] ELSE f[i - 1] \o seqs[i]]
           step == [n \in 1..N |-> [d \in Seq(S) |-> d \o seqs[n]]]
<1>1. N \in Nat /\ N # 0 /\ \A n \in 1..N : seqs[n] \in Seq(S)
  BY LenProperties, ElementOfSeq, EmptySeq
<1>2. step \in [1..N -> [Seq(S) -> Seq(S)]]
  <2>1. ASSUME NEW n \in 1..N PROVE [d \in Seq(S) |-> d \o seqs[n]] \in [Seq(S) -> Seq(S)]
    <3>1. seqs[n] \in Seq(S) BY <1>1
    <3>2. ASSUME NEW d \in Seq(S) PROVE d \o seqs[n] \in Seq(S) BY <3>1, ConcatProperties
    <3>3. QED BY <3>2
  <2>2. QED BY <2>1
<1>3. PICK g \in [0..N -> Seq(S)] : Unfolds(g, N, <<>>, step)
  <2>1. <<>> \in Seq(S) BY EmptySeq
  <2> HIDE DEF step, N
  <2>2. QED BY <1>1, <1>2, <2>1, RecursiveFunctionExists
<1> DEFINE h == [i \in 1..N |-> g[i]]
<1>4. h = F(h)
  <2>1. ASSUME NEW i \in 1..N PROVE g[i] = IF i = 1 THEN seqs[i] ELSE h[i - 1] \o seqs[i]
    <3>1. g[i] = step[i][g[i - 1]] BY <1>3 DEF Unfolds
    <3>2. g[i - 1] \in Seq(S)
      <4>1. i - 1 \in 0..N BY <1>1
      <4> HIDE DEF N
      <4>2. QED BY <4>1
    <3>3. g[i] = g[i - 1] \o seqs[i] BY <3>1, <3>2
    <3>4. CASE i = 1
      <4>1. g[i - 1] = <<>> BY <3>4, <1>3 DEF Unfolds
      <4>2. seqs[i] \in Seq(S) BY <1>1
      <4>3. <<>> \o seqs[i] = seqs[i] BY <4>2, ConcatEmptySeq
      <4>4. QED BY <4>1, <4>3, <3>3, <3>4
    <3>5. CASE i # 1
      <4>1. h[i - 1] = g[i - 1] BY <3>5, <1>1
      <4>2. QED BY <4>1, <3>3, <3>5
    <3>6. QED BY <3>4, <3>5
  <2> HIDE DEF N
  <2>2. QED BY <2>1
<1> DEFINE c == CHOOSE f : f = F(f)
<1>5. c = F(c)
  <2> HIDE DEF h, F
  <2> QED BY <1>4
<1>6. FlattenSeq(seqs) = c[N]
  BY <1>1, Zenon DEF FlattenSeq
<1>7. Flattens(c, seqs)
  <2> HIDE DEF c
  <2> QED BY <1>5 DEF Flattens
<1>8. QED
  <2> HIDE DEF c
  <2> QED BY <1>6, <1>7

\* FlattenSeq gives a sequence with the elements of its parts.
LEMMA FlattenElements ==
  ASSUME NEW S, NEW seqs \in Seq(Seq(S))
  PROVE  /\ FlattenSeq(seqs) \in Seq(S)
         /\ \A n \in DOMAIN seqs : seqs[n] # <<>> => FlattenSeq(seqs) # <<>>
<1>1. CASE seqs = <<>>
  <2>1. Len(seqs) = 0 /\ DOMAIN seqs = {} BY <1>1, EmptySeq
  <2>2. FlattenSeq(seqs) = seqs BY <2>1 DEF FlattenSeq
  <2>3. seqs \in Seq(S) BY <1>1, EmptySeq
  <2>4. QED BY <2>1, <2>2, <2>3
<1>2. CASE seqs # <<>>
  <2>1. PICK f : Flattens(f, seqs) /\ FlattenSeq(seqs) = f[Len(seqs)]
    BY <1>2, FlattenFunction
  <2> DEFINE N == Len(seqs)
             T == {n \in 0..N : n # 0 => f[n] \in Seq(S) /\ \A k \in 1..n : seqs[k] # <<>> => f[n] # <<>>}
  <2>2. N \in Nat /\ N # 0 /\ DOMAIN seqs = 1..N /\ \A n \in 1..N : seqs[n] \in Seq(S)
    BY <1>2, LenProperties, ElementOfSeq, EmptySeq
  <2>3. 0 \in T BY <2>2
  <2>4. ASSUME NEW n \in 0..(N - 1), n \in T PROVE n + 1 \in T
    <3>1. n + 1 \in 1..N /\ n + 1 # 0 /\ n + 1 \in 0..N BY <2>2
    <3>2. f[n + 1] = IF n + 1 = 1 THEN seqs[n + 1] ELSE f[(n + 1) - 1] \o seqs[n + 1]
      BY <2>1, <3>1 DEF Flattens
    <3>3. CASE n = 0
      <4>1. f[n + 1] = seqs[n + 1] BY <3>2, <3>3
      <4>2. \A k \in 1..(n + 1) : k = n + 1 BY <3>3
      <4>3. f[n + 1] \in Seq(S) BY <4>1, <3>1, <2>2
      <4>4. QED BY <4>1, <4>2, <4>3, <3>1
    <3>4. CASE n # 0
      <4>1. f[n + 1] = f[n] \o seqs[n + 1]
        <5>1. (n + 1) - 1 = n /\ n + 1 # 1 BY <3>4
        <5>2. QED BY <5>1, <3>2, Zenon
      <4>2. f[n] \in Seq(S) /\ \A k \in 1..n : seqs[k] # <<>> => f[n] # <<>> BY <2>4, <3>4
      <4>3. seqs[n + 1] \in Seq(S) BY <3>1, <2>2
      <4>4. f[n + 1] \in Seq(S) /\ (f[n + 1] = <<>> <=> f[n] = <<>> /\ seqs[n + 1] = <<>>)
        BY <4>1, <4>2, <4>3, ConcatEmpty
      <4>5. ASSUME NEW k \in 1..(n + 1), seqs[k] # <<>> PROVE f[n + 1] # <<>>
        <5>1. k \in 1..n \/ k = n + 1 OBVIOUS
        <5>2. QED BY <5>1, <4>2, <4>4, <4>5
      <4>6. QED BY <4>4, <4>5, <3>1
    <3>5. QED BY <3>3, <3>4
  <2>5. N \in T
    <3> HIDE DEF T, N
    <3>1. 0..N \subseteq T BY <2>2, <2>3, <2>4, SetInduction
    <3>2. QED BY <3>1, <2>2
  <2>6. QED BY <2>1, <2>2, <2>5
<1>3. QED BY <1>1, <1>2

-----------------------------------------------------------------------------
(* Allowlists *)

LEMMA PolicyIsOne == \A source : Policy(source) \in Policies
BY DEF Policy, Policies

\* compileAllowlist reports a criterion it does not support.
LEMMA UnsupportedIsReported ==
  ASSUME NEW list, NEW policy
  PROVE  /\ ListFeatures(list, policy) \in Seq(Features)
         /\ Unsupported(list) => ListFeatures(list, policy) # <<>>
<1> DEFINE a == When(list.condition = "unknown", "condition")
           b == When(list.target = "unknown", "regexTarget")
           c == When("uncompilable" \in list.regexes, "regexes")
           d == When("" \in list.stopwords, "stopwords")
           e == When(list.paths, "paths")
           f == When(list.commits, "commits")
           g == When(~Invalid(list, policy) /\ Empty(list) /\ ~Unsupported(list), "criteria")
<1>1. /\ a \in Seq(Features) /\ b \in Seq(Features) /\ c \in Seq(Features) /\ d \in Seq(Features)
      /\ e \in Seq(Features) /\ f \in Seq(Features) /\ g \in Seq(Features)
  <2>1. ASSUME NEW x \in Features PROVE <<x>> \in Seq(Features) /\ <<>> \in Seq(Features)
    OBVIOUS
  <2>2. a \in Seq(Features)
    <3>1. a = <<"condition">> \/ a = <<>> BY DEF When
    <3> HIDE DEF a
    <3>2. "condition" \in Features BY DEF Features
    <3>3. QED BY <2>1, <3>1, <3>2
  <2>3. b \in Seq(Features)
    <3>1. b = <<"regexTarget">> \/ b = <<>> BY DEF When
    <3> HIDE DEF b
    <3>2. "regexTarget" \in Features BY DEF Features
    <3>3. QED BY <2>1, <3>1, <3>2
  <2>4. c \in Seq(Features)
    <3>1. c = <<"regexes">> \/ c = <<>> BY DEF When
    <3> HIDE DEF c
    <3>2. "regexes" \in Features BY DEF Features
    <3>3. QED BY <2>1, <3>1, <3>2
  <2>5. d \in Seq(Features)
    <3>1. d = <<"stopwords">> \/ d = <<>> BY DEF When
    <3> HIDE DEF d
    <3>2. "stopwords" \in Features BY DEF Features
    <3>3. QED BY <2>1, <3>1, <3>2
  <2>6. e \in Seq(Features)
    <3>1. e = <<"paths">> \/ e = <<>> BY DEF When
    <3> HIDE DEF e
    <3>2. "paths" \in Features BY DEF Features
    <3>3. QED BY <2>1, <3>1, <3>2
  <2>7. f \in Seq(Features)
    <3>1. f = <<"commits">> \/ f = <<>> BY DEF When
    <3> HIDE DEF f
    <3>2. "commits" \in Features BY DEF Features
    <3>3. QED BY <2>1, <3>1, <3>2
  <2>8. g \in Seq(Features)
    <3>1. g = <<"criteria">> \/ g = <<>> BY DEF When
    <3> HIDE DEF g
    <3>2. "criteria" \in Features BY DEF Features
    <3>3. QED BY <2>1, <3>1, <3>2
  <2>9. QED BY <2>2, <2>3, <2>4, <2>5, <2>6, <2>7, <2>8
<1>2. (list.paths => e # <<>>) /\ (list.commits => f # <<>>)
  BY DEF When
<1>3. ListFeatures(list, policy) = a \o b \o c \o d \o e \o f \o g
  BY DEF ListFeatures
<1> HIDE DEF a, b, c, d, e, f, g
<1>4. a \o b \in Seq(Features) BY <1>1, ConcatEmpty
<1>5. a \o b \o c \in Seq(Features) BY <1>1, <1>4, ConcatEmpty
<1>6. a \o b \o c \o d \in Seq(Features) BY <1>1, <1>5, ConcatEmpty
<1>7. a \o b \o c \o d \o e \in Seq(Features) /\ (a \o b \o c \o d \o e = <<>> => e = <<>>)
  BY <1>1, <1>6, ConcatEmpty
<1>8. /\ a \o b \o c \o d \o e \o f \in Seq(Features)
      /\ a \o b \o c \o d \o e \o f = <<>> => a \o b \o c \o d \o e = <<>> /\ f = <<>>
  BY <1>1, <1>7, ConcatEmpty
<1>9. /\ a \o b \o c \o d \o e \o f \o g \in Seq(Features)
      /\ a \o b \o c \o d \o e \o f \o g = <<>> => a \o b \o c \o d \o e \o f = <<>>
  BY <1>1, <1>8, ConcatEmpty
<1>10. QED BY <1>2, <1>3, <1>7, <1>8, <1>9, Zenon DEF Unsupported

LEMMA IgnoredIsSeq ==
  ASSUME NEW source, NEW id \in RuleIDs, NEW features \in Seq(Features)
  PROVE  /\ Ignored(source, id, features) \in Seq(IssuesOf(source, Policy(source)))
         /\ Ignored(source, id, features) = <<>> <=> features = <<>>
<1> DEFINE s == Ignored(source, id, features)
           action == IF Policy(source) = "skip" THEN "ignored" ELSE "rejected"
<1>1. DOMAIN features = 1..Len(features) /\ Len(features) \in Nat
      /\ \A n \in DOMAIN features : features[n] \in Features
  BY LenProperties, ElementOfSeq
<1>2. s = [n \in 1..Len(features) |-> Issue(source, id, features[n], action)]
  BY <1>1 DEF Ignored
<1>3. \A n \in 1..Len(features) : Issue(source, id, features[n], action) \in IssuesOf(source, Policy(source))
  BY <1>1 DEF Issue, IssuesOf
<1> HIDE DEF action
<1>4. s \in Seq(IssuesOf(source, Policy(source))) /\ Len(s) = Len(features)
  <2>1. s \in [1..Len(features) -> IssuesOf(source, Policy(source))] BY <1>2, <1>3
  <2> HIDE DEF s
  <2>2. QED BY <2>1, <1>1, IsASeq, LenProperties
<1>5. QED
  <2> HIDE DEF s
  <2>1. s = <<>> <=> Len(s) = 0 BY <1>4, EmptySeq
  <2>2. features = <<>> <=> Len(features) = 0 BY EmptySeq
  <2>3. QED BY <1>4, <2>1, <2>2 DEF s

LEMMA ListIssuesReported ==
  ASSUME NEW lists \in Seq(Allowlists), NEW source, NEW id \in RuleIDs
  PROVE  /\ ListIssues(lists, source, id) \in Seq(IssuesOf(source, Policy(source)))
         /\ ListIssues(lists, source, id) = <<>> => \A list \in ToSet(lists) : ~Unsupported(list)
<1> DEFINE S == IssuesOf(source, Policy(source))
           parts == [n \in DOMAIN lists |-> Ignored(source, id, ListFeatures(lists[n], Policy(source)))]
<1>1. DOMAIN lists = 1..Len(lists) /\ Len(lists) \in Nat
  BY LenProperties
<1>2. ASSUME NEW n \in DOMAIN lists
      PROVE  parts[n] \in Seq(S) /\ (Unsupported(lists[n]) => parts[n] # <<>>)
  <2>1. /\ ListFeatures(lists[n], Policy(source)) \in Seq(Features)
        /\ Unsupported(lists[n]) => ListFeatures(lists[n], Policy(source)) # <<>>
    BY UnsupportedIsReported
  <2>2. parts[n] = Ignored(source, id, ListFeatures(lists[n], Policy(source)))
    OBVIOUS
  <2> HIDE DEF parts
  <2>3. QED BY <2>1, <2>2, IgnoredIsSeq
<1>3. parts \in Seq(Seq(S))
  <2>1. parts \in [1..Len(lists) -> Seq(S)]
    <3>1. \A n \in DOMAIN lists : Ignored(source, id, ListFeatures(lists[n], Policy(source))) \in Seq(S)
      BY <1>2
    <3> HIDE DEF S
    <3>2. QED BY <3>1, <1>1
  <2> HIDE DEF parts, S
  <2>2. QED BY <2>1, <1>1, IsASeq
<1>4. DOMAIN parts = DOMAIN lists OBVIOUS
<1>5. ListIssues(lists, source, id) = FlattenSeq(parts)
  BY DEF ListIssues
<1>6. QED
  <2> HIDE DEF parts, S
  <2>1. FlattenSeq(parts) \in Seq(S) /\ \A n \in DOMAIN parts : parts[n] # <<>> => FlattenSeq(parts) # <<>>
    BY <1>3, FlattenElements
  <2>2. FlattenSeq(parts) = <<>> => \A n \in DOMAIN lists : ~Unsupported(lists[n])
    BY <2>1, <1>2, <1>4
  <2>3. QED BY <2>1, <2>2, <1>5, Zenon DEF ToSet, S

LEMMA CompiledLists ==
  ASSUME NEW lists, NEW source
  PROVE  CompileAllowlists(lists, source) = UsableLists(lists, Policy(source))
BY DEF CompileAllowlists, UsableLists

\* What compileAllowlist keeps of a list exempts the texts the list was written
\* for: under the policy "error" when it has only criteria that are supported.
LEMMA UsableExempts ==
  ASSUME NEW list \in Allowlists, NEW policy \in Policies, NEW text,
         policy = "error" => ~Unsupported(list)
  PROVE  Exempts(list, text) <=> Usable(list, policy) /\ Matches(list, text)
<1> DEFINE regexHit == list.regexes \cap text[list.target] # {}
           wordHit == list.stopwords \cap text.secretWords # {}
           hits == CriteriaMet(list, text)
           named == CriteriaNamed(list)
<1>1. list.paths \in BOOLEAN /\ list.commits \in BOOLEAN BY DEF Allowlists
<1>2. Exempts(list, text) <=>
         /\ ~Malformed(list)
         /\ \/ list.condition = "AND" /\ named # {} /\ named \subseteq hits
            \/ list.condition # "AND" /\ hits # {}
  BY Zenon DEF Exempts
<1>3. /\ "regexes" \in hits <=> regexHit
      /\ "stopwords" \in hits <=> wordHit
      /\ \A k \in hits : k = "regexes" \/ k = "stopwords"
  BY DEF CriteriaMet
<1>4. /\ "regexes" \in named <=> list.regexes # {}
      /\ "stopwords" \in named <=> list.stopwords # {}
      /\ "paths" \in named <=> list.paths
      /\ "commits" \in named <=> list.commits
      /\ \A k \in named : k \in {"regexes", "stopwords", "paths", "commits"}
  BY <1>1 DEF CriteriaNamed
<1>5. /\ hits # {} <=> regexHit \/ wordHit
      /\ named # {} <=> list.regexes # {} \/ list.stopwords # {} \/ list.paths \/ list.commits
      /\ named \subseteq hits <=>
         /\ list.regexes # {} => regexHit
         /\ list.stopwords # {} => wordHit
         /\ ~list.paths /\ ~list.commits
  <2> HIDE DEF hits, named
  <2>1. hits # {} <=> regexHit \/ wordHit BY <1>3
  <2>2. named # {} <=> list.regexes # {} \/ list.stopwords # {} \/ list.paths \/ list.commits
    BY <1>4
  <2>3. named \subseteq hits <=> /\ "regexes" \in named => "regexes" \in hits
                                 /\ "stopwords" \in named => "stopwords" \in hits
                                 /\ "paths" \notin named /\ "commits" \notin named
    BY <1>3, <1>4
  <2>4. QED BY <2>1, <2>2, <2>3, <1>3, <1>4, Zenon
<1>6. Matches(list, text) <=>
         IF list.condition = "AND"
         THEN (list.regexes = {} \/ regexHit) /\ (list.stopwords = {} \/ wordHit)
         ELSE regexHit \/ wordHit
  BY DEF Matches
<1>7. Unsupported(list) <=> list.paths \/ list.commits
  BY DEF Unsupported
<1>8. ~Malformed(list) => (Empty(list) <=> list.regexes = {} /\ list.stopwords = {})
  <2>1. ASSUME ~Malformed(list) PROVE "uncompilable" \notin list.regexes /\ "" \notin list.stopwords
    BY <2>1 DEF Malformed
  <2>2. QED BY <2>1 DEF Empty
<1>9. /\ Usable(list, policy) <=> ~Inert(list, policy) /\ ~Invalid(list, policy) /\ ~Empty(list)
      /\ Inert(list, policy) <=> policy = "skip" /\ list.condition = "AND" /\ Unsupported(list)
      /\ Invalid(list, policy) <=> Malformed(list) \/ (Unsupported(list) /\ policy = "error")
  BY DEF Usable, Inert, Invalid
<1>10. policy = "skip" \/ policy = "error" BY DEF Policies
<1>11. (regexHit => list.regexes # {}) /\ (wordHit => list.stopwords # {})
  OBVIOUS
<1> HIDE DEF regexHit, wordHit, hits, named
<1>12. CASE list.condition = "AND"
  <2>1. Exempts(list, text) <=> /\ ~Malformed(list)
                                /\ list.regexes # {} \/ list.stopwords # {}
                                /\ list.regexes # {} => regexHit
                                /\ list.stopwords # {} => wordHit
                                /\ ~Unsupported(list)
    BY <1>2, <1>5, <1>7, <1>12, Zenon
  <2>2. Usable(list, policy) <=> ~Malformed(list) /\ ~Unsupported(list) /\ ~Empty(list)
    BY <1>9, <1>10, <1>12, Zenon
  <2>3. QED BY <2>1, <2>2, <1>6, <1>8, <1>12, Zenon
<1>13. CASE list.condition # "AND"
  <2>1. Exempts(list, text) <=> ~Malformed(list) /\ (regexHit \/ wordHit)
    BY <1>2, <1>5, <1>13, Zenon
  <2>2. Usable(list, policy) <=> ~Malformed(list) /\ ~Empty(list)
    BY <1>9, <1>10, <1>13, Zenon
  <2>3. QED BY <2>1, <2>2, <1>6, <1>8, <1>11, <1>13, Zenon
<1>14. QED BY <1>12, <1>13

-----------------------------------------------------------------------------
(* Rules *)

\* A rule is refused for what is wrong with it, or for its id.
LEMMA RuleFeaturesMean ==
  ASSUME NEW rule \in Rules, NEW seenIDs
  PROVE  /\ RuleFeatures(rule, seenIDs) \in Seq(FeatureNames)
         /\ RuleFeatures(rule, seenIDs) = <<>> <=> Honourable(rule) /\ rule.id \notin seenIDs
         /\ Honourable(rule) => rule.id # NoID /\ rule.regex # "none"
<1> DEFINE i == When(rule.id = NoID \/ rule.id \in seenIDs, "id")
           j == When(rule.id = NoID \/ rule.id \in {}, "id")
           a == When(rule.path = "compiles" /\ rule.regex = "none", "path-only")
           b == When(rule.path = "uncompilable" \/ (rule.path = "compiles" /\ rule.regex # "none"), "path")
           r == When(rule.path = "none", "regex")
           c == When(rule.regex = "uncompilable", "regex")
           d == When(rule.entropy = "invalid", "entropy")
           e == When(rule.regex # "uncompilable" /\ rule.group = "outside", "secretGroup")
           f == When("" \in rule.keywords, "keywords")
           rest == IF rule.regex = "none" THEN r ELSE c \o d \o e \o f
<1>1. /\ RuleFeatures(rule, seenIDs) = i \o a \o b \o rest
      /\ RuleFeatures(rule, {}) = j \o a \o b \o rest
  BY DEF RuleFeatures
<1>2. /\ i \in Seq(FeatureNames) /\ j \in Seq(FeatureNames) /\ a \in Seq(FeatureNames) /\ b \in Seq(FeatureNames)
      /\ r \in Seq(FeatureNames) /\ c \in Seq(FeatureNames) /\ d \in Seq(FeatureNames)
      /\ e \in Seq(FeatureNames) /\ f \in Seq(FeatureNames)
  <2>1. ASSUME NEW x \in FeatureNames PROVE <<x>> \in Seq(FeatureNames) /\ <<>> \in Seq(FeatureNames)
    OBVIOUS
  <2>2. i \in Seq(FeatureNames)
    <3>1. i = <<"id">> \/ i = <<>> BY DEF When
    <3> HIDE DEF i
    <3>2. "id" \in FeatureNames BY DEF FeatureNames
    <3>3. QED BY <2>1, <3>1, <3>2
  <2>3. j \in Seq(FeatureNames)
    <3>1. j = <<"id">> \/ j = <<>> BY DEF When
    <3> HIDE DEF j
    <3>2. "id" \in FeatureNames BY DEF FeatureNames
    <3>3. QED BY <2>1, <3>1, <3>2
  <2>4. a \in Seq(FeatureNames)
    <3>1. a = <<"path-only">> \/ a = <<>> BY DEF When
    <3> HIDE DEF a
    <3>2. "path-only" \in FeatureNames BY DEF FeatureNames
    <3>3. QED BY <2>1, <3>1, <3>2
  <2>5. b \in Seq(FeatureNames)
    <3>1. b = <<"path">> \/ b = <<>> BY DEF When
    <3> HIDE DEF b
    <3>2. "path" \in FeatureNames BY DEF FeatureNames
    <3>3. QED BY <2>1, <3>1, <3>2
  <2>6. r \in Seq(FeatureNames)
    <3>1. r = <<"regex">> \/ r = <<>> BY DEF When
    <3> HIDE DEF r
    <3>2. "regex" \in FeatureNames BY DEF FeatureNames
    <3>3. QED BY <2>1, <3>1, <3>2
  <2>7. c \in Seq(FeatureNames)
    <3>1. c = <<"regex">> \/ c = <<>> BY DEF When
    <3> HIDE DEF c
    <3>2. "regex" \in FeatureNames BY DEF FeatureNames
    <3>3. QED BY <2>1, <3>1, <3>2
  <2>8. d \in Seq(FeatureNames)
    <3>1. d = <<"entropy">> \/ d = <<>> BY DEF When
    <3> HIDE DEF d
    <3>2. "entropy" \in FeatureNames BY DEF FeatureNames
    <3>3. QED BY <2>1, <3>1, <3>2
  <2>9. e \in Seq(FeatureNames)
    <3>1. e = <<"secretGroup">> \/ e = <<>> BY DEF When
    <3> HIDE DEF e
    <3>2. "secretGroup" \in FeatureNames BY DEF FeatureNames
    <3>3. QED BY <2>1, <3>1, <3>2
  <2>10. f \in Seq(FeatureNames)
    <3>1. f = <<"keywords">> \/ f = <<>> BY DEF When
    <3> HIDE DEF f
    <3>2. "keywords" \in FeatureNames BY DEF FeatureNames
    <3>3. QED BY <2>1, <3>1, <3>2
  <2>11. QED BY <2>2, <2>3, <2>4, <2>5, <2>6, <2>7, <2>8, <2>9, <2>10
<1>3. /\ i = <<>> <=> ~(rule.id = NoID \/ rule.id \in seenIDs)
      /\ j = <<>> <=> rule.id # NoID
  BY DEF When
<1>4. /\ rule.path = "none" /\ rule.regex = "none" => r # <<>>
      /\ rule.path = "compiles" /\ rule.regex = "none" => a # <<>>
      /\ rule.path = "uncompilable" => b # <<>>
  BY DEF When
<1> HIDE DEF i, j, a, b, r, c, d, e, f
<1>5. c \o d \in Seq(FeatureNames) BY <1>2, ConcatEmpty
<1>6. c \o d \o e \in Seq(FeatureNames) BY <1>2, <1>5, ConcatEmpty
<1>7. c \o d \o e \o f \in Seq(FeatureNames) BY <1>2, <1>6, ConcatEmpty
<1>8. rest \in Seq(FeatureNames) BY <1>2, <1>7
<1>9. rule.regex = "none" => rest = r OBVIOUS
<1> HIDE DEF rest
<1>10. /\ i \o a \in Seq(FeatureNames) /\ j \o a \in Seq(FeatureNames)
       /\ i \o a = <<>> <=> i = <<>> /\ a = <<>>
       /\ j \o a = <<>> <=> j = <<>> /\ a = <<>>
  BY <1>2, ConcatEmpty
<1>11. /\ i \o a \o b \in Seq(FeatureNames) /\ j \o a \o b \in Seq(FeatureNames)
       /\ i \o a \o b = <<>> <=> i \o a = <<>> /\ b = <<>>
       /\ j \o a \o b = <<>> <=> j \o a = <<>> /\ b = <<>>
  BY <1>2, <1>10, ConcatEmpty
<1>12. /\ i \o a \o b \o rest \in Seq(FeatureNames)
       /\ i \o a \o b \o rest = <<>> <=> i \o a \o b = <<>> /\ rest = <<>>
       /\ j \o a \o b \o rest = <<>> <=> j \o a \o b = <<>> /\ rest = <<>>
  BY <1>8, <1>11, ConcatEmpty
<1>13. rule.path = "none" \/ rule.path = "compiles" \/ rule.path = "uncompilable"
  BY BuildTypes
<1>14. /\ RuleFeatures(rule, seenIDs) = <<>> <=> i = <<>> /\ a = <<>> /\ b = <<>> /\ rest = <<>>
       /\ Honourable(rule) <=> j = <<>> /\ a = <<>> /\ b = <<>> /\ rest = <<>>
  BY <1>1, <1>10, <1>11, <1>12, Zenon DEF Honourable
<1>15. RuleFeatures(rule, seenIDs) \in Seq(FeatureNames)
  BY <1>1, <1>12, Zenon
<1>16. rule.regex = "none" => a # <<>> \/ b # <<>> \/ rest # <<>>
  BY <1>4, <1>9, <1>13, Zenon
<1>17. QED
  BY <1>3, <1>14, <1>15, <1>16, Zenon

LEMMA SkippedIsSeq ==
  ASSUME NEW source, NEW id \in RuleIDs, NEW features \in Seq(FeatureNames)
  PROVE  /\ Skipped(source, id, features) \in Seq(Naming(source, id, Policy(source)))
         /\ Skipped(source, id, features) \in Seq(IssuesOf(source, Policy(source)))
         /\ Skipped(source, id, features) = <<>> <=> features = <<>>
<1> DEFINE s == Skipped(source, id, features)
           action == IF Policy(source) = "skip" THEN "skipped" ELSE "rejected"
           S == Naming(source, id, Policy(source))
           T == IssuesOf(source, Policy(source))
<1>1. DOMAIN features = 1..Len(features) /\ Len(features) \in Nat
      /\ \A n \in DOMAIN features : features[n] \in FeatureNames
  BY LenProperties, ElementOfSeq
<1>2. s = [n \in 1..Len(features) |-> Issue(source, id, features[n], action)]
  BY <1>1 DEF Skipped
<1>3. \A n \in 1..Len(features) : Issue(source, id, features[n], action) \in S
  BY <1>1 DEF Naming
<1>4. \A n \in 1..Len(features) : Issue(source, id, features[n], action) \in T
  BY <1>1 DEF Issue, IssuesOf, Features
<1> HIDE DEF action, S, T
<1>5. s \in [1..Len(features) -> S] /\ s \in [1..Len(features) -> T]
  BY <1>2, <1>3, <1>4
<1> HIDE DEF s
<1>6. s \in Seq(S) /\ s \in Seq(T) BY <1>5, <1>1, IsASeq
<1>7. Len(s) = Len(features) BY <1>5, <1>6, <1>1, LenProperties
<1>8. s = <<>> <=> Len(s) = 0 BY <1>6, EmptySeq
<1>9. features = <<>> <=> Len(features) = 0 BY EmptySeq
<1>10. QED BY <1>6, <1>7, <1>8, <1>9 DEF s, S, T

LEMMA ListsOfConcat ==
  ASSUME NEW holder
  PROVE  ListsOf(holder) = ToSet(holder.single \o holder.plural)
BY DEF ListsOf

LEMMA RuleListIssuesReported ==
  ASSUME NEW rule \in Rules, NEW source
  PROVE  /\ RuleListIssues(rule, source) \in Seq(IssuesOf(source, Policy(source)))
         /\ rule.regex # "none" /\ RuleListIssues(rule, source) = <<>> =>
               \A list \in ListsOf(rule) : ~Unsupported(list)
<1> DEFINE mixed == When(Mixed(rule), "allowlist")
           a == Ignored(source, rule.id, mixed)
           b == ListIssues(rule.single \o rule.plural, source, rule.id)
           S == IssuesOf(source, Policy(source))
<1>1. rule.id \in RuleIDs BY DEF RuleIDs
<1>2. rule.single \in Seq(Allowlists) /\ rule.plural \in Seq(Allowlists)
  BY BuildTypes
<1>3. rule.single \o rule.plural \in Seq(Allowlists)
  BY <1>2, ConcatProperties
<1>4. b \in Seq(S) /\ (b = <<>> => \A list \in ListsOf(rule) : ~Unsupported(list))
  <2>1. /\ ListIssues(rule.single \o rule.plural, source, rule.id) \in Seq(IssuesOf(source, Policy(source)))
        /\ ListIssues(rule.single \o rule.plural, source, rule.id) = <<>> =>
              \A list \in ToSet(rule.single \o rule.plural) : ~Unsupported(list)
    BY <1>1, <1>3, ListIssuesReported
  <2>2. QED BY <2>1, ListsOfConcat
<1>5. mixed \in Seq(Features)
  <2>1. mixed = <<"allowlist">> \/ mixed = <<>> BY DEF When
  <2>2. "allowlist" \in Features BY DEF Features
  <2>3. ASSUME NEW x \in Features PROVE <<x>> \in Seq(Features) /\ <<>> \in Seq(Features)
    OBVIOUS
  <2> HIDE DEF mixed
  <2>4. QED BY <2>1, <2>2, <2>3
<1>6. a \in Seq(S)
  <2> HIDE DEF mixed
  <2>1. QED BY <1>1, <1>5, IgnoredIsSeq
<1>7. <<>> \in Seq(S) OBVIOUS
<1>8. RuleListIssues(rule, source) = IF rule.regex = "none" THEN <<>> ELSE a \o b
  BY DEF RuleListIssues
<1> HIDE DEF a, b, S
<1>9. a \o b \in Seq(S) /\ (a \o b = <<>> => b = <<>>)
  BY <1>4, <1>6, ConcatEmpty
<1>10. QED BY <1>4, <1>7, <1>8, <1>9 DEF S

\* The issues a turn of the loop of parseRuleSet reports.
TurnIssues(p, rule, source) ==
    Skipped(source, rule.id, RuleFeatures(rule, p.seenIDs)) \o RuleListIssues(rule, source)

LEMMA TurnIssuesReported ==
  ASSUME NEW p, NEW rule \in Rules, NEW source
  PROVE  /\ TurnIssues(p, rule, source) \in Seq(IssuesOf(source, Policy(source)))
         /\ RuleFeatures(rule, p.seenIDs) # <<>> =>
               \E i \in DOMAIN TurnIssues(p, rule, source) :
                   TurnIssues(p, rule, source)[i] \in Naming(source, rule.id, Policy(source))
         /\ TurnIssues(p, rule, source) = <<>> =>
               \A list \in ListsOf(rule) : ~Unsupported(list)
<1> DEFINE f == RuleFeatures(rule, p.seenIDs)
           a == Skipped(source, rule.id, f)
           b == RuleListIssues(rule, source)
           S == IssuesOf(source, Policy(source))
           T == Naming(source, rule.id, Policy(source))
<1>1. rule.id \in RuleIDs BY DEF RuleIDs
<1>2. f \in Seq(FeatureNames) /\ (f = <<>> => rule.regex # "none")
  BY RuleFeaturesMean
<1>3. a \in Seq(T) /\ a \in Seq(S) /\ (a = <<>> <=> f = <<>>)
  <2> HIDE DEF f
  <2> QED BY <1>1, <1>2, SkippedIsSeq
<1>4. b \in Seq(S) /\ (rule.regex # "none" /\ b = <<>> => \A list \in ListsOf(rule) : ~Unsupported(list))
  BY RuleListIssuesReported
<1>5. TurnIssues(p, rule, source) = a \o b BY DEF TurnIssues
<1> HIDE DEF f, a, b, S, T
<1>6. a \o b \in Seq(S) /\ (a \o b = <<>> <=> a = <<>> /\ b = <<>>)
  BY <1>3, <1>4, ConcatEmpty
<1>7. ASSUME f # <<>> PROVE 1 \in DOMAIN (a \o b) /\ (a \o b)[1] \in T
  <2>1. Len(a) \in Nat /\ Len(a) # 0 /\ Len(b) \in Nat BY <1>7, <1>3, <1>4, LenProperties, EmptySeq
  <2>2. Len(a \o b) = Len(a) + Len(b) /\ (a \o b)[1] = a[1]
    BY <2>1, <1>3, <1>4, ConcatProperties
  <2>3. DOMAIN (a \o b) = 1..Len(a \o b) BY <1>6, LenProperties
  <2>4. a[1] \in T BY <2>1, <1>3, ElementOfSeq
  <2>5. QED BY <2>1, <2>2, <2>3, <2>4
<1>8. QED BY <1>2, <1>3, <1>4, <1>5, <1>6, <1>7, Zenon DEF f, S, T

\* The turn for a rule that is not kept, and for one that is.
TurnRefused(p, q, rule, source) ==
    /\ q.rules = p.rules
    /\ q.globals = p.globals
    /\ q.seenIDs = p.seenIDs \cup ({rule.id} \ {NoID})
    /\ q.report = [seen |-> p.report.seen + 1, loaded |-> p.report.loaded,
                   skipped |-> IF Policy(source) = "skip" THEN p.report.skipped + 1 ELSE p.report.skipped,
                   issues |-> p.report.issues \o TurnIssues(p, rule, source)]

TurnKept(p, q, rule, source, origin) ==
    /\ q.rules = Append(p.rules, [id |-> rule.id, source |-> source, origin |-> origin,
                                  regex |-> rule.regex, keywords |-> rule.keywords,
                                  allowlists |-> UsableLists(rule.single \o rule.plural, Policy(source))])
    /\ q.globals = p.globals
    /\ q.seenIDs = p.seenIDs \cup ({rule.id} \ {NoID})
    /\ q.report = [seen |-> p.report.seen + 1, loaded |-> p.report.loaded + 1,
                   skipped |-> p.report.skipped,
                   issues |-> p.report.issues \o TurnIssues(p, rule, source)]

IsParsedRecord(q) == DOMAIN q = {"rules", "globals", "report", "seenIDs"}
                     /\ q = [rules |-> q.rules, globals |-> q.globals, report |-> q.report, seenIDs |-> q.seenIDs]

LEMMA ParseRuleTurn ==
  ASSUME NEW p, NEW R, NEW G, NEW I, NEW Q,
         p \in ParsedRecords(R, G, Q, I),
         NEW rule, NEW source, NEW origin
  PROVE  LET q == ParseRule(p, rule, source, origin)
         IN  /\ IsParsedRecord(q)
             /\ RuleFeatures(rule, p.seenIDs) # <<>> => TurnRefused(p, q, rule, source)
             /\ RuleFeatures(rule, p.seenIDs) = <<>> => TurnKept(p, q, rule, source, origin)
<1> DEFINE q == ParseRule(p, rule, source, origin)
           f == RuleFeatures(rule, p.seenIDs)
           t == TurnIssues(p, rule, source)
           new == [id |-> rule.id, source |-> source, origin |-> origin,
                   regex |-> rule.regex, keywords |-> rule.keywords,
                   allowlists |-> UsableLists(rule.single \o rule.plural, Policy(source))]
<1>1. PICK rules \in R, globals \in G, seenIDs \in I, seen \in Nat, loaded \in Nat, skipped \in Nat, issues \in Q :
        p = [rules |-> rules, globals |-> globals, seenIDs |-> seenIDs,
             report |-> [seen |-> seen, loaded |-> loaded, skipped |-> skipped, issues |-> issues]]
  BY DEF ParsedRecords
<1> DEFINE all == issues \o t
           ids == seenIDs \cup ({rule.id} \ {NoID})
           report == [seen |-> seen + 1, loaded |-> loaded, skipped |-> skipped, issues |-> all]
           met == [rules |-> rules, globals |-> globals, seenIDs |-> ids, report |-> p.report]
<1>a. p.report.issues \o t = all /\ p.seenIDs \cup ({rule.id} \ {NoID}) = ids
  BY <1>1
<1>b. p.report = [seen |-> seen, loaded |-> loaded, skipped |-> skipped, issues |-> issues]
  BY <1>1
<1> HIDE DEF all, ids
<1>2. [p.report EXCEPT !.seen = @ + 1, !.issues = @ \o t] = report
  <2>1. [p.report EXCEPT !.seen = @ + 1, !.issues = @ \o t] = [p.report EXCEPT !.seen = @ + 1, !.issues = all]
    BY <1>a
  <2>2. [p.report EXCEPT !.seen = @ + 1, !.issues = all] = report
    <3> DEFINE more == seen + 1
               rep == p.report
    <3>1. rep.seen + 1 = more BY <1>b
    <3>2. rep = [seen |-> seen, loaded |-> loaded, skipped |-> skipped, issues |-> issues] BY <1>b
    <3> HIDE DEF more, rep
    <3>3. [rep EXCEPT !.seen = more, !.issues = all]
            = [seen |-> more, loaded |-> loaded, skipped |-> skipped, issues |-> all]
      <4> DEFINE updated == [rep EXCEPT !.seen = more, !.issues = all]
      <4>1. updated.seen = more /\ updated.loaded = loaded /\ updated.skipped = skipped /\ updated.issues = all
        BY <3>2
      <4>2. updated = [x \in {"seen", "loaded", "skipped", "issues"} |-> updated[x]]
        BY <3>2
      <4> HIDE DEF updated
      <4>3. [seen |-> more, loaded |-> loaded, skipped |-> skipped, issues |-> all]
              = [x \in {"seen", "loaded", "skipped", "issues"} |-> updated[x]]
        BY <4>1
      <4>4. QED BY <4>2, <4>3 DEF updated
    <3>4. QED BY <3>1, <3>3, Zenon DEF more, rep
  <2>3. QED
    <3> HIDE DEF report
    <3> QED BY <2>1, <2>2, Zenon
<1>3. [p EXCEPT !.seenIDs = @ \cup ({rule.id} \ {NoID})] = met
  <2>1. [p EXCEPT !.seenIDs = @ \cup ({rule.id} \ {NoID})] = [p EXCEPT !.seenIDs = ids]
    BY <1>a
  <2>2. QED BY <2>1, <1>1, <1>b
<1>4. CompileAllowlists(rule.single \o rule.plural, source) = UsableLists(rule.single \o rule.plural, Policy(source))
  BY CompiledLists
<1>5. q = IF f # <<>> THEN [met EXCEPT !.report = FinishInvalidRule(report, source)]
          ELSE [met EXCEPT !.report = [report EXCEPT !.loaded = @ + 1], !.rules = Append(@, new)]
  <2> HIDE DEF met, report, f
  <2> QED BY <1>2, <1>3, <1>4 DEF ParseRule, TurnIssues, f
<1> HIDE DEF t, f, new
<1>6. CASE f # <<>>
  <2> DEFINE n == IF Policy(source) = "skip" THEN skipped + 1 ELSE skipped
  <2>1. FinishInvalidRule(report, source) =
          [seen |-> seen + 1, loaded |-> loaded, skipped |-> n, issues |-> all]
    BY DEF FinishInvalidRule
  <2> HIDE DEF n
  <2>2. q = [rules |-> rules, globals |-> globals, seenIDs |-> ids,
             report |-> [seen |-> seen + 1, loaded |-> loaded, skipped |-> n, issues |-> all]]
    BY <1>5, <1>6, <2>1
  <2> HIDE DEF q
  <2>3. IsParsedRecord(q) BY <2>2 DEF IsParsedRecord
  <2>4. TurnRefused(p, q, rule, source) BY <2>2, <1>1, <1>a DEF TurnRefused, t, n
  <2>5. QED BY <2>3, <2>4, <1>6 DEF q, f
<1>7. CASE f = <<>>
  <2>1. [report EXCEPT !.loaded = @ + 1] =
          [seen |-> seen + 1, loaded |-> loaded + 1, skipped |-> skipped, issues |-> all]
    OBVIOUS
  <2> DEFINE app == Append(rules, new)
  <2>2. q = [rules |-> app, globals |-> globals, seenIDs |-> ids,
             report |-> [seen |-> seen + 1, loaded |-> loaded + 1, skipped |-> skipped, issues |-> all]]
    <3>1. q = [met EXCEPT !.report = [report EXCEPT !.loaded = @ + 1], !.rules = app]
      BY <1>5, <1>7
    <3> HIDE DEF app, q
    <3>2. QED BY <3>1, <2>1
  <2> HIDE DEF q
  <2>3. IsParsedRecord(q)
    <3> HIDE DEF app
    <3> QED BY <2>2 DEF IsParsedRecord
  <2>4. TurnKept(p, q, rule, source, origin)
    <3>1. app = Append(p.rules, new) BY <1>1
    <3> HIDE DEF app
    <3>2. QED BY <2>2, <3>1, <1>1, <1>a DEF TurnKept, t, new
  <2>5. QED BY <2>3, <2>4, <1>7 DEF q, f
<1>8. QED BY <1>6, <1>7

-----------------------------------------------------------------------------
(* The loop of parseRuleSet *)

LEMMA CompiledExtended ==
  ASSUME NEW rules \in Seq(Rules), NEW rule \in Rules, NEW source, NEW policy
  PROVE  LET more == Append(rules, rule)
         IN  /\ \A n \in DOMAIN rules : Compiled(more, n, source, policy) = Compiled(rules, n, source, policy)
             /\ CompiledFrom(rules, source, policy) \subseteq CompiledFrom(more, source, policy)
             /\ Compiled(more, Len(rules) + 1, source, policy) \in CompiledFrom(more, source, policy)
<1> DEFINE more == Append(rules, rule)
<1>1. /\ Len(rules) \in Nat /\ DOMAIN rules = 1..Len(rules) /\ DOMAIN more = 1..(Len(rules) + 1)
      /\ \A n \in DOMAIN rules : more[n] = rules[n]
  BY LenProperties, AppendProperties
<1> HIDE DEF more
<1>2. \A n \in DOMAIN rules : Compiled(more, n, source, policy) = Compiled(rules, n, source, policy)
  BY <1>1 DEF Compiled
<1>3. DOMAIN rules \subseteq DOMAIN more /\ Len(rules) + 1 \in DOMAIN more
  BY <1>1
<1>4. QED BY <1>2, <1>3 DEF CompiledFrom, more

LEMMA AcceptedExtended ==
  ASSUME NEW rules \in Seq(Rules), NEW rule \in Rules
  PROVE  LET more == Append(rules, rule)
         IN  /\ Ids(more) = Ids(rules) \cup {rule.id}
             /\ \A n \in DOMAIN rules : Accepted(more, n) <=> Accepted(rules, n)
             /\ Accepted(more, Len(rules) + 1) <=> Honourable(rule) /\ rule.id \notin Ids(rules)
<1> DEFINE more == Append(rules, rule)
<1>1. /\ Len(rules) \in Nat /\ DOMAIN rules = 1..Len(rules) /\ DOMAIN more = 1..(Len(rules) + 1)
      /\ \A n \in 1..Len(rules) : more[n] = rules[n]
      /\ more[Len(rules) + 1] = rule
  BY LenProperties, AppendProperties
<1> HIDE DEF more
<1>2. Ids(more) = Ids(rules) \cup {rule.id}
  <2>1. ASSUME NEW n \in DOMAIN more PROVE more[n].id \in Ids(rules) \cup {rule.id}
    <3>1. n \in DOMAIN rules \/ n = Len(rules) + 1 BY <1>1
    <3>2. QED BY <3>1, <1>1 DEF Ids
  <2>2. ASSUME NEW n \in DOMAIN rules PROVE rules[n].id \in Ids(more)
    <3>1. n \in DOMAIN more /\ more[n] = rules[n] BY <1>1
    <3>2. QED BY <3>1 DEF Ids
  <2>3. rule.id \in Ids(more)
    <3>1. Len(rules) + 1 \in DOMAIN more BY <1>1
    <3>2. QED BY <3>1, <1>1 DEF Ids
  <2>4. QED BY <2>1, <2>2, <2>3 DEF Ids
<1>3. ASSUME NEW n \in DOMAIN rules PROVE Accepted(more, n) <=> Accepted(rules, n)
  <2>1. more[n] = rules[n] /\ \A k \in 1..(n - 1) : more[k] = rules[k] BY <1>1
  <2>2. QED BY <2>1 DEF Accepted
<1>4. Accepted(more, Len(rules) + 1) <=> Honourable(rule) /\ rule.id \notin Ids(rules)
  <2>1. 1..((Len(rules) + 1) - 1) = DOMAIN rules BY <1>1
  <2>2. (\A k \in DOMAIN rules : more[k].id # rule.id) <=> rule.id \notin Ids(rules)
    BY <1>1 DEF Ids
  <2>3. QED BY <2>1, <2>2, <1>1, Zenon DEF Accepted
<1>5. QED BY <1>2, <1>3, <1>4 DEF more

\* What a turn leaves of IsParsed to show of the rules and of the issues.
LEMMA TurnPreserves ==
  ASSUME NEW file \in Files, NEW rule \in Rules, NEW source, NEW p,
         IsParsed(p, file, source, Policy(source))
  PROVE  IsParsed(ParseRule(p, rule, source, Len(file.rules) + 1),
                  [file EXCEPT !.rules = Append(@, rule)], source, Policy(source))
<1> DEFINE rules == file.rules
           N == Len(rules)
           more == Append(rules, rule)
           policy == Policy(source)
           q == ParseRule(p, rule, source, N + 1)
           S == IssuesOf(source, policy)
           t == TurnIssues(p, rule, source)
           f == RuleFeatures(rule, p.seenIDs)
           longer == [file EXCEPT !.rules = Append(@, rule)]
<1>1. rules \in Seq(Rules) BY DEF Files
<1>2. /\ longer.rules = more /\ longer.single = file.single /\ longer.plural = file.plural
  BY DEF Files
<1>3. /\ N \in Nat /\ DOMAIN rules = 1..N /\ DOMAIN more = 1..(N + 1) /\ Len(more) = N + 1
      /\ \A n \in 1..N : more[n] = rules[n]
      /\ more[N + 1] = rule
  BY <1>1, LenProperties, AppendProperties
<1>4. policy \in Policies BY PolicyIsOne
<1>5. /\ ParsedType(p, rules, source, policy) /\ Counted(p, rules, policy) /\ Selected(p, rules)
      /\ Named(p, rules, source, policy) /\ Heard(p, file, policy)
      /\ p.globals = UsableLists(file.single \o file.plural, policy)
  BY DEF IsParsed
<1>6. /\ p.rules \in Seq(CompiledFrom(rules, source, policy)) /\ p.globals \in SUBSET Allowlists
      /\ p.report.seen \in Nat /\ p.report.loaded \in Nat /\ p.report.skipped \in Nat
      /\ p.report.issues \in Seq(S) /\ p.seenIDs \in SUBSET RuleIDs
  BY <1>5 DEF ParsedType, ParsedRecords
<1>7. /\ t \in Seq(S)
      /\ f # <<>> => \E i \in DOMAIN t : t[i] \in Naming(source, rule.id, policy)
      /\ t = <<>> => \A list \in ListsOf(rule) : ~Unsupported(list)
  BY TurnIssuesReported
<1>8. /\ IsParsedRecord(q)
      /\ f # <<>> => TurnRefused(p, q, rule, source)
      /\ f = <<>> => TurnKept(p, q, rule, source, N + 1)
  BY <1>5, ParseRuleTurn DEF ParsedType
<1>9. f = <<>> <=> Accepted(more, N + 1)
  <2>1. f = <<>> <=> Honourable(rule) /\ rule.id \notin p.seenIDs BY RuleFeaturesMean
  <2>2. Honourable(rule) => rule.id # NoID BY RuleFeaturesMean
  <2>3. p.seenIDs = Ids(rules) \ {NoID} BY <1>5 DEF Selected
  <2>4. Accepted(more, N + 1) <=> Honourable(rule) /\ rule.id \notin Ids(rules) BY <1>1, AcceptedExtended
  <2> HIDE DEF f, more, N, rules
  <2>5. QED BY <2>1, <2>2, <2>3, <2>4, Zenon
<1>10. /\ Ids(more) = Ids(rules) \cup {rule.id}
       /\ \A n \in DOMAIN rules : Accepted(more, n) <=> Accepted(rules, n)
  BY <1>1, AcceptedExtended
<1>11. /\ CompiledFrom(rules, source, policy) \subseteq CompiledFrom(more, source, policy)
       /\ Compiled(more, N + 1, source, policy) \in CompiledFrom(more, source, policy)
  BY <1>1, CompiledExtended
<1>12. rule.id \in RuleIDs BY DEF RuleIDs
<1>13. p.rules \in Seq(CompiledFrom(more, source, policy))
  <2> HIDE DEF rules, more
  <2> QED BY <1>6, <1>11
<1> HIDE DEF rules, N, more, policy, q, S, t, f, longer
<1>14. /\ q.globals = p.globals
       /\ q.seenIDs = p.seenIDs \cup ({rule.id} \ {NoID})
       /\ q.report.issues = p.report.issues \o t
       /\ q.report.seen = p.report.seen + 1
  BY <1>8 DEF TurnRefused, TurnKept, t
<1>15. /\ q.report.issues \in Seq(S)
       /\ q.report.issues = <<>> <=> p.report.issues = <<>> /\ t = <<>>
  BY <1>14, <1>6, <1>7, ConcatEmpty
<1>16. /\ \A i \in DOMAIN p.report.issues : \E k \in DOMAIN q.report.issues : q.report.issues[k] = p.report.issues[i]
       /\ \A i \in DOMAIN t : \E k \in DOMAIN q.report.issues : q.report.issues[k] = t[i]
  <2>1. ToSet(q.report.issues) = ToSet(p.report.issues) \cup ToSet(t)
    BY <1>14, <1>6, <1>7, ToSetConcat
  <2>2. QED BY <2>1 DEF ToSet
<1>17. q.seenIDs \in SUBSET RuleIDs /\ q.seenIDs = Ids(more) \ {NoID}
  <2>1. p.seenIDs = Ids(rules) \ {NoID} BY <1>5 DEF Selected
  <2>2. q.seenIDs = Ids(more) \ {NoID} BY <2>1, <1>10, <1>14
  <2>3. QED BY <2>2, <1>14, <1>12, <1>6
<1>18. Heard(q, longer, policy)
  <2>1. SUFFICES ASSUME policy = "error", q.report.issues = <<>>
                 PROVE  /\ \A list \in ListsOf(longer) : ~Unsupported(list)
                        /\ \A n \in DOMAIN more : \A list \in ListsOf(more[n]) : ~Unsupported(list)
    BY <1>2 DEF Heard
  <2>2. p.report.issues = <<>> /\ t = <<>> BY <2>1, <1>15
  <2>3. /\ \A list \in ListsOf(file) : ~Unsupported(list)
        /\ \A n \in DOMAIN rules : \A list \in ListsOf(rules[n]) : ~Unsupported(list)
    BY <2>1, <2>2, <1>5 DEF Heard, rules
  <2>4. ListsOf(longer) = ListsOf(file) BY <1>2 DEF ListsOf
  <2>5. ASSUME NEW n \in DOMAIN more PROVE \A list \in ListsOf(more[n]) : ~Unsupported(list)
    <3>1. n \in DOMAIN rules \/ n = N + 1 BY <1>3
    <3>2. CASE n \in DOMAIN rules BY <3>2, <2>3, <1>3
    <3>3. CASE n = N + 1 BY <3>3, <2>2, <1>3, <1>7
    <3>4. QED BY <3>1, <3>2, <3>3
  <2>6. QED BY <2>3, <2>4, <2>5
<1>19. SUFFICES /\ ParsedType(q, more, source, policy) /\ Counted(q, more, policy)
                /\ Selected(q, more) /\ Named(q, more, source, policy)
  <2>1. q.globals = UsableLists(longer.single \o longer.plural, policy)
    BY <1>5, <1>14, <1>2
  <2>2. QED BY <2>1, <1>18, <1>2 DEF IsParsed, q, longer, policy, N, rules
<1>20. CASE f # <<>>
  <2>1. /\ q.rules = p.rules
        /\ q.report = [seen |-> p.report.seen + 1, loaded |-> p.report.loaded,
                       skipped |-> IF policy = "skip" THEN p.report.skipped + 1 ELSE p.report.skipped,
                       issues |-> p.report.issues \o t]
    BY <1>8, <1>20 DEF TurnRefused, t, policy
  <2>2. \A n : Keeps(q, n) <=> Keeps(p, n) BY <2>1 DEF Keeps
  <2>3. q.report \in [seen : Nat, loaded : Nat, skipped : Nat, issues : Seq(S)]
    <3> DEFINE all == p.report.issues \o t
               sk == IF policy = "skip" THEN p.report.skipped + 1 ELSE p.report.skipped
    <3>1. all \in Seq(S) /\ sk \in Nat BY <1>15, <1>14, <1>6
    <3> HIDE DEF all, sk
    <3>2. q.report = [seen |-> p.report.seen + 1, loaded |-> p.report.loaded, skipped |-> sk, issues |-> all]
      BY <2>1 DEF all, sk
    <3>3. QED BY <3>1, <3>2, <1>6
  <2>4. ParsedType(q, more, source, policy)
    <3>1. q = [rules |-> q.rules, globals |-> q.globals, report |-> q.report, seenIDs |-> q.seenIDs]
      BY <1>8 DEF IsParsedRecord
    <3>2. q.rules \in Seq(CompiledFrom(more, source, policy)) BY <2>1, <1>13
    <3>3. q.globals \in SUBSET Allowlists BY <1>14, <1>6
    <3>4. q \in ParsedRecords(Seq(CompiledFrom(more, source, policy)), SUBSET Allowlists, Seq(S), SUBSET RuleIDs)
      BY <3>1, <3>2, <3>3, <2>3, <1>17 DEF ParsedRecords
    <3>5. QED BY <3>4 DEF ParsedType, S
  <2>5. Counted(q, more, policy)
    <3>1. q.report.seen = Len(more) /\ q.report.loaded = Len(q.rules)
      BY <1>3, <1>5, <1>14, <2>1 DEF Counted, N
    <3>2. CASE policy = "skip"
      <4>1. p.report.seen = p.report.loaded + p.report.skipped BY <3>2, <1>5 DEF Counted
      <4>2. q.report.skipped = p.report.skipped + 1 /\ q.report.loaded = p.report.loaded BY <3>2, <2>1
      <4>3. q.report.seen = q.report.loaded + q.report.skipped BY <4>1, <4>2, <1>14, <1>6
      <4>4. QED BY <4>3, <3>1 DEF Counted
    <3>3. CASE policy = "error"
      <4>1. t # <<>>
        <5>1. PICK i \in DOMAIN t : TRUE BY <1>7, <1>20
        <5>2. QED BY <5>1, EmptySeq
      <4>2. q.report.issues # <<>> BY <4>1, <1>15
      <4>3. QED BY <4>2, <3>1, <3>3 DEF Counted
    <3>4. QED BY <3>2, <3>3, <1>4 DEF Policies
  <2>6. Selected(q, more)
    <3>1. DistinctIds(q.rules) BY <2>1, <1>5 DEF Selected
    <3>2. ASSUME NEW n \in DOMAIN more PROVE Keeps(q, n) <=> Accepted(more, n)
      <4>1. n \in DOMAIN rules \/ n = N + 1 BY <1>3
      <4>2. CASE n \in DOMAIN rules BY <4>2, <2>2, <1>5, <1>10 DEF Selected
      <4>3. CASE n = N + 1
        <5>1. ~Keeps(p, n)
          <6>1. ASSUME NEW m \in DOMAIN p.rules PROVE p.rules[m].origin \in DOMAIN rules
            <7>1. p.rules[m] \in CompiledFrom(rules, source, policy) BY <1>6, LenProperties, ElementOfSeq
            <7>2. QED BY <7>1 DEF CompiledFrom, Compiled
          <6>2. N + 1 \notin DOMAIN rules BY <1>3
          <6>3. QED BY <6>1, <6>2, <4>3 DEF Keeps
        <5>2. QED BY <5>1, <2>2, <1>9, <1>20, <4>3
      <4>4. QED BY <4>1, <4>2, <4>3
    <3>3. QED BY <3>1, <3>2, <1>17 DEF Selected
  <2>7. Named(q, more, source, policy)
    <3>1. SUFFICES ASSUME NEW n \in DOMAIN more, ~Keeps(q, n)
                   PROVE  \E i \in DOMAIN q.report.issues : q.report.issues[i] \in Naming(source, more[n].id, policy)
      BY DEF Named
    <3>2. n \in DOMAIN rules \/ n = N + 1 BY <1>3
    <3>3. CASE n \in DOMAIN rules
      <4>1. ~Keeps(p, n) BY <3>1, <2>2
      <4>2. PICK i \in DOMAIN p.report.issues : p.report.issues[i] \in Naming(source, rules[n].id, policy)
        BY <4>1, <3>3, <1>5 DEF Named
      <4>3. more[n] = rules[n] BY <3>3, <1>3
      <4>4. QED BY <4>2, <4>3, <1>16
    <3>4. CASE n = N + 1
      <4>1. PICK i \in DOMAIN t : t[i] \in Naming(source, rule.id, policy) BY <1>7, <1>20
      <4>2. QED BY <4>1, <1>16, <1>3, <3>4
    <3>5. QED BY <3>2, <3>3, <3>4
  <2>8. QED BY <2>4, <2>5, <2>6, <2>7
<1>21. CASE f = <<>>
  <2> DEFINE new == Compiled(more, N + 1, source, policy)
  <2>1. /\ q.rules = Append(p.rules, new)
        /\ q.report = [seen |-> p.report.seen + 1, loaded |-> p.report.loaded + 1,
                       skipped |-> p.report.skipped, issues |-> p.report.issues \o t]
    BY <1>8, <1>21, <1>3 DEF TurnKept, t, policy, Compiled
  <2>2. new.id = rule.id /\ new.origin = N + 1 BY <1>3 DEF Compiled
  <2>3. new \in CompiledFrom(more, source, policy) BY <1>11
  <2> HIDE DEF new
  <2>4. /\ q.rules \in Seq(CompiledFrom(more, source, policy)) /\ Len(q.rules) = Len(p.rules) + 1
        /\ Len(p.rules) \in Nat /\ DOMAIN p.rules = 1..Len(p.rules) /\ DOMAIN q.rules = 1..(Len(p.rules) + 1)
        /\ \A m \in 1..Len(p.rules) : q.rules[m] = p.rules[m]
        /\ q.rules[Len(p.rules) + 1] = new
    BY <2>1, <2>3, <1>13, AppendProperties, LenProperties
  <2>5. ASSUME NEW m \in DOMAIN p.rules
        PROVE  p.rules[m].origin \in DOMAIN rules /\ p.rules[m].id \in Ids(rules)
    <3>1. p.rules[m] \in CompiledFrom(rules, source, policy) BY <1>6, LenProperties, ElementOfSeq
    <3>2. PICK n \in DOMAIN rules : p.rules[m] = Compiled(rules, n, source, policy)
      BY <3>1 DEF CompiledFrom
    <3>3. p.rules[m].origin = n /\ p.rules[m].id = rules[n].id BY <3>2 DEF Compiled
    <3>4. QED BY <3>3 DEF Ids
  <2>6. ASSUME NEW n PROVE Keeps(q, n) <=> Keeps(p, n) \/ n = N + 1
    <3>1. ASSUME NEW m \in DOMAIN q.rules PROVE m \in DOMAIN p.rules \/ m = Len(p.rules) + 1
      BY <2>4
    <3>2. \A m \in DOMAIN p.rules : m \in DOMAIN q.rules /\ q.rules[m] = p.rules[m] BY <2>4
    <3>3. Len(p.rules) + 1 \in DOMAIN q.rules BY <2>4
    <3>4. QED BY <3>1, <3>2, <3>3, <2>2, <2>4 DEF Keeps
  <2>7. q.report \in [seen : Nat, loaded : Nat, skipped : Nat, issues : Seq(S)]
    <3> DEFINE all == p.report.issues \o t
    <3>1. all \in Seq(S) BY <1>15, <1>14
    <3> HIDE DEF all
    <3>2. q.report = [seen |-> p.report.seen + 1, loaded |-> p.report.loaded + 1,
                      skipped |-> p.report.skipped, issues |-> all]
      BY <2>1 DEF all
    <3>3. QED BY <3>1, <3>2, <1>6
  <2>8. ParsedType(q, more, source, policy)
    <3>1. q = [rules |-> q.rules, globals |-> q.globals, report |-> q.report, seenIDs |-> q.seenIDs]
      BY <1>8 DEF IsParsedRecord
    <3>2. q.globals \in SUBSET Allowlists BY <1>14, <1>6
    <3>3. q \in ParsedRecords(Seq(CompiledFrom(more, source, policy)), SUBSET Allowlists, Seq(S), SUBSET RuleIDs)
      BY <3>1, <3>2, <2>4, <2>7, <1>17 DEF ParsedRecords
    <3>4. QED BY <3>3 DEF ParsedType, S
  <2>9. Counted(q, more, policy)
    <3>1. /\ q.report.loaded = p.report.loaded + 1 /\ q.report.skipped = p.report.skipped
      BY <2>1
    <3>2. q.report.seen = Len(more) /\ q.report.loaded = Len(q.rules)
      BY <1>3, <1>5, <1>14, <2>4, <3>1 DEF Counted, N
    <3>3. CASE p.report.seen = p.report.loaded + p.report.skipped
      <4>1. q.report.seen = q.report.loaded + q.report.skipped BY <3>1, <3>3, <1>14, <1>6
      <4>2. QED BY <4>1, <3>2 DEF Counted
    <3>4. CASE policy = "error" /\ p.report.issues # <<>>
      <4>1. q.report.issues # <<>> BY <3>4, <1>15
      <4>2. QED BY <4>1, <3>2, <3>4 DEF Counted
    <3>5. QED BY <3>3, <3>4, <1>5 DEF Counted
  <2>10. Selected(q, more)
    <3>1. rule.id \notin Ids(rules)
      BY <1>9, <1>21, <1>1, AcceptedExtended DEF more, N
    <3>2. DistinctIds(q.rules)
      <4>1. SUFFICES ASSUME NEW m \in DOMAIN q.rules, NEW n \in DOMAIN q.rules, q.rules[m].id = q.rules[n].id
                     PROVE  m = n
        BY DEF DistinctIds
      <4>2. /\ m \in DOMAIN p.rules \/ m = Len(p.rules) + 1
            /\ n \in DOMAIN p.rules \/ n = Len(p.rules) + 1
        BY <2>4
      <4>3. CASE m \in DOMAIN p.rules /\ n \in DOMAIN p.rules
        <5>1. q.rules[m] = p.rules[m] /\ q.rules[n] = p.rules[n] BY <4>3, <2>4
        <5>2. DistinctIds(p.rules) BY <1>5 DEF Selected
        <5>3. QED BY <5>1, <5>2, <4>1, <4>3 DEF DistinctIds
      <4>4. ASSUME NEW k \in DOMAIN p.rules PROVE q.rules[k].id # q.rules[Len(p.rules) + 1].id
        <5>1. q.rules[k] = p.rules[k] BY <2>4
        <5>2. QED BY <5>1, <2>5, <2>4, <2>2, <3>1
      <4>5. QED BY <4>1, <4>2, <4>3, <4>4
    <3>3. ASSUME NEW n \in DOMAIN more PROVE Keeps(q, n) <=> Accepted(more, n)
      <4>1. n \in DOMAIN rules \/ n = N + 1 BY <1>3
      <4>2. CASE n \in DOMAIN rules
        <5>1. n # N + 1 BY <4>2, <1>3
        <5>2. QED BY <5>1, <4>2, <2>6, <1>5, <1>10 DEF Selected
      <4>3. CASE n = N + 1 BY <4>3, <2>6, <1>9, <1>21
      <4>4. QED BY <4>1, <4>2, <4>3
    <3>4. QED BY <3>2, <3>3, <1>17 DEF Selected
  <2>11. Named(q, more, source, policy)
    <3>1. SUFFICES ASSUME NEW n \in DOMAIN more, ~Keeps(q, n)
                   PROVE  \E i \in DOMAIN q.report.issues : q.report.issues[i] \in Naming(source, more[n].id, policy)
      BY DEF Named
    <3>2. n \in DOMAIN rules /\ ~Keeps(p, n) BY <3>1, <1>3, <2>6
    <3>3. PICK i \in DOMAIN p.report.issues : p.report.issues[i] \in Naming(source, rules[n].id, policy)
      BY <3>2, <1>5 DEF Named
    <3>4. more[n] = rules[n] BY <3>2, <1>3
    <3>5. QED BY <3>3, <3>4, <1>16
  <2>12. QED BY <2>8, <2>9, <2>10, <2>11
<1>22. QED BY <1>20, <1>21

\* The start of parseRuleSet, with what it reports of the head of the file.
Started(lists, issues, policy) ==
    [rules |-> <<>>, globals |-> UsableLists(lists, policy), seenIDs |-> {},
     report |-> [seen |-> 0, loaded |-> 0, skipped |-> 0, issues |-> issues]]

LEMMA StartParsed ==
  ASSUME NEW file \in Files, file.rules = <<>>, NEW source, NEW policy,
         NEW issues \in Seq(IssuesOf(source, policy)),
         issues = <<>> => \A list \in ListsOf(file) : ~Unsupported(list)
  PROVE  IsParsed(Started(file.single \o file.plural, issues, policy), file, source, policy)
<1> DEFINE p == Started(file.single \o file.plural, issues, policy)
           R == CompiledFrom(file.rules, source, policy)
           S == IssuesOf(source, policy)
           globals == UsableLists(file.single \o file.plural, policy)
<1>1. file.single \o file.plural \in Seq(Allowlists)
  BY ConcatProperties DEF Files
<1>2. globals \in SUBSET Allowlists
  BY <1>1, ToSetElements DEF UsableLists
<1>3. p = [rules |-> <<>>, globals |-> globals, seenIDs |-> {},
           report |-> [seen |-> 0, loaded |-> 0, skipped |-> 0, issues |-> issues]]
  BY DEF Started
<1> HIDE DEF globals, R, S, p
<1>4. /\ p.rules = <<>> /\ p.globals = globals /\ p.seenIDs = {}
      /\ p.report = [seen |-> 0, loaded |-> 0, skipped |-> 0, issues |-> issues]
  BY <1>3
<1>5. <<>> \in Seq(R) /\ {} \in SUBSET RuleIDs /\ issues \in Seq(S)
  BY DEF S
<1>6. p \in ParsedRecords(Seq(R), SUBSET Allowlists, Seq(S), SUBSET RuleIDs)
  BY <1>2, <1>3, <1>5 DEF ParsedRecords
<1>7. ParsedType(p, file.rules, source, policy)
  BY <1>6 DEF ParsedType, R, S
<1>8. DOMAIN file.rules = {} /\ Len(file.rules) = 0 /\ Len(p.rules) = 0 /\ DOMAIN p.rules = {}
  BY <1>4, EmptySeq
<1>9. Counted(p, file.rules, policy)
  BY <1>4, <1>8 DEF Counted
<1>10. Selected(p, file.rules)
  BY <1>4, <1>8 DEF Selected, Ids, DistinctIds
<1>11. Named(p, file.rules, source, policy)
  BY <1>8 DEF Named
<1>12. Heard(p, file, policy)
  BY <1>4, <1>8 DEF Heard
<1>13. QED BY <1>4, <1>7, <1>9, <1>10, <1>11, <1>12 DEF IsParsed, p, globals

LEMMA NothingParsed ==
  ASSUME NEW source, NEW policy
  PROVE  IsParsed(NoRules, NoFile, source, policy) /\ NoFile \in Files
<1>1. /\ NoFile \in Files /\ NoFile.rules = <<>> /\ NoFile.single = <<>> /\ NoFile.plural = <<>>
  BY DEF NoFile, Files
<1>2. <<>> \o <<>> = <<>> OBVIOUS
<1>3. ListsOf(NoFile) = {} /\ UsableLists(NoFile.single \o NoFile.plural, policy) = {}
  <2>1. NoFile.single \o NoFile.plural = <<>> BY <1>1, <1>2
  <2>2. QED BY <2>1, EmptyToSet DEF ListsOf, UsableLists
<1>4. NoRules = Started(NoFile.single \o NoFile.plural, <<>>, policy)
  <2>1. Started(NoFile.single \o NoFile.plural, <<>>, policy) =
          [rules |-> <<>>, globals |-> {}, seenIDs |-> {},
           report |-> [seen |-> 0, loaded |-> 0, skipped |-> 0, issues |-> <<>>]]
    BY <1>3 DEF Started
  <2>2. QED BY <2>1 DEF NoRules, NoReport
<1>5. <<>> \in Seq(IssuesOf(source, policy)) OBVIOUS
<1>6. QED BY <1>1, <1>3, <1>4, <1>5, StartParsed

FileOf(head) == [undecoded |-> head.undecoded, single |-> head.single, plural |-> head.plural, rules |-> <<>>]

LEMMA HeadParsed ==
  ASSUME NEW head \in Heads, NEW source
  PROVE  /\ FileOf(head) \in Files
         /\ IsParsed(ParseHead(head, source), FileOf(head), source, Policy(source))
<1> DEFINE policy == Policy(source)
           S == IssuesOf(source, policy)
           x == When(head.undecoded, "toml")
           y == When(Mixed(head), "global")
           a == Ignored(source, NoID, x)
           b == Ignored(source, NoID, y)
           c == ListIssues(head.single \o head.plural, source, NoID)
           issues == a \o b \o c
           globals == UsableLists(head.single \o head.plural, policy)
<1>1. head.single \in Seq(Allowlists) /\ head.plural \in Seq(Allowlists)
  BY BuildTypes
<1>2. FileOf(head) \in Files
  <2>1. head.undecoded \in {h.undecoded : h \in Heads} \cup {FALSE} OBVIOUS
  <2>2. <<>> \in Seq(Rules) OBVIOUS
  <2>3. QED BY <1>1, <2>1, <2>2 DEF FileOf, Files
<1>3. NoID \in RuleIDs BY DEF RuleIDs
<1>4. x \in Seq(Features) /\ y \in Seq(Features)
  <2>1. x = <<"toml">> \/ x = <<>> BY DEF When
  <2>2. y = <<"global">> \/ y = <<>> BY DEF When
  <2>3. "toml" \in Features /\ "global" \in Features BY DEF Features
  <2>4. ASSUME NEW z \in Features PROVE <<z>> \in Seq(Features) /\ <<>> \in Seq(Features) OBVIOUS
  <2> HIDE DEF x, y
  <2>5. QED BY <2>1, <2>2, <2>3, <2>4
<1>5. a \in Seq(S) /\ b \in Seq(S)
  <2> HIDE DEF x, y
  <2> QED BY <1>3, <1>4, IgnoredIsSeq
<1>6. head.single \o head.plural \in Seq(Allowlists) BY <1>1, ConcatProperties
<1>7. c \in Seq(S) /\ (c = <<>> => \A list \in ToSet(head.single \o head.plural) : ~Unsupported(list))
  BY <1>3, <1>6, ListIssuesReported
<1>8. ParseHead(head, source) =
        [NoRules EXCEPT !.globals = globals, !.report.issues = issues]
  BY CompiledLists DEF ParseHead
<1> HIDE DEF policy, S, x, y, a, b, c, issues, globals
<1>9. a \o b \in Seq(S) BY <1>5, ConcatEmpty
<1>10. issues \in Seq(S) /\ (issues = <<>> => c = <<>>)
  BY <1>7, <1>9, ConcatEmpty DEF issues
<1>11. ParseHead(head, source) = Started(head.single \o head.plural, issues, policy)
  <2> DEFINE report == [seen |-> 0, loaded |-> 0, skipped |-> 0, issues |-> issues]
             r0 == NoRules.report
  <2>1. r0 = [seen |-> 0, loaded |-> 0, skipped |-> 0, issues |-> <<>>] BY DEF NoRules, NoReport
  <2>2. [r0 EXCEPT !.issues = issues] = report
    <3> HIDE DEF r0
    <3> QED BY <2>1
  <2>3. [NoRules EXCEPT !.globals = globals, !.report.issues = issues] =
          [NoRules EXCEPT !.globals = globals, !.report = [r0 EXCEPT !.issues = issues]]
    BY DEF NoRules
  <2>4. [NoRules EXCEPT !.globals = globals, !.report = report] =
          [rules |-> <<>>, globals |-> globals, seenIDs |-> {}, report |-> report]
    <3> DEFINE fields == {"rules", "globals", "seenIDs", "report"}
               made == [NoRules EXCEPT !.globals = globals, !.report = report]
    <3> HIDE DEF report
    <3>1. made.rules = <<>> /\ made.globals = globals /\ made.seenIDs = {} /\ made.report = report
      BY DEF NoRules
    <3>2. made = [x0 \in fields |-> made[x0]] BY DEF NoRules
    <3> HIDE DEF made
    <3>3. [rules |-> <<>>, globals |-> globals, seenIDs |-> {}, report |-> report]
            = [x0 \in fields |-> made[x0]]
      <4> DEFINE e1 == <<>>
                 e2 == {}
      <4>1. made.rules = e1 /\ made.seenIDs = e2 BY <3>1
      <4> HIDE DEF e1, e2
      <4>2. [rules |-> e1, globals |-> globals, seenIDs |-> e2, report |-> report]
              = [x0 \in fields |-> made[x0]]
        BY <3>1, <4>1
      <4>3. QED BY <4>2 DEF e1, e2
    <3>4. QED BY <3>2, <3>3 DEF made
  <2>5. QED
    <3> HIDE DEF report
    <3>1. ParseHead(head, source) = [rules |-> <<>>, globals |-> globals, seenIDs |-> {}, report |-> report]
      BY <2>2, <2>3, <2>4, <1>8, Zenon
    <3>2. QED BY <3>1 DEF Started, globals, report
<1>12. FileOf(head).rules = <<>> /\ FileOf(head).single = head.single /\ FileOf(head).plural = head.plural
  BY DEF FileOf
<1>13. issues = <<>> => \A list \in ListsOf(FileOf(head)) : ~Unsupported(list)
  BY <1>7, <1>10, <1>12 DEF ListsOf
<1>14. IsParsed(Started(FileOf(head).single \o FileOf(head).plural, issues, policy), FileOf(head), source, policy)
  <2> DEFINE file == FileOf(head)
  <2>1. file \in Files /\ file.rules = <<>> BY <1>2, <1>12
  <2>2. issues = <<>> => \A list \in ListsOf(file) : ~Unsupported(list) BY <1>13
  <2>3. issues \in Seq(IssuesOf(source, policy)) BY <1>10 DEF S
  <2> HIDE DEF file
  <2>4. IsParsed(Started(file.single \o file.plural, issues, policy), file, source, policy)
    BY <2>1, <2>2, <2>3, StartParsed
  <2>5. QED BY <2>4 DEF file
<1>15. QED BY <1>2, <1>11, <1>12, <1>14 DEF policy

LEMMA EndParsed ==
  ASSUME NEW p, NEW file \in Files, NEW source, IsParsed(p, file, source, Policy(source))
  PROVE  /\ IsParsed(ParseEnd(p, source), file, source, Policy(source))
         /\ ParseEnd(p, source).rules = p.rules
<1> DEFINE policy == Policy(source)
           S == IssuesOf(source, policy)
           x == When(p.report.seen = 0, "rules")
           t == Ignored(source, NoID, x)
           q == ParseEnd(p, source)
           R == CompiledFrom(file.rules, source, policy)
<1>1. x \in Seq(Features)
  <2>1. x = <<"rules">> \/ x = <<>> BY DEF When
  <2>2. "rules" \in Features BY DEF Features
  <2>3. ASSUME NEW z \in Features PROVE <<z>> \in Seq(Features) /\ <<>> \in Seq(Features) OBVIOUS
  <2> HIDE DEF x
  <2>4. QED BY <2>1, <2>2, <2>3
<1>2. t \in Seq(S)
  <2>1. NoID \in RuleIDs BY DEF RuleIDs
  <2> HIDE DEF x
  <2>2. QED BY <1>1, <2>1, IgnoredIsSeq
<1>3. p \in ParsedRecords(Seq(R), SUBSET Allowlists, Seq(S), SUBSET RuleIDs)
  BY DEF IsParsed, ParsedType
<1>4. PICK rules \in Seq(R), globals \in SUBSET Allowlists, seenIDs \in SUBSET RuleIDs,
           seen \in Nat, loaded \in Nat, skipped \in Nat, issues \in Seq(S) :
        p = [rules |-> rules, globals |-> globals, seenIDs |-> seenIDs,
             report |-> [seen |-> seen, loaded |-> loaded, skipped |-> skipped, issues |-> issues]]
  <2> HIDE DEF R, S
  <2> QED BY <1>3 DEF ParsedRecords
<1>5. q = [p EXCEPT !.report.issues = @ \o t] BY DEF ParseEnd
<1> HIDE DEF policy, S, x, t, q, R
<1> DEFINE all == issues \o t
<1>6. all \in Seq(S) /\ (all = <<>> => issues = <<>>)
  BY <1>2, ConcatEmpty
<1>7. q = [rules |-> rules, globals |-> globals, seenIDs |-> seenIDs,
           report |-> [seen |-> seen, loaded |-> loaded, skipped |-> skipped, issues |-> all]]
  <2>1. p.report.issues \o t = all BY <1>4
  <2> HIDE DEF all
  <2>2. q = [p EXCEPT !.report.issues = all] BY <2>1, <1>5
  <2>3. QED BY <2>2, <1>4
<1>8. \A i \in DOMAIN issues : \E k \in DOMAIN all : all[k] = issues[i]
  <2>1. ToSet(all) = ToSet(issues) \cup ToSet(t) BY <1>2, ToSetConcat
  <2>2. QED BY <2>1 DEF ToSet
<1> HIDE DEF all
<1>9. /\ q.rules = p.rules /\ q.globals = p.globals /\ q.seenIDs = p.seenIDs
      /\ q.report.seen = p.report.seen /\ q.report.loaded = p.report.loaded
      /\ q.report.skipped = p.report.skipped /\ q.report.issues = all /\ p.report.issues = issues
  BY <1>4, <1>7
<1>10. ParsedType(q, file.rules, source, policy)
  <2>1. q \in ParsedRecords(Seq(R), SUBSET Allowlists, Seq(S), SUBSET RuleIDs)
    BY <1>6, <1>7 DEF ParsedRecords
  <2>2. QED BY <2>1 DEF ParsedType, R, S
<1>11. /\ Counted(p, file.rules, policy) /\ Selected(p, file.rules)
       /\ Named(p, file.rules, source, policy) /\ Heard(p, file, policy)
       /\ p.globals = UsableLists(file.single \o file.plural, policy)
  BY DEF IsParsed, policy
<1>12. Counted(q, file.rules, policy) BY <1>6, <1>9, <1>11 DEF Counted
<1>13. \A n : Keeps(q, n) <=> Keeps(p, n) BY <1>9 DEF Keeps
<1>14. Selected(q, file.rules) BY <1>9, <1>11, <1>13 DEF Selected
<1>15. Named(q, file.rules, source, policy) BY <1>8, <1>9, <1>11, <1>13 DEF Named
<1>16. Heard(q, file, policy) BY <1>6, <1>9, <1>11 DEF Heard
<1>17. QED BY <1>9, <1>10, <1>11, <1>12, <1>14, <1>15, <1>16 DEF IsParsed, policy, q

-----------------------------------------------------------------------------
(* The loop of New *)

\* What the loop relies on: two files with no rule in common, in each of which
\* no two rules have the same id.
Mergeable(first, second) ==
    /\ \E R : first.rules \in Seq(R) /\ second.rules \in Seq(R)
    /\ DistinctIds(first.rules)
    /\ DistinctIds(second.rules)
    /\ ToSet(first.rules) \cap ToSet(second.rules) = {}

LEMMA MergeFacts ==
  ASSUME NEW e, NEW first, NEW second, NEW k \in Nat, Mergeable(first, second),
         k < Len(second.rules), IsMerged(e, first, second, k)
  PROVE  /\ Len(second.rules) \in Nat /\ DOMAIN second.rules = 1..Len(second.rules)
         /\ k + 1 \in DOMAIN second.rules
         /\ \A j \in 1..k : j \in DOMAIN second.rules /\ second.rules[j] # second.rules[k + 1]
         /\ \A rule \in ToSet(e.rules) : rule \in ToSet(first.rules) \/ \E j \in 1..k : rule = second.rules[j]
         /\ second.rules[k + 1].id \in Ids(e.rules) <=> second.rules[k + 1].id \in Ids(first.rules)
         /\ second.rules[k + 1] \notin ToSet(e.rules)
<1> DEFINE S == ToSet(first.rules) \cup {second.rules[j] : j \in 1..k}
           new == second.rules[k + 1]
<1>1. PICK R : first.rules \in Seq(R) /\ second.rules \in Seq(R)
  BY DEF Mergeable
<1>2. Len(second.rules) \in Nat /\ DOMAIN second.rules = 1..Len(second.rules)
  BY <1>1, LenProperties
<1>3. k + 1 \in DOMAIN second.rules /\ \A j \in 1..k : j \in DOMAIN second.rules /\ j # k + 1
  BY <1>2
<1>4. \A j \in 1..k : second.rules[j].id # new.id
  BY <1>3 DEF Mergeable, DistinctIds
<1>5. \A j \in 1..k : second.rules[j] # new
  BY <1>4
<1>6. e.rules \in Seq(S) /\ ToSet(first.rules) \subseteq ToSet(e.rules)
  BY DEF IsMerged
<1>7. ToSet(e.rules) \subseteq S
  <2> HIDE DEF S
  <2> QED BY <1>6, ToSetElements
<1>8. new \in ToSet(second.rules) BY <1>3 DEF ToSet
<1>9. new \notin S
  <2>1. new \notin ToSet(first.rules) BY <1>8 DEF Mergeable
  <2>2. QED BY <2>1, <1>5
<1>10. ASSUME NEW rules PROVE \A id : id \in Ids(rules) <=> \E rule \in ToSet(rules) : rule.id = id
  BY DEF Ids, ToSet
<1>11. ASSUME new.id \in Ids(e.rules) PROVE new.id \in Ids(first.rules)
  <2>1. PICK rule \in ToSet(e.rules) : rule.id = new.id BY <1>10, <1>11
  <2>2. rule \in ToSet(first.rules) BY <2>1, <1>7, <1>4
  <2>3. QED BY <2>1, <2>2, <1>10
<1>12. ASSUME new.id \in Ids(first.rules) PROVE new.id \in Ids(e.rules)
  BY <1>6, <1>10, <1>12
<1>13. QED BY <1>2, <1>3, <1>5, <1>7, <1>9, <1>11, <1>12

Adds(e, f, second, k) ==
    /\ second.rules[k + 1].id \notin Ids(e.rules)
    /\ f.rules = Append(e.rules, second.rules[k + 1])
    /\ f.globals = e.globals

Grown(e, f, first, second, k) ==
    /\ IsMerged(f, first, second, k + 1)
    /\ Len(e.rules) \in Nat /\ Len(f.rules) = Len(e.rules) + 1
    /\ ToSet(f.rules) = ToSet(e.rules) \cup {second.rules[k + 1]}

LEMMA MergeKeeps ==
  ASSUME NEW e, NEW f, NEW first, NEW second, NEW k \in Nat, Mergeable(first, second),
         k < Len(second.rules), IsMerged(e, first, second, k), Adds(e, f, second, k)
  PROVE  Grown(e, f, first, second, k)
<1> DEFINE S == ToSet(first.rules) \cup {second.rules[j] : j \in 1..k}
           T == ToSet(first.rules) \cup {second.rules[j] : j \in 1..(k + 1)}
           new == second.rules[k + 1]
<1>1. /\ Len(second.rules) \in Nat /\ k + 1 \in DOMAIN second.rules
      /\ \A j \in 1..k : j \in DOMAIN second.rules /\ second.rules[j] # new
      /\ new.id \notin Ids(first.rules)
  BY MergeFacts DEF Adds
<1>2. e.rules \in Seq(S) /\ ToSet(first.rules) \subseteq ToSet(e.rules) /\ DistinctIds(e.rules)
      /\ e.globals = first.globals \cup second.globals
      /\ \A j \in 1..k : second.rules[j] \in ToSet(e.rules) <=> second.rules[j].id \notin Ids(first.rules)
  BY DEF IsMerged
<1>3. S \subseteq T /\ new \in T
  <2>1. 1..k \subseteq 1..(k + 1) /\ k + 1 \in 1..(k + 1) OBVIOUS
  <2>2. QED BY <2>1
<1> HIDE DEF S, T
<1>4. e.rules \in Seq(T) BY <1>2, <1>3
<1> HIDE DEF new
<1>5. /\ f.rules \in Seq(T) /\ Len(f.rules) = Len(e.rules) + 1 /\ Len(e.rules) \in Nat
      /\ DOMAIN e.rules = 1..Len(e.rules) /\ DOMAIN f.rules = 1..(Len(e.rules) + 1)
      /\ \A m \in 1..Len(e.rules) : f.rules[m] = e.rules[m]
      /\ f.rules[Len(e.rules) + 1] = new
  <2>1. f.rules = Append(e.rules, new) BY DEF Adds, new
  <2>2. QED BY <2>1, <1>3, <1>4, AppendProperties, LenProperties
<1>6. ToSet(f.rules) = ToSet(e.rules) \cup {new}
  <2>1. f.rules = Append(e.rules, new) BY DEF Adds, new
  <2>2. QED BY <2>1, <1>3, <1>4, ToSetAppend
<1>7. DistinctIds(f.rules)
  <2>1. SUFFICES ASSUME NEW m \in DOMAIN f.rules, NEW n \in DOMAIN f.rules, f.rules[m].id = f.rules[n].id
                 PROVE  m = n
    BY DEF DistinctIds
  <2>2. /\ m \in DOMAIN e.rules \/ m = Len(e.rules) + 1
        /\ n \in DOMAIN e.rules \/ n = Len(e.rules) + 1
    BY <1>5
  <2>3. CASE m \in DOMAIN e.rules /\ n \in DOMAIN e.rules
    <3>1. f.rules[m] = e.rules[m] /\ f.rules[n] = e.rules[n] BY <2>3, <1>5
    <3>2. QED BY <3>1, <1>2, <2>1, <2>3 DEF DistinctIds
  <2>4. ASSUME NEW i \in DOMAIN e.rules PROVE f.rules[i].id # f.rules[Len(e.rules) + 1].id
    <3>1. f.rules[i] = e.rules[i] /\ e.rules[i].id \in Ids(e.rules) BY <1>5 DEF Ids
    <3>2. new.id \notin Ids(e.rules) BY DEF Adds, new
    <3>3. QED BY <3>1, <3>2, <1>5
  <2>5. QED BY <2>1, <2>2, <2>3, <2>4
<1>8. ASSUME NEW j \in 1..(k + 1)
      PROVE  second.rules[j] \in ToSet(f.rules) <=> second.rules[j].id \notin Ids(first.rules)
  <2>1. j \in 1..k \/ j = k + 1 OBVIOUS
  <2>2. CASE j \in 1..k BY <2>2, <1>1, <1>2, <1>6
  <2>3. CASE j = k + 1 BY <2>3, <1>1, <1>6 DEF new
  <2>4. QED BY <2>1, <2>2, <2>3
<1>9. f.globals = e.globals BY DEF Adds
<1>10. QED BY <1>2, <1>5, <1>6, <1>7, <1>8, <1>9 DEF IsMerged, Grown, T, new

LEMMA MergeSkips ==
  ASSUME NEW e, NEW f, NEW first, NEW second, NEW k \in Nat, Mergeable(first, second),
         k < Len(second.rules), IsMerged(e, first, second, k),
         second.rules[k + 1].id \in Ids(e.rules),
         f.rules = e.rules, f.globals = e.globals
  PROVE  IsMerged(f, first, second, k + 1)
<1> DEFINE S == ToSet(first.rules) \cup {second.rules[j] : j \in 1..k}
           T == ToSet(first.rules) \cup {second.rules[j] : j \in 1..(k + 1)}
           new == second.rules[k + 1]
<1>1. new \notin ToSet(e.rules) /\ new.id \in Ids(first.rules)
  BY MergeFacts
<1>2. e.rules \in Seq(S) /\ ToSet(first.rules) \subseteq ToSet(e.rules) /\ DistinctIds(e.rules)
      /\ e.globals = first.globals \cup second.globals
      /\ \A j \in 1..k : second.rules[j] \in ToSet(e.rules) <=> second.rules[j].id \notin Ids(first.rules)
  BY DEF IsMerged
<1>3. S \subseteq T
  <2>1. 1..k \subseteq 1..(k + 1) OBVIOUS
  <2>2. QED BY <2>1
<1> HIDE DEF S, T
<1>4. f.rules \in Seq(T) BY <1>2, <1>3
<1>5. ASSUME NEW j \in 1..(k + 1)
      PROVE  second.rules[j] \in ToSet(f.rules) <=> second.rules[j].id \notin Ids(first.rules)
  <2>1. j \in 1..k \/ j = k + 1 OBVIOUS
  <2>2. CASE j \in 1..k BY <2>2, <1>2
  <2>3. CASE j = k + 1 BY <2>3, <1>1
  <2>4. QED BY <2>1, <2>2, <2>3
<1>6. QED BY <1>2, <1>4, <1>5 DEF IsMerged, T

-----------------------------------------------------------------------------
(* Reports *)

LEMMA RejectedInSet ==
  ASSUME NEW report
  PROVE  HasRejected(report) <=> \E i \in ToSet(report.issues) : i.action = "rejected"
BY DEF HasRejected, ToSet

LEMMA JoinedFields ==
  ASSUME NEW a, NEW b, a.issues \in Seq(AllIssues), b.issues \in Seq(AllIssues)
  PROVE  /\ Joined(a, b).seen = a.seen + b.seen
         /\ Joined(a, b).loaded = a.loaded + b.loaded
         /\ Joined(a, b).skipped = a.skipped + b.skipped
         /\ Joined(a, b).issues \in Seq(AllIssues)
         /\ ToSet(Joined(a, b).issues) = ToSet(a.issues) \cup ToSet(b.issues)
         /\ HasRejected(Joined(a, b)) <=> HasRejected(a) \/ HasRejected(b)
<1> DEFINE j == Joined(a, b)
<1>1. /\ j.seen = a.seen + b.seen /\ j.loaded = a.loaded + b.loaded
      /\ j.skipped = a.skipped + b.skipped /\ j.issues = a.issues \o b.issues
  BY DEF Joined
<1> HIDE DEF j
<1>2. j.issues \in Seq(AllIssues) BY <1>1, ConcatProperties
<1>3. ToSet(j.issues) = ToSet(a.issues) \cup ToSet(b.issues) BY <1>1, ToSetConcat
<1>4. HasRejected(j) <=> HasRejected(a) \/ HasRejected(b) BY <1>3, RejectedInSet
<1>5. QED BY <1>1, <1>2, <1>3, <1>4 DEF j

\* A parsed file that was not refused: the counts agree, and under the policy
\* "error" there is nothing to report.
LEMMA AcceptedFile ==
  ASSUME NEW p, NEW file \in Files, NEW source, NEW policy \in Policies,
         IsParsed(p, file, source, policy), ~HasRejected(p.report)
  PROVE  /\ p.report.seen \in Nat /\ p.report.loaded \in Nat /\ p.report.skipped \in Nat
         /\ p.report.seen = p.report.loaded + p.report.skipped
         /\ p.report.loaded = Len(p.rules)
         /\ policy = "error" => p.report.issues = <<>>
<1>1. /\ p.report.seen \in Nat /\ p.report.loaded \in Nat /\ p.report.skipped \in Nat
      /\ p.report.issues \in Seq(IssuesOf(source, policy))
  BY DEF IsParsed, ParsedType, ParsedRecords
<1>2. ASSUME policy = "error" PROVE p.report.issues = <<>>
  <2>1. SUFFICES ASSUME p.report.issues # <<>> PROVE FALSE
    OBVIOUS
  <2>2. Len(p.report.issues) \in Nat /\ Len(p.report.issues) # 0
        /\ DOMAIN p.report.issues = 1..Len(p.report.issues)
    BY <1>1, <2>1, LenProperties, EmptySeq
  <2>3. 1 \in DOMAIN p.report.issues BY <2>2
  <2>4. p.report.issues[1] \in IssuesOf(source, policy) BY <1>1, <2>2, ElementOfSeq
  <2>5. p.report.issues[1].action = "rejected" BY <2>4, <1>2 DEF IssuesOf
  <2>6. QED BY <2>3, <2>5 DEF HasRejected
<1>3. Counted(p, file.rules, policy) BY DEF IsParsed
<1>4. QED BY <1>1, <1>2, <1>3 DEF Counted

LEMMA ParsedFacts ==
  ASSUME NEW p, NEW file \in Files, NEW source, NEW policy, IsParsed(p, file, source, policy)
  PROVE  /\ p.rules \in Seq(CompiledFrom(file.rules, source, policy))
         /\ DistinctIds(p.rules)
         /\ p.report.issues \in Seq(IssuesOf(source, policy))
         /\ \A rule \in ToSet(p.rules) : rule.source = source
<1>1. p.rules \in Seq(CompiledFrom(file.rules, source, policy))
      /\ p.report.issues \in Seq(IssuesOf(source, policy))
  BY DEF IsParsed, ParsedType, ParsedRecords
<1>2. DistinctIds(p.rules) BY DEF IsParsed, Selected
<1>3. ToSet(p.rules) \subseteq CompiledFrom(file.rules, source, policy) BY <1>1, ToSetElements
<1>4. \A rule \in CompiledFrom(file.rules, source, policy) : rule.source = source
  BY DEF CompiledFrom, Compiled
<1>5. QED BY <1>1, <1>2, <1>3, <1>4

LEMMA ParsedMergeable ==
  ASSUME NEW p, NEW q, NEW f \in Files, NEW g \in Files, NEW policy, NEW other,
         IsParsed(p, f, "embedded", policy), IsParsed(q, g, "custom", other)
  PROVE  Mergeable(p, q)
<1>1. /\ p.rules \in Seq(CompiledFrom(f.rules, "embedded", policy)) /\ DistinctIds(p.rules)
      /\ \A rule \in ToSet(p.rules) : rule.source = "embedded"
  BY ParsedFacts
<1>2. /\ q.rules \in Seq(CompiledFrom(g.rules, "custom", other)) /\ DistinctIds(q.rules)
      /\ \A rule \in ToSet(q.rules) : rule.source = "custom"
  BY ParsedFacts
<1> DEFINE A == CompiledFrom(f.rules, "embedded", policy)
           B == CompiledFrom(g.rules, "custom", other)
<1>3. p.rules \in Seq(A \cup B) /\ q.rules \in Seq(A \cup B)
  <2> HIDE DEF A, B
  <2> QED BY <1>1, <1>2 DEF A, B
<1>4. ToSet(p.rules) \cap ToSet(q.rules) = {} BY <1>1, <1>2
<1>5. \E R : p.rules \in Seq(R) /\ q.rules \in Seq(R)
  <2> HIDE DEF A, B
  <2> QED BY <1>3
<1>6. QED BY <1>1, <1>2, <1>4, <1>5 DEF Mergeable

\* The issues of the files are among those the engine may report.
LEMMA IssuesKnown ==
  ASSUME NEW s
  PROVE  /\ s \in Seq(IssuesOf("embedded", Policy("embedded"))) => s \in Seq(AllIssues)
         /\ s \in Seq(IssuesOf("custom", Policy("custom"))) => s \in Seq(AllIssues)
<1>1. Policy("embedded") = "skip" BY DEF Policy
<1>2. Policy("custom") = "skip" \/ Policy("custom") = "error" BY PolicyIsOne DEF Policies
<1> DEFINE A == IssuesOf("embedded", "skip")
           B == IssuesOf("custom", "skip")
           C == IssuesOf("custom", "error")
<1>3. AllIssues = A \cup B \cup C BY DEF AllIssues
<1> HIDE DEF A, B, C
<1>4. /\ s \in Seq(A) => s \in Seq(A \cup B \cup C)
      /\ s \in Seq(B) => s \in Seq(A \cup B \cup C)
      /\ s \in Seq(C) => s \in Seq(A \cup B \cup C)
  OBVIOUS
<1>5. QED BY <1>1, <1>2, <1>3, <1>4, Zenon DEF A, B, C

-----------------------------------------------------------------------------
(* The start and the turns of the loop of New *)

LEMMA MergeStarts ==
  ASSUME NEW e, NEW first, NEW second, Mergeable(first, second),
         e.rules = first.rules, e.globals = first.globals \cup second.globals
  PROVE  IsMerged(e, first, second, 0)
<1>1. PICK R : first.rules \in Seq(R) BY DEF Mergeable
<1>2. \A i \in DOMAIN first.rules : first.rules[i] \in ToSet(first.rules) BY DEF ToSet
<1>3. first.rules \in Seq(ToSet(first.rules))
  <2>1. DOMAIN first.rules = 1..Len(first.rules) /\ Len(first.rules) \in Nat
        /\ first.rules \in [1..Len(first.rules) -> R]
    BY <1>1, LenProperties
  <2>2. first.rules \in [1..Len(first.rules) -> ToSet(first.rules)] BY <2>1, <1>2
  <2>3. QED BY <2>1, <2>2, IsASeq
<1>4. \A j \in 1..0 : FALSE OBVIOUS
<1>5. ToSet(first.rules) \cup {second.rules[j] : j \in 1..0} = ToSet(first.rules) BY <1>4
<1>6. QED BY <1>3, <1>4, <1>5 DEF IsMerged, Mergeable

LEMMA MergeReplaces ==
  ASSUME NEW e, NEW first, NEW second, Mergeable(first, second), first.rules = <<>>,
         e.rules = second.rules, e.globals = first.globals \cup second.globals
  PROVE  IsMerged(e, first, second, Len(second.rules))
<1> DEFINE N == Len(second.rules)
           S == {second.rules[j] : j \in 1..N}
<1>1. PICK R : second.rules \in Seq(R) BY DEF Mergeable
<1>2. DOMAIN second.rules = 1..N /\ N \in Nat /\ second.rules \in [1..N -> R]
  BY <1>1, LenProperties
<1>3. second.rules \in [1..N -> S] BY <1>2
<1>4. second.rules \in Seq(S)
  <2> HIDE DEF S, N
  <2> QED BY <1>2, <1>3, IsASeq
<1>5. ToSet(first.rules) = {} /\ Ids(first.rules) = {}
  BY EmptyToSet DEF Ids
<1>6. ToSet(first.rules) \cup S = S BY <1>5
<1>7. \A j \in 1..N : second.rules[j] \in ToSet(second.rules) BY <1>2 DEF ToSet
<1> HIDE DEF N
<1>8. QED BY <1>4, <1>5, <1>6, <1>7 DEF IsMerged, Mergeable, N

LEMMA ReportStarts ==
  ASSUME NEW e, NEW first, NEW second, NEW k \in Nat, NEW f \in Files, NEW g \in Files,
         IsParsed(first, f, "embedded", Policy("embedded")), IsParsed(second, g, "custom", Policy("custom")),
         ~HasRejected(first.report), ~HasRejected(second.report),
         e.report = Joined(first.report, second.report),
         Len(e.rules) \in Nat, Len(e.rules) - k = Len(first.rules),
         \A j \in 1..k : second.rules[j] \in ToSet(e.rules)
  PROVE  IsReported(e, first, second, k, Policy("custom"))
<1>1. Policy("embedded") \in Policies /\ Policy("custom") \in Policies BY PolicyIsOne
<1>2. /\ first.report.seen \in Nat /\ first.report.loaded \in Nat /\ first.report.skipped \in Nat
      /\ first.report.seen = first.report.loaded + first.report.skipped
      /\ first.report.loaded = Len(first.rules)
  BY <1>1, AcceptedFile
<1>3. /\ second.report.seen \in Nat /\ second.report.loaded \in Nat /\ second.report.skipped \in Nat
      /\ second.report.seen = second.report.loaded + second.report.skipped
      /\ second.report.loaded = Len(second.rules)
      /\ Policy("custom") = "error" => second.report.issues = <<>>
  BY <1>1, AcceptedFile
<1>4. /\ first.report.issues \in Seq(IssuesOf("embedded", Policy("embedded")))
      /\ second.report.issues \in Seq(IssuesOf("custom", Policy("custom")))
  BY ParsedFacts
<1>5. first.report.issues \in Seq(AllIssues) /\ second.report.issues \in Seq(AllIssues)
  BY <1>4, IssuesKnown
<1>6. /\ e.report.seen = first.report.seen + second.report.seen
      /\ e.report.loaded = first.report.loaded + second.report.loaded
      /\ e.report.skipped = first.report.skipped + second.report.skipped
      /\ ToSet(e.report.issues) = ToSet(first.report.issues) \cup ToSet(second.report.issues)
      /\ ~HasRejected(e.report)
  <2> DEFINE a == first.report
             b == second.report
  <2>1. a.issues \in Seq(AllIssues) /\ b.issues \in Seq(AllIssues) BY <1>5
  <2>2. e.report = Joined(a, b) OBVIOUS
  <2>3. ~HasRejected(a) /\ ~HasRejected(b) OBVIOUS
  <2> HIDE DEF a, b
  <2>4. /\ e.report.seen = a.seen + b.seen
        /\ e.report.loaded = a.loaded + b.loaded
        /\ e.report.skipped = a.skipped + b.skipped
        /\ ToSet(e.report.issues) = ToSet(a.issues) \cup ToSet(b.issues)
        /\ ~HasRejected(e.report)
    <3>1. /\ Joined(a, b).seen = a.seen + b.seen
          /\ Joined(a, b).loaded = a.loaded + b.loaded
          /\ Joined(a, b).skipped = a.skipped + b.skipped
      BY DEF Joined
    <3>2. ToSet(Joined(a, b).issues) = ToSet(a.issues) \cup ToSet(b.issues)
      BY <2>1, JoinedFields, Zenon
    <3>3. HasRejected(Joined(a, b)) <=> HasRejected(a) \/ HasRejected(b)
      BY <2>1, JoinedFields, Zenon
    <3>4. QED BY <2>2, <2>3, <3>1, <3>2, <3>3, Zenon
  <2>5. QED BY <2>4 DEF a, b
<1>7. e.report.loaded = Len(e.rules) + Len(second.rules) - k
      /\ e.report.seen = e.report.loaded + e.report.skipped
  <2> DEFINE s1 == first.report.seen
             l1 == first.report.loaded
             k1 == first.report.skipped
             s2 == second.report.seen
             l2 == second.report.loaded
             k2 == second.report.skipped
             n1 == Len(first.rules)
             n2 == Len(second.rules)
             n == Len(e.rules)
  <2>1. /\ s1 \in Nat /\ l1 \in Nat /\ k1 \in Nat /\ s1 = l1 + k1 /\ l1 = n1
        /\ s2 \in Nat /\ l2 \in Nat /\ k2 \in Nat /\ s2 = l2 + k2 /\ l2 = n2
        /\ n \in Nat /\ n - k = n1
    BY <1>2, <1>3
  <2>2. e.report.seen = s1 + s2 /\ e.report.loaded = l1 + l2 /\ e.report.skipped = k1 + k2
    BY <1>6
  <2> HIDE DEF s1, l1, k1, s2, l2, k2, n1, n2, n
  <2>3. l1 + l2 = n + n2 - k /\ s1 + s2 = (l1 + l2) + (k1 + k2)
    BY <2>1
  <2>4. QED BY <2>2, <2>3 DEF n, n2
<1>9. ASSUME NEW i \in ToSet(e.report.issues)
      PROVE  i.action # "rejected" /\ (Policy("custom") = "error" => i.source = "embedded")
  <2>1. i.action # "rejected" BY <1>6, RejectedInSet
  <2>2. ASSUME Policy("custom") = "error" PROVE i.source = "embedded"
    <3>1. i \in ToSet(first.report.issues) BY <2>2, <1>3, <1>6, EmptyToSet
    <3>2. i \in IssuesOf("embedded", Policy("embedded")) BY <3>1, <1>4, ToSetElements
    <3>3. QED BY <3>2 DEF IssuesOf
  <2>3. QED BY <2>1, <2>2
<1>10. QED BY <1>6, <1>7, <1>9 DEF IsReported

LEMMA ReportKeeps ==
  ASSUME NEW e, NEW f, NEW first, NEW second, NEW k \in Nat, NEW policy,
         IsReported(e, first, second, k, policy), f.report = e.report,
         Len(e.rules) \in Nat, Len(f.rules) = Len(e.rules) + 1, Len(second.rules) \in Nat,
         ToSet(f.rules) = ToSet(e.rules) \cup {second.rules[k + 1]}
  PROVE  IsReported(f, first, second, k + 1, policy)
<1>1. f.report.loaded = Len(f.rules) + Len(second.rules) - (k + 1)
  <2> DEFINE n == Len(e.rules)
             m == Len(second.rules)
  <2>1. e.report.loaded = n + m - k BY DEF IsReported
  <2>2. Len(f.rules) = n + 1 /\ n \in Nat /\ m \in Nat OBVIOUS
  <2> HIDE DEF n, m
  <2>3. n + m - k = (n + 1) + m - (k + 1) BY <2>2
  <2>4. QED BY <2>1, <2>2, <2>3 DEF m
<1>2. ASSUME NEW j \in 1..(k + 1), second.rules[j] \notin ToSet(f.rules)
      PROVE  Issue("custom", second.rules[j].id, "id", "skipped") \in ToSet(f.report.issues)
  <2>1. j \in 1..k BY <1>2
  <2>2. QED BY <2>1, <1>2 DEF IsReported
<1>3. QED BY <1>1, <1>2 DEF IsReported

LEMMA DuplicateFields ==
  ASSUME NEW report \in Reports, NEW id \in RuleIDs
  PROVE  /\ Duplicate(report, id) \in Reports
         /\ Duplicate(report, id).seen = report.seen
         /\ Duplicate(report, id).loaded = report.loaded - 1
         /\ Policy("custom") = "skip" => Duplicate(report, id).skipped = report.skipped + 1
         /\ ToSet(Duplicate(report, id).issues) = ToSet(report.issues) \cup
              {Issue("custom", id, "id", IF Policy("custom") = "skip" THEN "skipped" ELSE "rejected")}
<1> DEFINE t == Skipped("custom", id, <<"id">>)
           issue == Issue("custom", id, "id", IF Policy("custom") = "skip" THEN "skipped" ELSE "rejected")
           n == IF Policy("custom") = "skip" THEN report.skipped + 1 ELSE report.skipped
           all == report.issues \o t
           q == Duplicate(report, id)
<1>1. t = <<issue>> BY DEF Skipped
<1>2. <<"id">> \in Seq(FeatureNames)
  <2>1. "id" \in FeatureNames BY DEF FeatureNames
  <2>2. ASSUME NEW z \in FeatureNames PROVE <<z>> \in Seq(FeatureNames) OBVIOUS
  <2>3. QED BY <2>1, <2>2
<1>3. t \in Seq(AllIssues)
  <2>1. t \in Seq(IssuesOf("custom", Policy("custom"))) BY <1>2, SkippedIsSeq
  <2> HIDE DEF t
  <2>2. QED BY <2>1, IssuesKnown
<1>4. report.issues \in Seq(AllIssues) /\ report.seen \in Nat /\ report.loaded \in Int /\ report.skipped \in Nat
  BY DEF Reports
<1>5. ToSet(t) = {issue}
  <2> HIDE DEF issue
  <2> QED BY <1>1 DEF ToSet
<1>6. q = [report EXCEPT !.loaded = @ - 1, !.skipped = n, !.issues = all]
  BY DEF Duplicate
<1> HIDE DEF t, issue, n, q
<1>7. all \in Seq(AllIssues) /\ ToSet(all) = ToSet(report.issues) \cup {issue}
  BY <1>3, <1>4, <1>5, ConcatProperties, ToSetConcat
<1> HIDE DEF all
<1>8. n \in Nat /\ (Policy("custom") = "skip" => n = report.skipped + 1) BY <1>4 DEF n
<1>9. /\ q.seen = report.seen /\ q.loaded = report.loaded - 1 /\ q.skipped = n /\ q.issues = all
      /\ q \in Reports
  <2> DEFINE l == report.loaded - 1
             s == report.seen
  <2>1. l \in Int /\ s \in Nat BY <1>4
  <2>2. q = [report EXCEPT !.loaded = l, !.skipped = n, !.issues = all] BY <1>6
  <2> HIDE DEF l
  <2>3. q.seen = s /\ q.loaded = l /\ q.skipped = n /\ q.issues = all
    BY <2>2 DEF Reports
  <2>4. q = [x \in {"seen", "loaded", "skipped", "issues"} |-> q[x]]
    BY <2>2 DEF Reports
  <2> HIDE DEF s
  <2>5. [seen |-> s, loaded |-> l, skipped |-> n, issues |-> all]
          = [x \in {"seen", "loaded", "skipped", "issues"} |-> q[x]]
    BY <2>3
  <2>6. [seen |-> s, loaded |-> l, skipped |-> n, issues |-> all] \in Reports
    BY <2>1, <1>7, <1>8 DEF Reports
  <2>7. QED BY <2>3, <2>4, <2>5, <2>6 DEF l, s
<1>10. QED BY <1>7, <1>8, <1>9 DEF q, issue

LEMMA ReportSkips ==
  ASSUME NEW e, NEW f, NEW first, NEW second, NEW k \in Nat,
         IsReported(e, first, second, k, Policy("custom")), e.report \in Reports,
         Policy("custom") = "skip", f.rules = e.rules, Len(e.rules) \in Nat, Len(second.rules) \in Nat,
         second.rules[k + 1].id \in RuleIDs,
         f.report = Duplicate(e.report, second.rules[k + 1].id)
  PROVE  IsReported(f, first, second, k + 1, Policy("custom"))
<1> DEFINE id == second.rules[k + 1].id
           issue == Issue("custom", id, "id", "skipped")
<1>1. /\ f.report.seen = e.report.seen /\ f.report.loaded = e.report.loaded - 1
      /\ f.report.skipped = e.report.skipped + 1
      /\ ToSet(f.report.issues) = ToSet(e.report.issues) \cup {issue}
  <2> DEFINE report == e.report
  <2>1. report \in Reports /\ id \in RuleIDs /\ f.report = Duplicate(report, id) OBVIOUS
  <2> HIDE DEF report, id
  <2>2. /\ f.report.seen = report.seen /\ f.report.loaded = report.loaded - 1
        /\ f.report.skipped = report.skipped + 1
        /\ ToSet(f.report.issues) = ToSet(report.issues) \cup
              {Issue("custom", id, "id", IF Policy("custom") = "skip" THEN "skipped" ELSE "rejected")}
    BY <2>1, DuplicateFields
  <2>3. QED BY <2>2 DEF report
<1>2. e.report.seen \in Nat /\ e.report.loaded \in Int /\ e.report.skipped \in Nat BY DEF Reports
<1>3. issue.action = "skipped" BY DEF Issue
<1> HIDE DEF issue
<1>4. f.report.loaded = Len(f.rules) + Len(second.rules) - (k + 1)
      /\ f.report.seen = f.report.loaded + f.report.skipped
  <2> DEFINE s == e.report.seen
             l == e.report.loaded
             m == e.report.skipped
             n == Len(e.rules)
             n2 == Len(second.rules)
  <2>1. l = n + n2 - k /\ s = l + m BY DEF IsReported
  <2>2. s \in Nat /\ l \in Int /\ m \in Nat /\ n \in Nat /\ n2 \in Nat BY <1>2
  <2>3. f.report.seen = s /\ f.report.loaded = l - 1 /\ f.report.skipped = m + 1 BY <1>1
  <2> HIDE DEF s, l, m, n, n2
  <2>4. l - 1 = n + n2 - (k + 1) /\ s = (l - 1) + (m + 1) BY <2>1, <2>2
  <2>5. QED BY <2>3, <2>4 DEF n, n2
<1>5. ASSUME NEW i \in ToSet(f.report.issues)
      PROVE  i.action # "rejected" /\ (Policy("custom") = "error" => i.source = "embedded")
  BY <1>1, <1>3 DEF IsReported
<1>6. ASSUME NEW j \in 1..(k + 1), second.rules[j] \notin ToSet(f.rules)
      PROVE  Issue("custom", second.rules[j].id, "id", "skipped") \in ToSet(f.report.issues)
  <2>1. CASE j \in 1..k BY <2>1, <1>1, <1>6 DEF IsReported
  <2>2. CASE j = k + 1 BY <2>2, <1>1 DEF issue
  <2>3. QED BY <2>1, <2>2
<1>7. QED BY <1>1, <1>4, <1>5, <1>6 DEF IsReported

-----------------------------------------------------------------------------
(* The invariant *)

LEMMA SameConfig ==
  ASSUME cfg' = cfg
  PROVE  Read' = Read /\ CustomMode' = CustomMode /\ \A source : Policy(source)' = Policy(source)
BY DEF Read, CustomMode, Policy

LEMMA InitInv == Init => IInv
<1> SUFFICES ASSUME Init PROVE IInv
  OBVIOUS
<1>1. /\ phase = "config" /\ cfg \in Configs /\ embedded \in EmbeddedFiles /\ files = <<>>
      /\ raw = [s \in Sources |-> NoFile] /\ parsed = [s \in Sources |-> NoRules]
      /\ engine = [rules |-> <<>>, globals |-> {}, report |-> NoReport]
  BY DEF Init
<1>2. NoFile \in Files BY NothingParsed
<1>3. \A s \in Sources : raw[s] = NoFile /\ parsed[s] = NoRules BY <1>1
<1>4. NoRules.rules = <<>> /\ NoRules.report = NoReport BY DEF NoRules
<1>5. ~HasRejected(NoReport)
  <2>1. DOMAIN NoReport.issues = {} BY DEF NoReport
  <2>2. QED BY <2>1 DEF HasRejected
<1>6. TypeOK
  <2>1. phase \in Before \cup Joining /\ phase \notin {"file", "rules"} BY <1>1 DEF Before
  <2>2. files \in Seq(Read) BY <1>1
  <2>3. raw \in [Sources -> Files] BY <1>1, <1>2
  <2>4. engine.report = NoReport /\ NoReport \in Reports BY <1>1 DEF NoReport, Reports
  <2>5. engine = [rules |-> engine.rules, globals |-> engine.globals, report |-> engine.report]
    <3>1. engine.rules = <<>> /\ engine.globals = {} /\ engine.report = NoReport BY <1>1
    <3>2. QED BY <1>1, <3>1
  <2>6. DOMAIN parsed = Sources BY <1>1
  <2>7. QED BY <1>1, <2>1, <2>2, <2>3, <2>4, <2>5, <2>6 DEF TypeOK
<1>7. FilesParsed BY <1>3, NothingParsed DEF FilesParsed
<1>8. UnreadEmpty BY <1>3, <1>4 DEF UnreadEmpty
<1>9. NotRefused BY <1>3, <1>4, <1>5 DEF NotRefused
<1>10. Refused BY <1>1 DEF Refused
<1>11. EngineMerged BY <1>1 DEF EngineMerged, Joining
<1>12. LabelsSafe BY <1>1 DEF LabelsSafe
<1>13. QED BY <1>6, <1>7, <1>8, <1>9, <1>10, <1>11, <1>12 DEF IInv

\* The steps that only move the phase, and the files there are to read.
LEMMA PhaseStep ==
  ASSUME IInv, UNCHANGED <<cfg, embedded, raw, parsed, engine, merged, labels>>,
         phase' \in Before \cup Joining, files' \in Seq(Read),
         phase' \in {"file", "rules"} => files' # <<>>,
         phase \notin {"rules", "rules incompatible"}, phase' # "rules incompatible",
         phase' \in Joining => phase \in Joining /\ (phase' # "extend" => merged = Len(parsed["custom"].rules)),
         phase' \in {"log", "log refused", "built"} => phase \in {"log", "log refused", "built"}
  PROVE  IInv'
<1>1. Read' = Read /\ \A source : Policy(source)' = Policy(source)
  BY SameConfig
<1>2. /\ cfg' = cfg /\ embedded' = embedded /\ raw' = raw /\ parsed' = parsed /\ engine' = engine
      /\ merged' = merged /\ labels' = labels
  OBVIOUS
<1>3. TypeOK' BY <1>1, <1>2 DEF IInv, TypeOK
<1>4. FilesParsed' BY <1>1, <1>2 DEF IInv, FilesParsed
<1>5. UnreadEmpty' BY <1>1, <1>2 DEF IInv, UnreadEmpty
<1>6. NotRefused' BY <1>2 DEF IInv, NotRefused
<1>7. Refused' BY DEF Refused
<1>8. EngineMerged'
  <2>1. SUFFICES ASSUME phase' \in Joining
                 PROVE  /\ merged' \in 0..Len(parsed'["custom"].rules)
                        /\ IsMerged(engine', parsed'["embedded"], parsed'["custom"], merged')
                        /\ IsReported(engine', parsed'["embedded"], parsed'["custom"], merged', Policy("custom")')
                        /\ phase' # "extend" => merged' = Len(parsed'["custom"].rules)
    BY DEF EngineMerged
  <2>2. phase \in Joining BY <2>1
  <2>3. /\ merged \in 0..Len(parsed["custom"].rules)
        /\ IsMerged(engine, parsed["embedded"], parsed["custom"], merged)
        /\ IsReported(engine, parsed["embedded"], parsed["custom"], merged, Policy("custom"))
    BY <2>2 DEF IInv, EngineMerged
  <2>4. QED BY <2>1, <2>3, <1>1, <1>2
<1>9. LabelsSafe'
  <2>1. SUFFICES ASSUME phase' \in {"log", "log refused", "built"}, NEW k \in DOMAIN labels, labels[k] # NoMatch
                 PROVE  ~Detects(engine, labels[k])
    BY <1>2 DEF LabelsSafe, Detects, Finds
  <2>2. QED BY <2>1 DEF IInv, LabelsSafe
<1>10. QED BY <1>3, <1>4, <1>5, <1>6, <1>7, <1>8, <1>9 DEF IInv

LEMMA StutterStep == IInv /\ UNCHANGED vars => IInv'
<1> SUFFICES ASSUME IInv, UNCHANGED vars PROVE IInv'
  OBVIOUS
<1>1. Read' = Read /\ \A source : Policy(source)' = Policy(source)
  BY SameConfig DEF vars
<1>2. /\ cfg' = cfg /\ embedded' = embedded /\ raw' = raw /\ parsed' = parsed /\ engine' = engine
      /\ merged' = merged /\ labels' = labels /\ phase' = phase /\ files' = files
  BY DEF vars
<1>3. TypeOK' BY <1>1, <1>2 DEF IInv, TypeOK
<1>4. FilesParsed' BY <1>1, <1>2 DEF IInv, FilesParsed
<1>5. UnreadEmpty' BY <1>1, <1>2 DEF IInv, UnreadEmpty
<1>6. NotRefused' BY <1>2 DEF IInv, NotRefused
<1>7. Refused' BY <1>2 DEF IInv, Refused
<1>8. EngineMerged' BY <1>1, <1>2 DEF IInv, EngineMerged
<1>9. LabelsSafe' BY <1>2 DEF IInv, LabelsSafe, Detects, Finds
<1>10. QED BY <1>3, <1>4, <1>5, <1>6, <1>7, <1>8, <1>9 DEF IInv

LEMMA RefuseStep ==
  ASSUME IInv, NEW reason \in Refusals \ {"rules incompatible"}, Refuse(reason),
         phase \in {"config", "material", "file", "pinned", "replacements", "log"},
         reason \in {"config refused", "rules unreadable"} => phase \in {"config", "material", "file"},
         reason \in {"rules not pinned", "replacement refused"} => phase \in {"pinned", "replacements"},
         reason = "log refused" => phase = "log"
  PROVE  IInv'
<1>1. phase' = reason /\ UNCHANGED <<cfg, embedded, files, raw, parsed, engine, merged, labels>>
  BY DEF Refuse
<1>2. reason \in {"config refused", "rules unreadable", "rules not pinned", "replacement refused", "log refused"}
  BY DEF Refusals
<1>3. files \in Seq(Read) BY DEF IInv, TypeOK
<1>4. phase' \in Before \cup Joining BY <1>1, <1>2 DEF Before, Joining
<1>5. phase' \in Joining => phase \in Joining /\ phase # "extend"
  BY <1>1, <1>2 DEF Joining
<1>6. phase' \in Joining => merged = Len(parsed["custom"].rules)
  BY <1>5 DEF IInv, EngineMerged
<1>7. phase' \notin {"file", "rules", "rules incompatible"} BY <1>1, <1>2
<1>8. phase' \in {"log", "log refused", "built"} => phase \in {"log", "log refused", "built"} BY <1>1, <1>2
<1>9. QED BY <1>1, <1>3, <1>4, <1>5, <1>6, <1>7, <1>8, PhaseStep

LEMMA ParseConfigStep == IInv /\ ParseConfig => IInv'
<1> SUFFICES ASSUME IInv, ParseConfig PROVE IInv'
  OBVIOUS
<1>1. CASE Refuse("config refused")
  <2>1. phase = "config" /\ "config refused" \in Refusals \ {"rules incompatible"} BY DEF ParseConfig, Refusals
  <2>2. QED BY <1>1, <2>1, RefuseStep
<1>2. CASE ~Refuse("config refused")
  <2>1. /\ phase = "config" /\ phase' = "material"
        /\ UNCHANGED <<cfg, embedded, files, raw, parsed, engine, merged, labels>>
    BY <1>2 DEF ParseConfig
  <2>2. files' \in Seq(Read) BY <2>1 DEF IInv, TypeOK
  <2>3. phase' \in Before /\ phase' \notin Joining BY <2>1 DEF Before, Joining
  <2>4. QED BY <2>1, <2>2, <2>3, PhaseStep
<1>3. QED BY <1>1, <1>2

LEMMA ModeIsOne ==
  /\ CustomMode \in {"none", "extend", "replace"}
  /\ CustomMode = "none" <=> ~cfg.custom
BY DEF CustomMode

LEMMA LoadRuleMaterialStep == IInv /\ LoadRuleMaterial => IInv'
<1> SUFFICES ASSUME IInv, LoadRuleMaterial PROVE IInv'
  OBVIOUS
<1>1. CASE Refuse("rules unreadable")
  <2>1. phase = "material" /\ "rules unreadable" \in Refusals \ {"rules incompatible"}
    BY DEF LoadRuleMaterial, Refusals
  <2>2. QED BY <1>1, <2>1, RefuseStep
<1>2. CASE ~Refuse("rules unreadable")
  <2>1. /\ phase = "material" /\ phase' = "file"
        /\ files' = CASE CustomMode = "none"    -> <<"embedded">>
                      [] CustomMode = "extend"  -> <<"embedded", "custom">>
                      [] CustomMode = "replace" -> <<"custom">>
        /\ UNCHANGED <<cfg, embedded, raw, parsed, engine, merged, labels>>
    BY <1>2 DEF LoadRuleMaterial
  <2>2. /\ CustomMode # "replace" => "embedded" \in Read
        /\ CustomMode # "none" => "custom" \in Read
    BY ModeIsOne DEF Read, Sources
  <2>3. files' \in Seq(Read) /\ files' # <<>>
    <3>1. ASSUME NEW S, NEW x \in S PROVE <<x>> \in Seq(S) /\ <<x>> # <<>> OBVIOUS
    <3>2. ASSUME NEW S, NEW x \in S, NEW y \in S PROVE <<x, y>> \in Seq(S) /\ <<x, y>> # <<>> OBVIOUS
    <3>3. CASE CustomMode = "none"
      <4>1. files' = <<"embedded">> /\ "embedded" \in Read BY <3>3, <2>1, <2>2
      <4>2. QED BY <4>1, <3>1
    <3>4. CASE CustomMode = "extend"
      <4>1. files' = <<"embedded", "custom">> /\ "embedded" \in Read /\ "custom" \in Read BY <3>4, <2>1, <2>2
      <4>2. QED BY <4>1, <3>2
    <3>5. CASE CustomMode = "replace"
      <4>1. files' = <<"custom">> /\ "custom" \in Read BY <3>5, <2>1, <2>2
      <4>2. QED BY <4>1, <3>1
    <3>6. QED BY <3>3, <3>4, <3>5, ModeIsOne
  <2>4. phase' \in Before /\ phase' \notin Joining BY <2>1 DEF Before, Joining
  <2>5. QED BY <2>1, <2>3, <2>4, PhaseStep
<1>3. QED BY <1>1, <1>2

LEMMA UndecodableStep == IInv /\ Undecodable => IInv'
<1> SUFFICES ASSUME IInv, Undecodable PROVE IInv'
  OBVIOUS
<1>1. phase = "file" /\ Refuse("rules unreadable") BY DEF Undecodable
<1>2. "rules unreadable" \in Refusals \ {"rules incompatible"} BY DEF Refusals
<1>3. QED BY <1>1, <1>2, RefuseStep

LEMMA EndMergeStep == IInv /\ EndMerge => IInv'
<1> SUFFICES ASSUME IInv, EndMerge PROVE IInv'
  OBVIOUS
<1>1. /\ phase = "extend" /\ merged = Len(parsed["custom"].rules) /\ phase' = "pinned"
      /\ UNCHANGED <<cfg, embedded, files, raw, parsed, engine, merged, labels>>
  BY DEF EndMerge
<1>2. files' \in Seq(Read) BY <1>1 DEF IInv, TypeOK
<1>3. phase' \in Joining /\ phase \in Joining BY <1>1 DEF Joining
<1>4. QED BY <1>1, <1>2, <1>3, PhaseStep

LEMMA ValidatePinnedStep == IInv /\ ValidatePinned => IInv'
<1> SUFFICES ASSUME IInv, ValidatePinned PROVE IInv'
  OBVIOUS
<1>1. CASE Refuse("rules not pinned")
  <2>1. phase = "pinned" /\ "rules not pinned" \in Refusals \ {"rules incompatible"}
    BY DEF ValidatePinned, Refusals
  <2>2. QED BY <1>1, <2>1, RefuseStep
<1>2. CASE ~Refuse("rules not pinned")
  <2>1. /\ phase = "pinned" /\ phase' = "replacements"
        /\ UNCHANGED <<cfg, embedded, files, raw, parsed, engine, merged, labels>>
    BY <1>2 DEF ValidatePinned
  <2>2. files' \in Seq(Read) BY <2>1 DEF IInv, TypeOK
  <2>3. phase' \in Joining /\ phase \in Joining BY <2>1 DEF Joining
  <2>4. merged = Len(parsed["custom"].rules) BY <2>1, <2>3 DEF IInv, EngineMerged
  <2>5. QED BY <2>1, <2>2, <2>3, <2>4, PhaseStep
<1>3. QED BY <1>1, <1>2

LEMMA OpenLogStep == IInv /\ OpenLog => IInv'
<1> SUFFICES ASSUME IInv, OpenLog PROVE IInv'
  OBVIOUS
<1>1. CASE Refuse("log refused")
  <2>1. phase = "log" /\ "log refused" \in Refusals \ {"rules incompatible"} BY DEF OpenLog, Refusals
  <2>2. QED BY <1>1, <2>1, RefuseStep
<1>2. CASE ~Refuse("log refused")
  <2>1. /\ phase = "log" /\ phase' = "built"
        /\ UNCHANGED <<cfg, embedded, files, raw, parsed, engine, merged, labels>>
    BY <1>2 DEF OpenLog
  <2>2. files' \in Seq(Read) BY <2>1 DEF IInv, TypeOK
  <2>3. phase' \in Joining /\ phase \in Joining BY <2>1 DEF Joining
  <2>4. merged = Len(parsed["custom"].rules) BY <2>1, <2>3 DEF IInv, EngineMerged
  <2>5. QED BY <2>1, <2>2, <2>3, <2>4, PhaseStep
<1>3. QED BY <1>1, <1>2

LEMMA ValidateReplacementsStep == IInv /\ ValidateReplacements => IInv'
<1> SUFFICES ASSUME IInv, ValidateReplacements PROVE IInv'
  OBVIOUS
<1> DEFINE texts == {r.text : r \in cfg.replacements} \ {NoMatch}
           safe == \A text \in texts : text.bytes <= cfg.detectorLimit /\ ~Detects(engine, text)
<1>1. CASE Refuse("replacement refused")
  <2>1. phase = "replacements" /\ "replacement refused" \in Refusals \ {"rules incompatible"}
    BY DEF ValidateReplacements, Refusals
  <2>2. QED BY <1>1, <2>1, RefuseStep
<1>2. CASE ~Refuse("replacement refused")
  <2>1. /\ phase = "replacements" /\ phase' = "log" /\ labels' \in Overrides(cfg.replacements)
        /\ UNCHANGED <<cfg, embedded, files, raw, parsed, engine, merged>>
        /\ safe
    BY <1>2 DEF ValidateReplacements
  <2>2. Read' = Read /\ \A source : Policy(source)' = Policy(source) BY <2>1, SameConfig
  <2>3. TypeOK' BY <2>1, <2>2 DEF IInv, TypeOK, Joining
  <2>4. FilesParsed' BY <2>1, <2>2 DEF IInv, FilesParsed
  <2>5. UnreadEmpty' BY <2>1, <2>2 DEF IInv, UnreadEmpty
  <2>6. NotRefused' BY <2>1 DEF IInv, NotRefused
  <2>7. Refused' BY <2>1 DEF Refused
  <2>8. EngineMerged'
    <3>1. phase \in Joining BY <2>1 DEF Joining
    <3>2. QED BY <2>1, <2>2, <3>1 DEF IInv, EngineMerged
  <2>9. LabelsSafe'
    <3>1. SUFFICES ASSUME NEW k \in DOMAIN labels', labels'[k] # NoMatch
                   PROVE  ~Detects(engine, labels'[k])
      BY <2>1 DEF LabelsSafe, Detects, Finds
    <3>2. labels'[k] \in {r.text : r \in cfg.replacements} BY <2>1, <3>1 DEF Overrides
    <3>3. QED BY <2>1, <3>1, <3>2
  <2>10. QED BY <2>3, <2>4, <2>5, <2>6, <2>7, <2>8, <2>9 DEF IInv
<1>3. QED BY <1>1, <1>2

\* The steps of parseRuleSet: what they do to one file leaves the other alone.
LEMMA FileStep ==
  ASSUME IInv, phase \in {"file", "rules"}, NEW file \in Files, NEW p,
         IsParsed(p, file, files[1], Policy(files[1])),
         raw' = [raw EXCEPT ![files[1]] = file], parsed' = [parsed EXCEPT ![files[1]] = p],
         UNCHANGED <<cfg, embedded, engine, merged, labels>>
  PROVE  /\ files[1] \in Sources /\ Read' = Read
         /\ raw' \in [Sources -> Files] /\ DOMAIN parsed' = Sources
         /\ FilesParsed' /\ UnreadEmpty'
         /\ parsed'[files[1]] = p
         /\ \A source \in Sources \ {files[1]} : ~HasRejected(parsed'[source].report)
<1> DEFINE here == files[1]
<1>1. /\ files \in Seq(Read) /\ files # <<>> /\ raw \in [Sources -> Files] /\ DOMAIN parsed = Sources
  BY DEF IInv, TypeOK
<1>2. here \in Read
  <2>1. Len(files) \in Nat /\ Len(files) # 0 BY <1>1, EmptySeq, LenProperties
  <2>2. 1 \in 1..Len(files) BY <2>1
  <2>3. QED BY <1>1, <2>2, ElementOfSeq
<1>3. here \in Sources BY <1>2 DEF Read
<1> HIDE DEF here
<1>4. raw' = [raw EXCEPT ![here] = file] /\ parsed' = [parsed EXCEPT ![here] = p]
      /\ IsParsed(p, file, here, Policy(here))
  BY DEF here
<1>5. Read' = Read /\ \A source : Policy(source)' = Policy(source) BY SameConfig
<1>6. raw' \in [Sources -> Files] /\ DOMAIN parsed' = Sources BY <1>1, <1>4
<1>7. /\ raw'[here] = file /\ parsed'[here] = p
      /\ \A s \in Sources \ {here} : raw'[s] = raw[s] /\ parsed'[s] = parsed[s]
  BY <1>1, <1>3, <1>4
<1>8. FilesParsed'
  <2>1. ASSUME NEW s \in Sources PROVE IsParsed(parsed'[s], raw'[s], s, Policy(s))
    <3>1. CASE s = here BY <3>1, <1>4, <1>7
    <3>2. CASE s # here BY <3>2, <1>7 DEF IInv, FilesParsed
    <3>3. QED BY <3>1, <3>2
  <2>2. QED BY <2>1, <1>5 DEF FilesParsed
<1>9. UnreadEmpty' BY <1>2, <1>5, <1>7 DEF IInv, UnreadEmpty
<1>10. \A s \in Sources \ {here} : ~HasRejected(parsed'[s].report)
  <2>1. ASSUME NEW s \in Sources \ {here} PROVE ~HasRejected(parsed[s].report)
    BY DEF IInv, NotRefused, here
  <2>2. QED BY <2>1, <1>7
<1>11. QED BY <1>3, <1>5, <1>6, <1>7, <1>8, <1>9, <1>10 DEF here

LEMMA BeginFileStep ==
  ASSUME IInv, NEW head \in Heads, BeginFile(head)
  PROVE  IInv'
<1> DEFINE here == files[1]
           file == FileOf(head)
           p == ParseHead(head, here)
<1>1. /\ phase = "file" /\ phase' = "rules"
      /\ raw' = [raw EXCEPT ![here] = file] /\ parsed' = [parsed EXCEPT ![here] = p]
      /\ UNCHANGED <<cfg, embedded, files, engine, merged, labels>>
  BY DEF BeginFile, FileOf
<1>2. file \in Files /\ IsParsed(p, file, here, Policy(here)) BY HeadParsed
<1> HIDE DEF file, p
<1>3. /\ here \in Sources /\ Read' = Read /\ raw' \in [Sources -> Files] /\ DOMAIN parsed' = Sources
      /\ FilesParsed' /\ UnreadEmpty'
      /\ \A source \in Sources \ {here} : ~HasRejected(parsed'[source].report)
  BY <1>1, <1>2, FileStep
<1>4. TypeOK'
  <2>1. phase' \in Before \cup Joining BY <1>1 DEF Before
  <2>2. QED BY <1>1, <1>3, <2>1 DEF IInv, TypeOK
<1>5. NotRefused' BY <1>1, <1>3 DEF NotRefused
<1>6. Refused' BY <1>1 DEF Refused
<1>7. EngineMerged' BY <1>1 DEF EngineMerged, Joining
<1>8. LabelsSafe' BY <1>1 DEF LabelsSafe
<1>9. QED BY <1>3, <1>4, <1>5, <1>6, <1>7, <1>8 DEF IInv

LEMMA ReadRuleStep ==
  ASSUME IInv, NEW rule \in Rules, ReadRule(rule)
  PROVE  IInv'
<1> DEFINE here == files[1]
           file == [raw[here] EXCEPT !.rules = Append(@, rule)]
           p == ParseRule(parsed[here], rule, here, Len(raw[here].rules) + 1)
<1>1. /\ phase = "rules" /\ phase' = "rules"
      /\ raw' = [raw EXCEPT ![here].rules = Append(@, rule)]
      /\ parsed' = [parsed EXCEPT ![here] = ParseRule(@, rule, here, Len(raw[here].rules) + 1)]
      /\ UNCHANGED <<cfg, embedded, files, engine, merged, labels>>
  BY DEF ReadRule
<1>2. /\ files \in Seq(Read) /\ files # <<>> /\ raw \in [Sources -> Files] /\ DOMAIN parsed = Sources
  BY <1>1 DEF IInv, TypeOK
<1>3. here \in Sources
  <2>1. Len(files) \in Nat /\ Len(files) # 0 BY <1>2, EmptySeq, LenProperties
  <2>2. 1 \in 1..Len(files) BY <2>1
  <2>3. here \in Read BY <1>2, <2>2, ElementOfSeq
  <2>4. QED BY <2>3 DEF Read
<1> HIDE DEF here
<1>4. raw[here] \in Files /\ IsParsed(parsed[here], raw[here], here, Policy(here))
  BY <1>2, <1>3 DEF IInv, FilesParsed
<1>5. raw' = [raw EXCEPT ![here] = file] /\ parsed' = [parsed EXCEPT ![here] = p]
  BY <1>1, <1>2, <1>3
<1>6. file \in Files
  <2> DEFINE old == raw[here]
             rules == Append(old.rules, rule)
  <2>1. old \in Files BY <1>4
  <2>2. old.rules \in Seq(Rules) BY <2>1 DEF Files
  <2>3. rules \in Seq(Rules) BY <2>2, AppendProperties
  <2> HIDE DEF old, rules
  <2>4. [old EXCEPT !.rules = rules] \in Files BY <2>1, <2>3 DEF Files
  <2>5. QED BY <2>4 DEF old, rules
<1>7. IsParsed(p, file, here, Policy(here))
  <2> DEFINE old == raw[here]
             was == parsed[here]
  <2>1. old \in Files /\ IsParsed(was, old, here, Policy(here)) BY <1>4
  <2> HIDE DEF old, was
  <2>2. IsParsed(ParseRule(was, rule, here, Len(old.rules) + 1),
                 [old EXCEPT !.rules = Append(@, rule)], here, Policy(here))
    BY <2>1, TurnPreserves
  <2>3. QED BY <2>2 DEF old, was
<1> HIDE DEF file, p
<1>8. /\ Read' = Read /\ raw' \in [Sources -> Files] /\ DOMAIN parsed' = Sources
      /\ FilesParsed' /\ UnreadEmpty'
      /\ \A source \in Sources \ {here} : ~HasRejected(parsed'[source].report)
  BY <1>1, <1>5, <1>6, <1>7, FileStep DEF here
<1>9. TypeOK'
  <2>1. phase' \in Before \cup Joining BY <1>1 DEF Before
  <2>2. QED BY <1>1, <1>8, <2>1 DEF IInv, TypeOK
<1>10. NotRefused' BY <1>1, <1>8 DEF NotRefused, here
<1>11. Refused' BY <1>1 DEF Refused
<1>12. EngineMerged' BY <1>1 DEF EngineMerged, Joining
<1>13. LabelsSafe' BY <1>1 DEF LabelsSafe
<1>14. QED BY <1>8, <1>9, <1>10, <1>11, <1>12, <1>13 DEF IInv

\* The issues the two files and the engine report, all of known kinds.
LEMMA ReportsKnown ==
  ASSUME IInv
  PROVE  /\ engine.report.issues \in Seq(AllIssues)
         /\ parsed["embedded"].report.issues \in Seq(AllIssues)
         /\ parsed["custom"].report.issues \in Seq(AllIssues)
<1>1. engine.report \in Reports /\ raw \in [Sources -> Files] BY DEF IInv, TypeOK
<1>2. "embedded" \in Sources /\ "custom" \in Sources BY DEF Sources
<1>3. ASSUME NEW s \in Sources
      PROVE  parsed[s].report.issues \in Seq(IssuesOf(s, Policy(s)))
  <2>1. raw[s] \in Files /\ IsParsed(parsed[s], raw[s], s, Policy(s)) BY <1>1 DEF IInv, FilesParsed
  <2>2. QED BY <2>1, ParsedFacts
<1>4. QED BY <1>1, <1>2, <1>3, IssuesKnown DEF Reports

LEMMA RefusedJoined ==
  ASSUME NEW a, NEW b, NEW c, a.issues \in Seq(AllIssues), b.issues \in Seq(AllIssues),
         c.issues \in Seq(AllIssues)
  PROVE  HasRejected(Joined(a, Joined(b, c))) <=> HasRejected(a) \/ HasRejected(b) \/ HasRejected(c)
<1> DEFINE j == Joined(b, c)
<1>1. j.issues \in Seq(AllIssues) /\ (HasRejected(j) <=> HasRejected(b) \/ HasRejected(c))
  BY JoinedFields
<1> HIDE DEF j
<1>2. HasRejected(Joined(a, j)) <=> HasRejected(a) \/ HasRejected(j) BY <1>1, JoinedFields
<1>3. QED BY <1>1, <1>2 DEF j

LEMMA EndFileStep == IInv /\ EndFile => IInv'
<1> SUFFICES ASSUME IInv, EndFile PROVE IInv'
  OBVIOUS
<1> DEFINE here == files[1]
           p == ParseEnd(parsed[here], here)
<1>1. /\ phase = "rules" /\ files' = Tail(files) /\ parsed' = [parsed EXCEPT ![here] = p]
      /\ phase' = IF HasRejected(p.report) THEN "rules incompatible"
                  ELSE IF Tail(files) # <<>> THEN "file" ELSE "merge"
      /\ UNCHANGED <<cfg, embedded, raw, engine, merged, labels>>
  BY DEF EndFile
<1>2. /\ files \in Seq(Read) /\ files # <<>> /\ raw \in [Sources -> Files] /\ DOMAIN parsed = Sources
  BY <1>1 DEF IInv, TypeOK
<1>3. here \in Sources
  <2>1. Len(files) \in Nat /\ Len(files) # 0 BY <1>2, EmptySeq, LenProperties
  <2>2. 1 \in 1..Len(files) BY <2>1
  <2>3. here \in Read BY <1>2, <2>2, ElementOfSeq
  <2>4. QED BY <2>3 DEF Read
<1> HIDE DEF here
<1>4. raw[here] \in Files /\ IsParsed(parsed[here], raw[here], here, Policy(here))
  BY <1>2, <1>3 DEF IInv, FilesParsed
<1>5. IsParsed(p, raw[here], here, Policy(here))
  <2> DEFINE old == raw[here]
             was == parsed[here]
  <2>1. old \in Files /\ IsParsed(was, old, here, Policy(here)) BY <1>4
  <2> HIDE DEF old, was
  <2>2. IsParsed(ParseEnd(was, here), old, here, Policy(here)) BY <2>1, EndParsed
  <2>3. QED BY <2>2 DEF old, was
<1>6. raw' = [raw EXCEPT ![here] = raw[here]] BY <1>1, <1>2, <1>3
<1> HIDE DEF p
<1>7. /\ Read' = Read /\ raw' \in [Sources -> Files] /\ DOMAIN parsed' = Sources
      /\ FilesParsed' /\ UnreadEmpty' /\ parsed'[here] = p
      /\ \A source \in Sources \ {here} : ~HasRejected(parsed'[source].report)
  <2> DEFINE file == raw[here]
  <2>1. file \in Files /\ IsParsed(p, file, here, Policy(here)) /\ raw' = [raw EXCEPT ![here] = file]
    BY <1>4, <1>5, <1>6
  <2> HIDE DEF file
  <2>2. QED BY <1>1, <2>1, FileStep DEF here
<1>8. Tail(files) \in Seq(Read)
  BY <1>2, HeadTailProperties
<1>9. phase' \in {"rules incompatible", "file", "merge"} /\ (phase' = "file" => files' # <<>>)
  BY <1>1
<1>10. TypeOK'
  <2>1. phase' \in Before \cup Joining /\ phase' # "rules" BY <1>9 DEF Before
  <2>2. QED BY <1>1, <1>7, <1>8, <1>9, <2>1 DEF IInv, TypeOK
<1>11. NotRefused'
  <2>1. ASSUME phase' # "rules incompatible", NEW s \in Sources PROVE ~HasRejected(parsed'[s].report)
    <3>1. CASE s = here BY <3>1, <2>1, <1>1, <1>7
    <3>2. CASE s # here BY <3>2, <1>7
    <3>3. QED BY <3>1, <3>2
  <2>2. QED BY <2>1 DEF NotRefused
<1>12. Refused'
  <2>1. SUFFICES ASSUME phase' = "rules incompatible"
                 PROVE  HasRejected(Joined(engine'.report, Joined(parsed'["embedded"].report, parsed'["custom"].report)))
    BY DEF Refused, HasRejected, Joined
  <2>2. HasRejected(p.report) BY <2>1, <1>1
  <2>3. \A source : Policy(source)' = Policy(source) BY <1>1, SameConfig
  <2>4. ASSUME NEW s \in Sources PROVE parsed'[s].report.issues \in Seq(IssuesOf(s, Policy(s)))
    <3>1. raw'[s] \in Files /\ IsParsed(parsed'[s], raw'[s], s, Policy(s)) BY <1>7, <2>3 DEF FilesParsed
    <3> DEFINE q == parsed'[s]
               g == raw'[s]
    <3> HIDE DEF q, g
    <3>2. g \in Files /\ IsParsed(q, g, s, Policy(s)) BY <3>1 DEF q, g
    <3>3. q.report.issues \in Seq(IssuesOf(s, Policy(s))) BY <3>2, ParsedFacts
    <3>4. QED BY <3>3 DEF q
  <2> DEFINE a == engine'.report
             b == parsed'["embedded"].report
             c == parsed'["custom"].report
  <2>5. "embedded" \in Sources /\ "custom" \in Sources /\ Sources = {"embedded", "custom"} BY DEF Sources
  <2>6. a.issues \in Seq(AllIssues) BY <1>1, ReportsKnown
  <2>7. b.issues \in Seq(AllIssues) /\ c.issues \in Seq(AllIssues)
    <3>1. /\ b.issues \in Seq(IssuesOf("embedded", Policy("embedded")))
          /\ c.issues \in Seq(IssuesOf("custom", Policy("custom")))
      BY <2>4, <2>5
    <3> HIDE DEF b, c
    <3>2. QED BY <3>1, IssuesKnown
  <2>8. HasRejected(b) \/ HasRejected(c) BY <2>2, <2>5, <1>3, <1>7
  <2> HIDE DEF a, b, c
  <2>9. HasRejected(Joined(a, Joined(b, c))) BY <2>6, <2>7, <2>8, RefusedJoined
  <2>10. QED BY <2>9 DEF a, b, c
<1>13. EngineMerged' BY <1>9 DEF EngineMerged, Joining
<1>14. LabelsSafe' BY <1>9 DEF LabelsSafe
<1>15. QED BY <1>7, <1>10, <1>11, <1>12, <1>13, <1>14 DEF IInv

\* What IInv says of the two files once they have both been read.
LEMMA BothParsed ==
  ASSUME IInv, phase \notin {"rules", "rules incompatible"}
  PROVE  LET first == parsed["embedded"]
             second == parsed["custom"]
         IN  /\ raw["embedded"] \in Files /\ raw["custom"] \in Files
             /\ IsParsed(first, raw["embedded"], "embedded", Policy("embedded"))
             /\ IsParsed(second, raw["custom"], "custom", Policy("custom"))
             /\ ~HasRejected(first.report) /\ ~HasRejected(second.report)
             /\ Mergeable(first, second)
<1>1. "embedded" \in Sources /\ "custom" \in Sources BY DEF Sources
<1>2. raw["embedded"] \in Files /\ raw["custom"] \in Files BY <1>1 DEF IInv, TypeOK
<1>3. /\ IsParsed(parsed["embedded"], raw["embedded"], "embedded", Policy("embedded"))
      /\ IsParsed(parsed["custom"], raw["custom"], "custom", Policy("custom"))
  BY <1>1 DEF IInv, FilesParsed
<1>4. ~HasRejected(parsed["embedded"].report) /\ ~HasRejected(parsed["custom"].report)
  BY <1>1 DEF IInv, NotRefused
<1>5. Mergeable(parsed["embedded"], parsed["custom"])
  BY <1>2, <1>3, ParsedMergeable
<1>6. QED BY <1>2, <1>3, <1>4, <1>5

LEMMA MergeStep == IInv /\ Merge => IInv'
<1> SUFFICES ASSUME IInv, Merge PROVE IInv'
  OBVIOUS
<1> DEFINE first == parsed["embedded"]
           second == parsed["custom"]
           e == engine'
<1>1. /\ phase = "merge" /\ phase' = IF CustomMode = "extend" THEN "extend" ELSE "pinned"
      /\ merged' = IF CustomMode = "extend" THEN 0 ELSE Len(second.rules)
      /\ e = [rules |-> IF CustomMode = "extend" THEN first.rules ELSE first.rules \o second.rules,
              globals |-> first.globals \cup second.globals,
              report |-> Joined(first.report, second.report)]
      /\ UNCHANGED <<cfg, embedded, files, raw, parsed, labels>>
  BY DEF Merge
<1>2. /\ raw["embedded"] \in Files /\ raw["custom"] \in Files
      /\ IsParsed(first, raw["embedded"], "embedded", Policy("embedded"))
      /\ IsParsed(second, raw["custom"], "custom", Policy("custom"))
      /\ ~HasRejected(first.report) /\ ~HasRejected(second.report)
      /\ Mergeable(first, second)
  BY <1>1, BothParsed
<1>3. Read' = Read /\ \A source : Policy(source)' = Policy(source) BY <1>1, SameConfig
<1>4. PICK R : first.rules \in Seq(R) /\ second.rules \in Seq(R) BY <1>2 DEF Mergeable
<1>5. Len(first.rules) \in Nat /\ Len(second.rules) \in Nat BY <1>4, LenProperties
<1>6. /\ "custom" \notin Read => second.rules = <<>>
      /\ "embedded" \notin Read => first.rules = <<>>
  BY DEF IInv, UnreadEmpty, Sources
<1> DEFINE all == Joined(first.report, second.report)
           globals == first.globals \cup second.globals
           rules == IF CustomMode = "extend" THEN first.rules ELSE first.rules \o second.rules
<1>7. e.rules = rules /\ e.globals = globals /\ e.report = all
  BY <1>1
<1>8. IsMerged(e, first, second, merged') /\ IsReported(e, first, second, merged', Policy("custom"))
      /\ merged' \in 0..Len(second.rules)
  <2>1. CASE e.rules = first.rules /\ merged' = 0
    <3>1. IsMerged(e, first, second, 0) BY <2>1, <1>2, <1>7, MergeStarts
    <3>2. \A j \in 1..0 : FALSE OBVIOUS
    <3>3. Len(e.rules) \in Nat /\ Len(e.rules) - 0 = Len(first.rules) BY <2>1, <1>5
    <3>4. e.report = Joined(first.report, second.report) BY <1>7
    <3> DEFINE f == raw["embedded"]
               g == raw["custom"]
    <3>5. /\ f \in Files /\ g \in Files
          /\ IsParsed(first, f, "embedded", Policy("embedded"))
          /\ IsParsed(second, g, "custom", Policy("custom"))
      BY <1>2
    <3> HIDE DEF first, second, e, f, g
    <3>6. IsReported(e, first, second, 0, Policy("custom"))
      BY <3>2, <3>3, <3>4, <3>5, <1>2, ReportStarts
    <3>7. QED BY <2>1, <3>1, <3>6, <1>5
  <2>2. CASE first.rules = <<>> /\ e.rules = second.rules /\ merged' = Len(second.rules)
    <3>1. IsMerged(e, first, second, Len(second.rules)) BY <2>2, <1>2, <1>7, MergeReplaces
    <3>2. \A j \in 1..Len(second.rules) : second.rules[j] \in ToSet(e.rules)
      <4>1. DOMAIN second.rules = 1..Len(second.rules) BY <1>4, LenProperties
      <4>2. QED BY <4>1, <2>2 DEF ToSet
    <3>3. Len(first.rules) = 0 BY <2>2, EmptySeq
    <3>4. Len(e.rules) \in Nat /\ Len(e.rules) - Len(second.rules) = Len(first.rules) BY <2>2, <3>3, <1>5
    <3>5. e.report = Joined(first.report, second.report) BY <1>7
    <3> DEFINE f == raw["embedded"]
               g == raw["custom"]
               k == Len(second.rules)
    <3>6. /\ f \in Files /\ g \in Files /\ k \in Nat
          /\ IsParsed(first, f, "embedded", Policy("embedded"))
          /\ IsParsed(second, g, "custom", Policy("custom"))
          /\ Len(e.rules) - k = Len(first.rules)
          /\ \A j \in 1..k : second.rules[j] \in ToSet(e.rules)
      BY <1>2, <1>5, <3>2, <3>4
    <3> HIDE DEF first, second, e, f, g, k
    <3>7. IsReported(e, first, second, k, Policy("custom"))
      BY <3>4, <3>5, <3>6, <1>2, ReportStarts
    <3>8. QED BY <2>2, <3>1, <3>6, <3>7 DEF k
  <2>3. CASE CustomMode = "extend"
    <3>1. e.rules = first.rules /\ merged' = 0 BY <2>3, <1>1, <1>7
    <3>2. QED BY <3>1, <2>1
  <2>4. CASE CustomMode = "none"
    <3>1. "custom" \notin Read BY <2>4, ModeIsOne DEF Read
    <3>2. second.rules = <<>> BY <3>1, <1>6
    <3>3. first.rules \o second.rules = first.rules BY <3>2, <1>4, ConcatEmptySeq
    <3>4. e.rules = first.rules /\ merged' = 0 BY <3>2, <3>3, <2>4, <1>1, <1>7, EmptySeq
    <3>5. QED BY <3>4, <2>1
  <2>5. CASE CustomMode = "replace"
    <3>1. "embedded" \notin Read BY <2>5 DEF Read
    <3>2. first.rules = <<>> BY <3>1, <1>6
    <3>3. first.rules \o second.rules = second.rules BY <3>2, <1>4, ConcatEmptySeq
    <3>4. e.rules = second.rules /\ merged' = Len(second.rules) BY <3>3, <2>5, <1>1, <1>7
    <3>5. QED BY <3>2, <3>4, <2>2
  <2>6. QED BY <2>3, <2>4, <2>5, ModeIsOne
<1>9. e.report \in Reports
  <2>1. /\ first.report.issues \in Seq(AllIssues) /\ second.report.issues \in Seq(AllIssues)
    BY ReportsKnown
  <2>2. /\ first.report.seen \in Nat /\ first.report.loaded \in Nat /\ first.report.skipped \in Nat
        /\ second.report.seen \in Nat /\ second.report.loaded \in Nat /\ second.report.skipped \in Nat
    BY <1>2 DEF IsParsed, ParsedType, ParsedRecords
  <2> DEFINE s == first.report.seen + second.report.seen
             l == first.report.loaded + second.report.loaded
             n == first.report.skipped + second.report.skipped
             i == first.report.issues \o second.report.issues
  <2>3. s \in Nat /\ l \in Int /\ n \in Nat BY <2>2
  <2>4. i \in Seq(AllIssues) BY <2>1, ConcatProperties
  <2>5. e.report = [seen |-> s, loaded |-> l, skipped |-> n, issues |-> i] BY <1>7 DEF Joined
  <2> HIDE DEF s, l, n, i
  <2>6. QED BY <2>3, <2>4, <2>5 DEF Reports
<1>10. e = [rules |-> e.rules, globals |-> e.globals, report |-> e.report]
  <2>1. e = [rules |-> rules, globals |-> globals, report |-> all] BY <1>1
  <2> HIDE DEF rules, globals, all
  <2>2. QED BY <2>1, <1>7
<1> HIDE DEF first, second, e, rules, globals, all
<1>11. phase' \in {"extend", "pinned"} BY <1>1
<1>12. TypeOK'
  <2>1. phase' \in Before \cup Joining /\ phase' \notin {"file", "rules"} BY <1>11 DEF Joining
  <2>2. engine'.report \in Reports
        /\ engine' = [rules |-> engine'.rules, globals |-> engine'.globals, report |-> engine'.report]
    BY <1>9, <1>10 DEF e
  <2>3. QED BY <1>1, <1>3, <2>1, <2>2 DEF IInv, TypeOK
<1>13. FilesParsed' BY <1>1, <1>3 DEF IInv, FilesParsed
<1>14. UnreadEmpty' BY <1>1, <1>3 DEF IInv, UnreadEmpty
<1>15. NotRefused' BY <1>1 DEF IInv, NotRefused
<1>16. Refused' BY <1>11 DEF Refused
<1>17. EngineMerged'
  <2>1. phase' # "extend" => merged' = Len(second.rules) BY <1>1
  <2>2. QED BY <1>1, <1>3, <1>8, <2>1 DEF EngineMerged, first, second, e
<1>18. LabelsSafe' BY <1>11 DEF LabelsSafe
<1>19. QED BY <1>12, <1>13, <1>14, <1>15, <1>16, <1>17, <1>18 DEF IInv

LEMMA MergeRuleStep == IInv /\ MergeRule => IInv'
<1> SUFFICES ASSUME IInv, MergeRule PROVE IInv'
  OBVIOUS
<1> DEFINE first == parsed["embedded"]
           second == parsed["custom"]
           e == engine
           f == engine'
           k == merged
           rule == second.rules[k + 1]
<1>1. /\ phase = "extend" /\ k < Len(second.rules) /\ merged' = k + 1
      /\ UNCHANGED <<cfg, embedded, files, raw, parsed, labels>>
      /\ \/ /\ rule.id \notin Ids(e.rules) /\ f = [e EXCEPT !.rules = Append(@, rule)] /\ phase' = phase
         \/ /\ rule.id \in Ids(e.rules) /\ f = [e EXCEPT !.report = Duplicate(@, rule.id)]
            /\ phase' = IF Policy("custom") = "skip" THEN phase ELSE "rules incompatible"
  BY DEF MergeRule
<1>2. /\ raw["embedded"] \in Files /\ raw["custom"] \in Files
      /\ IsParsed(first, raw["embedded"], "embedded", Policy("embedded"))
      /\ IsParsed(second, raw["custom"], "custom", Policy("custom"))
      /\ Mergeable(first, second)
  BY <1>1, BothParsed
<1>3. /\ k \in 0..Len(second.rules) /\ IsMerged(e, first, second, k)
      /\ IsReported(e, first, second, k, Policy("custom"))
  <2>1. phase \in Joining BY <1>1 DEF Joining
  <2>2. QED BY <2>1 DEF IInv, EngineMerged
<1>4. Read' = Read /\ \A source : Policy(source)' = Policy(source) BY <1>1, SameConfig
<1>5. e.report \in Reports /\ e = [rules |-> e.rules, globals |-> e.globals, report |-> e.report]
  BY DEF IInv, TypeOK
<1>6. Len(second.rules) \in Nat /\ k \in Nat /\ k + 1 \in DOMAIN second.rules
  <2>1. PICK R : second.rules \in Seq(R) BY <1>2 DEF Mergeable
  <2>2. Len(second.rules) \in Nat /\ DOMAIN second.rules = 1..Len(second.rules) BY <2>1, LenProperties
  <2> DEFINE N == Len(second.rules)
  <2>3. k < N /\ k \in 0..N /\ N \in Nat BY <2>2, <1>1, <1>3
  <2> HIDE DEF N, k
  <2>4. k \in Nat /\ k + 1 \in 1..N BY <2>3
  <2>5. QED BY <2>2, <2>4 DEF N
<1>7. k + 1 \in 0..Len(second.rules)
  <2> DEFINE N == Len(second.rules)
  <2>1. k < N /\ k \in Nat /\ N \in Nat BY <1>1, <1>6
  <2> HIDE DEF N, k
  <2>2. k + 1 \in 0..N BY <2>1
  <2>3. QED BY <2>2 DEF N
<1>8. rule.id \in RuleIDs
  <2> DEFINE S == CompiledFrom(raw["custom"].rules, "custom", Policy("custom"))
  <2>1. second.rules \in Seq(S) BY <1>2, ParsedFacts
  <2>2. rule \in S
    <3> HIDE DEF S
    <3> QED BY <2>1, <1>6, LenProperties, ElementOfSeq
  <2>3. PICK n \in DOMAIN raw["custom"].rules : rule.id = raw["custom"].rules[n].id
    <3> DEFINE rules == raw["custom"].rules
    <3> HIDE DEF rules, rule
    <3>1. rule \in CompiledFrom(rules, "custom", Policy("custom")) BY <2>2 DEF rules
    <3>2. PICK n \in DOMAIN rules : rule = Compiled(rules, n, "custom", Policy("custom"))
      BY <3>1 DEF CompiledFrom
    <3>3. rule.id = rules[n].id BY <3>2 DEF Compiled
    <3>4. QED BY <3>3 DEF rules
  <2>4. raw["custom"].rules \in Seq(Rules) BY <1>2 DEF Files
  <2>5. raw["custom"].rules[n] \in Rules BY <2>4, LenProperties, ElementOfSeq
  <2>6. QED BY <2>3, <2>5 DEF RuleIDs
<1>9. Len(e.rules) \in Nat
  <2> DEFINE S == ToSet(first.rules) \cup {second.rules[j] : j \in 1..k}
  <2>1. e.rules \in Seq(S) BY <1>3 DEF IsMerged
  <2> HIDE DEF S
  <2>2. QED BY <2>1, LenProperties
<1>10. FilesParsed' BY <1>1, <1>4 DEF IInv, FilesParsed
<1>11. UnreadEmpty' BY <1>1, <1>4 DEF IInv, UnreadEmpty
<1>12. NotRefused' BY <1>1 DEF IInv, NotRefused
<1>13. LabelsSafe' BY <1>1 DEF LabelsSafe
<1>14. CASE rule.id \notin Ids(e.rules)
  <2> DEFINE rules == Append(e.rules, rule)
  <2>1. f = [e EXCEPT !.rules = rules] /\ phase' = "extend" BY <1>1, <1>14
  <2> HIDE DEF rules
  <2>2. f = [rules |-> rules, globals |-> e.globals, report |-> e.report] BY <2>1, <1>5
  <2>3. f.rules = rules /\ f.globals = e.globals /\ f.report = e.report BY <2>2
  <2>4. /\ f.rules = Append(e.rules, second.rules[k + 1]) /\ second.rules[k + 1].id \notin Ids(e.rules)
        /\ k < Len(second.rules)
    BY <1>1, <1>14, <2>3 DEF rules
  <2> HIDE DEF first, second, e, f, k
  <2>5. /\ IsMerged(f, first, second, k + 1) /\ Len(f.rules) = Len(e.rules) + 1
        /\ ToSet(f.rules) = ToSet(e.rules) \cup {second.rules[k + 1]}
    <3>1. k \in Nat /\ Mergeable(first, second) /\ k < Len(second.rules) /\ IsMerged(e, first, second, k)
      BY <1>2, <1>3, <1>6, <2>4
    <3>2. Adds(e, f, second, k) BY <2>3, <2>4 DEF Adds
    <3>3. Grown(e, f, first, second, k) BY <3>1, <3>2, MergeKeeps
    <3>4. QED BY <3>3 DEF Grown
  <2>6. IsReported(f, first, second, k + 1, Policy("custom"))
    BY <1>3, <1>6, <1>9, <2>3, <2>5, ReportKeeps
  <2>7. TypeOK'
    <3>1. phase' \in Before \cup Joining /\ phase' \notin {"file", "rules"} BY <2>1 DEF Joining
    <3>2. engine'.report \in Reports
          /\ engine' = [rules |-> engine'.rules, globals |-> engine'.globals, report |-> engine'.report]
      BY <1>5, <2>2, <2>3 DEF f
    <3>3. QED BY <1>1, <1>4, <3>1, <3>2 DEF IInv, TypeOK
  <2>8. EngineMerged'
    BY <1>1, <1>4, <1>7, <2>1, <2>5, <2>6 DEF EngineMerged, first, second, e, f, k
  <2>9. Refused' BY <2>1 DEF Refused
  <2>10. QED BY <1>10, <1>11, <1>12, <1>13, <2>7, <2>8, <2>9 DEF IInv
<1>15. CASE rule.id \in Ids(e.rules)
  <2> DEFINE report == Duplicate(e.report, rule.id)
  <2>1. /\ f = [e EXCEPT !.report = report]
        /\ phase' = IF Policy("custom") = "skip" THEN "extend" ELSE "rules incompatible"
    BY <1>1, <1>15
  <2>2. /\ report \in Reports
        /\ ToSet(report.issues) = ToSet(e.report.issues) \cup
             {Issue("custom", rule.id, "id", IF Policy("custom") = "skip" THEN "skipped" ELSE "rejected")}
    <3> DEFINE r == e.report
               id == rule.id
    <3>1. r \in Reports /\ id \in RuleIDs BY <1>5, <1>8
    <3> HIDE DEF r, id
    <3>2. /\ Duplicate(r, id) \in Reports
          /\ ToSet(Duplicate(r, id).issues) = ToSet(r.issues) \cup
               {Issue("custom", id, "id", IF Policy("custom") = "skip" THEN "skipped" ELSE "rejected")}
      BY <3>1, DuplicateFields
    <3>3. QED BY <3>2 DEF r, id
  <2> HIDE DEF report
  <2>3. f = [rules |-> e.rules, globals |-> e.globals, report |-> report] BY <2>1, <1>5
  <2>4. f.rules = e.rules /\ f.globals = e.globals /\ f.report = report BY <2>3
  <2>5. TypeOK'
    <3>1. phase' \in Before \cup Joining /\ phase' \notin {"file", "rules"} BY <2>1 DEF Joining, Before
    <3>2. engine'.report \in Reports
          /\ engine' = [rules |-> engine'.rules, globals |-> engine'.globals, report |-> engine'.report]
      BY <2>2, <2>3, <2>4
    <3>3. QED BY <1>1, <1>4, <3>1, <3>2 DEF IInv, TypeOK
  <2>6. Refused'
    <3>1. SUFFICES ASSUME phase' = "rules incompatible"
                   PROVE  HasRejected(Joined(engine'.report, Joined(parsed'["embedded"].report, parsed'["custom"].report)))
      BY DEF Refused, HasRejected, Joined
    <3>2. Policy("custom") # "skip" BY <2>1, <3>1
    <3>3. HasRejected(report)
      <4> DEFINE i == Issue("custom", rule.id, "id", "rejected")
      <4>1. i \in ToSet(report.issues) BY <2>2, <3>2
      <4>2. i.action = "rejected" BY DEF Issue
      <4> HIDE DEF i
      <4>3. QED BY <4>1, <4>2, RejectedInSet
    <3>4. report.issues \in Seq(AllIssues) BY <2>2 DEF Reports
    <3> DEFINE a == engine'.report
               b == parsed'["embedded"].report
               c == parsed'["custom"].report
    <3>5. a = report BY <2>4
    <3>6. b.issues \in Seq(AllIssues) /\ c.issues \in Seq(AllIssues) BY <1>1, ReportsKnown
    <3> HIDE DEF a, b, c
    <3>7. HasRejected(Joined(a, Joined(b, c))) BY <3>3, <3>4, <3>5, <3>6, RefusedJoined
    <3>8. QED BY <3>7 DEF a, b, c
  <2>7. EngineMerged'
    <3>1. CASE Policy("custom") = "skip"
      <4>1. phase' = "extend" BY <2>1, <3>1
      <4>2. f.report = Duplicate(e.report, second.rules[k + 1].id) BY <2>4 DEF report
      <4>3. second.rules[k + 1].id \in RuleIDs /\ second.rules[k + 1].id \in Ids(e.rules) BY <1>8, <1>15
      <4> HIDE DEF first, second, e, f, k
      <4>4. IsMerged(f, first, second, k + 1)
        BY <1>1, <1>2, <1>3, <1>6, <4>3, <2>4, MergeSkips
      <4>5. IsReported(f, first, second, k + 1, Policy("custom"))
        BY <1>3, <1>5, <1>6, <1>9, <2>4, <3>1, <4>2, <4>3, ReportSkips
      <4>6. QED BY <1>1, <1>4, <1>7, <4>1, <4>4, <4>5 DEF EngineMerged, first, second, e, f, k
    <3>2. CASE Policy("custom") # "skip"
      <4>1. phase' = "rules incompatible" BY <2>1, <3>2
      <4>2. QED BY <4>1 DEF EngineMerged, Joining
    <3>3. QED BY <3>1, <3>2
  <2>8. QED BY <1>10, <1>11, <1>12, <1>13, <2>5, <2>6, <2>7 DEF IInv
<1>16. QED BY <1>14, <1>15

LEMMA NextInv == IInv /\ [Next]_vars => IInv'
<1> SUFFICES ASSUME IInv, [Next]_vars PROVE IInv'
  OBVIOUS
<1>1. CASE ParseConfig BY <1>1, ParseConfigStep
<1>2. CASE LoadRuleMaterial BY <1>2, LoadRuleMaterialStep
<1>3. CASE \E head \in Heads : BeginFile(head) BY <1>3, BeginFileStep
<1>4. CASE Undecodable BY <1>4, UndecodableStep
<1>5. CASE \E rule \in Rules : ReadRule(rule) BY <1>5, ReadRuleStep
<1>6. CASE EndFile BY <1>6, EndFileStep
<1>7. CASE Merge BY <1>7, MergeStep
<1>8. CASE MergeRule BY <1>8, MergeRuleStep
<1>9. CASE EndMerge BY <1>9, EndMergeStep
<1>10. CASE ValidatePinned BY <1>10, ValidatePinnedStep
<1>11. CASE ValidateReplacements BY <1>11, ValidateReplacementsStep
<1>12. CASE OpenLog BY <1>12, OpenLogStep
<1>13. CASE Finished
  <2>1. UNCHANGED vars BY <1>13 DEF Finished
  <2>2. QED BY <2>1, StutterStep
<1>14. CASE UNCHANGED vars BY <1>14, StutterStep
<1>15. QED
  BY <1>1, <1>2, <1>3, <1>4, <1>5, <1>6, <1>7, <1>8, <1>9, <1>10, <1>11, <1>12, <1>13, <1>14 DEF Next

-----------------------------------------------------------------------------
(* What the engine runs *)

\* Loaded, of the engine e.
Runs(e, source, n) == \E rule \in ToSet(e.rules) : rule.source = source /\ rule.origin = n

\* A rule that was kept is the one that was read.
IsCompiled(rule, rules, source, policy) ==
    /\ rule.origin \in DOMAIN rules
    /\ rule.source = source
    /\ rule.id = rules[rule.origin].id
    /\ rule.regex = rules[rule.origin].regex
    /\ rule.keywords = rules[rule.origin].keywords
    /\ rule.allowlists = UsableLists(rules[rule.origin].single \o rules[rule.origin].plural, policy)

LEMMA KeptRules ==
  ASSUME NEW p, NEW file \in Files, NEW source, NEW policy, IsParsed(p, file, source, policy)
  PROVE  /\ \A rule \in ToSet(p.rules) : IsCompiled(rule, file.rules, source, policy)
         /\ \A n \in DOMAIN file.rules :
               (\E rule \in ToSet(p.rules) : rule.origin = n) <=> Accepted(file.rules, n)
         /\ \A id : id \in Ids(p.rules) <=> \E rule \in ToSet(p.rules) : rule.id = id
<1> DEFINE rules == file.rules
<1>1. p.rules \in Seq(CompiledFrom(rules, source, policy)) BY ParsedFacts
<1>2. ToSet(p.rules) \subseteq CompiledFrom(rules, source, policy) BY <1>1, ToSetElements
<1>3. Selected(p, rules) BY DEF IsParsed
<1> HIDE DEF rules
<1>4. ASSUME NEW rule \in CompiledFrom(rules, source, policy)
      PROVE  IsCompiled(rule, rules, source, policy)
  <2>1. PICK n \in DOMAIN rules : rule = Compiled(rules, n, source, policy) BY DEF CompiledFrom
  <2>2. QED BY <2>1 DEF Compiled, IsCompiled
<1>5. \A rule \in ToSet(p.rules) : IsCompiled(rule, rules, source, policy) BY <1>2, <1>4
<1>6. \A n : Keeps(p, n) <=> \E rule \in ToSet(p.rules) : rule.origin = n BY DEF Keeps, ToSet
<1>7. \A n \in DOMAIN rules : (\E rule \in ToSet(p.rules) : rule.origin = n) <=> Accepted(rules, n)
  BY <1>3, <1>6 DEF Selected
<1>8. \A id : id \in Ids(p.rules) <=> \E rule \in ToSet(p.rules) : rule.id = id BY DEF Ids, ToSet
<1>9. QED BY <1>5, <1>7, <1>8 DEF rules

LEMMA MergedRules ==
  ASSUME NEW e, NEW first, NEW second, Mergeable(first, second),
         IsMerged(e, first, second, Len(second.rules))
  PROVE  /\ \A rule \in ToSet(e.rules) : rule \in ToSet(first.rules) \/ rule \in ToSet(second.rules)
         /\ \A rule \in ToSet(first.rules) : rule \in ToSet(e.rules)
         /\ \A rule \in ToSet(second.rules) : rule \in ToSet(e.rules) <=> rule.id \notin Ids(first.rules)
<1> DEFINE N == Len(second.rules)
           S == ToSet(first.rules) \cup {second.rules[j] : j \in 1..N}
<1>1. PICK R : second.rules \in Seq(R) BY DEF Mergeable
<1>2. DOMAIN second.rules = 1..N BY <1>1, LenProperties
<1>3. ToSet(second.rules) = {second.rules[j] : j \in 1..N} BY <1>2 DEF ToSet
<1>4. e.rules \in Seq(S) /\ ToSet(first.rules) \subseteq ToSet(e.rules)
      /\ \A j \in 1..N : second.rules[j] \in ToSet(e.rules) <=> second.rules[j].id \notin Ids(first.rules)
  BY DEF IsMerged
<1>5. ToSet(e.rules) \subseteq S
  <2> HIDE DEF S
  <2> QED BY <1>4, ToSetElements
<1> HIDE DEF N
<1>6. QED BY <1>3, <1>4, <1>5

\* The engine runs the rules that were accepted, a custom one unless an embedded
\* one has its id.
RunsAccepted(e, first, f, g) ==
    /\ \A n \in DOMAIN f.rules : Runs(e, "embedded", n) <=> Accepted(f.rules, n)
    /\ \A n \in DOMAIN g.rules :
          Runs(e, "custom", n) <=> Accepted(g.rules, n) /\ g.rules[n].id \notin Ids(first.rules)
    /\ \A id : id \in Ids(first.rules) <=>
          \E m \in DOMAIN f.rules : Runs(e, "embedded", m) /\ f.rules[m].id = id

LEMMA EngineRuns ==
  ASSUME NEW e, NEW first, NEW second, NEW f \in Files, NEW g \in Files, NEW policy, NEW other,
         IsParsed(first, f, "embedded", policy), IsParsed(second, g, "custom", other),
         Mergeable(first, second), IsMerged(e, first, second, Len(second.rules))
  PROVE  RunsAccepted(e, first, f, g)
<1>1. /\ \A rule \in ToSet(first.rules) : IsCompiled(rule, f.rules, "embedded", policy)
      /\ \A n \in DOMAIN f.rules :
            (\E rule \in ToSet(first.rules) : rule.origin = n) <=> Accepted(f.rules, n)
      /\ \A id : id \in Ids(first.rules) <=> \E rule \in ToSet(first.rules) : rule.id = id
  BY KeptRules
<1>2. /\ \A rule \in ToSet(second.rules) : IsCompiled(rule, g.rules, "custom", other)
      /\ \A n \in DOMAIN g.rules :
            (\E rule \in ToSet(second.rules) : rule.origin = n) <=> Accepted(g.rules, n)
  BY KeptRules
<1>3. /\ \A rule \in ToSet(e.rules) : rule \in ToSet(first.rules) \/ rule \in ToSet(second.rules)
      /\ \A rule \in ToSet(first.rules) : rule \in ToSet(e.rules)
      /\ \A rule \in ToSet(second.rules) : rule \in ToSet(e.rules) <=> rule.id \notin Ids(first.rules)
  BY MergedRules
<1>4. /\ \A rule \in ToSet(first.rules) :
            rule.origin \in DOMAIN f.rules /\ rule.source = "embedded" /\ rule.id = f.rules[rule.origin].id
      /\ \A rule \in ToSet(second.rules) :
            rule.origin \in DOMAIN g.rules /\ rule.source = "custom" /\ rule.id = g.rules[rule.origin].id
  BY <1>1, <1>2 DEF IsCompiled
<1>5. \A n : Runs(e, "embedded", n) <=> \E rule \in ToSet(first.rules) : rule.origin = n
  <2>1. ASSUME NEW n, Runs(e, "embedded", n) PROVE \E rule \in ToSet(first.rules) : rule.origin = n
    <3>1. PICK rule \in ToSet(e.rules) : rule.source = "embedded" /\ rule.origin = n BY <2>1 DEF Runs
    <3>2. "embedded" # "custom" OBVIOUS
    <3>3. rule \in ToSet(first.rules) BY <3>1, <3>2, <1>3, <1>4
    <3>4. QED BY <3>1, <3>3
  <2>2. ASSUME NEW n, NEW rule \in ToSet(first.rules), rule.origin = n PROVE Runs(e, "embedded", n)
    BY <2>2, <1>3, <1>4 DEF Runs
  <2>3. QED BY <2>1, <2>2
<1>6. \A n : Runs(e, "custom", n) <=>
              \E rule \in ToSet(second.rules) : rule.origin = n /\ rule.id \notin Ids(first.rules)
  <2>1. ASSUME NEW n, Runs(e, "custom", n)
        PROVE  \E rule \in ToSet(second.rules) : rule.origin = n /\ rule.id \notin Ids(first.rules)
    <3>1. PICK rule \in ToSet(e.rules) : rule.source = "custom" /\ rule.origin = n BY <2>1 DEF Runs
    <3>2. "embedded" # "custom" OBVIOUS
    <3>3. rule \in ToSet(second.rules) BY <3>1, <3>2, <1>3, <1>4
    <3>4. QED BY <3>1, <3>3, <1>3
  <2>2. ASSUME NEW n, NEW rule \in ToSet(second.rules), rule.origin = n, rule.id \notin Ids(first.rules)
        PROVE  Runs(e, "custom", n)
    BY <2>2, <1>3, <1>4 DEF Runs
  <2>3. QED BY <2>1, <2>2
<1>7. \A n \in DOMAIN f.rules : Runs(e, "embedded", n) <=> Accepted(f.rules, n) BY <1>1, <1>5
<1>8. ASSUME NEW n \in DOMAIN g.rules
      PROVE  Runs(e, "custom", n) <=> Accepted(g.rules, n) /\ g.rules[n].id \notin Ids(first.rules)
  BY <1>2, <1>4, <1>6
<1>9. ASSUME NEW id
      PROVE  id \in Ids(first.rules) <=>
               \E m \in DOMAIN f.rules : Runs(e, "embedded", m) /\ f.rules[m].id = id
  BY <1>1, <1>4, <1>5
<1>10. QED BY <1>7, <1>8, <1>9 DEF RunsAccepted

\* Every rule of a file that does not run is named, as skipped.
LEMMA NotRunIsNamed ==
  ASSUME NEW e, NEW first, NEW second, NEW f \in Files, NEW g \in Files, NEW policy \in Policies,
         IsParsed(first, f, "embedded", "skip"), IsParsed(second, g, "custom", policy),
         ~HasRejected(second.report),
         Mergeable(first, second), IsMerged(e, first, second, Len(second.rules)),
         IsReported(e, first, second, Len(second.rules), policy)
  PROVE  /\ \A n \in DOMAIN f.rules : ~Runs(e, "embedded", n) =>
               \E i \in ToSet(e.report.issues) : i \in Naming("embedded", f.rules[n].id, "skip")
         /\ \A n \in DOMAIN g.rules : ~Runs(e, "custom", n) =>
               \E i \in ToSet(e.report.issues) : i \in Naming("custom", g.rules[n].id, "skip")
<1>1. /\ \A n \in DOMAIN f.rules : Runs(e, "embedded", n) <=> Accepted(f.rules, n)
      /\ \A n \in DOMAIN g.rules :
            Runs(e, "custom", n) <=> Accepted(g.rules, n) /\ g.rules[n].id \notin Ids(first.rules)
  <2>1. RunsAccepted(e, first, f, g) BY EngineRuns
  <2>2. QED BY <2>1 DEF RunsAccepted
<1>2. /\ ToSet(first.report.issues) \cup ToSet(second.report.issues) \subseteq ToSet(e.report.issues)
      /\ \A j \in 1..Len(second.rules) : second.rules[j] \notin ToSet(e.rules) =>
            Issue("custom", second.rules[j].id, "id", "skipped") \in ToSet(e.report.issues)
  BY DEF IsReported
<1>3. ASSUME NEW p, NEW file, NEW source, NEW any, IsParsed(p, file, source, any),
             NEW n \in DOMAIN file.rules, ~Accepted(file.rules, n)
      PROVE  \E i \in ToSet(p.report.issues) : i \in Naming(source, file.rules[n].id, any)
  <2>1. Selected(p, file.rules) /\ Named(p, file.rules, source, any) BY <1>3 DEF IsParsed
  <2>2. ~Keeps(p, n) BY <1>3, <2>1 DEF Selected
  <2>3. PICK i \in DOMAIN p.report.issues : p.report.issues[i] \in Naming(source, file.rules[n].id, any)
    BY <2>1, <2>2 DEF Named
  <2>4. QED BY <2>3 DEF ToSet
<1>4. ASSUME NEW n \in DOMAIN f.rules, ~Runs(e, "embedded", n)
      PROVE  \E i \in ToSet(e.report.issues) : i \in Naming("embedded", f.rules[n].id, "skip")
  <2>1. ~Accepted(f.rules, n) BY <1>1, <1>4
  <2>2. \E i \in ToSet(first.report.issues) : i \in Naming("embedded", f.rules[n].id, "skip")
    BY <1>3, <2>1
  <2>3. QED BY <2>2, <1>2
<1>5. ASSUME NEW n \in DOMAIN g.rules, ~Runs(e, "custom", n)
      PROVE  \E i \in ToSet(e.report.issues) : i \in Naming("custom", g.rules[n].id, "skip")
  <2>1. CASE ~Accepted(g.rules, n)
    <3>1. PICK i \in ToSet(second.report.issues) : i \in Naming("custom", g.rules[n].id, policy)
      BY <1>3, <2>1
    <3>2. policy # "error"
      <4>1. policy = "error" => second.report.issues = <<>> BY AcceptedFile
      <4>2. QED BY <3>1, <4>1, EmptyToSet
    <3>3. policy = "skip" BY <3>2 DEF Policies
    <3>4. QED BY <3>1, <3>3, <1>2
  <2>2. CASE Accepted(g.rules, n)
    <3>1. g.rules[n].id \in Ids(first.rules) BY <1>1, <1>5, <2>2
    <3>2. /\ \A rule \in ToSet(second.rules) : IsCompiled(rule, g.rules, "custom", policy)
          /\ \A m \in DOMAIN g.rules :
                (\E rule \in ToSet(second.rules) : rule.origin = m) <=> Accepted(g.rules, m)
      BY KeptRules
    <3>3. PICK rule \in ToSet(second.rules) : rule.origin = n BY <2>2, <3>2
    <3>4. rule.id = g.rules[n].id BY <3>2, <3>3 DEF IsCompiled
    <3>5. rule \notin ToSet(e.rules)
      <4>1. \A r \in ToSet(second.rules) : r \in ToSet(e.rules) <=> r.id \notin Ids(first.rules)
        BY MergedRules
      <4>2. QED BY <3>1, <3>4, <4>1
    <3>6. PICK j \in 1..Len(second.rules) : rule = second.rules[j]
      <4>1. PICK R : second.rules \in Seq(R) BY DEF Mergeable
      <4>2. DOMAIN second.rules = 1..Len(second.rules) BY <4>1, LenProperties
      <4>3. QED BY <4>2 DEF ToSet
    <3>7. Issue("custom", g.rules[n].id, "id", "skipped") \in ToSet(e.report.issues)
      BY <1>2, <3>4, <3>5, <3>6
    <3>8. Issue("custom", g.rules[n].id, "id", "skipped") \in Naming("custom", g.rules[n].id, "skip")
      BY DEF Naming, FeatureNames
    <3>9. QED BY <3>7, <3>8
  <2>3. QED BY <2>1, <2>2
<1>6. QED BY <1>4, <1>5

\* What IInv says of a plugin that is built.
LEMMA BuiltFacts ==
  ASSUME IInv, Built
  PROVE  LET first == parsed["embedded"]
             second == parsed["custom"]
         IN  /\ raw["embedded"] \in Files /\ raw["custom"] \in Files
             /\ IsParsed(first, raw["embedded"], "embedded", "skip")
             /\ IsParsed(second, raw["custom"], "custom", Policy("custom"))
             /\ ~HasRejected(first.report) /\ ~HasRejected(second.report)
             /\ Mergeable(first, second)
             /\ IsMerged(engine, first, second, Len(second.rules))
             /\ IsReported(engine, first, second, Len(second.rules), Policy("custom"))
             /\ Policy("custom") \in Policies
             /\ \A source, n : Loaded(source, n) <=> Runs(engine, source, n)
<1>1. phase = "built" BY DEF Built
<1>2. phase \in Joining /\ phase \notin {"rules", "rules incompatible"} /\ phase # "extend"
  BY <1>1 DEF Joining
<1>3. merged = Len(parsed["custom"].rules) BY <1>2 DEF IInv, EngineMerged
<1>4. /\ IsMerged(engine, parsed["embedded"], parsed["custom"], merged)
      /\ IsReported(engine, parsed["embedded"], parsed["custom"], merged, Policy("custom"))
  BY <1>2 DEF IInv, EngineMerged
<1>5. Policy("embedded") = "skip" BY DEF Policy
<1>6. \A source, n : Loaded(source, n) <=> Runs(engine, source, n) BY DEF Loaded, Runs, ToSet
<1>7. Policy("custom") \in Policies BY PolicyIsOne
<1>8. QED BY <1>2, <1>3, <1>4, <1>5, <1>6, <1>7, BothParsed

LEMMA ReportAccounted == IInv => ReportAccounts
<1> SUFFICES ASSUME IInv PROVE ReportAccounts
  OBVIOUS
<1> DEFINE first == parsed["embedded"]
           second == parsed["custom"]
           e == engine
           issues == e.report.issues
           N == Len(second.rules)
<1>1. ASSUME Built
      PROVE  /\ e.report.seen = e.report.loaded + e.report.skipped
             /\ e.report.loaded = Len(e.rules)
             /\ DistinctIds(e.rules)
             /\ ~HasRejected(e.report)
             /\ ~cfg.allowUnsupported => \A n \in DOMAIN issues : issues[n].source = "embedded"
             /\ \A source \in Sources : \A n \in DOMAIN raw[source].rules : ~Loaded(source, n) =>
                   \E i \in ToSet(issues) : i \in Naming(source, raw[source].rules[n].id, "skip")
  <2>1. /\ raw["embedded"] \in Files /\ raw["custom"] \in Files
        /\ IsParsed(first, raw["embedded"], "embedded", "skip")
        /\ IsParsed(second, raw["custom"], "custom", Policy("custom"))
        /\ ~HasRejected(second.report)
        /\ Mergeable(first, second)
        /\ IsMerged(e, first, second, N)
        /\ IsReported(e, first, second, N, Policy("custom"))
        /\ Policy("custom") \in Policies
        /\ \A source, n : Loaded(source, n) <=> Runs(e, source, n)
    BY <1>1, BuiltFacts
  <2>2. /\ e.report.loaded = Len(e.rules) + N - N
        /\ e.report.seen = e.report.loaded + e.report.skipped
        /\ \A i \in ToSet(issues) :
              i.action # "rejected" /\ (Policy("custom") = "error" => i.source = "embedded")
    BY <2>1 DEF IsReported
  <2>3. DistinctIds(e.rules) /\ e.rules \in Seq(ToSet(first.rules) \cup {second.rules[j] : j \in 1..N})
    BY <2>1 DEF IsMerged
  <2>4. e.report.loaded = Len(e.rules)
    <3> DEFINE S == ToSet(first.rules) \cup {second.rules[j] : j \in 1..N}
               L == Len(e.rules)
               x == e.report.loaded
    <3>1. L \in Nat
      <4> HIDE DEF S
      <4> QED BY <2>3, LenProperties DEF S
    <3>2. N \in Nat
      <4>1. PICK R : second.rules \in Seq(R) BY <2>1 DEF Mergeable
      <4>2. QED BY <4>1, LenProperties
    <3>3. x = L + N - N BY <2>2
    <3> HIDE DEF L, N, x
    <3>4. x = L BY <3>1, <3>2, <3>3
    <3>5. QED BY <3>4 DEF L, x
  <2>5. ~HasRejected(e.report) BY <2>2, RejectedInSet
  <2>6. ASSUME ~cfg.allowUnsupported, NEW n \in DOMAIN issues PROVE issues[n].source = "embedded"
    <3>1. Policy("custom") = "error" BY <2>6 DEF Policy
    <3>2. issues[n] \in ToSet(issues) BY DEF ToSet
    <3>3. QED BY <2>2, <3>1, <3>2
  <2>7. /\ \A n \in DOMAIN raw["embedded"].rules : ~Runs(e, "embedded", n) =>
              \E i \in ToSet(issues) : i \in Naming("embedded", raw["embedded"].rules[n].id, "skip")
        /\ \A n \in DOMAIN raw["custom"].rules : ~Runs(e, "custom", n) =>
              \E i \in ToSet(issues) : i \in Naming("custom", raw["custom"].rules[n].id, "skip")
    <3> DEFINE f == raw["embedded"]
               g == raw["custom"]
               policy == Policy("custom")
    <3> HIDE DEF first, second, e, f, g, policy, N
    <3>1. QED BY <2>1, NotRunIsNamed DEF f, g, policy, N
  <2>8. \A source \in Sources : source = "embedded" \/ source = "custom" BY DEF Sources
  <2>9. \A source \in Sources : \A n \in DOMAIN raw[source].rules : ~Loaded(source, n) =>
           \E i \in ToSet(issues) : i \in Naming(source, raw[source].rules[n].id, "skip")
    BY <2>1, <2>7, <2>8
  <2>10. QED BY <2>2, <2>3, <2>4, <2>5, <2>6, <2>9
<1>2. ASSUME Built, NEW source \in Read, NEW n \in DOMAIN raw[source].rules, ~Loaded(source, n)
      PROVE  \E i \in DOMAIN issues :
                issues[i] \in {Issue(source, raw[source].rules[n].id, feature, "skipped") :
                                  feature \in FeatureNames}
  <2>1. source \in Sources BY DEF Read
  <2>2. PICK i \in ToSet(issues) : i \in Naming(source, raw[source].rules[n].id, "skip")
    BY <1>1, <1>2, <2>1
  <2>3. PICK k \in DOMAIN issues : i = issues[k] BY <2>2 DEF ToSet
  <2>4. QED BY <2>2, <2>3 DEF Naming
<1>3. phase = "rules incompatible" => HasRejected(Joined(engine.report, Joined(first.report, second.report)))
  BY DEF IInv, Refused
<1>4. QED BY <1>1, <1>2, <1>3 DEF ReportAccounts, DistinctIds, FeatureNames

-----------------------------------------------------------------------------
(* What the engine finds *)

LEMMA ListsExempt ==
  ASSUME NEW lists, lists \in Seq(Allowlists), NEW policy \in Policies, NEW text,
         policy = "error" => \A list \in ToSet(lists) : ~Unsupported(list)
  PROVE  AnyAllowlisted(UsableLists(lists, policy), text) <=> \E list \in ToSet(lists) : Exempts(list, text)
<1>1. ASSUME NEW list \in ToSet(lists)
      PROVE  Exempts(list, text) <=> Usable(list, policy) /\ Matches(list, text)
  <2>1. list \in Allowlists BY ToSetElements
  <2>2. policy = "error" => ~Unsupported(list) OBVIOUS
  <2>3. QED BY <2>1, <2>2, UsableExempts
<1>2. AnyAllowlisted(UsableLists(lists, policy), text) <=>
         \E list \in ToSet(lists) : Usable(list, policy) /\ Matches(list, text)
  BY DEF AnyAllowlisted, UsableLists
<1>3. QED BY <1>1, <1>2

\* The allowlists of a file that was not refused, and of its rules, exempt what
\* they say.
FileExempts(p, file, policy, text) ==
    /\ AnyAllowlisted(p.globals, text) <=> \E list \in ListsOf(file) : Exempts(list, text)
    /\ \A n \in DOMAIN file.rules :
          LET rule == file.rules[n]
          IN  AnyAllowlisted(UsableLists(rule.single \o rule.plural, policy), text) <=>
                  \E list \in ListsOf(rule) : Exempts(list, text)

LEMMA WrittenExempts ==
  ASSUME NEW p, NEW file \in Files, NEW source, NEW policy \in Policies, NEW text,
         IsParsed(p, file, source, policy), ~HasRejected(p.report)
  PROVE  FileExempts(p, file, policy, text)
<1>1. policy = "error" => p.report.issues = <<>> BY AcceptedFile
<1>2. policy = "error" => /\ \A list \in ListsOf(file) : ~Unsupported(list)
                          /\ \A n \in DOMAIN file.rules : \A list \in ListsOf(file.rules[n]) : ~Unsupported(list)
  BY <1>1 DEF IsParsed, Heard
<1>3. file.single \in Seq(Allowlists) /\ file.plural \in Seq(Allowlists) /\ file.rules \in Seq(Rules)
  BY DEF Files
<1>4. AnyAllowlisted(p.globals, text) <=> \E list \in ListsOf(file) : Exempts(list, text)
  <2> DEFINE lists == file.single \o file.plural
  <2>1. lists \in Seq(Allowlists) BY <1>3, ConcatProperties
  <2>2. p.globals = UsableLists(lists, policy) BY DEF IsParsed
  <2>3. ListsOf(file) = ToSet(lists) BY DEF ListsOf
  <2>4. policy = "error" => \A list \in ToSet(lists) : ~Unsupported(list) BY <1>2, <2>3
  <2> HIDE DEF lists
  <2>5. AnyAllowlisted(UsableLists(lists, policy), text) <=> \E list \in ToSet(lists) : Exempts(list, text)
    BY <2>1, <2>4, ListsExempt
  <2>6. QED BY <2>2, <2>3, <2>5
<1>5. ASSUME NEW n \in DOMAIN file.rules
      PROVE  AnyAllowlisted(UsableLists(file.rules[n].single \o file.rules[n].plural, policy), text) <=>
                 \E list \in ListsOf(file.rules[n]) : Exempts(list, text)
  <2> DEFINE rule == file.rules[n]
             lists == rule.single \o rule.plural
  <2>1. rule \in Rules BY <1>3, LenProperties, ElementOfSeq
  <2>2. rule.single \in Seq(Allowlists) /\ rule.plural \in Seq(Allowlists)
    <3> HIDE DEF rule
    <3> QED BY <2>1, BuildTypes
  <2>3. lists \in Seq(Allowlists)
    <3> HIDE DEF rule
    <3> QED BY <2>2, ConcatProperties
  <2>4. ListsOf(rule) = ToSet(lists) BY DEF ListsOf
  <2>5. policy = "error" => \A list \in ToSet(lists) : ~Unsupported(list) BY <1>2, <2>4
  <2> HIDE DEF lists
  <2>6. AnyAllowlisted(UsableLists(lists, policy), text) <=> \E list \in ToSet(lists) : Exempts(list, text)
    BY <2>3, <2>5, ListsExempt
  <2>7. QED BY <2>4, <2>6 DEF lists
<1>6. QED BY <1>4, <1>5 DEF FileExempts

LEMMA NoLists == ListsOf(NoFile) = {}
<1>1. NoFile.single = <<>> /\ NoFile.plural = <<>> BY DEF NoFile
<1>2. <<>> \in Seq(Allowlists) OBVIOUS
<1>3. ToSet(<<>> \o <<>>) = ToSet(<<>>) \cup ToSet(<<>>) BY <1>2, ToSetConcat
<1>4. QED BY <1>1, <1>3, EmptyToSet DEF ListsOf

\* The allowlists of a build: those of the rule, and those of the files it read.
LEMMA BuiltExempts ==
  ASSUME IInv, Built, NEW rule \in ToSet(engine.rules), NEW text
  PROVE  LET written == raw[rule.source].rules[rule.origin]
         IN  /\ rule.source \in Read
             /\ rule.regex = written.regex /\ rule.keywords = written.keywords
             /\ AnyAllowlisted(rule.allowlists, text) <=> \E list \in ListsOf(written) : Exempts(list, text)
             /\ AnyAllowlisted(engine.globals, text) <=>
                  \E list \in UNION {ListsOf(raw[source]) : source \in Read} : Exempts(list, text)
<1> DEFINE first == parsed["embedded"]
           second == parsed["custom"]
           f == raw["embedded"]
           g == raw["custom"]
           policy == Policy("custom")
           e == engine
<1>1. /\ f \in Files /\ g \in Files
      /\ IsParsed(first, f, "embedded", "skip")
      /\ IsParsed(second, g, "custom", policy)
      /\ ~HasRejected(first.report) /\ ~HasRejected(second.report)
      /\ Mergeable(first, second)
      /\ IsMerged(e, first, second, Len(second.rules))
      /\ policy \in Policies /\ "skip" \in Policies
  BY BuiltFacts DEF Policies
<1>2. \A source \in Sources \ Read : parsed[source].rules = <<>> /\ raw[source] = NoFile
  BY DEF IInv, UnreadEmpty
<1>3. Sources = {"embedded", "custom"} /\ Read \subseteq Sources BY DEF Sources, Read
<1>4. /\ "embedded" \notin Read => ToSet(first.rules) = {} /\ ListsOf(f) = {}
      /\ "custom" \notin Read => ToSet(second.rules) = {} /\ ListsOf(g) = {}
  BY <1>2, <1>3, NoLists, EmptyToSet
<1> HIDE DEF first, second, f, g, policy, e
<1>5. FileExempts(first, f, "skip", text) /\ FileExempts(second, g, policy, text)
  BY <1>1, WrittenExempts
<1>6. rule \in ToSet(first.rules) \/ rule \in ToSet(second.rules)
  <2>1. rule \in ToSet(e.rules) BY DEF e
  <2>2. QED BY <2>1, <1>1, MergedRules
<1>7. AnyAllowlisted(e.globals, text) <=>
        (\E list \in ListsOf(f) : Exempts(list, text)) \/ (\E list \in ListsOf(g) : Exempts(list, text))
  <2>1. e.globals = first.globals \cup second.globals BY <1>1 DEF IsMerged
  <2>2. AnyAllowlisted(e.globals, text) <=>
          AnyAllowlisted(first.globals, text) \/ AnyAllowlisted(second.globals, text)
    BY <2>1 DEF AnyAllowlisted
  <2>3. QED BY <2>2, <1>5 DEF FileExempts
<1>8. \A list : list \in UNION {ListsOf(raw[source]) : source \in Read} <=> list \in ListsOf(f) \/ list \in ListsOf(g)
  <2>1. ASSUME NEW list, list \in UNION {ListsOf(raw[source]) : source \in Read}
        PROVE  list \in ListsOf(f) \/ list \in ListsOf(g)
    <3>1. PICK source \in Read : list \in ListsOf(raw[source]) BY <2>1
    <3>2. source = "embedded" \/ source = "custom" BY <1>3
    <3>3. QED BY <3>1, <3>2 DEF f, g
  <2>2. ASSUME NEW list, list \in ListsOf(f) PROVE list \in UNION {ListsOf(raw[source]) : source \in Read}
    <3>1. "embedded" \in Read BY <1>4, <2>2
    <3>2. QED BY <3>1, <2>2 DEF f
  <2>3. ASSUME NEW list, list \in ListsOf(g) PROVE list \in UNION {ListsOf(raw[source]) : source \in Read}
    <3>1. "custom" \in Read BY <1>4, <2>3
    <3>2. QED BY <3>1, <2>3 DEF g
  <2>4. QED BY <2>1, <2>2, <2>3
<1>9. AnyAllowlisted(e.globals, text) <=>
        \E list \in UNION {ListsOf(raw[source]) : source \in Read} : Exempts(list, text)
  <2> DEFINE all == UNION {ListsOf(raw[source]) : source \in Read}
  <2>1. \A list : list \in all <=> list \in ListsOf(f) \/ list \in ListsOf(g) BY <1>8
  <2> HIDE DEF all
  <2>2. AnyAllowlisted(e.globals, text) <=> \E list \in all : Exempts(list, text) BY <2>1, <1>7
  <2>3. QED BY <2>2 DEF all
<1>10. CASE rule \in ToSet(first.rules)
  <2>1. IsCompiled(rule, f.rules, "embedded", "skip") BY <1>1, <1>10, KeptRules
  <2>2. "embedded" \in Read BY <1>4, <1>10
  <2>3. /\ rule.origin \in DOMAIN f.rules /\ rule.source = "embedded"
        /\ rule.regex = f.rules[rule.origin].regex /\ rule.keywords = f.rules[rule.origin].keywords
        /\ AnyAllowlisted(rule.allowlists, text) <=> \E list \in ListsOf(f.rules[rule.origin]) : Exempts(list, text)
    BY <2>1, <1>5 DEF IsCompiled, FileExempts
  <2>4. QED BY <2>2, <2>3, <1>9 DEF f, e
<1>11. CASE rule \in ToSet(second.rules)
  <2>1. IsCompiled(rule, g.rules, "custom", policy) BY <1>1, <1>11, KeptRules
  <2>2. "custom" \in Read BY <1>4, <1>11
  <2>3. /\ rule.origin \in DOMAIN g.rules /\ rule.source = "custom"
        /\ rule.regex = g.rules[rule.origin].regex /\ rule.keywords = g.rules[rule.origin].keywords
        /\ AnyAllowlisted(rule.allowlists, text) <=> \E list \in ListsOf(g.rules[rule.origin]) : Exempts(list, text)
    BY <2>1, <1>5 DEF IsCompiled, FileExempts
  <2>4. QED BY <2>2, <2>3, <1>9 DEF g, e
<1>12. QED BY <1>6, <1>10, <1>11

LEMMA PolicyWritten == IInv => PolicyAsWritten
<1> SUFFICES ASSUME IInv, Built PROVE PolicyAsWritten
  BY DEF PolicyAsWritten
<1> DEFINE f == raw["embedded"]
           g == raw["custom"]
           e == engine
           NoneBefore(source, n) ==
               \A m \in 1..(n - 1) : raw[source].rules[m].id # raw[source].rules[n].id
           NotEmbedded(id) == \A m \in DOMAIN raw["embedded"].rules :
               Loaded("embedded", m) => raw["embedded"].rules[m].id # id
<1>1. /\ \A n \in DOMAIN f.rules : Loaded("embedded", n) <=> Accepted(f.rules, n)
      /\ \A n \in DOMAIN g.rules :
            Loaded("custom", n) <=> Accepted(g.rules, n) /\ NotEmbedded(g.rules[n].id)
  <2> DEFINE first == parsed["embedded"]
             second == parsed["custom"]
             policy == Policy("custom")
  <2>1. /\ f \in Files /\ g \in Files
        /\ IsParsed(first, f, "embedded", "skip") /\ IsParsed(second, g, "custom", policy)
        /\ Mergeable(first, second) /\ IsMerged(e, first, second, Len(second.rules))
        /\ \A source, n : Loaded(source, n) <=> Runs(e, source, n)
    BY BuiltFacts
  <2>2. RunsAccepted(e, first, f, g)
    <3> HIDE DEF first, second, policy, f, g, e
    <3> QED BY <2>1, EngineRuns
  <2>3. \A id : id \notin Ids(first.rules) <=> NotEmbedded(id)
    BY <2>1, <2>2 DEF RunsAccepted
  <2> HIDE DEF NotEmbedded, first
  <2>4. QED BY <2>1, <2>2, <2>3 DEF RunsAccepted
<1>2. ASSUME NEW n \in DOMAIN e.rules PROVE e.rules[n].source \in Read
  <2>1. e.rules[n] \in ToSet(engine.rules) BY DEF ToSet
  <2>2. QED BY <2>1, BuiltExempts
<1>3. ASSUME NEW source \in Read, NEW n \in DOMAIN raw[source].rules
      PROVE  Loaded(source, n) <=>
               /\ Honourable(raw[source].rules[n])
               /\ NoneBefore(source, n)
               /\ source = "custom" => NotEmbedded(raw[source].rules[n].id)
  <2>1. source = "embedded" \/ source = "custom" BY DEF Read, Sources
  <2>2. Accepted(raw[source].rules, n) <=> Honourable(raw[source].rules[n]) /\ NoneBefore(source, n)
    BY DEF Accepted
  <2> HIDE DEF NotEmbedded, NoneBefore
  <2>3. CASE source = "embedded"
    <3>1. Loaded(source, n) <=> Accepted(raw[source].rules, n) BY <1>1, <2>3
    <3>2. source # "custom" BY <2>3
    <3>3. QED BY <3>1, <3>2, <2>2
  <2>4. CASE source = "custom"
    <3>1. Loaded(source, n) <=> Accepted(raw[source].rules, n) /\ NotEmbedded(raw[source].rules[n].id)
      BY <1>1, <2>4
    <3>2. QED BY <3>1, <2>2, <2>4
  <2>5. QED BY <2>1, <2>3, <2>4
<1>4. ASSUME NEW n \in DOMAIN e.rules, NEW text \in Texts
      PROVE  LET rule == engine.rules[n]
                 written == raw[rule.source].rules[rule.origin]
                 lists == ListsOf(written) \cup UNION {ListsOf(raw[source]) : source \in Read}
             IN  Finds(rule, engine.globals, text) <=>
                    /\ written.regex \in text.found
                    /\ written.keywords = {} \/ written.keywords \cap text.words # {}
                    /\ \A list \in lists : ~Exempts(list, text)
  <2> DEFINE rule == engine.rules[n]
             written == raw[rule.source].rules[rule.origin]
             all == UNION {ListsOf(raw[source]) : source \in Read}
  <2>1. rule \in ToSet(engine.rules) BY DEF ToSet
  <2>2. /\ rule.regex = written.regex /\ rule.keywords = written.keywords
        /\ AnyAllowlisted(rule.allowlists, text) <=> \E list \in ListsOf(written) : Exempts(list, text)
        /\ AnyAllowlisted(engine.globals, text) <=> \E list \in all : Exempts(list, text)
    <3> HIDE DEF rule
    <3> QED BY <2>1, BuiltExempts
  <2> HIDE DEF rule, written, all
  <2>3. Finds(rule, engine.globals, text) <=>
          /\ written.regex \in text.found
          /\ written.keywords = {} \/ written.keywords \cap text.words # {}
          /\ ~AnyAllowlisted(engine.globals, text) /\ ~AnyAllowlisted(rule.allowlists, text)
    BY <2>2 DEF Finds, RuleApplies
  <2>4. (\A list \in ListsOf(written) \cup all : ~Exempts(list, text)) <=>
          ~AnyAllowlisted(engine.globals, text) /\ ~AnyAllowlisted(rule.allowlists, text)
    BY <2>2
  <2>5. Finds(rule, engine.globals, text) <=>
          /\ written.regex \in text.found
          /\ written.keywords = {} \/ written.keywords \cap text.words # {}
          /\ \A list \in ListsOf(written) \cup all : ~Exempts(list, text)
    BY <2>3, <2>4
  <2>6. QED BY <2>5 DEF rule, written, all
<1>5. \A k \in DOMAIN labels : labels[k] # NoMatch => ~Detects(engine, labels[k])
  BY DEF IInv, LabelsSafe, Built
<1>6. QED BY <1>2, <1>3, <1>4, <1>5, Zenon DEF PolicyAsWritten

-----------------------------------------------------------------------------
(* The theorems *)

\* Every state of a build satisfies the inductive invariant: the parsed files are
\* what parseRuleSet makes of the rules it has read, a file it refuses is not gone
\* on with, and from New on the engine and its report are those of the two files.
THEOREM InvariantHolds == Spec => []IInv
<1>1. Init => IInv BY InitInv
<1>2. IInv /\ [Next]_vars => IInv' BY NextInv
<1>3. QED BY <1>1, <1>2, PTL DEF Spec

\* The report of a build accounts for every rule of files of any length: each is
\* loaded or skipped, what is loaded is what the engine runs, under an id of its
\* own, what is not is named; a custom file read without consent to its
\* unsupported parts costs nothing, and a refusal names what it refused
\* (parseRuleSet, finishInvalidRule, CompatibilityReport.append, the loop of New).
THEOREM ReportAccountsHolds == Spec => []ReportAccounts
<1>1. IInv => ReportAccounts BY ReportAccounted
<1>2. QED BY <1>1, InvariantHolds, PTL

\* A plugin that is built runs the rules its files name and no others, finds a
\* text exactly when a rule as written finds it and no allowlist as written
\* exempts it, and has no placeholder that its own rules find (parseRuleSet,
\* compileAllowlist, compiledAllowlist.matches, New, validateReplacementSafety).
THEOREM PolicyAsWrittenHolds == Spec => []PolicyAsWritten
<1>1. IInv => PolicyAsWritten BY PolicyWritten
<1>2. QED BY <1>1, InvariantHolds, PTL

=============================================================================
