----------------------------- MODULE PluginBuild -----------------------------
(***************************************************************************)
(* Building a plugin from its configuration (config.go, main.go) and the   *)
(* loading of its detection rules (internal/privacyengine: rules.go,       *)
(* compatibility.go, engine.go).                                           *)
(*                                                                         *)
(* The rules come from the file embedded in the library, from a custom     *)
(* file, or from both.  Rules and allowlists the engine cannot honour are  *)
(* skipped or refused, by a policy per file, and reported.  The rules of a *)
(* custom file are not chosen beforehand: each step of the loop of         *)
(* parseRuleSet chooses the one it reads.                                  *)
(*                                                                         *)
(* Regular expressions and words are model values; of a text the model     *)
(* keeps the expressions with a match that passes the entropy and noise    *)
(* filters, those the secret, the match and the line of it match, and the  *)
(* words the text and the secret contain.                                  *)
(***************************************************************************)
EXTENDS Integers, Sequences, FiniteSets, SequencesExt

CONSTANTS Configs,        \* privacyFilterConfig values
          NoID,           \* the empty rule id
          EmbeddedFiles,  \* what may be compiled in: [undecoded, single, plural, rules]
          PinnedFile,     \* the one with the pinned checksum
          PinnedReport,   \* and the report expected of it
          CustomHeads,    \* of a custom file: [undecoded, single, plural]
          RawRules,       \* [id, path, regex, entropy, group, keywords, single, plural]
          MaxRules,       \* bound on the rules of a custom file
          Texts,          \* [found, secret, match, line, words, secretWords, builtin, bytes]
          NoMatch,        \* the empty replacement
          HardMaximum     \* of every limit

ASSUME BuildConstants ==
    /\ MaxRules \in Nat
    /\ HardMaximum \in Nat \ {0}
    /\ PinnedFile \in EmbeddedFiles
    /\ NoMatch \notin Texts

Allowlists == [condition : STRING, target : STRING, regexes : SUBSET STRING,
               stopwords : SUBSET STRING, paths : BOOLEAN, commits : BOOLEAN]

\* The rules and the heads of the files, with the allowlists they hold.
Rules == RawRules \cup UNION {ToSet(f.rules) : f \in EmbeddedFiles}

\* A file without its rules.
HeadOf(file) == [undecoded |-> file.undecoded, single |-> file.single, plural |-> file.plural]

Heads == CustomHeads \cup {HeadOf(file) : file \in EmbeddedFiles}

ASSUME BuildTypes ==
    /\ \A c \in Configs : c.custom \in BOOLEAN /\ c.allowUnsupported \in BOOLEAN
    /\ \A rule \in Rules : rule.path \in {"none", "compiles", "uncompilable"}
    /\ \A holder \in Rules \cup Heads :
          holder.single \in Seq(Allowlists) /\ holder.plural \in Seq(Allowlists)

VARIABLES phase,     \* the step buildPluginWithRuntime has reached
          cfg,       \* the configuration
          embedded,  \* the file compiled into the library
          files,     \* the sources parseRuleSet has still to read
          raw,       \* history: raw[source], the file as it was read
          parsed,    \* parsed[source], a parsedRuleSet
          engine,    \* [rules, globals, report]
          merged,    \* the custom rules New has gone through
          labels     \* the placeholder overrides by kind

vars == <<phase, cfg, embedded, files, raw, parsed, engine, merged, labels>>

-----------------------------------------------------------------------------
(* Values *)

Sources == {"embedded", "custom"}

NoReport == [seen |-> 0, loaded |-> 0, skipped |-> 0, issues |-> <<>>]
NoFile == [undecoded |-> FALSE, single |-> <<>>, plural |-> <<>>, rules |-> <<>>]
NoRules == [rules |-> <<>>, globals |-> {}, report |-> NoReport, seenIDs |-> {}]

\* CompatibilityReport.append
Joined(a, b) == [seen |-> a.seen + b.seen, loaded |-> a.loaded + b.loaded,
                 skipped |-> a.skipped + b.skipped, issues |-> a.issues \o b.issues]

\* The mode of loadRuleMaterial: a custom file replaces unless told otherwise.
CustomMode == IF ~cfg.custom THEN "none" ELSE IF cfg.gitleaksMode = "extend" THEN "extend" ELSE "replace"

Policy(source) ==
    IF source = "embedded" \/ cfg.allowUnsupported THEN "skip" ELSE "error"

Issue(source, id, feature, action) ==
    [source |-> source, id |-> id, feature |-> feature, action |-> action]

\* addIssue and addRuleIssue, for a sequence of features.
Ignored(source, id, features) ==
    [n \in DOMAIN features |->
        Issue(source, id, features[n], IF Policy(source) = "skip" THEN "ignored" ELSE "rejected")]

Skipped(source, id, features) ==
    [n \in DOMAIN features |->
        Issue(source, id, features[n], IF Policy(source) = "skip" THEN "skipped" ELSE "rejected")]

HasRejected(report) == \E n \in DOMAIN report.issues : report.issues[n].action = "rejected"

When(condition, feature) == IF condition THEN <<feature>> ELSE <<>>

-----------------------------------------------------------------------------
(* Allowlists: [condition, target, regexes, stopwords, paths, commits] *)

Malformed(list) ==
    \/ list.condition = "unknown" \/ list.target = "unknown"
    \/ "uncompilable" \in list.regexes \/ "" \in list.stopwords

\* Criteria protocol text cannot meet.
Unsupported(list) == list.paths \/ list.commits

Empty(list) == list.regexes \ {"uncompilable"} = {} /\ list.stopwords \ {""} = {}

\* Faulty variant: the criteria that are not supported are just left out.
InertLeftOutVariant(list, policy) == FALSE

\* In skip mode such a criterion never matches, so that an AND never does.
Inert(list, policy) == policy = "skip" /\ list.condition = "AND" /\ Unsupported(list)

\* compileAllowlist: whether the list is usable, and the issues it gives.
Invalid(list, policy) == Malformed(list) \/ (Unsupported(list) /\ policy = "error")

Usable(list, policy) == ~Inert(list, policy) /\ ~Invalid(list, policy) /\ ~Empty(list)

ListFeatures(list, policy) ==
    When(list.condition = "unknown", "condition") \o When(list.target = "unknown", "regexTarget")
    \o When("uncompilable" \in list.regexes, "regexes") \o When("" \in list.stopwords, "stopwords")
    \o When(list.paths, "paths") \o When(list.commits, "commits")
    \o When(~Invalid(list, policy) /\ Empty(list) /\ ~Unsupported(list), "criteria")

\* Their order is of no consequence.
CompileAllowlists(lists, source) == {list \in ToSet(lists) : Usable(list, Policy(source))}

ListIssues(lists, source, id) ==
    FlattenSeq([n \in DOMAIN lists |->
        Ignored(source, id, ListFeatures(lists[n], Policy(source)))])

Mixed(holder) == holder.single # <<>> /\ holder.plural # <<>>

\* compiledAllowlist.matches
Matches(list, text) ==
    LET regexMatched == list.regexes \cap text[list.target] # {}
        stopwordMatched == list.stopwords \cap text.secretWords # {}
    IN  IF list.condition = "AND"
        THEN (list.regexes = {} \/ regexMatched) /\ (list.stopwords = {} \/ stopwordMatched)
        ELSE regexMatched \/ stopwordMatched

AnyAllowlisted(lists, text) == \E list \in lists : Matches(list, text)

-----------------------------------------------------------------------------
(* Rules *)

\* The issues that make a rule invalid.
RuleFeatures(rule, seenIDs) ==
    When(rule.id = NoID \/ rule.id \in seenIDs, "id")
    \o When(rule.path = "compiles" /\ rule.regex = "none", "path-only")
    \o When(rule.path = "uncompilable" \/ (rule.path = "compiles" /\ rule.regex # "none"), "path")
    \o IF rule.regex = "none" THEN When(rule.path = "none", "regex")
       ELSE When(rule.regex = "uncompilable", "regex")
            \o When(rule.entropy = "invalid", "entropy")
            \o When(rule.regex # "uncompilable" /\ rule.group = "outside", "secretGroup")
            \o When("" \in rule.keywords, "keywords")

\* Allowlists are only looked at when the rule has an expression.
RuleListIssues(rule, source) ==
    IF rule.regex = "none" THEN <<>>
    ELSE Ignored(source, rule.id, When(Mixed(rule), "allowlist"))
         \o ListIssues(rule.single \o rule.plural, source, rule.id)

\* Faulty variant: the loop goes on without counting the rule.
FinishUncountedVariant(report, source) == report

FinishInvalidRule(report, source) ==
    [report EXCEPT !.skipped = IF Policy(source) = "skip" THEN @ + 1 ELSE @]

\* One turn of the loop of parseRuleSet.
ParseRule(p, rule, source, origin) ==
    LET features == RuleFeatures(rule, p.seenIDs)
        issues == Skipped(source, rule.id, features) \o RuleListIssues(rule, source)
        report == [p.report EXCEPT !.seen = @ + 1, !.issues = @ \o issues]
        met == [p EXCEPT !.seenIDs = @ \cup ({rule.id} \ {NoID})]
    IN  IF features # <<>>
        THEN [met EXCEPT !.report = FinishInvalidRule(report, source)]
        ELSE [met EXCEPT !.report = [report EXCEPT !.loaded = @ + 1],
                         !.rules = Append(@, [id |-> rule.id, source |-> source, origin |-> origin,
                                     regex |-> rule.regex, keywords |-> rule.keywords,
                                     allowlists |-> CompileAllowlists(rule.single \o rule.plural, source)])]

\* What parseRuleSet does before and after its loop.
ParseHead(head, source) ==
    [NoRules EXCEPT
        !.globals = CompileAllowlists(head.single \o head.plural, source),
        !.report.issues = Ignored(source, NoID, When(head.undecoded, "toml"))
                          \o Ignored(source, NoID, When(Mixed(head), "global"))
                          \o ListIssues(head.single \o head.plural, source, NoID)]

ParseEnd(p, source) ==
    [p EXCEPT !.report.issues = @ \o Ignored(source, NoID, When(p.report.seen = 0, "rules"))]

Ids(rules) == {rules[n].id : n \in DOMAIN rules}

\* Detect, of a text: a built-in detector or a rule that is not exempted finds it.
RuleApplies(rule, text) == rule.keywords = {} \/ rule.keywords \cap text.words # {}

Finds(rule, globals, text) ==
    /\ RuleApplies(rule, text)
    /\ rule.regex \in text.found
    /\ ~AnyAllowlisted(globals, text)
    /\ ~AnyAllowlisted(rule.allowlists, text)

Detects(e, text) == text.builtin \/ \E n \in DOMAIN e.rules : Finds(e.rules[n], e.globals, text)

-----------------------------------------------------------------------------
(* Configuration *)

Limit(value) == value \in 1..HardMaximum

\* validate; a payload limit of zero selects its default.
Valid(c) ==
    /\ c.mode \in {"redact", "audit"}
    /\ c.onError \in {"block", "passthrough"}
    /\ c.gitleaksMode \in {"", "extend", "replace"}
    /\ ~c.custom => c.gitleaksMode = ""
    /\ c.payloadLimit = 0 \/ Limit(c.payloadLimit)
    /\ Limit(c.detectorLimit)
    /\ \A r \in c.replacements : r.kind # "unknown"
    /\ c.mlMode \in {"", "audit", "enforce"}
    /\ c.threshold = "within"
    /\ c.logPath # "escapes"
    /\ NoID \notin ToSet(c.blockRuleIDs) /\ IsInjective(c.blockRuleIDs)

\* renderer: where two names mean the same kind, the order of a Go map decides.
Overrides(replacements) ==
    LET kinds == {r.kind : r \in replacements}
    IN  {f \in [kinds -> {r.text : r \in replacements}] :
            \A k \in kinds : \E r \in replacements : r.kind = k /\ r.text = f[k]}

Init ==
    /\ phase = "config"
    /\ cfg \in Configs
    /\ embedded \in EmbeddedFiles
    /\ files = <<>>
    /\ raw = [s \in Sources |-> NoFile]
    /\ parsed = [s \in Sources |-> NoRules]
    /\ engine = [rules |-> <<>>, globals |-> {}, report |-> NoReport]
    /\ merged = 0
    /\ labels = [k \in {} |-> NoMatch]

Refuse(reason) ==
    /\ phase' = reason
    /\ UNCHANGED <<cfg, embedded, files, raw, parsed, engine, merged, labels>>

ParseConfig ==
    /\ phase = "config"
    /\ \/ (~cfg.yaml \/ ~Valid(cfg)) /\ Refuse("config refused")
       \/ /\ cfg.yaml /\ Valid(cfg)
          /\ phase' = "material"
          /\ UNCHANGED <<cfg, embedded, files, raw, parsed, engine, merged, labels>>

\* loadRuleMaterial, and the checks of New before it parses: a custom file that
\* cannot be read, or is empty, is an error.
LoadRuleMaterial ==
    /\ phase = "material"
    /\ \/ cfg.custom /\ Refuse("rules unreadable")
       \/ /\ phase' = "file"
          /\ files' = CASE CustomMode = "none"    -> <<"embedded">>
                        [] CustomMode = "extend"  -> <<"embedded", "custom">>
                        [] CustomMode = "replace" -> <<"custom">>
          /\ UNCHANGED <<cfg, embedded, raw, parsed, engine, merged, labels>>

\* The TOML of a file is decoded, or not; then its head is looked at.
BeginFile(head) ==
    LET source == files[1]
    IN  /\ phase = "file"
        /\ head \in IF source = "embedded" THEN {HeadOf(embedded)} ELSE CustomHeads
        /\ phase' = "rules"
        /\ raw' = [raw EXCEPT ![source] = [undecoded |-> head.undecoded, single |-> head.single,
                                           plural |-> head.plural, rules |-> <<>>]]
        /\ parsed' = [parsed EXCEPT ![source] = ParseHead(head, source)]
        /\ UNCHANGED <<cfg, embedded, files, engine, merged, labels>>

Undecodable ==
    /\ phase = "file"
    /\ files[1] = "custom" \/ embedded # PinnedFile
    /\ Refuse("rules unreadable")

\* The rules are those of the embedded file, or any the custom file may hold.
NextRule(rule) ==
    LET read == Len(raw[files[1]].rules)
    IN  IF files[1] = "embedded" THEN read < Len(embedded.rules) /\ rule = embedded.rules[read + 1]
        ELSE read < MaxRules /\ rule \in RawRules

ReadRule(rule) ==
    LET source == files[1]
    IN  /\ phase = "rules"
        /\ NextRule(rule)
        /\ raw' = [raw EXCEPT ![source].rules = Append(@, rule)]
        /\ parsed' = [parsed EXCEPT ![source] = ParseRule(@, rule, source, Len(raw[source].rules) + 1)]
        /\ UNCHANGED <<phase, cfg, embedded, files, engine, merged, labels>>

EndFile ==
    LET source == files[1]
        done == ParseEnd(parsed[source], source)
    IN  /\ phase = "rules"
        /\ source = "embedded" => Len(raw[source].rules) = Len(embedded.rules)
        /\ parsed' = [parsed EXCEPT ![source] = done]
        /\ files' = Tail(files)
        /\ phase' = IF HasRejected(done.report) THEN "rules incompatible"
                    ELSE IF Tail(files) # <<>> THEN "file" ELSE "merge"
        /\ UNCHANGED <<cfg, embedded, raw, engine, merged, labels>>

\* New, once the files are parsed; in extend mode a loop over the custom rules follows.
Merge ==
    LET first == parsed["embedded"].rules
        second == parsed["custom"].rules
        extends == CustomMode = "extend"
    IN  /\ phase = "merge"
        /\ phase' = IF extends THEN "extend" ELSE "pinned"
        /\ merged' = IF extends THEN 0 ELSE Len(second)
        /\ engine' = [rules |-> IF extends THEN first ELSE first \o second,
                      globals |-> parsed["embedded"].globals \cup parsed["custom"].globals,
                      report |-> Joined(parsed["embedded"].report, parsed["custom"].report)]
        /\ UNCHANGED <<cfg, embedded, files, raw, parsed, labels>>

\* A custom rule with the id of a rule there is already is not added: skipped, or
\* the end of New.
Duplicate(report, id) ==
    [report EXCEPT !.loaded = @ - 1,
                   !.skipped = IF Policy("custom") = "skip" THEN @ + 1 ELSE @,
                   !.issues = @ \o Skipped("custom", id, <<"id">>)]

\* One turn of the loop that adds a custom rule to the embedded ones.
MergeRule ==
    LET rule == parsed["custom"].rules[merged + 1]
        duplicate == rule.id \in Ids(engine.rules)
    IN  /\ phase = "extend"
        /\ merged < Len(parsed["custom"].rules)
        /\ merged' = merged + 1
        /\ \/ /\ ~duplicate
              /\ engine' = [engine EXCEPT !.rules = Append(@, rule)]
              /\ UNCHANGED phase
           \/ /\ duplicate
              /\ engine' = [engine EXCEPT !.report = Duplicate(@, rule.id)]
              /\ phase' = IF Policy("custom") = "skip" THEN phase ELSE "rules incompatible"
        /\ UNCHANGED <<cfg, embedded, files, raw, parsed, labels>>

EndMerge ==
    /\ phase = "extend"
    /\ merged = Len(parsed["custom"].rules)
    /\ phase' = "pinned"
    /\ UNCHANGED <<cfg, embedded, files, raw, parsed, engine, merged, labels>>

\* validatePinnedEmbeddedRules, on the report of the embedded file alone: with a
\* custom file newEngine parses the embedded one a second time for it.
ValidatePinned ==
    LET pinned == CustomMode = "replace" \/
                  (embedded = PinnedFile /\ parsed["embedded"].report = PinnedReport)
    IN  /\ phase = "pinned"
        /\ \/ ~pinned /\ Refuse("rules not pinned")
           \/ /\ pinned
              /\ phase' = "replacements"
              /\ UNCHANGED <<cfg, embedded, files, raw, parsed, engine, merged, labels>>

\* validateReplacementSafety and renderer.
ValidateReplacements ==
    LET texts == {r.text : r \in cfg.replacements} \ {NoMatch}
        safe == \A text \in texts : text.bytes <= cfg.detectorLimit /\ ~Detects(engine, text)
    IN  /\ phase = "replacements"
        /\ \/ ~safe /\ Refuse("replacement refused")
           \/ /\ safe
              /\ phase' = "log"
              /\ labels' \in Overrides(cfg.replacements)
              /\ UNCHANGED <<cfg, embedded, files, raw, parsed, engine, merged>>

\* The substitution log is opened last; the plugin is built.
OpenLog ==
    /\ phase = "log"
    /\ \/ cfg.logEnabled /\ Refuse("log refused")
       \/ /\ phase' = "built"
          /\ UNCHANGED <<cfg, embedded, files, raw, parsed, engine, merged, labels>>

Refusals == {"config refused", "rules unreadable", "rules incompatible", "rules not pinned",
             "replacement refused", "log refused"}

Finished == phase \in Refusals \cup {"built"} /\ UNCHANGED vars

Next ==
    \/ ParseConfig
    \/ LoadRuleMaterial
    \/ \E head \in Heads : BeginFile(head)
    \/ Undecodable
    \/ \E rule \in Rules : ReadRule(rule)
    \/ EndFile
    \/ Merge
    \/ MergeRule
    \/ EndMerge
    \/ ValidatePinned
    \/ ValidateReplacements
    \/ OpenLog
    \/ Finished

Spec == Init /\ [][Next]_vars

-----------------------------------------------------------------------------
(* Properties *)

Built == phase = "built"

Read == {s \in Sources : IF s = "custom" THEN cfg.custom ELSE CustomMode # "replace"}

Loaded(source, n) ==
    \E m \in DOMAIN engine.rules : engine.rules[m].source = source /\ engine.rules[m].origin = n

\* The report a build ends with accounts for every rule of every file: each is
\* loaded or skipped, what is loaded is what the engine runs, under an id of its
\* own, and what is not loaded is named; without the user's consent a custom file
\* costs no concession at all, and a refusal names what it refused.
ReportAccounts ==
    /\ Built =>
        /\ engine.report.seen = engine.report.loaded + engine.report.skipped
        /\ engine.report.loaded = Len(engine.rules)
        /\ \A m, n \in DOMAIN engine.rules : engine.rules[m].id = engine.rules[n].id => m = n
        /\ ~HasRejected(engine.report)
        /\ ~cfg.allowUnsupported =>
              \A n \in DOMAIN engine.report.issues : engine.report.issues[n].source = "embedded"
        /\ \A source \in Read : \A n \in DOMAIN raw[source].rules :
              ~Loaded(source, n) =>
                  \E i \in DOMAIN engine.report.issues :
                      engine.report.issues[i] \in
                          {Issue(source, raw[source].rules[n].id, feature, "skipped") :
                              feature \in {"id", "path", "path-only", "regex", "entropy",
                                           "secretGroup", "keywords"}}
    /\ phase = "rules incompatible" =>
        HasRejected(Joined(engine.report, Joined(parsed["embedded"].report, parsed["custom"].report)))

\* The criteria an allowlist names, and those that a text meets.
CriteriaNamed(list) ==
    {k \in {"regexes", "stopwords", "paths", "commits"} :
        \/ k = "regexes" /\ list.regexes # {}
        \/ k = "stopwords" /\ list.stopwords # {}
        \/ k = "paths" /\ list.paths
        \/ k = "commits" /\ list.commits}

CriteriaMet(list, text) ==
    {k \in {"regexes", "stopwords"} :
        \/ k = "regexes" /\ list.regexes \cap text[list.target] # {}
        \/ k = "stopwords" /\ list.stopwords \cap text.secretWords # {}}

\* What an allowlist says, of text without path and commit: an unknown word in it
\* makes it void, an OR wants one criterion, an AND all that it names.
Exempts(list, text) ==
    /\ ~Malformed(list)
    /\ \/ /\ list.condition = "AND"
          /\ CriteriaNamed(list) # {}
          /\ CriteriaNamed(list) \subseteq CriteriaMet(list, text)
       \/ list.condition # "AND" /\ CriteriaMet(list, text) # {}

ListsOf(holder) == ToSet(holder.single \o holder.plural)

\* A rule by itself has nothing the engine cannot honour.
Honourable(rule) == RuleFeatures(rule, {}) = <<>>

\* A plugin that is built enforces the policy its configuration names: the
\* embedded rules, in full, unless a custom file replaces them; every rule of a
\* custom file the engine can honour, unless an earlier one has its id; each rule
\* with the exemptions written for it and no others; and no configured
\* placeholder that its own rules would find.
PolicyAsWritten ==
    Built =>
    /\ \A n \in DOMAIN engine.rules : engine.rules[n].source \in Read
    /\ \A source \in Read : \A n \in DOMAIN raw[source].rules :
          Loaded(source, n) <=>
             /\ Honourable(raw[source].rules[n])
             /\ \A m \in 1..(n - 1) : raw[source].rules[m].id # raw[source].rules[n].id
             /\ source = "custom" =>
                  \A m \in DOMAIN raw["embedded"].rules :
                      Loaded("embedded", m) => raw["embedded"].rules[m].id # raw[source].rules[n].id
    /\ \A n \in DOMAIN engine.rules :
          LET rule == engine.rules[n]
              written == raw[rule.source].rules[rule.origin]
              lists == ListsOf(written) \cup UNION {ListsOf(raw[source]) : source \in Read}
          IN  \A text \in Texts :
                Finds(rule, engine.globals, text) <=>
                    /\ written.regex \in text.found
                    /\ written.keywords = {} \/ written.keywords \cap text.words # {}
                    /\ \A list \in lists : ~Exempts(list, text)
    /\ \A k \in DOMAIN labels : labels[k] # NoMatch => ~Detects(engine, labels[k])
=============================================================================
