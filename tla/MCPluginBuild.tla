---------------------------- MODULE MCPluginBuild ----------------------------
(***************************************************************************)
(* A model-checking instance of PluginBuild.                               *)
(***************************************************************************)
EXTENDS PluginBuild

\* Allowlists: by expression, by word, by both, with a path, with nothing that
\* protocol text has, and malformed ones.
ListBase == [condition |-> "OR", target |-> "secret", regexes |-> {"x"}, stopwords |-> {},
             paths |-> FALSE, commits |-> FALSE]
AndPath == [ListBase EXCEPT !.condition = "AND", !.paths = TRUE]
OrPath == [ListBase EXCEPT !.paths = TRUE, !.target = "line"]
Lists == {ListBase, AndPath, OrPath,
          [ListBase EXCEPT !.condition = "AND", !.stopwords = {"w"}],
          [ListBase EXCEPT !.stopwords = {"w", ""}],
          [ListBase EXCEPT !.regexes = {"x", "uncompilable"}],
          [ListBase EXCEPT !.condition = "unknown"], [ListBase EXCEPT !.target = "unknown"],
          [ListBase EXCEPT !.regexes = {}], [ListBase EXCEPT !.regexes = {}, !.commits = TRUE]}

Rule(id) == [id |-> id, path |-> "none", regex |-> "r", entropy |-> "valid", group |-> "within",
             keywords |-> {}, single |-> <<>>, plural |-> <<>>]

MCRawRules ==
    {Rule("a"), Rule("b"), Rule("no id"),
     [Rule("b") EXCEPT !.keywords = {"w"}], [Rule("b") EXCEPT !.keywords = {"w", ""}],
     [Rule("b") EXCEPT !.path = "compiles"], [Rule("b") EXCEPT !.path = "uncompilable"],
     [Rule("b") EXCEPT !.path = "compiles", !.regex = "none"], [Rule("b") EXCEPT !.regex = "none"],
     [Rule("b") EXCEPT !.regex = "uncompilable", !.group = "outside"],
     [Rule("b") EXCEPT !.entropy = "invalid"], [Rule("b") EXCEPT !.group = "outside"],
     [Rule("c") EXCEPT !.single = <<ListBase>>, !.plural = <<OrPath>>]}
    \cup {[Rule("c") EXCEPT !.plural = <<list>>] : list \in Lists}

FileHead(single, plural) == [undecoded |-> FALSE, single |-> single, plural |-> plural]
MCCustomHeads ==
    {FileHead(<<>>, <<>>), [FileHead(<<>>, <<>>) EXCEPT !.undecoded = TRUE], FileHead(<<ListBase>>, <<AndPath>>),
     FileHead(<<>>, <<OrPath, AndPath>>)}

\* The embedded file has a global list with a path, a rule it cannot honour and
\* one it can; the other file is not the pinned one.
MCPinnedFile == [undecoded |-> FALSE, single |-> <<[OrPath EXCEPT !.regexes = {"y"}]>>, plural |-> <<>>,
                 rules |-> <<[Rule("b") EXCEPT !.path = "compiles"], Rule("a")>>]
MCEmbeddedFiles == {MCPinnedFile, [MCPinnedFile EXCEPT !.rules = Tail(@)]}
MCPinnedReport == [seen |-> 2, loaded |-> 1, skipped |-> 1,
                   issues |-> <<[source |-> "embedded", id |-> "no id", feature |-> "paths", action |-> "ignored"],
                                [source |-> "embedded", id |-> "b", feature |-> "path", action |-> "skipped"]>>]

Text(found, secret, line, words) ==
    [found |-> found, secret |-> secret, match |-> secret, line |-> line, words |-> words,
     secretWords |-> words, builtin |-> FALSE, bytes |-> 1]
Secret == Text({"r"}, {}, {}, {})
Harmless == Text({}, {}, {}, {})
MCTexts == {Harmless} \cup {Text({"r"}, secret, line, words) :
               secret \in SUBSET {"x"}, line \in SUBSET {"x", "y"}, words \in SUBSET {"w"}}
           \cup {[Text({"r"}, {"x"}, {"x"}, {"w"}) EXCEPT !.secretWords = {}]}
           \cup {[Harmless EXCEPT !.builtin = TRUE], [Harmless EXCEPT !.bytes = 9]}

Replacement(name, kind, text) == [name |-> name, kind |-> kind, text |-> text]

Default == [yaml |-> TRUE, mode |-> "redact", onError |-> "block", custom |-> FALSE,
            gitleaksMode |-> "", allowUnsupported |-> FALSE, payloadLimit |-> 8, detectorLimit |-> 8,
            replacements |-> {}, mlMode |-> "", threshold |-> "within", logEnabled |-> FALSE,
            logPath |-> "default", blockRuleIDs |-> <<>>]
Custom(mode, allow) ==
    [Default EXCEPT !.custom = TRUE, !.gitleaksMode = mode, !.allowUnsupported = allow]

\* Every way to combine the files, and every check of the configuration once.
MCConfigs ==
    {Default} \cup {Custom(mode, allow) : mode \in {"", "extend"}, allow \in BOOLEAN} \cup
    {[Custom("replace", TRUE) EXCEPT !.replacements = {Replacement("email", "email", Text({"r"}, {"x"}, {}, {})),
                                                       Replacement("Email", "email", Harmless)}],
     [Default EXCEPT !.replacements = {Replacement("ip", "ip", Secret)}],
     [Default EXCEPT !.replacements = {Replacement("ip", "ip", NoMatch)}, !.logEnabled = TRUE],
     [Default EXCEPT !.replacements = {Replacement("ip", "ip", [Harmless EXCEPT !.bytes = 9])}],
     [Default EXCEPT !.replacements = {Replacement("iq", "unknown", Harmless)}],
     [Default EXCEPT !.yaml = FALSE], [Default EXCEPT !.mode = "off"], [Default EXCEPT !.onError = "ignore"],
     [Default EXCEPT !.gitleaksMode = "extend"], [Custom("merge", FALSE) EXCEPT !.logEnabled = TRUE],
     [Default EXCEPT !.payloadLimit = 0], [Default EXCEPT !.payloadLimit = 9],
     [Default EXCEPT !.payloadLimit = -1], [Default EXCEPT !.detectorLimit = 0],
     [Default EXCEPT !.detectorLimit = 9], [Default EXCEPT !.mlMode = "strict"],
     [Default EXCEPT !.threshold = "outside"], [Default EXCEPT !.logPath = "escapes"],
     [Default EXCEPT !.blockRuleIDs = <<"a", "a">>], [Default EXCEPT !.blockRuleIDs = <<"no id">>],
     [Default EXCEPT !.blockRuleIDs = <<"a", "b">>, !.mode = "audit", !.onError = "passthrough"]}
=============================================================================
