---------------------------- MODULE MCInspection ----------------------------
(***************************************************************************)
(* A model-checking instance of Inspection.                                *)
(***************************************************************************)
EXTENDS Inspection

Plain == [looks |-> FALSE, json |-> FALSE, found |-> 0, blocked |-> FALSE,
          placeholder |-> "none", ml |-> FALSE, bytes |-> 1]

\* An innocent word, a secret, two findings in a longer text, a blocked one, a
\* text only the student flags, placeholders, an encoded container, a text that
\* only looks like one, and a JSON scalar.
MCTexts ==
    {Plain, [Plain EXCEPT !.found = 1], [Plain EXCEPT !.found = 2, !.bytes = 2],
     [Plain EXCEPT !.found = 1, !.blocked = TRUE], [Plain EXCEPT !.ml = TRUE],
     [Plain EXCEPT !.placeholder = "known"], [Plain EXCEPT !.placeholder = "produced"],
     [Plain EXCEPT !.looks = TRUE, !.json = TRUE, !.bytes = 2],
     [Plain EXCEPT !.looks = TRUE, !.found = 1],
     [Plain EXCEPT !.json = TRUE]}

MCShapes == {[strings |-> 0, nodes |-> 1, structural |-> 0],
             [strings |-> 1, nodes |-> 2, structural |-> 1],
             [strings |-> 2, nodes |-> 3, structural |-> 3]}

Fields(immediate, ancestors) == [immediate |-> immediate, ancestors |-> ancestors]

\* "password" is a credential wherever it stands, "ak" only next to the value.
MCKeyContexts == {Fields("none", <<>>), Fields("x", <<"y">>), Fields("x", <<"password">>),
                  Fields("ak", <<>>), Fields("x", <<"y", "ak">>)}

Target(fields, structured, tool) ==
    [immediate |-> fields.immediate, ancestors |-> fields.ancestors,
     structured |-> structured, tool |-> tool]

MCTargetContexts == {Target(Fields("none", <<>>), FALSE, FALSE), Target(Fields("x", <<>>), TRUE, TRUE),
                     Target(Fields("password", <<"z">>), FALSE, TRUE),
                     Target(Fields("x", <<"password">>), TRUE, TRUE)}

Redact == [audit |-> FALSE, ml |-> FALSE, enforce |-> FALSE, removes |-> FALSE]
MCPolicies == {Redact, [Redact EXCEPT !.audit = TRUE, !.ml = TRUE, !.enforce = TRUE],
               [Redact EXCEPT !.ml = TRUE, !.enforce = TRUE]}

\* Within the limits, or beyond one of them.
MCWalked == {[nodes |-> 1, structural |-> 1], [nodes |-> 9, structural |-> 1],
             [nodes |-> 1, structural |-> 7]}
=============================================================================
