----------------------------- MODULE Inspection -----------------------------
(***************************************************************************)
(* The redaction of one request (redactor.go) and the budgets it shares    *)
(* with the engine (internal/privacyengine: budget.go, engine.go).         *)
(*                                                                         *)
(* sanitizeRequestWithRenderer takes the targets of the walker one after   *)
(* the other.  A target may be JSON encoded in a string, whose strings may *)
(* be JSON again: sanitizeJSONTextWithBudget is recursive, and its         *)
(* activations are the frames of the stack, the body of the request being  *)
(* the lowest.  The texts are not chosen beforehand: a step that visits a  *)
(* string chooses it.                                                      *)
(*                                                                         *)
(* Of a text the model keeps what the code tells apart: whether it looks   *)
(* like an encoded container, whether it is JSON, how many findings the    *)
(* patterns make in it, whether one belongs to a blocking rule, whether it *)
(* is a placeholder, whether the ML student flags it, and its length.      *)
(***************************************************************************)
EXTENDS Integers, Sequences, FiniteSets

CONSTANTS Texts,            \* [looks, json, found, blocked, placeholder, ml, bytes]
          Shapes,           \* of a document: [strings, nodes, structural]
          TargetContexts,   \* of a target: [immediate, ancestors, structured, tool]
          KeyContexts,      \* of a string in a document: [immediate, ancestors]
          FieldKeys, NoKey, \* normalized keys, and the empty one
          CredentialKeys,   \* isCredentialFieldKey
          AncestorKeys,     \* isCredentialAncestorFieldKey
          MaxContextAncestors,
          maxEncodedJSONNesting,
          MaxTargets,       \* bound on the targets of a request
          Walked,           \* what the walk of the body itself may have used: [nodes, structural]
          Policies,         \* [audit, ml, enforce, removes]
          MaxJSONNodes, MaxStructuralBytes, MaxTextNodes, MaxTextBytes, MaxFindings

ContextKeys == FieldKeys \cup {NoKey}

\* The detectors are not asked about a placeholder the request produced, so such
\* a text counts no findings.
ASSUME InspectionConstants ==
    /\ NoKey \notin CredentialKeys /\ AncestorKeys \subseteq CredentialKeys
    /\ Texts \subseteq [looks : BOOLEAN, json : BOOLEAN, found : Nat, blocked : BOOLEAN,
                        placeholder : {"none", "known", "produced"}, ml : BOOLEAN, bytes : Nat]
    /\ \A text \in Texts : text.placeholder = "produced" => text.found = 0
    /\ Shapes \subseteq [strings : Nat, nodes : Nat, structural : Nat]
    /\ TargetContexts \subseteq [immediate : ContextKeys, ancestors : Seq(ContextKeys),
                                 structured : BOOLEAN, tool : BOOLEAN]
    /\ KeyContexts \subseteq [immediate : ContextKeys, ancestors : Seq(ContextKeys)]
    /\ Policies \subseteq [audit : BOOLEAN, ml : BOOLEAN, enforce : BOOLEAN, removes : BOOLEAN]
    /\ Walked \subseteq [nodes : Nat, structural : Nat]
    /\ maxEncodedJSONNesting \in Nat
    /\ {MaxContextAncestors, MaxJSONNodes, MaxStructuralBytes, MaxTextNodes, MaxTextBytes,
        MaxFindings, MaxTargets} \subseteq Nat \ {0}
    /\ \A shape \in Shapes : shape.nodes > 0 /\ shape.strings <= shape.nodes

VARIABLES policy,   \* the configuration of the plugin
          stack,    \* the activations, the body of the request first
          budget,   \* requestInspectionBudget and the engine's Budget
          outcome,  \* running, ok, or an error
          result,   \* [changed, findings, exposed] of sanitizeRequestWithRenderer
          work,     \* history: what was really scanned and inspected, charged or not
          last      \* history: the last decision on a credential field

vars == <<policy, stack, budget, outcome, result, work, last>>

-----------------------------------------------------------------------------
(* Values *)

\* An activation: strings it has left, its depth of encoding, the context it
\* was called with, whether a key above names a credential (history), and what
\* it has collected: findings, whether a replacement is due, and the number of
\* sensitive strings its text shows before and after.
Frame(strings, nesting, context, named) ==
    [left |-> strings, nesting |-> nesting, context |-> context, named |-> named,
     findings |-> 0, changed |-> FALSE, before |-> 0, after |-> 0]

NoContext == [immediate |-> NoKey, ancestors |-> <<>>, structured |-> FALSE, tool |-> FALSE]

Top == stack[Len(stack)]
InBody == Len(stack) = 1

Running == outcome = "running"

Names(keys, S) == \E i \in DOMAIN keys : keys[i] \in S

\* credentialFieldApplies
CredentialFieldApplies(context) ==
    /\ context.structured /\ context.tool
    /\ context.immediate \in CredentialKeys \/ Names(context.ancestors, AncestorKeys)

\* Faulty variant: a full list of ancestors takes nothing more.
AppendAncestorFullVariant(merged, key) ==
    IF key = NoKey \/ Len(merged.ancestors) >= MaxContextAncestors THEN merged
    ELSE [merged EXCEPT !.ancestors = Append(@, key)]

\* appendAncestor: a credential key takes the last place of a full list that
\* names none.
AppendAncestor(merged, key) ==
    IF key = NoKey THEN merged
    ELSE IF Len(merged.ancestors) < MaxContextAncestors
         THEN [merged EXCEPT !.ancestors = Append(@, key)]
    ELSE IF key \in AncestorKeys /\ ~Names(<<merged.immediate>> \o merged.ancestors, AncestorKeys)
         THEN [merged EXCEPT !.ancestors[MaxContextAncestors] = key]
    ELSE merged

\* mergeStringKeyContexts: the keys of the string, then those of its document.
MergeStringKeyContexts(inner, outer) ==
    LET keys == inner.ancestors \o <<outer.immediate>> \o outer.ancestors
        merged[n \in 0..Len(keys)] ==
            IF n = 0 THEN [immediate |-> inner.immediate, ancestors |-> <<>>]
            ELSE AppendAncestor(merged[n - 1], keys[n])
    IN  merged[Len(keys)]

InnerContext(fields, outer) ==
    LET merged == MergeStringKeyContexts(fields, outer)
    IN  [immediate |-> merged.immediate, ancestors |-> merged.ancestors,
         structured |-> TRUE, tool |-> outer.tool]

-----------------------------------------------------------------------------
(* The engine: Redact of one text *)

\* takeNode succeeds.
TakeNode(bytes) ==
    budget.textNodes < MaxTextNodes /\ bytes <= MaxTextBytes - budget.textBytes

\* detect: a produced placeholder is left alone; in a credential field the whole
\* value is one finding that absorbs the others.
Findings(text, context) ==
    IF text.placeholder = "produced" THEN 0
    ELSE IF CredentialFieldApplies(context) /\ text.placeholder = "none" THEN 1
    ELSE text.found

\* A blocking rule keeps its name when the findings are merged.
Blocks(text, context) == ~policy.audit /\ Findings(text, context) > 0 /\ text.blocked

\* mlSecondOpinion: only for texts the engine left clean; its errors are
\* ignored, and an empty replacement counts as none.
Flagged(text, context) ==
    policy.ml /\ Findings(text, context) = 0 /\ text.placeholder # "produced" /\ text.ml

Enforced(text, context) ==
    Flagged(text, context) /\ policy.enforce /\ ~policy.audit /\ ~policy.removes

\* What the text shows to whoever receives it, by the keys above it (history).
Sensitive(text, context, named) ==
    \/ text.found > 0
    \/ /\ text.placeholder = "none"
       /\ context.structured /\ context.tool
       /\ context.immediate \in CredentialKeys \/ named

Count(b) == IF b THEN 1 ELSE 0

-----------------------------------------------------------------------------
(* Steps of an activation *)

\* Faulty variant: the mode is not looked at.
CollectInAuditVariant(frame, findings, changed, before, after) ==
    [frame EXCEPT !.left = @ - 1, !.findings = @ + findings,
                  !.changed = @ \/ changed,
                  !.before = @ + before, !.after = @ + (IF changed THEN after ELSE before)]

\* The loop body after the call for one string has returned.
Collect(frame, findings, changed, before, after) ==
    [frame EXCEPT !.left = @ - 1, !.findings = @ + findings,
                  !.changed = @ \/ (changed /\ ~policy.audit),
                  !.before = @ + before, !.after = @ + (IF changed THEN after ELSE before)]

\* The request fails after some work; nothing more is charged.
FailAfter(err, spent) ==
    /\ outcome' = err
    /\ work' = spent
    /\ UNCHANGED <<policy, stack, budget, result, last>>

Fail(err) == FailAfter(err, work)

\* The work once one more text has been inspected.
Inspected(spent, bytes, findings) ==
    [spent EXCEPT !.texts = @ + 1, !.bytes = @ + bytes, !.findings = @ + findings]

\* sanitizeText of the next string of the top frame, after the work spent on it
\* so far.  What the student reports is a finding no budget is charged with.
SanitizeText(text, context, named, spent) ==
    LET found == Findings(text, context)
        charged == [budget EXCEPT !.textNodes = @ + 1, !.textBytes = @ + text.bytes]
        seen == Count(Sensitive(text, context, named))
    IN  \/ ~TakeNode(text.bytes) /\ FailAfter("budget", spent)
        \/ /\ TakeNode(text.bytes)
           /\ budget' = [charged EXCEPT !.findings =
                            IF found <= MaxFindings - @ THEN @ + found ELSE @]
           /\ last' = [applies |-> CredentialFieldApplies(context),
                       named |-> context.structured /\ context.tool /\
                                    (context.immediate \in CredentialKeys \/ named)]
           /\ UNCHANGED <<policy, result>>
           /\ \/ /\ found > MaxFindings - budget.findings
                 /\ outcome' = "budget"
                 /\ work' = Inspected(spent, text.bytes, found)
                 /\ UNCHANGED stack
              \/ /\ found <= MaxFindings - budget.findings
                 /\ Blocks(text, context)
                 /\ outcome' = "blocked"
                 /\ work' = Inspected(spent, text.bytes, found)
                 /\ UNCHANGED stack
              \/ /\ found <= MaxFindings - budget.findings
                 /\ ~Blocks(text, context)
                 /\ \E enforced \in {FALSE, Enforced(text, context)} :
                       LET findings == IF enforced THEN 1 ELSE found
                       IN  /\ stack' = [stack EXCEPT ![Len(stack)] =
                                   Collect(Top, findings, findings > 0, seen,
                                           IF findings > 0 THEN 0 ELSE seen)]
                           /\ work' = Inspected(spent, text.bytes, findings)
                 /\ UNCHANGED outcome

\* Faulty variant: a nested document is scanned with the limits of the request.
FitsUnsharedVariant(shape) == shape.nodes <= MaxJSONNodes /\ shape.structural <= MaxStructuralBytes

\* The scan of a document stays within what is left of the request's limits.
Fits(shape) ==
    /\ shape.nodes <= MaxJSONNodes - budget.nodes
    /\ shape.structural <= MaxStructuralBytes - budget.structural

HasRoom == budget.nodes < MaxJSONNodes /\ budget.structural < MaxStructuralBytes

\* Every value a scan counts starts at a byte of its own, but for one that is
\* missing at the end of the text.
Reads(text, shape) == shape.nodes <= text.bytes + 1

\* The work once a scan has come to its end, whether or not it found a document:
\* nodes add up, while of the structure the most retained at once is kept, an
\* index that leads nowhere being dropped.
Scanned(shape) ==
    LET retained == budget.structural + shape.structural
    IN  [work EXCEPT !.nodes = @ + shape.nodes,
                     !.structural = IF retained > @ THEN retained ELSE @]

\* The work of a scan that meets a limit: it has counted at most one node more
\* than was left.
Interrupted(shape) ==
    LET left == MaxJSONNodes - budget.nodes
    IN  [work EXCEPT !.nodes = @ + (IF shape.nodes <= left THEN shape.nodes ELSE left + 1),
                     !.structural = MaxStructuralBytes]

\* scanEncodedJSON and the loop it starts.  A text that is JSON becomes a frame;
\* one that is not is plain text where that is allowed; a limit that is met
\* first is an error in both cases.  Only the scan of a document is charged.
SanitizeEncoded(text, shape, context, named, allowPlain, nesting) ==
    /\ Reads(text, shape)
    /\ \/ ~HasRoom /\ Fail("unsupported")
       \/ HasRoom /\ ~Fits(shape) /\ FailAfter("unsupported", Interrupted(shape))
       \/ HasRoom /\ Fits(shape) /\ ~text.json /\ ~allowPlain
          /\ FailAfter("unsupported", Scanned(shape))
       \/ HasRoom /\ Fits(shape) /\ ~text.json /\ allowPlain
          /\ SanitizeText(text, context, named, Scanned(shape))
       \/ /\ HasRoom /\ Fits(shape) /\ text.json
          /\ budget' = [budget EXCEPT !.nodes = @ + shape.nodes, !.structural = @ + shape.structural]
          /\ work' = Scanned(shape)
          /\ \/ nesting > maxEncodedJSONNesting /\ outcome' = "unsupported" /\ UNCHANGED stack
             \/ /\ nesting <= maxEncodedJSONNesting
                /\ stack' = Append(stack, Frame(shape.strings, nesting, context,
                                named \/ context.immediate \in AncestorKeys))
                /\ UNCHANGED outcome
          /\ UNCHANGED <<policy, result, last>>

\* sanitizeJSONTextWithBudget
SanitizeJSONText(text, shape, context, named, allowPlain, nesting) ==
    IF CredentialFieldApplies(context) \/ (allowPlain /\ ~text.looks)
    THEN SanitizeText(text, context, named, work)
    ELSE SanitizeEncoded(text, shape, context, named, allowPlain, nesting)

\* sanitizeTarget: the next target of the walk, by its mutability.
SanitizeTarget(text, shape, context, mutability) ==
    LET named == Names(context.ancestors, AncestorKeys)
    IN  /\ Running /\ InBody /\ Top.left > 0
        /\ \/ mutability = "direct" /\ SanitizeText(text, context, named, work)
           \/ mutability = "encoded" /\ SanitizeJSONText(text, shape, context, named, FALSE, 0)
           \/ mutability = "json or plain" /\ SanitizeJSONText(text, shape, context, named, TRUE, 0)
           \/ mutability = "none" /\ Fail("unsupported")

\* The next string of an encoded document.
SanitizeString(text, shape, fields) ==
    LET context == InnerContext(fields, Top.context)
        named == Top.named \/ Names(fields.ancestors, AncestorKeys)
    IN  /\ Running /\ ~InBody /\ Top.left > 0
        /\ IF text.looks
           THEN SanitizeJSONText(text, shape, context, named, TRUE, Top.nesting + 1)
           ELSE SanitizeText(text, context, named, work)

\* Faulty variant: the findings of the document are counted, its text is kept.
ReturnDocumentKeptVariant ==
    /\ Running /\ ~InBody /\ Top.left = 0
    /\ stack' = [n \in 1..(Len(stack) - 1) |->
                   IF n = Len(stack) - 1
                   THEN Collect(stack[n], Top.findings, FALSE, Top.before, Top.after)
                   ELSE stack[n]]
    /\ UNCHANGED <<policy, budget, outcome, result, work, last>>

\* An encoded document is complete: its text is rebuilt when a replacement is
\* due, and handed to the activation below.
ReturnDocument ==
    /\ Running /\ ~InBody /\ Top.left = 0
    /\ stack' = [n \in 1..(Len(stack) - 1) |->
                   IF n = Len(stack) - 1
                   THEN Collect(stack[n], Top.findings, Top.changed, Top.before, Top.after)
                   ELSE stack[n]]
    /\ UNCHANGED <<policy, budget, outcome, result, work, last>>

\* The body is complete.
ReturnRequest ==
    /\ Running /\ InBody /\ Top.left = 0
    /\ outcome' = "ok"
    /\ result' = [changed |-> Top.changed, findings |-> Top.findings,
                  exposed |-> IF Top.changed THEN Top.after ELSE Top.before]
    /\ UNCHANGED <<policy, stack, budget, work, last>>

\* A limit of payload.Replace, or of the encoded scan other than nodes and
\* structure, is met, the renderer fails, or the context is done.
OtherFailure == Running /\ Fail("failed")

Finished == ~Running /\ UNCHANGED vars

-----------------------------------------------------------------------------
\* The walk succeeded; what it used counts against the limits of the request.
Init ==
    /\ policy \in Policies
    /\ \E targets \in 0..MaxTargets : stack = <<Frame(targets, 0, NoContext, FALSE)>>
    /\ \E w \in Walked :
         /\ budget = [nodes |-> w.nodes, structural |-> w.structural,
                      textNodes |-> 0, textBytes |-> 0, findings |-> 0]
         /\ outcome = IF w.nodes > MaxJSONNodes \/ w.structural > MaxStructuralBytes
                      THEN "refused" ELSE "running"
         /\ work = [nodes |-> w.nodes, structural |-> w.structural,
                    texts |-> 0, bytes |-> 0, findings |-> 0]
    /\ result = [changed |-> FALSE, findings |-> 0, exposed |-> 0]
    /\ last = [applies |-> FALSE, named |-> FALSE]

Next ==
    \/ \E text \in Texts, shape \in Shapes :
         \/ \E context \in TargetContexts, mutability \in {"direct", "encoded", "json or plain", "none"} :
              SanitizeTarget(text, shape, context, mutability)
         \/ \E fields \in KeyContexts : SanitizeString(text, shape, fields)
    \/ ReturnDocument
    \/ ReturnRequest
    \/ OtherFailure
    \/ Finished

Spec == Init /\ [][Next]_vars

-----------------------------------------------------------------------------
(* Properties *)

\* A request that is passed on in redaction mode shows no sensitive string, at
\* any depth of encoding: what was replaced in an inner document reaches the
\* body through every document around it.
NothingExposed == outcome = "ok" /\ ~policy.audit => result.exposed = 0

\* Auditing changes nothing, and reports no fewer findings than the strings a
\* redaction would have replaced, nested ones included.
AuditObserves ==
    outcome = "ok" /\ policy.audit => ~result.changed /\ result.findings >= result.exposed

\* A string is treated as a credential exactly when one of the keys the scanner
\* reported says so, for its own document or for one it is encoded in, although
\* mergeStringKeyContexts keeps only a few of them from level to level.
NamesSurviveNesting == last.applies <=> last.named

\* One request, one budget, and what it bounds is the work itself, the work no
\* budget is charged with included.  A scan that ends in invalid JSON is not
\* charged, so all scans together may count more nodes than the limit: at most
\* one for each byte and each text the detectors were then given instead, which
\* are charged, and one for the node that broke the limit.  The index retained at
\* any time, charged documents and the scan in progress, stays within its limit.
\* The student adds at most one finding to a text the limit on findings left
\* clean.  Encoded documents are open at most maxEncodedJSONNesting + 1 deep,
\* above the body: the depth is counted from 0 (redactor.go:292-294, 366), so it is
\* one more than the four that README.md:171-172 speaks of.
WorkIsBounded ==
    outcome # "refused" =>
    /\ work.nodes <= MaxJSONNodes + work.bytes + work.texts + 1
    /\ work.structural <= MaxStructuralBytes
    /\ work.texts <= MaxTextNodes /\ work.bytes <= MaxTextBytes
    /\ outcome # "budget" => work.findings <= MaxFindings + work.texts
    /\ Len(stack) <= maxEncodedJSONNesting + 2
=============================================================================
