------------------------------- MODULE Walker -------------------------------
(***************************************************************************)
(* Registry.Walk: one request body walked by the walker of its protocol.   *)
(*                                                                         *)
(* The module executes the steps the protocol modules define.  The body is *)
(* made up as it is walked: the first lookup of a member decides whether   *)
(* the member is there, once or twice, and of which kind it is; the first  *)
(* switch on a string decides its value.  A run of TLC so walks every body *)
(* within the bounds.                                                      *)
(*                                                                         *)
(* A node of the document names the strings at it: itself when it is a     *)
(* string; all strings below it when it is a container nobody looked into; *)
(* and the strings of members nobody asked for when it is an object some   *)
(* members of which have been looked up.  A container is open when all its *)
(* values are met one by one.                                              *)
(***************************************************************************)
EXTENDS Collector, WalkerSteps, SequencesExt

CONSTANTS Protocols,    \* the protocols walked
          ProgramsOf,   \* the functions of each protocol, as steps
          entries,      \* the walk function of each protocol
          Bounds,       \* bounds, per protocol, on the optional values of a document
          MaxNodes,     \* bound: nodes of a document
          MaxBefore     \* bound: nodes before the second element of an array

ASSUME WalkerAssumption ==
    /\ \A protocol \in Protocols : Bounds[protocol] \subseteq [members : Nat, way : Nat, again : Nat]
    /\ MaxNodes \in Nat \ {0} /\ MaxBefore \in Nat
    /\ Strings = 1 .. MaxNodes

\* What a step may do to the value it finds.
ActionsOf(step) ==
    CASE step.op \in {"member", "this"} -> {step.cases[k] : k \in DOMAIN step.cases}
      [] step.op = "switch" -> {step.table[v] : v \in DOMAIN step.table} \cup {step.other, step.absent}
      [] OTHER -> {}

\* Every function that is called is there, and every switch, which no condition
\* guards, has a default branch that reports values it does not know.
ASSUME ProgramsAssumption ==
    \A protocol \in Protocols :
        LET programs == ProgramsOf[protocol] IN
        /\ {entries[protocol], "validateRootControls"} \subseteq DOMAIN programs
        /\ \A p \in DOMAIN programs :
              /\ Len(programs[p]) \in Nat /\ DOMAIN programs[p] = 1 .. Len(programs[p])
              /\ \A i \in DOMAIN programs[p] :
                    LET step == programs[p][i] IN
                    /\ \A a \in ActionsOf(step) : a.act \in {"run", "each"} => a.prog \in DOMAIN programs
                    /\ step.op = "switch" =>
                          /\ step.guard = <<>>
                          /\ "unknown" \notin DOMAIN step.table
                          /\ step.other.act \in {"reject", "role"}

VARIABLES doc,    \* the nodes of the document met so far; the root is node 1
          stack,  \* the walk functions being executed, the caller below the callee
          left    \* what is left of the bound of the document

vars == <<strings, targets, opaque, rejected, unsupported, status, doc, stack, left>>

\* The protocol is kept as the key of the root.
Protocol == doc[1].key
Programs == ProgramsOf[Protocol]

-----------------------------------------------------------------------------
(* Documents *)

Node(kind, parent, key) ==
    [kind |-> kind, parent |-> parent, key |-> key, value |-> "", scope |-> "",
     open |-> FALSE, members |-> <<>>]

Below(d, n) ==
    LET under[m \in DOMAIN d] == m = n \/ (m > 1 /\ under[d[m].parent])
    IN {m \in DOMAIN d : under[m]}

\* The strings of the value at node n.
StringsOf(d, n) == {m \in Below(d, n) : d[m].kind \in {"string", "object", "array"}}

Known(d, n, key) == key \in DOMAIN d[n].members
Present(d, n, key) == Known(d, n, key) /\ d[n].members[key] # 0

\* The document with a new member of node n, and with absent ones noted.
WithMember(d, n, key, kind) ==
    LET old == d[n].members
        new == [k \in DOMAIN old \cup {key} |-> IF k = key THEN Len(d) + 1 ELSE old[k]]
    IN Append([d EXCEPT ![n].members = new], Node(kind, n, key))
WithoutMembers(d, n, keys) ==
    LET old == d[n].members
    IN [d EXCEPT ![n].members =
           [k \in DOMAIN old \cup keys |-> IF k \in DOMAIN old THEN old[k] ELSE 0]]

-----------------------------------------------------------------------------
(* Frames *)

Frame(node, prog, each, scope) ==
    [node |-> node, prog |-> prog, each |-> each, at |-> 1, scope |-> scope]

top == stack[Len(stack)]
At(i) == [stack EXCEPT ![Len(stack)].at = i]

Holds(d, f, c) ==
    CASE c.cond = "always" -> TRUE
      [] c.cond = "has" -> \E key \in c.keys : Present(d, f.node, key)
      [] c.cond = "lacks" -> \A key \in c.keys : ~Present(d, f.node, key)
      [] c.cond = "scope" -> f.scope \in c.scopes
      [] c.cond = "true" -> \E key \in c.keys : Present(d, f.node, key)
                               /\ d[d[f.node].members[key]].kind = "true"
      [] c.cond = "nottrue" -> \A key \in c.keys : ~(Present(d, f.node, key)
                               /\ d[d[f.node].members[key]].kind = "true")

\* Keys that more than one step of a protocol looks up: whether they are there
\* is remembered.
SharedIn(programs) ==
    LET steps == UNION {{<<p, i>> : i \in DOMAIN programs[p]} : p \in DOMAIN programs}
        lookups == {l \in steps : programs[l[1]][l[2]].op \in {"member", "switch"}}
        keyOf(l) == programs[l[1]][l[2]].key
    IN {keyOf(l) : l \in {m \in lookups : \E n \in lookups : n # m /\ keyOf(n) = keyOf(m)}}
SharedKeys == [protocol \in DOMAIN ProgramsOf |-> SharedIn(ProgramsOf[protocol])]

\* The steps of the function on top of the stack, and the keys to remember.
Code == [steps |-> Programs[top.prog], shared |-> SharedKeys[Protocol]]

Enabled(step) == \A j \in DOMAIN step.guard : Holds(doc, top, step.guard[j])

\* Steps that may do nothing: those whose condition fails, lookups of optional
\* members that are not there, and searches for duplicates that find none.
MayPass(step) ==
    \/ ~Enabled(step)
    \/ step.op = "unique"
    \/ step.op = "member" /\ ~step.required /\ ~Present(doc, top.node, step.key)

\* The next step that is certain to do something; Len + 1 is the return.
nextStep(code) ==
    LET end == Len(code.steps) + 1
    IN Min({end} \cup {i \in top.at .. end - 1 : ~MayPass(code.steps[i])})

\* The document once all lookups before step i have found nothing.
Settled(code, i) ==
    LET passed == {step \in {code.steps[j] : j \in top.at .. i - 1} :
                      step.op = "member" /\ Enabled(step)}
    IN WithoutMembers(doc, top.node, {step.key : step \in passed} \cap code.shared)

\* Members that no other step looks up and that are treated alike differ in
\* nothing but their names: the first of them stands for all.
StandsForItself(code, i) ==
    LET step == code.steps[i]
    IN \/ step.key \in code.shared
       \/ \A other \in {code.steps[j] : j \in top.at .. i - 1} :
             ~(/\ other.op = "member" /\ other.key \notin code.shared
               /\ other.cases = step.cases /\ other.guard = step.guard
               /\ other.alias = step.alias)

-----------------------------------------------------------------------------
(* Effects *)

\* A walk that fails leaves no result behind.
Fail(reason) ==
    /\ Refuse(reason)
    /\ doc' = <<>> /\ stack' = <<>>

ScopeOf(a) == IF a.scope = "same" THEN top.scope ELSE a.scope

\* The functions that walk the value m of the document d, or one inside it, return:
\* they are on top of all others.
ReturnFrom(s, d, m) ==
    LET inside(i) == s[i].node \in Below(d, m)
    IN \E k \in 0 .. Len(s) :
          /\ \A i \in 1 .. k : ~inside(i)
          /\ k < Len(s) => inside(k + 1)
          /\ stack' = SubSeq(s, 1, k)

\* The action a on node n of the document d, with the stack then at s.  A function
\* that disposes of the whole value it is walking, or of one around it, returns.
Perform(a, n, d, s) ==
    LET up(m, k) == IF k = 0 THEN m ELSE IF k = 1 THEN d[m].parent ELSE d[d[m].parent].parent
    IN
    \/ /\ a.act = "skip"
       /\ doc' = d /\ stack' = s
       /\ UNCHANGED collector
    \/ /\ a.act = "mark"
       /\ MarkOpaque(StringsOf(d, n))
       /\ doc' = d /\ ReturnFrom(s, d, n)
    \/ /\ a.act \in {"reject", "nonempty"}
       /\ ReportUnsupported(StringsOf(d, up(n, a.up)))
       /\ doc' = d /\ ReturnFrom(s, d, up(n, a.up))
    \/ /\ a.act = "nonempty"
       /\ doc' = [d EXCEPT ![n].open = TRUE] /\ stack' = s
       /\ UNCHANGED collector
    \/ /\ a.act = "add"
       /\ AddTargets(StringsOf(d, n))
       /\ doc' = [m \in DOMAIN d |->
                    IF m \in Below(d, n) THEN [d[m] EXCEPT !.scope = ScopeOf(a)] ELSE d[m]]
       /\ ReturnFrom(s, d, n)
    \/ /\ a.act = "others"
       /\ AddTargets({n})
       /\ doc' = [d EXCEPT ![n].scope = ScopeOf(a)]
       /\ stack' = s
    \/ /\ a.act \in {"run", "each"}
       /\ doc' = [d EXCEPT ![n].open = @ \/ a.act = "each"]
       /\ stack' = Append(s, Frame(n, a.prog, a.act = "each", ScopeOf(a)))
       /\ UNCHANGED collector
    \/ /\ a.act = "stop"
       /\ doc' = d /\ stack' = Front(s)
       /\ UNCHANGED collector
    \/ /\ a.act = "scope"
       /\ doc' = d /\ stack' = [s EXCEPT ![Len(s)].scope = a.scope]
       /\ UNCHANGED collector
    \/ /\ a.act = "role"
       /\ ReportUnsupported(StringsOf(d, d[n].members["role"]))
       /\ doc' = d /\ stack' = [s EXCEPT ![Len(s)].scope = a.scope]
    \/ /\ a.act = "shape"
       /\ Fail("shape")

\* The value at node n is disposed of by the action for its kind.
Dispatch(cases, n, d, s) ==
    Perform(ActionFor(cases, d[n].kind), n, d, s)

-----------------------------------------------------------------------------
(* Steps *)

\* All values met lie on the way from the root to the node being walked, but for
\* scalars and empty arrays.
OnTheWay ==
    LET way[n \in DOMAIN doc] ==
            n = top.node \/ \E m \in n + 1 .. Len(doc) : doc[m].parent = n /\ way[m]
        bare(n) == doc[n].kind # "object" /\ \A m \in DOMAIN doc : doc[m].parent # n
    IN \A n \in DOMAIN doc : way[n] \/ bare(n)

\* The bound.  Required members and the first elements of the arrays on the way
\* are free.  So are, among the first left.way nodes, the optional members on the
\* way that a function walks which has been entered left.again times at most.
\* Others count as one of left.members and end the way.
FreeMember(step, a) ==
    \/ step.required
    \/ /\ a.act \in {"run", "each"}
       /\ Cardinality({i \in DOMAIN stack : stack[i].prog = a.prog /\ ~stack[i].each}) <= left.again
       /\ Len(doc) <= left.way /\ OnTheWay

Spend(free) ==
    IF free THEN UNCHANGED left
    ELSE left.members > 0 /\ left' = [left EXCEPT !.members = @ - 1, !.way = 0]

\* The step's member is there: the first lookup makes it up.
Find(code, i) ==
    LET step == code.steps[i]
        old == Settled(code, i)
    IN \/ /\ Present(doc, top.node, step.key)
          /\ Dispatch(step.cases, doc[top.node].members[step.key], old, At(i + 1))
          /\ UNCHANGED left
       \/ /\ ~Known(doc, top.node, step.key)
          /\ Len(doc) < MaxNodes
          /\ \A key \in step.alias : ~Present(doc, top.node, key)
          /\ \E kind \in step.kinds :
                LET d == WithMember(old, top.node, step.key, kind)
                IN /\ Spend(FreeMember(step, ActionFor(step.cases, kind)))
                   /\ Dispatch(step.cases, Len(d), d, At(i + 1))

\* A lookup on the way to the next step that is certain to do something.
WalkMember(code) ==
    \E i \in top.at .. nextStep(code) :
        /\ i <= Len(code.steps)
        /\ code.steps[i].op = "member" /\ Enabled(code.steps[i])
        /\ StandsForItself(code, i)
        /\ Find(code, i)

\* A required member is missing.
WalkMissing(code) ==
    LET step == code.steps[nextStep(code)] IN
    /\ nextStep(code) <= Len(code.steps)
    /\ step.op = "member" /\ ~Present(doc, top.node, step.key)
    /\ Fail("shape")
    /\ UNCHANGED left

\* A member occurs twice, or two spellings of one member occur.  Members are
\* counted before they are looked up, by unique, and when they are looked up:
\* which call finds the duplicate makes no difference.
WalkAmbiguous(code) ==
    /\ \E i \in top.at .. nextStep(code) :
          /\ i <= Len(code.steps)
          /\ code.steps[i].op \in {"unique", "member", "switch"}
          /\ Enabled(code.steps[i])
    /\ Fail("ambiguous")
    /\ UNCHANGED left

WalkThis(code) ==
    LET i == nextStep(code) IN
    /\ i <= Len(code.steps)
    /\ code.steps[i].op = "this"
    /\ Dispatch(code.steps[i].cases, top.node, Settled(code, i), At(i + 1))
    /\ UNCHANGED left

\* The member a function switches on: looked up, then marked opaque.
WalkDiscriminator(code) ==
    LET i == nextStep(code)
        step == code.steps[i]
        value == doc[top.node].members[step.key]
        settled == Settled(code, i)
        made == WithMember(settled, top.node, step.key, "string")
    IN /\ i <= Len(code.steps)
       /\ step.op = "switch"
       /\ UNCHANGED left
       /\ \/ /\ ~Known(doc, top.node, step.key)
             /\ doc' = WithoutMembers(settled, top.node, {step.key})
             /\ stack' = At(i)
             /\ UNCHANGED collector
          \/ /\ ~Known(doc, top.node, step.key)
             /\ Len(doc) < MaxNodes
             /\ \E v \in step.values :
                   doc' = Append(Front(made), [Last(made) EXCEPT !.value = v])
             /\ MarkOpaque({Len(made)})
             /\ stack' = At(i)
          \/ /\ Present(doc, top.node, step.key)
             /\ doc[value].kind = "string" /\ doc[value].value = ""
             /\ \E v \in step.values : doc' = [settled EXCEPT ![value].value = v]
             /\ MarkOpaque({value})
             /\ stack' = At(i)
          \/ /\ Present(doc, top.node, step.key) => doc[value].kind # "string"
             /\ Fail("shape")

WalkSwitch(code) ==
    LET i == nextStep(code)
        step == code.steps[i]
        value == doc[doc[top.node].members[step.key]].value
    IN /\ i <= Len(code.steps)
       /\ step.op = "switch"
       /\ Known(doc, top.node, step.key)
       /\ Present(doc, top.node, step.key) => value # ""
       /\ Perform(IF ~Present(doc, top.node, step.key) THEN step.absent
                  ELSE IF value \in DOMAIN step.table THEN step.table[value] ELSE step.other,
                  top.node, Settled(code, i), At(i + 1))
       /\ UNCHANGED left

WalkReturn(code) ==
    /\ nextStep(code) > Len(code.steps)
    /\ doc' = Settled(code, nextStep(code))
    /\ stack' = Front(stack)
    /\ UNCHANGED <<strings, targets, opaque, rejected, unsupported, status, left>>

\* Functions on array elements start with a test of the element's kind.
FirstKinds(p) == Programs[p][1].kinds

\* One more element of an array, or its end.
WalkElement ==
    LET met == Cardinality({m \in DOMAIN doc : doc[m].parent = top.node})
    IN /\ status = "walking" /\ stack # <<>> /\ top.each
       /\ UNCHANGED collector
       /\ \/ /\ stack' = Front(stack)
             /\ UNCHANGED <<doc, left>>
          \/ /\ met = 0 \/ Len(doc) <= MaxBefore
             /\ Len(doc) < MaxNodes
             /\ Spend(met = 0 /\ OnTheWay)
             /\ \E kind \in FirstKinds(top.prog) :
                   doc' = Append(doc, Node(kind, top.node, ""))
             /\ stack' = Append(stack, Frame(Len(doc) + 1, top.prog, FALSE, top.scope))

\* The strings at hand when the walker returns: those it has met, and perhaps
\* some in containers and members it has not looked at.
Finish ==
    LET held == {n \in DOMAIN doc : doc[n].kind = "string"}
        others == {n \in DOMAIN doc : doc[n].kind \in {"object", "array"} /\ ~doc[n].open}
    IN /\ status = "walking" /\ stack = <<>>
       /\ \E more \in {{}, others} : EnsureStringDisposition(held \cup more)
       /\ UNCHANGED <<doc, stack, left>>

\* A cancelled context, or the structural budget is exhausted.
Interrupt ==
    /\ status = "walking"
    /\ \E reason \in {"limit", "cancelled"} : Fail(reason)
    /\ UNCHANGED left

Init ==
    /\ CollectorInit
    /\ \E protocol \in Protocols :
          /\ doc = <<Node("object", 0, protocol)>>
          /\ left \in Bounds[protocol]
          /\ stack = <<Frame(1, entries[protocol], FALSE, "user"),
                       Frame(1, "validateRootControls", FALSE, "user")>>

\* One step of the function on top of the stack.
WalkStep ==
    /\ status = "walking" /\ stack # <<>> /\ ~top.each
    /\ \E code \in {Code} :
          \/ WalkMember(code) \/ WalkMissing(code) \/ WalkAmbiguous(code) \/ WalkThis(code)
          \/ WalkDiscriminator(code) \/ WalkSwitch(code) \/ WalkReturn(code)

Next == WalkStep \/ WalkElement \/ Finish \/ Interrupt

Spec == Init /\ [][Next]_vars

-----------------------------------------------------------------------------
(* Properties *)

\* collector.add and markOpaque report a string that is disposed of twice in
\* conflicting ways as an internal error, which fails the request with a 500.
\* No walker provokes it, on any combination of members: a member that one
\* function protects is never selected by a later one, and no string is
\* selected twice.
NoInternalError == status # "internal"

\* README: "Unknown" shapes are refused.  A body is accepted only if every role
\* and type that a walker switched on, at any depth, was one it knows, even when
\* a body holds nothing else that could be refused.
UnknownRefused == Accepted => \A n \in DOMAIN doc : doc[n].value # "unknown"

\* The members that hold what people and models wrote and what tools are given and
\* return, in all protocols.
TextKeys ==
    {"text", "content", "instructions", "system", "description", "refusal", "input",
     "arguments", "args", "output", "outputs", "result", "results", "response",
     "stdout", "stderr", "logs", "diff", "parameters", "input_schema"}

\* The member at node n of the same object as key.
Sibling(n, key) ==
    IF Present(doc, doc[n].parent, key) THEN doc[doc[doc[n].parent].members[key]]
    ELSE Node("", 0, "")

\* "code" is a program in some objects and the number of an error in others.
IsText(n) ==
    \/ doc[n].key \in TextKeys
    \/ /\ doc[n].key = "code"
       /\ \/ Sibling(n, "type").value = "code_interpreter_call"
          \/ doc[doc[n].parent].key = "executableCode"

\* Text that the provider has signed, or will check, is replayed unchanged, and so
\* is an image that a model has drawn.
Protected(n) ==
    \/ Present(doc, doc[n].parent, "thoughtSignature")
    \/ Sibling(n, "thought").kind = "true"
    \/ Sibling(n, "type").value \in {"reasoning.text", "reasoning.summary", "image_generation_call"}

\* README, "Supported request formats": message text, tool arguments and output,
\* descriptions and schemas are inspected.  In an accepted body no string of such
\* a member is exempt from inspection, whichever function walked it and whatever
\* members came before, unless it is replayed reasoning or an image.
TextInspected ==
    Accepted => \A n \in opaque : IsText(n) => Protected(n)

\* The members that carry signatures and reasoning the provider verifies.
IntegrityKeys ==
    {"signature", "thoughtSignature", "thought_signature", "thinking", "redacted_thinking",
     "encrypted_content", "reasoning", "reasoning_content", "extra_content"}

\* README: "signatures, encrypted reasoning, validated provider reasoning replay"
\* remain opaque.  No such string is ever selected for rewriting, and neither is
\* the text of a Gemini part that carries a signature or is a thought.
IntegrityPreserved ==
    \A n \in targets :
        /\ doc[n].key \notin IntegrityKeys
        /\ Protocol = "gemini" /\ doc[n].key = "text" => ~Protected(n)

\* What tools are given and what they return, in the words of each protocol: the
\* members that hold it wherever they stand, and those that do in an object of
\* some type or role.
InputKeys ==
    [openai |-> {"arguments"}, claude |-> {}, gemini |-> {"args", "partialArgs"},
     interactions |-> {"arguments"},
     responses |-> {"arguments", "action", "actions", "operation", "queries", "code",
                    "executed_tool_calls"}]
OutputKeys ==
    [openai |-> {}, claude |-> {}, gemini |-> {"functionResponse", "codeExecutionResult"},
     interactions |-> {"result", "output"},
     responses |-> {"output", "outputs", "results", "result", "error"}]

NaturalKeys == {"content", "parts", "text", "summary"}

\* An Interactions item that has a type goes by its type, whatever its role; and a
\* part of it that is reasoning is the assistant's.
DataOf(n) ==
    LET key == doc[n].key
        says(member, values) == Sibling(n, member).value \in values
    IN IF \/ key \in InputKeys[Protocol]
          \/ key = "input" /\ says("type", {"tool_use", "custom_tool_call"})
       THEN "tool_input"
       ELSE IF \/ key \in OutputKeys[Protocol]
               \/ key = "content" /\ says("type", {"tool_result"})
               \/ /\ key \in NaturalKeys /\ says("role", {"tool", "function"})
                  /\ Protocol = "interactions" => ~Present(doc, doc[n].parent, "type")
       THEN "tool_output"
       ELSE IF key \in NaturalKeys /\ says("type", {"thought", "reasoning"})
       THEN "assistant"
       ELSE "other"

\* The nearest value around a string that is tool data decides: what a tool is
\* called with is its input, also where the call is part of the output of another.
RequiredScope ==
    LET scope[n \in DOMAIN doc] ==
            IF n = 1 THEN "other"
            ELSE IF DataOf(n) # "other" THEN DataOf(n) ELSE scope[doc[n].parent]
    IN scope

\* Credential fields of tool data are redacted whatever their value looks like
\* (README, "Structured credential fields"), which depends on the scope of the
\* target.  Tool data has its scope in every protocol, under every role and
\* however deep the call or the result is nested.
ToolDataScoped ==
    \A n \in targets : RequiredScope[n] # "other" => doc[n].scope = RequiredScope[n]

\* The final pass of Walk refuses what a walker has not disposed of, so a walker
\* that looks a string up and forgets it would refuse valid requests.  It finds
\* nothing but members and subtrees the walker has not asked for.
NothingForgotten ==
    [][Finish /\ ~unsupported =>
          {n \in DOMAIN doc : doc[n].kind = "string"} \subseteq targets \cup opaque]_vars
=============================================================================
