----------------------------- MODULE Interceptor -----------------------------
(***************************************************************************)
(* Request inspection (interceptor.go, the request renderer of redactor.go *)
(* and the scan states of request_cache.go).                               *)
(*                                                                         *)
(* Concurrent passes of the same request share one scan state: the         *)
(* fingerprint of the last successful output and the renderer that numbers *)
(* the placeholders.  The state is bound to the policy revision it was     *)
(* created under; a reconfiguration changes the policy while passes of the *)
(* old one are still running, and the host may submit a body again, before *)
(* or after it was sanitized.                                              *)
(*                                                                         *)
(* A body is a sequence of the texts the walker selects.  A text is a      *)
(* plain value, <<v>>, a placeholder, <<label, n>>: the configured label   *)
(* with the number n, or empty, <<>>, where a value was removed because    *)
(* the replacement of its kind is the empty string.  What the engine finds *)
(* in a text is a parameter of the policy; some positions are credential   *)
(* fields, where every text is a finding.                                  *)
(* The cache is reduced to which state a RequestID is bound to (expiry,    *)
(* eviction and completion unbind it at any time): see RequestScanCache.   *)
(***************************************************************************)
EXTENDS Integers, Sequences, FiniteSets

CONSTANTS Threads,
          RequestIDs,    \* non-empty request identifiers
          NoRequestID,   \* the empty request identifier
          Values,        \* plain texts
          Kinds,         \* kinds of finding; "secret" is one
          KindOf,        \* KindOf[v]: the kind a detector reports for v
          Labels,        \* replacements that are not empty, without a number
          Credential,    \* positions that are credential fields
          Inputs,        \* bodies the host may submit
          Policies,      \* the policy of each revision, in registration order
          MaxStates      \* bound on the scan states ever created

\* The replacement that removes a value.
NoText == ""

Policy == [mode : {"redact", "audit"},
           onError : {"block", "passthrough"},
           found : SUBSET Values,     \* values a rule of the revision matches
           blocked : SUBSET Values,   \* values matched by a blocking rule
           replacement : [Kinds -> Labels \cup {NoText}],  \* of p.renderer, by kind
           recognised : BOOLEAN,      \* isCredentialPlaceholder accepts its placeholders
           skip : BOOLEAN,            \* the request matches a skip list
           logged : BOOLEAN]          \* substitution_log.enabled

\* The texts a body holds: plain values, placeholders and the empty text.
Texts == {<<v>> : v \in Values} \cup (Labels \X Nat) \cup {<<>>}

ASSUME InterceptorConstants ==
    /\ NoRequestID \notin RequestIDs
    /\ "secret" \in Kinds
    /\ KindOf \in [Values -> Kinds]
    /\ NoText \notin Labels
    /\ Inputs \subseteq Seq(Texts)
    /\ Policies \in Seq(Policy) /\ Policies # <<>>
    /\ \A i \in DOMAIN Policies : Policies[i].blocked \subseteq Policies[i].found
    /\ MaxStates \in Nat

VARIABLES installed,  \* revision of the installed plugin
          entries,    \* scan state each retained RequestID is bound to
          states,     \* the scan states ever created
          logLines,   \* lines of the substitution logs: [revision, text]
          pass        \* pass[t]: the interception of thread t

vars == <<installed, entries, states, logLines, pass>>

-----------------------------------------------------------------------------
NoRenderer == [ready |-> FALSE, seen |-> [k \in {} |-> <<>>], next |-> [k \in Kinds |-> 0]]

\* newRequestScanState
NewState(revision) == [revision |-> revision, recorded |-> FALSE, fingerprint |-> <<>>,
                       renderer |-> NoRenderer]

Idle == [pc |-> "idle", rid |-> NoRequestID, revision |-> 1, body |-> <<>>, out |-> <<>>,
         known |-> {}, state |-> 0, at |-> 0, failed |-> FALSE, verdict |-> "none"]

IsPlain(text) == Len(text) = 1
IsPlaceholder(text) == Len(text) = 2

PolicyOf(t) == Policies[pass[t].revision]

\* A text in which the engine of the policy reports a finding, when it is not a
\* placeholder the request produced: a value a rule matches, or any text of a
\* credential field that does not look like a placeholder and is not empty.
IsFinding(policy, i, text) ==
    \/ IsPlain(text) /\ text[1] \in policy.found
    \/ i \in Credential /\ text # <<>> /\ ~(IsPlaceholder(text) /\ policy.recognised)

\* A blocking rule keeps its identity when its span merges with another finding.
IsBlocked(policy, text) == IsPlain(text) /\ text[1] \in policy.blocked

\* The key of requestRenderer.seen: the kind of the finding and the plaintext.
\* The span of a credential field covers the text and decides the kind.
FindingKey(policy, i, text) ==
    <<IF i \in Credential /\ ~IsBlocked(policy, text) THEN "secret" ELSE KindOf[text[1]], text>>

Produced(renderer) == {renderer.seen[k] : k \in DOMAIN renderer.seen}

\* The positions of a body whose text the renderer has produced.
Known(renderer, body) == {i \in DOMAIN body : body[i] \in Produced(renderer)}

-----------------------------------------------------------------------------
Init ==
    /\ installed = 1
    /\ entries = [r \in {} |-> 0]
    /\ states = <<>>
    /\ logLines = {}
    /\ pass = [t \in Threads |-> Idle]

\* The host submits an original body, or one a pass has already let through.
Submitted == Inputs \cup {pass[u].out : u \in {v \in Threads : pass[v].verdict = "forward"}}

\* The interception returns: the host sends out, or answers the client itself.
\* Of the call only what the properties look at is kept.
Forward(t, out, failed) ==
    pass' = [pass EXCEPT ![t] =
        [pc |-> "idle", rid |-> NoRequestID, revision |-> pass[t].revision,
         body |-> pass[t].body, out |-> out, known |-> pass[t].known,
         state |-> pass[t].state, at |-> 0, failed |-> failed, verdict |-> "forward"]]

Terminate(t) == pass' = [pass EXCEPT ![t] = [Idle EXCEPT !.verdict = "terminate"]]

\* Faulty variant: on_error: passthrough also disarms the blocking rules.
PassthroughFirstVariant(t, blocked) ==
    IF PolicyOf(t).onError = "passthrough"
    THEN Forward(t, pass[t].body, ~blocked)
    ELSE Terminate(t)

\* handleFailure: a blocking rule terminates under either on_error setting.
HandleFailure(t, blocked) ==
    IF ~blocked /\ PolicyOf(t).onError = "passthrough"
    THEN Forward(t, pass[t].body, ~blocked)
    ELSE Terminate(t)

\* beginPrivacyFilterPluginCall hands out the installed plugin.
Begin(t, rid, body) ==
    /\ pass[t].pc = "idle"
    /\ pass' = [pass EXCEPT ![t] =
           [pc |-> "begin", rid |-> rid, revision |-> installed, body |-> body, out |-> <<>>,
            known |-> {}, state |-> 0, at |-> 0, failed |-> FALSE, verdict |-> "none"]]
    /\ UNCHANGED <<installed, entries, states, logLines>>

Skip(t) ==
    /\ pass[t].pc = "begin"
    /\ PolicyOf(t).skip
    /\ Forward(t, pass[t].body, FALSE)
    /\ UNCHANGED <<installed, entries, states, logLines>>

EmptyBody(t) ==
    /\ pass[t].pc = "begin"
    /\ ~PolicyOf(t).skip /\ pass[t].body = <<>>
    /\ HandleFailure(t, FALSE)
    /\ UNCHANGED <<installed, entries, states, logLines>>

\* Faulty variant: the context of the state is not compared.
BoundAnyRevisionVariant(rid, revision) == rid \in DOMAIN entries

\* The state bound to the request, if it was created under the same revision.
Bound(rid, revision) ==
    rid \in DOMAIN entries /\ states[entries[rid]].revision = revision

\* A request without an identifier gets an ephemeral state.
Bind(rid, s) ==
    IF rid = NoRequestID THEN entries
    ELSE [r \in DOMAIN entries \cup {rid} |-> IF r = rid THEN s ELSE entries[r]]

Acquire(t) ==
    /\ pass[t].pc = "begin"
    /\ ~PolicyOf(t).skip /\ pass[t].body # <<>>
    /\ LET rid == pass[t].rid
           fresh == Len(states) + 1
       IN \/ /\ Bound(rid, pass[t].revision)
             /\ pass' = [pass EXCEPT ![t].pc = "seen", ![t].state = entries[rid]]
             /\ UNCHANGED <<entries, states>>
          \/ /\ ~Bound(rid, pass[t].revision)
             /\ fresh <= MaxStates
             /\ states' = Append(states, NewState(pass[t].revision))
             /\ entries' = Bind(rid, fresh)
             /\ pass' = [pass EXCEPT ![t].pc = "seen", ![t].state = fresh]
    /\ UNCHANGED <<installed, logLines>>

\* The body is the output of the latest successful scan: no scan is needed.
Seen(state, body) == state.recorded /\ state.fingerprint = body

SeenBefore(t) ==
    /\ pass[t].pc = "seen"
    /\ Seen(states[pass[t].state], pass[t].body)
    /\ Forward(t, pass[t].body, FALSE)
    /\ UNCHANGED <<installed, entries, states, logLines>>

\* GetOrCreateRendererState creates the renderer once, under its lock.  The pass
\* keeps (history) which of its texts the request had produced by then.
RendererOf(state) ==
    IF state.renderer.ready THEN state.renderer ELSE [NoRenderer EXCEPT !.ready = TRUE]

GetOrCreateRendererState(t) ==
    /\ pass[t].pc = "seen"
    /\ ~Seen(states[pass[t].state], pass[t].body)
    /\ states' = [states EXCEPT ![pass[t].state].renderer = RendererOf(states[pass[t].state])]
    /\ pass' = [pass EXCEPT ![t].pc = "trust", ![t].at = 1, ![t].out = pass[t].body,
                            ![t].known = Known(RendererOf(states[pass[t].state]), pass[t].body)]
    /\ UNCHANGED <<installed, entries, logLines>>

Text(t) == pass[t].body[pass[t].at]

\* Faulty variant: whatever looks like a placeholder is trusted.
PreserveLookalikeVariant(t) ==
    /\ pass[t].pc = "trust" /\ pass[t].at <= Len(pass[t].body)
    /\ IsPlaceholder(Text(t))
    /\ pass' = [pass EXCEPT ![t].at = pass[t].at + 1]
    /\ UNCHANGED <<installed, entries, states, logLines>>

\* sanitizeText asks the renderer, under its lock, whether it produced the text.
PreservePlaceholder(t) ==
    /\ pass[t].pc = "trust" /\ pass[t].at <= Len(pass[t].body)
    /\ Text(t) \in Produced(states[pass[t].state].renderer)
    /\ pass' = [pass EXCEPT ![t].at = pass[t].at + 1]
    /\ UNCHANGED <<installed, entries, states, logLines>>

\* Faulty variant: a placeholder of this request is scanned like any text.
DetectDistrustVariant(t) ==
    /\ pass[t].pc = "trust" /\ pass[t].at <= Len(pass[t].body)
    /\ pass' = IF IsFinding(PolicyOf(t), pass[t].at, Text(t))
               THEN [pass EXCEPT ![t].pc = "render"]
               ELSE [pass EXCEPT ![t].at = pass[t].at + 1]
    /\ UNCHANGED <<installed, entries, states, logLines>>

Detect(t) ==
    /\ pass[t].pc = "trust" /\ pass[t].at <= Len(pass[t].body)
    /\ Text(t) \notin Produced(states[pass[t].state].renderer)
    /\ pass' = IF IsFinding(PolicyOf(t), pass[t].at, Text(t))
               THEN [pass EXCEPT ![t].pc = "render"]
               ELSE [pass EXCEPT ![t].at = pass[t].at + 1]
    /\ UNCHANGED <<installed, entries, states, logLines>>

\* numberedPlaceholder: a kind whose replacement is empty removes its values,
\* whatever their number.
NumberedPlaceholder(base, n) == IF base = NoText THEN <<>> ELSE <<base, n>>

\* Faulty variant: the number is used but not counted.
RendererUncountedVariant(renderer, replacement, key) ==
    IF key \in DOMAIN renderer.seen
    THEN renderer
    ELSE [renderer EXCEPT !.seen = [k \in DOMAIN renderer.seen \cup {key} |->
              IF k = key THEN NumberedPlaceholder(replacement[key[1]], renderer.next[key[1]] + 1)
              ELSE renderer.seen[k]]]

\* Faulty variant: a known plaintext is numbered again.
RendererForgetfulVariant(renderer, replacement, key) ==
    LET n == renderer.next[key[1]] + 1
    IN [renderer EXCEPT !.next[key[1]] = n,
                        !.seen = [k \in DOMAIN renderer.seen \cup {key} |->
                                     IF k = key THEN NumberedPlaceholder(replacement[key[1]], n)
                                     ELSE renderer.seen[k]]]

\* requestRenderer.Render, under its lock: a known plaintext keeps its
\* placeholder, a new one gets the next number of its kind.
RendererAfter(renderer, replacement, key) ==
    IF key \in DOMAIN renderer.seen
    THEN renderer
    ELSE LET n == renderer.next[key[1]] + 1
         IN [renderer EXCEPT !.next[key[1]] = n,
                             !.seen = [k \in DOMAIN renderer.seen \cup {key} |->
                                          IF k = key
                                          THEN NumberedPlaceholder(replacement[key[1]], n)
                                          ELSE renderer.seen[k]]]

\* The line Render appends for a new placeholder; the log of a replaced plugin
\* is closed.
LogAfter(t, key) ==
    IF /\ PolicyOf(t).logged /\ pass[t].revision = installed
       /\ key \notin DOMAIN states[pass[t].state].renderer.seen
    THEN logLines \cup {[revision |-> pass[t].revision, text |-> key[2]]}
    ELSE logLines

\* What one finding turns the text into: audit mode renders but changes nothing.
Substituted(t, placeholder) ==
    IF PolicyOf(t).mode = "audit" THEN pass[t].out
    ELSE [pass[t].out EXCEPT ![pass[t].at] = placeholder]

Render(t) ==
    /\ pass[t].pc = "render"
    /\ LET key == FindingKey(PolicyOf(t), pass[t].at, Text(t))
           renderer == RendererAfter(states[pass[t].state].renderer, PolicyOf(t).replacement, key)
       IN /\ states' = [states EXCEPT ![pass[t].state].renderer = renderer]
          /\ logLines' = LogAfter(t, key)
          /\ \/ /\ PolicyOf(t).mode = "redact" /\ IsBlocked(PolicyOf(t), Text(t))
                /\ HandleFailure(t, TRUE)
             \/ /\ ~(PolicyOf(t).mode = "redact" /\ IsBlocked(PolicyOf(t), Text(t)))
                /\ pass' = [pass EXCEPT ![t].pc = "trust", ![t].at = pass[t].at + 1,
                                        ![t].out = Substituted(t, renderer.seen[key])]
    /\ UNCHANGED <<installed, entries>>

\* A limit, an unsupported shape, malformed JSON or the deadline stops the scan.
ScanFails(t) ==
    /\ pass[t].pc \in {"trust", "render"}
    /\ HandleFailure(t, FALSE)
    /\ UNCHANGED <<installed, entries, states, logLines>>

\* Faulty variant: the fingerprint of the input is kept.
RecordInputVariant(t) ==
    [states EXCEPT ![pass[t].state].recorded = TRUE,
                   ![pass[t].state].fingerprint = pass[t].body]

\* RequestScanState.Record keeps the fingerprint of what is sent on: the
\* sanitized output when the scan changed the body, else the body itself.
Record(t) ==
    [states EXCEPT ![pass[t].state].recorded = TRUE,
                   ![pass[t].state].fingerprint = pass[t].out]

Finish(t) ==
    /\ pass[t].pc = "trust" /\ pass[t].at > Len(pass[t].body)
    /\ states' = Record(t)
    /\ Forward(t, pass[t].out, FALSE)
    /\ UNCHANGED <<installed, entries, logLines>>

\* Expiry, eviction or request.complete.
Unbind(rid) ==
    /\ rid \in DOMAIN entries
    /\ entries' = [r \in DOMAIN entries \ {rid} |-> entries[r]]
    /\ UNCHANGED <<installed, states, logLines, pass>>

\* A new revision is installed while passes of the old one may be running.
Reconfigure ==
    /\ installed < Len(Policies)
    /\ installed' = installed + 1
    /\ UNCHANGED <<entries, states, logLines, pass>>

Next ==
    \/ Reconfigure
    \/ \E rid \in RequestIDs : Unbind(rid)
    \/ \E t \in Threads :
         \/ \E rid \in RequestIDs \cup {NoRequestID}, body \in Submitted : Begin(t, rid, body)
         \/ Skip(t) \/ EmptyBody(t) \/ Acquire(t) \/ SeenBefore(t)
         \/ GetOrCreateRendererState(t) \/ PreservePlaceholder(t) \/ Detect(t)
         \/ Render(t) \/ ScanFails(t) \/ Finish(t)

Spec == Init /\ [][Next]_vars

-----------------------------------------------------------------------------
(* Properties *)

\* A pass that forwards although its policy was to let findings through: audit
\* mode, a skip list, or on_error: passthrough after a failure.
Waived(t) == PolicyOf(t).mode = "audit" \/ PolicyOf(t).skip \/ pass[t].failed

\* A text that must not leave the plugin under the policy.
IsSensitive(policy, i, text) ==
    IsPlain(text) /\ (text[1] \in policy.found \/ i \in Credential)

\* What is forwarded under redact mode contains no value the policy of that pass
\* finds, whether the body was scanned or recognised as scanned before, and
\* although other passes and a reconfiguration ran meanwhile.
NothingSensitiveForwarded ==
    \A t \in Threads :
        (pass[t].verdict = "forward" /\ ~Waived(t)) =>
            \A i \in DOMAIN pass[t].out : ~IsSensitive(PolicyOf(t), i, pass[t].out[i])

\* A body with a value a blocking rule matches is terminated, on every retry,
\* rather than forwarded redacted.
BlockedNeverForwarded ==
    \A t \in Threads :
        (pass[t].verdict = "forward" /\ ~Waived(t)) =>
            \A i \in DOMAIN pass[t].body : ~IsBlocked(PolicyOf(t), pass[t].body[i])

\* The passes t and u scanned under the same state of one request.
ForwardedTogether(t, u) ==
    /\ pass[t].state # 0 /\ pass[t].state = pass[u].state
    /\ \A v \in {t, u} : pass[v].verdict = "forward" /\ ~Waived(v)

\* README: "Equal values reuse a placeholder inside one logical request; distinct
\* values of the same type are numbered", across concurrent passes too, and "empty
\* removes the matched value": two values of a kind get the same replacement
\* exactly when they are equal or the kind has no placeholder at all.
ConsistentPlaceholders ==
    \A t, u \in Threads : ForwardedTogether(t, u) =>
        \A i \in DOMAIN pass[t].body, j \in DOMAIN pass[u].body :
            LET a == pass[t].body[i]
                b == pass[u].body[j]
                kind == FindingKey(PolicyOf(t), i, a)[1]
            IN (/\ IsSensitive(PolicyOf(t), i, a) /\ IsSensitive(PolicyOf(u), j, b)
                /\ FindingKey(PolicyOf(u), j, b)[1] = kind)
               => (pass[t].out[i] = pass[u].out[j]
                     <=> (a = b \/ PolicyOf(t).replacement[kind] = NoText))

\* README: "placeholders actually produced by that request are trusted on a second
\* interceptor pass".  A text the request had produced when the pass began to scan
\* leaves the pass as it was, in whatever order the passes of the request check
\* and render meanwhile.  (The check and Render are two critical sections: a text
\* that another pass produces for the first time between them may be numbered as
\* a value of its own.)
ProducedIsTrusted ==
    \A t \in Threads :
        pass[t].verdict = "forward" =>
            \A i \in pass[t].known : pass[t].out[i] = pass[t].body[i]

\* README: "only placeholders actually produced by that request" are trusted: a
\* placeholder in a credential field is forwarded only if the renderer of the
\* request has produced it, or the engine takes it for one by its looks.  A body
\* that carries the placeholders of another request, or made-up ones, does not
\* pass them off as its own.
OnlyProducedIsTrusted ==
    \A t \in Threads :
        (pass[t].verdict = "forward" /\ ~Waived(t)) =>
            \A i \in DOMAIN pass[t].out \cap Credential :
                IsPlaceholder(pass[t].out[i]) =>
                    \/ PolicyOf(t).recognised
                    \/ pass[t].out[i] \in Produced(states[pass[t].state].renderer)

\* A request never changes the placeholder of a value, whatever order its passes
\* render in.
PlaceholdersStable ==
    [][\A s \in DOMAIN states :
          \A k \in DOMAIN states[s].renderer.seen :
              /\ k \in DOMAIN states'[s].renderer.seen
              /\ states'[s].renderer.seen[k] = states[s].renderer.seen[k]]_vars

\* README, substitution_log: it "appends one JSON line per substitution", and
\* audit mode works "without mutation".
LoggedMeansSubstituted ==
    \A line \in logLines : Policies[line.revision].mode = "redact"
=============================================================================
