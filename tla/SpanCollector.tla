---------------------------- MODULE SpanCollector ----------------------------
(***************************************************************************)
(* The union of findings and the redaction of a text (spanCollector and    *)
(* Redact in privacyengine/engine.go).                                     *)
(*                                                                         *)
(* The detectors report candidate spans in any order; the collector keeps  *)
(* a sorted list of disjoint spans, absorbs what overlaps, and gives each  *)
(* union the rule of one of its parts, preferring the blocking rules.      *)
(* Redact then copies the text around the spans and puts what the renderer *)
(* gives in their place.  So their union decides what stays visible, and   *)
(* their rules decide whether the request is blocked.                      *)
(***************************************************************************)
EXTENDS Integers, Sequences, FiniteSets

CONSTANTS TextLen,      \* length of the inspected text
          Rules,        \* rule identifiers (each implies its kind)
          Preferred,    \* the blocking rules
          MaxFindings,  \* what the budget leaves for this text
          MaxCandidates \* bound on the candidates the detectors report

ASSUME CollectorConstants ==
    /\ TextLen \in Nat
    /\ Preferred \subseteq Rules
    /\ MaxFindings \in Nat
    /\ MaxCandidates \in Nat

VARIABLES spans,    \* the list of accepted, merged spans
          history,  \* the candidates accepted so far, in order
          outcome,  \* detecting, redacted, or failed
          redacted  \* Redaction.Redacted, as a sequence of elements

vars == <<spans, history, outcome, redacted>>

Span == [start : 0..TextLen, end : 0..TextLen, rule : Rules]

\* What a detector may report: offsets just outside the text included.
Candidate == [start : -1..(TextLen + 1), end : -1..(TextLen + 1), rule : Rules]

\* An element of a text: the byte at an offset, or what replaces a span.
Byte(offset) == [kind |-> "byte", at |-> offset]
Replacement(n) == [kind |-> "replacement", at |-> n]

\* The bytes from..to-1 of the text.
Slice(from, to) == [k \in 1..(to - from) |-> Byte(from + k - 1)]

-----------------------------------------------------------------------------
Min2(a, b) == IF a < b THEN a ELSE b
Max2(a, b) == IF a > b THEN a ELSE b

\* Offsets the detectors got wrong are dropped without an error.
Valid(c) == c.start >= 0 /\ c.start < c.end /\ c.end <= TextLen

\* sort.Search: the first span that ends after the candidate starts.
SearchIndex(list, c) ==
    CHOOSE i \in 1..(Len(list) + 1) :
        /\ \A h \in 1..(i - 1) : list[h].end <= c.start
        /\ i <= Len(list) => list[i].end > c.start

\* Faulty variant: the leftmost existing span always gives its rule.
AbsorbLeftmostVariant(merged, existing, leftmost) ==
    [start |-> Min2(existing.start, merged.start),
     end   |-> Max2(existing.end, merged.end),
     rule  |-> IF leftmost THEN existing.rule ELSE merged.rule]

\* One round of the loop: the union takes the rule of the leftmost existing span
\* unless it has a preferred one already, and a preferred rule once it meets one.
Absorb(merged, existing, leftmost) ==
    [start |-> Min2(existing.start, merged.start),
     end   |-> Max2(existing.end, merged.end),
     rule  |-> IF merged.rule \notin Preferred /\ (leftmost \/ existing.rule \in Preferred)
               THEN existing.rule ELSE merged.rule]

\* Faulty variant: absorbs one span and does not look further.
MergeOnceVariant(list, c, i) ==
    IF i <= Len(list) /\ list[i].start < c.end
    THEN [span |-> Absorb(c, list[i], TRUE), next |-> i + 1]
    ELSE [span |-> c, next |-> i]

\* The loop goes on while the next span overlaps the union.
Overlaps(list, m) == m.next <= Len(list) /\ list[m.next].start < m.span.end

Round(list, i, m) ==
    IF Overlaps(list, m)
    THEN [span |-> Absorb(m.span, list[m.next], m.next = i), next |-> m.next + 1]
    ELSE m

\* The loop from index i, in no more rounds than there are spans: the union, and
\* the first index it does not absorb.
Merge(list, c, i) ==
    LET M[n \in 0..Len(list)] ==
            IF n = 0 THEN [span |-> c, next |-> i] ELSE Round(list, i, M[n - 1])
    IN  M[Len(list)]

\* The list with spans i..j-1 replaced by the union.
Replaced(list, i, j, merged) ==
    SubSeq(list, 1, i - 1) \o <<merged>> \o SubSeq(list, j, Len(list))

OverBudget(count) == count > MaxFindings

-----------------------------------------------------------------------------
\* Faulty variant: the copying goes on where the span begins.
CopyUpToFromStartVariant(list, n, copied) ==
    [text |-> copied.text \o Slice(copied.previous, list[n].start) \o <<Replacement(n)>>,
     previous |-> list[n].start]

\* One round of the loop: the text up to span n, and what replaces the span.
CopyUpTo(list, n, copied) ==
    [text |-> copied.text \o Slice(copied.previous, list[n].start) \o <<Replacement(n)>>,
     previous |-> list[n].end]

\* The text with a replacement for every span.
Rebuild(list) ==
    LET copied[n \in 0..Len(list)] ==
            IF n = 0 THEN [text |-> <<>>, previous |-> 0] ELSE CopyUpTo(list, n, copied[n - 1])
        last == copied[Len(list)]
    IN  last.text \o Slice(last.previous, TextLen)

Init ==
    /\ spans = <<>> /\ history = <<>>
    /\ outcome = "detecting"
    /\ redacted = Slice(0, TextLen)

Add(c) ==
    /\ outcome = "detecting"
    /\ Valid(c)
    /\ Len(history) < MaxCandidates
    /\ LET i == SearchIndex(spans, c)
           m == Merge(spans, c, i)
           newCount == Len(spans) + 1 - (m.next - i)
       IN \/ /\ OverBudget(newCount)
             /\ outcome' = "failed"
             /\ UNCHANGED <<spans, history, redacted>>
          \/ /\ ~OverBudget(newCount)
             /\ spans' = Replaced(spans, i, m.next, m.span)
             /\ history' = Append(history, c)
             /\ UNCHANGED <<outcome, redacted>>

\* A candidate with impossible offsets leaves everything as it is.
AddInvalid(c) ==
    /\ outcome = "detecting"
    /\ ~Valid(c)
    /\ UNCHANGED vars

\* The detectors are done.
Redact ==
    /\ outcome = "detecting"
    /\ outcome' = "redacted"
    /\ redacted' = Rebuild(spans)
    /\ UNCHANGED <<spans, history>>

\* The renderer fails or the context ends: the text comes back as it was.
RedactFails ==
    /\ outcome = "detecting"
    /\ spans # <<>>
    /\ outcome' = "failed"
    /\ UNCHANGED <<spans, history, redacted>>

Next ==
    \/ \E c \in Candidate : Add(c) \/ AddInvalid(c)
    \/ Redact
    \/ RedactFails

Spec == Init /\ [][Next]_vars

-----------------------------------------------------------------------------
(* Properties *)

\* The spans are non-empty, lie within the text, are in order and do not overlap:
\* Redact copies the text between them, so an overlap would repeat plaintext.  And
\* there are never more than the budget has left, merges included.
SortedDisjoint ==
    /\ Len(spans) <= MaxFindings
    /\ \A i \in DOMAIN spans : spans[i] \in Span /\ spans[i].start < spans[i].end
    /\ \A i \in 1..(Len(spans) - 1) : spans[i].end <= spans[i + 1].start

Positions(s) == s.start..(s.end - 1)

Reported == UNION {Positions(history[h]) : h \in DOMAIN history}

\* The redacted text is the original with exactly what the detectors reported
\* taken out: every other byte is there once and in its place, no reported byte
\* is, and each run of united findings left one replacement, between the bytes
\* around it.  A failure returns the text as it was and nothing half rebuilt.
RedactsReported ==
    /\ outcome = "redacted" =>
        /\ {redacted[k].at : k \in {m \in DOMAIN redacted : redacted[m].kind = "byte"}}
              = (0..(TextLen - 1)) \ Reported
        /\ {redacted[k].at : k \in {m \in DOMAIN redacted : redacted[m].kind = "replacement"}}
              = DOMAIN spans
        /\ \A k, m \in DOMAIN redacted : k < m =>
              LET From(e) == IF e.kind = "byte" THEN e.at ELSE spans[e.at].start
                  To(e) == IF e.kind = "byte" THEN e.at + 1 ELSE spans[e.at].end
              IN  To(redacted[k]) <= From(redacted[m])
    /\ outcome = "failed" => redacted = Slice(0, TextLen)

\* A reported blocking rule survives every merge: the union that hides its match
\* is attributed to a blocking rule, so the request is still blocked.
BlockingRuleSurvives ==
    \A h \in DOMAIN history : history[h].rule \in Preferred =>
        \E i \in DOMAIN spans :
            /\ Positions(history[h]) \subseteq Positions(spans[i])
            /\ spans[i].rule \in Preferred

=============================================================================
