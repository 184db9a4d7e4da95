------------------------------- MODULE Payload -------------------------------
(***************************************************************************)
(* The JSON scanner and the replacer (package payload).                    *)
(*                                                                         *)
(* Scan reads one body, validates it, and indexes its string values: for   *)
(* each the decoded value, the byte span and a reference into a tree of    *)
(* path nodes.  Replace splices new values into the spans of that index.   *)
(*                                                                         *)
(* The body is not chosen beforehand: every step of the scanner chooses    *)
(* what it reads next, so the behaviours are the bodies.  The recursion of *)
(* value, object and array is the stack of open containers.  One element   *)
(* of the byte sequence stands for a structural character, a literal, a    *)
(* number or a quoted key; string values keep their quotes, characters and *)
(* escapes.  White space lies between the elements and is left out.        *)
(***************************************************************************)
EXTENDS Integers, Sequences, FiniteSets, SequencesExt

CONSTANTS Keys,        \* object keys, decoded
          KeyBytes,    \* KeyBytes[k]: their length
          Normalized,  \* Normalized[k]: normalizeContextKey, or NoKey
          NoKey,       \* the empty context key
          Texts,       \* string contents in a body: sequences of [char, escaped]
          Controls,    \* the characters JSON requires to be escaped
          NewValues,   \* values a caller may put in place of a string
          MaxRequests, \* bound on the replacements of one call
          InitialCapacity, retainedPathNodeBytes, retainedStringTokenBytes,
          MaxContextAncestors,
          MaxBodyBytes, MaxDepth, MaxNodes, MaxStructuralBytes, MaxStringBytes,
          MaxReplacements, MaxReplacementBytes   \* Limits, normalized

ASSUME PayloadConstants ==
    /\ NoKey \notin Keys
    /\ KeyBytes \in [Keys -> Nat]
    /\ DOMAIN Normalized = Keys
    /\ Texts \subseteq Seq(UNION {ToSet(text) : text \in Texts})
    /\ NewValues \subseteq Seq(UNION {ToSet(value) : value \in NewValues})
    /\ InitialCapacity \in Nat \ {0}
    /\ {MaxRequests, retainedPathNodeBytes, retainedStringTokenBytes, MaxContextAncestors} \subseteq Nat
    /\ {MaxBodyBytes, MaxDepth, MaxNodes, MaxStructuralBytes, MaxStringBytes,
        MaxReplacements, MaxReplacementBytes} \subseteq Nat \ {0}

VARIABLES lexemes,   \* what has been read: the body
          scan,      \* the scanner
          status,    \* scanning, scanned, replaced, or an error
          requests,  \* the replacements handed to Replace
          out        \* [body, changed] of Replace

vars == <<lexemes, scan, status, requests, out>>

-----------------------------------------------------------------------------
(* Bytes *)

Quote == "quote"
Escape == "escape"

\* stringValue: the decoded value, and whether the content is legal JSON.
Decode(text) == [i \in DOMAIN text |-> text[i].char]
Legal(text) == \A i \in DOMAIN text : text[i].char \in Controls => text[i].escaped

Raw(text) ==
    <<Quote>> \o FlattenSeq([i \in DOMAIN text |->
                                IF text[i].escaped THEN <<Escape, text[i].char>>
                                                   ELSE <<text[i].char>>]) \o <<Quote>>

\* encodeStringContext escapes what must be and nothing else.
encodeString(value) ==
    <<Quote>> \o FlattenSeq([i \in DOMAIN value |->
                                IF value[i] \in Controls THEN <<Escape, value[i]>>
                                                         ELSE <<value[i]>>]) \o <<Quote>>

Lexeme(kind) == [kind |-> kind, key |-> NoKey, text |-> <<>>]
KeyLexeme(key) == [Lexeme("key") EXCEPT !.key = key]
StringLexeme(text) == [Lexeme("string") EXCEPT !.text = text]

BytesOf(lexeme) ==
    CASE lexeme.kind = "key"    -> <<lexeme.key>>
      [] lexeme.kind = "string" -> Raw(lexeme.text)
      [] OTHER                  -> <<lexeme.kind>>

Bytes(lexs) == FlattenSeq([i \in DOMAIN lexs |-> BytesOf(lexs[i])])

-----------------------------------------------------------------------------
(* The retained index: paths[r] = [parent, segment], 0 being the root *)

Key(k) == [kind |-> "key", key |-> k, index |-> 0]
Index(i) == [kind |-> "index", key |-> NoKey, index |-> i]

NextRetainedCapacity(current) == IF current = 0 THEN InitialCapacity ELSE 2 * current

\* The capacity needed to append one more to a slice of length n.
CapacityFor(capacity, n) == IF n = capacity THEN NextRetainedCapacity(capacity) ELSE capacity

PathCharge(s, bytes) ==
    bytes + (CapacityFor(s.pathCap, Len(s.paths)) - s.pathCap) * retainedPathNodeBytes

\* Faulty variant: a slice that grows is charged for one element.
StringChargeOneVariant(s, bytes) == bytes + retainedStringTokenBytes

StringCharge(s, bytes) ==
    bytes + (CapacityFor(s.stringCap, Len(s.strings)) - s.stringCap) * retainedStringTokenBytes

\* retain
Affordable(s, charge) == charge <= MaxStructuralBytes - s.structuralBytes

\* appendPath; the scanner goes on below the new node.
AppendPath(s, segment, charge) ==
    [s EXCEPT !.paths = Append(@, [parent |-> s.path, segment |-> segment]),
              !.pathCap = CapacityFor(@, Len(s.paths)),
              !.structuralBytes = @ + charge,
              !.path = Len(s.paths) + 1]

\* appendString
AppendString(s, token, charge) ==
    [s EXCEPT !.strings = Append(@, token),
              !.stringCap = CapacityFor(@, Len(s.strings)),
              !.structuralBytes = @ + charge]

MaterializePath(s, ref) ==
    LET path[r \in 0..Len(s.paths)] ==
            IF r = 0 THEN <<>> ELSE Append(path[s.paths[r].parent], s.paths[r].segment)
    IN  path[ref]

\* A key that normalizeContextKey has a name for.
Named(segment) == segment.kind = "key" /\ Normalized[segment.key] # NoKey

\* The object keys on the way from ref to the root, normalized, nearest first.
KeysAbove(s, ref) ==
    LET above[r \in 0..Len(s.paths)] ==
            IF r = 0 THEN <<>>
            ELSE IF Named(s.paths[r].segment)
                 THEN <<Normalized[s.paths[r].segment.key]>> \o above[s.paths[r].parent]
                 ELSE above[s.paths[r].parent]
    IN  above[ref]

StringKeyContextAt(s, n) ==
    LET ref == s.strings[n].pathRef
        node == s.paths[ref]
        above == KeysAbove(s, node.parent)
    IN  IF ref = 0 THEN [immediate |-> NoKey, ancestors |-> <<>>]
        ELSE [immediate |-> IF node.segment.kind = "key" THEN Normalized[node.segment.key] ELSE NoKey,
              ancestors |-> SubSeq(above, 1, IF Len(above) < MaxContextAncestors
                                                THEN Len(above) ELSE MaxContextAncestors)]

-----------------------------------------------------------------------------
(* Scan *)

NewScanner == [expect |-> "value", stack |-> <<>>, path |-> 0, paths |-> <<>>, pathCap |-> 0,
               strings |-> <<>>, stringCap |-> 0, structuralBytes |-> 0, nodes |-> 0]

Init ==
    /\ lexemes = <<>>
    /\ scan = NewScanner
    /\ status = "scanning"
    /\ requests = <<>>
    /\ out = [body |-> <<>>, changed |-> FALSE]

Depth == Len(scan.stack) + 1
Top == Last(scan.stack)
Parent == IF scan.stack = <<>> THEN "invalid" ELSE Top.kind

Fail(err) ==
    /\ status' = err
    /\ UNCHANGED <<lexemes, scan, requests, out>>

\* The body is within MaxBodyBytes, which Scan tests before it reads.
Read(lexs) ==
    /\ Len(Bytes(lexemes \o lexs)) <= MaxBodyBytes
    /\ lexemes' = lexemes \o lexs
    /\ UNCHANGED <<status, requests, out>>

BodyTooLarge == lexemes = <<>> /\ status = "scanning" /\ Fail("ErrBodyTooLarge")

\* The context is cancelled: every step of the scanner and of Replace may be
\* the one that sees it.
Cancelled == status \in {"scanning", "scanned"} /\ Fail("context")

\* Anything else than what the grammar allows next, the end of the body included.
Malformed == status = "scanning" /\ Fail("ErrInvalidJSON")

\* Faulty variant: the path of the value just read is not restored.
AfterStalePathVariant(s, stack) ==
    [s EXCEPT !.expect = IF stack = <<>> THEN "end" ELSE "after", !.stack = stack]

\* Where the scanner goes on when a value is complete.
After(s, stack) ==
    [s EXCEPT !.expect = IF stack = <<>> THEN "end" ELSE "after",
              !.stack = stack,
              !.path = IF stack = <<>> THEN 0 ELSE Last(stack).path]

\* The checks at the head of value().
ValueAllowed == Depth <= MaxDepth /\ scan.nodes < MaxNodes

ExpectValue == status = "scanning" /\ scan.expect = "value"

ValueRefused ==
    /\ ExpectValue
    /\ ~ValueAllowed
    /\ Fail(IF Depth > MaxDepth THEN "ErrDepthLimit" ELSE "ErrNodeLimit")

OpenContainer(kind) ==
    /\ ExpectValue /\ ValueAllowed
    /\ Read(<<Lexeme(kind)>>)
    /\ scan' = [scan EXCEPT !.nodes = @ + 1, !.expect = "first",
                            !.stack = Append(@, [kind |-> kind, index |-> 0, path |-> scan.path])]

ReadScalar ==
    /\ ExpectValue /\ ValueAllowed
    /\ Read(<<Lexeme("scalar")>>)
    /\ scan' = After([scan EXCEPT !.nodes = @ + 1], scan.stack)

\* A string that is too long, or that the retained index has no room for.
StringRefused(text) ==
    /\ ExpectValue /\ ValueAllowed /\ Legal(text)
    /\ \/ Len(text) > MaxStringBytes /\ Fail("ErrStringTooLarge")
       \/ /\ Len(text) <= MaxStringBytes
          /\ ~Affordable(scan, StringCharge(scan, Len(text)))
          /\ Fail("ErrStructuralLimit")

ReadString(text) ==
    LET start == Len(Bytes(lexemes))
        token == [value |-> Decode(text), start |-> start, end |-> start + Len(Raw(text)),
                  parentKind |-> Parent, depth |-> Depth, pathRef |-> scan.path]
        charge == StringCharge(scan, Len(text))
    IN  /\ ExpectValue /\ ValueAllowed
        /\ Legal(text) /\ Len(text) <= MaxStringBytes /\ Affordable(scan, charge)
        /\ Read(<<StringLexeme(text)>>)
        /\ scan' = After(AppendString([scan EXCEPT !.nodes = @ + 1], token, charge), scan.stack)

\* The scanner stands before a member or an element.
ExpectChild(kind) ==
    status = "scanning" /\ scan.expect \in {"first", "next"} /\ Parent = kind

MemberRefused(k) ==
    /\ ExpectChild("{")
    /\ \/ KeyBytes[k] > MaxStringBytes /\ Fail("ErrStringTooLarge")
       \/ /\ KeyBytes[k] <= MaxStringBytes
          /\ ~Affordable(scan, PathCharge(scan, KeyBytes[k]))
          /\ Fail("ErrStructuralLimit")

\* A key and its colon.
EnterMember(k) ==
    LET charge == PathCharge(scan, KeyBytes[k])
    IN  /\ ExpectChild("{")
        /\ KeyBytes[k] <= MaxStringBytes /\ Affordable(scan, charge)
        /\ Read(<<KeyLexeme(k), Lexeme(":")>>)
        /\ scan' = [AppendPath(scan, Key(k), charge) EXCEPT !.expect = "value"]

ElementRefused ==
    /\ ExpectChild("[")
    /\ ~Affordable(scan, PathCharge(scan, 0))
    /\ Fail("ErrStructuralLimit")

EnterElement ==
    LET charge == PathCharge(scan, 0)
    IN  /\ ExpectChild("[")
        /\ Affordable(scan, charge)
        /\ scan' = [AppendPath(scan, Index(Top.index), charge) EXCEPT !.expect = "value"]
        /\ UNCHANGED <<lexemes, status, requests, out>>

Comma ==
    /\ status = "scanning" /\ scan.expect = "after"
    /\ Read(<<Lexeme(",")>>)
    /\ scan' = [scan EXCEPT !.expect = "next", !.stack[Len(scan.stack)].index = @ + 1]

Closing(kind) == IF kind = "{" THEN "}" ELSE "]"

Close ==
    /\ status = "scanning" /\ scan.stack # <<>> /\ scan.expect \in {"first", "after"}
    /\ Read(<<Lexeme(Closing(Top.kind))>>)
    /\ scan' = After(scan, Front(scan.stack))

Scanned ==
    /\ status = "scanning" /\ scan.expect = "end"
    /\ status' = "scanned"
    /\ UNCHANGED <<lexemes, scan, requests, out>>

-----------------------------------------------------------------------------
(* Replace *)

\* StringTokenAt: a token of this document.
TokenAt(n) ==
    [document |-> "this", ordinal |-> n, path |-> MaterializePath(scan, scan.strings[n].pathRef),
     value |-> scan.strings[n].value, start |-> scan.strings[n].start, end |-> scan.strings[n].end,
     parentKind |-> scan.strings[n].parentKind, depth |-> scan.strings[n].depth]

\* The tokens a caller may hold: of this document, of another one, or edited.
Tokens ==
    {TokenAt(n) : n \in DOMAIN scan.strings} \cup
    (IF scan.strings = <<>> THEN {}
     ELSE {[TokenAt(1) EXCEPT !.document = "other"], [TokenAt(1) EXCEPT !.end = @ + 1]})

\* canonicalToken
Canonical(token) ==
    token.document = "this" /\ token.ordinal \in DOMAIN scan.strings /\ token = TokenAt(token.ordinal)

Before(reqs, i, j) ==
    LET a == reqs[i].token
        b == reqs[j].token
    IN  a.start < b.start \/ (a.start = b.start /\ (a.end < b.end \/ (a.end = b.end /\ i < j)))

\* Faulty variant: the candidates stay in the order of the caller.
SortedUnsortedVariant(reqs) == reqs

\* A request comes after as many as are before it; the code leaves open how two of
\* one span are ordered, and refuses them next.
Sorted(reqs) ==
    LET Preceding(i) == Cardinality({j \in DOMAIN reqs : Before(reqs, j, i)})
    IN  [n \in DOMAIN reqs |-> reqs[CHOOSE i \in DOMAIN reqs : Preceding(i) = n - 1]]

Overlapping(sorted) ==
    \E n \in 1..(Len(sorted) - 1) : sorted[n + 1].token.start < sorted[n].token.end

Changes(r) == r.value # r.token.value

EditOf(r) == [start |-> r.token.start, end |-> r.token.end, encoded |-> encodeString(r.value)]

\* The replacements that change a decoded value, as edits of the body.
Edits(sorted) ==
    LET edits[n \in 0..Len(sorted)] ==
            IF n = 0 THEN <<>>
            ELSE IF Changes(sorted[n]) THEN Append(edits[n - 1], EditOf(sorted[n]))
            ELSE edits[n - 1]
    IN  edits[Len(sorted)]

EncodedBytes(edits) == FoldLeft(LAMBDA total, e : total + Len(e.encoded), 0, edits)

Splice(body, edits) ==
    LET previousEnd(n) == IF n = 0 THEN 0 ELSE edits[n].end
        spliced[n \in 0..Len(edits)] ==
            IF n = 0 THEN <<>>
            ELSE spliced[n - 1] \o SubSeq(body, previousEnd(n - 1) + 1, edits[n].start) \o edits[n].encoded
    IN  spliced[Len(edits)] \o SubSeq(body, previousEnd(Len(edits)) + 1, Len(body))

Unacceptable(r) == ~Canonical(r.token) \/ Len(r.value) > MaxStringBytes

\* The first request that is refused decides the error.
FirstError(reqs) ==
    LET refused == {i \in DOMAIN reqs : Unacceptable(reqs[i])}
        r == reqs[CHOOSE i \in refused : \A j \in refused : i <= j]
    IN  IF ~Canonical(r.token) THEN "ErrInvalidToken" ELSE "ErrStringTooLarge"

Refusal(reqs) ==
    IF Len(reqs) > MaxReplacements THEN "ErrReplacementLimit"
    ELSE IF \E i \in DOMAIN reqs : Unacceptable(reqs[i]) THEN FirstError(reqs)
    ELSE IF Overlapping(Sorted(reqs)) THEN "ErrOverlappingReplacements"
    ELSE IF EncodedBytes(Edits(Sorted(reqs))) > MaxReplacementBytes THEN "ErrReplacementLimit"
    ELSE "none"

ReplaceFails(reqs) ==
    /\ status = "scanned"
    /\ Refusal(reqs) # "none"
    /\ status' = Refusal(reqs)
    /\ requests' = reqs
    /\ UNCHANGED <<lexemes, scan, out>>

Replace(reqs) ==
    LET body == Bytes(lexemes)
        edits == Edits(Sorted(reqs))
    IN  /\ status = "scanned"
        /\ Refusal(reqs) = "none"
        /\ status' = "replaced"
        /\ requests' = reqs
        /\ out' = IF edits = <<>> THEN [body |-> body, changed |-> FALSE]
                                  ELSE [body |-> Splice(body, edits), changed |-> TRUE]
        /\ UNCHANGED <<lexemes, scan>>

Requests == [token : Tokens, value : NewValues]

\* What a caller may hand over: any short list, or one longer than the limit.
RequestLists ==
    BoundedSeq(Requests, MaxRequests) \cup {[i \in 1..(MaxReplacements + 1) |-> r] : r \in Requests}

Next ==
    \/ BodyTooLarge \/ Cancelled \/ Malformed \/ Scanned
    \/ ValueRefused \/ ReadScalar
    \/ \E kind \in {"{", "["} : OpenContainer(kind)
    \/ \E text \in Texts : ReadString(text) \/ StringRefused(text)
    \/ \E k \in Keys : EnterMember(k) \/ MemberRefused(k)
    \/ EnterElement \/ ElementRefused
    \/ Comma \/ Close
    \/ /\ status = "scanned"
       /\ \E reqs \in RequestLists : Replace(reqs) \/ ReplaceFails(reqs)

Spec == Init /\ [][Next]_vars

-----------------------------------------------------------------------------
(* A reference for the index, by counting brackets in what was read *)

OpensAt(lexs, i) == lexs[i].kind \in {"{", "["}
ClosesAt(lexs, i) == lexs[i].kind \in {"}", "]"}

Level(lexs, i) ==
    Cardinality({j \in 1..(i - 1) : OpensAt(lexs, j)}) - Cardinality({j \in 1..(i - 1) : ClosesAt(lexs, j)})

\* Position i lies inside of the container opened at j, which is the n-th one
\* from the root.
Inside(lexs, j, i, n) ==
    /\ OpensAt(lexs, j) /\ Level(lexs, j) = n - 1
    /\ \A m \in (j + 1)..(i - 1) : Level(lexs, m) >= n

\* The commas of the container opened at j that stand before position i.
Commas(lexs, j, i, n) == {m \in (j + 1)..(i - 1) : lexs[m].kind = "," /\ Level(lexs, m) = n}

\* k is the last key of that container before position i.
IsLastKey(lexs, k, j, i, n) ==
    /\ k \in (j + 1)..(i - 1) /\ lexs[k].kind = "key" /\ Level(lexs, k) = n
    /\ \A m \in (k + 1)..(i - 1) : ~(lexs[m].kind = "key" /\ Level(lexs, m) = n)

\* The n-th segment of the path of position i.
IsSegment(segment, lexs, i, n) ==
    \E j \in 1..(i - 1) :
       /\ Inside(lexs, j, i, n)
       /\ IF lexs[j].kind = "["
          THEN segment = Index(Cardinality(Commas(lexs, j, i, n)))
          ELSE \E k \in 1..(i - 1) : IsLastKey(lexs, k, j, i, n) /\ segment = Key(lexs[k].key)

IsPath(path, lexs, i) ==
    /\ Len(path) = Level(lexs, i)
    /\ \A n \in 1..Len(path) : IsSegment(path[n], lexs, i, n)

\* The k-th name above the last segment of a path is its k-th ancestor.
IsContext(context, path) ==
    LET named == {n \in 1..(Len(path) - 1) : Named(path[n])}
        Rank(n) == Cardinality({m \in named : m >= n})
    IN  /\ context.immediate = IF path # <<>> /\ Named(path[Len(path)])
                               THEN Normalized[path[Len(path)].key] ELSE NoKey
        /\ Len(context.ancestors) =
              IF Cardinality(named) < MaxContextAncestors THEN Cardinality(named) ELSE MaxContextAncestors
        /\ \A n \in named :
              Rank(n) <= MaxContextAncestors => context.ancestors[Rank(n)] = Normalized[path[n].key]

\* How many of the first n lexemes are strings.
StringsIn(lexs, n) == Cardinality({j \in 1..n : lexs[j].kind = "string"})

-----------------------------------------------------------------------------
(* Properties *)

\* The index is the document: at every moment of the scan it holds the string
\* values read so far, in order, each with its decoded value, the span of its
\* raw bytes, its full path, its depth and the bounded key context the
\* detectors decide by, whatever containers were opened and left before it.
IndexIsFaithful ==
    status \in {"scanning", "scanned"} =>
    /\ Len(scan.strings) = StringsIn(lexemes, Len(lexemes))
    /\ \A i \in DOMAIN lexemes : lexemes[i].kind = "string" =>
          LET n == StringsIn(lexemes, i)
              token == scan.strings[n]
              path == MaterializePath(scan, token.pathRef)
          IN  /\ token.value = Decode(lexemes[i].text)
              /\ token.start = Len(Bytes(SubSeq(lexemes, 1, i - 1)))
              /\ SubSeq(Bytes(lexemes), token.start + 1, token.end) = BytesOf(lexemes[i])
              /\ token.depth = Level(lexemes, i) + 1
              /\ IsPath(path, lexemes, i)
              /\ IsContext(StringKeyContextAt(scan, n), path)

\* The bytes of the keys and of the values that are retained, and the values read.
KeyLength(segment) == IF segment.kind = "key" THEN KeyBytes[segment.key] ELSE 0

RetainedKeyBytes(s) ==
    UNION {{r} \X (1..KeyLength(s.paths[r].segment)) : r \in DOMAIN s.paths}

RetainedValueBytes(s) == UNION {{n} \X DOMAIN s.strings[n].value : n \in DOMAIN s.strings}

ValuesRead == {i \in DOMAIN lexemes : lexemes[i].kind \in {"{", "[", "scalar", "string"}}

\* Everything the scanner retains is paid for before it is allocated and stays
\* within the limits: path nodes and tokens at the capacity of their slices,
\* keys and values at their length, every value a node, every level a depth.
RetainedIsCharged ==
    status \in {"scanning", "scanned"} =>
    /\ scan.structuralBytes =
          scan.pathCap * retainedPathNodeBytes + scan.stringCap * retainedStringTokenBytes
          + Cardinality(RetainedKeyBytes(scan)) + Cardinality(RetainedValueBytes(scan))
    /\ scan.structuralBytes <= MaxStructuralBytes
    /\ Len(scan.paths) <= scan.pathCap /\ Len(scan.strings) <= scan.stringCap
    /\ scan.nodes = Cardinality(ValuesRead) /\ scan.nodes <= MaxNodes
    /\ \A i \in DOMAIN lexemes : Level(lexemes, i) <= MaxDepth

\* The value the caller asked for at string n, or the one it has.
Wanted(n, old) ==
    LET asked == {i \in DOMAIN requests : requests[i].token.ordinal = n}
    IN  IF asked = {} THEN old ELSE requests[CHOOSE i \in asked : TRUE].value

\* The bytes of the body when only the strings that really change are written
\* again, in place.
Rewritten(i) ==
    LET n == StringsIn(lexemes, i)
        old == Decode(lexemes[i].text)
    IN  IF lexemes[i].kind # "string" \/ Wanted(n, old) = old
        THEN BytesOf(lexemes[i]) ELSE encodeString(Wanted(n, old))

\* Replace changes exactly the strings it was asked to change and no other byte,
\* whatever the order of the requests; each new string reads back as the value
\* asked for; and a token of another document, an edited one, or the same token
\* twice never reaches the body, and nothing else is refused as if it were one.
ReplaceIsExact ==
    /\ status = "replaced" =>
        /\ out.body = FlattenSeq([i \in DOMAIN lexemes |-> Rewritten(i)])
        /\ out.changed <=> \E i \in DOMAIN requests : Changes(requests[i])
        /\ \A i \in DOMAIN requests :
              /\ requests[i].token = TokenAt(requests[i].token.ordinal)
              /\ \A j \in DOMAIN requests :
                    requests[i].token.ordinal = requests[j].token.ordinal => i = j
              /\ Changes(requests[i]) =>
                    \E text \in [DOMAIN requests[i].value ->
                                  [char : ToSet(requests[i].value), escaped : BOOLEAN]] :
                        /\ Legal(text) /\ Decode(text) = requests[i].value
                        /\ Raw(text) = encodeString(requests[i].value)
    /\ status = "ErrInvalidToken" =>
        \E i \in DOMAIN requests : requests[i].token # TokenAt(requests[i].token.ordinal)
    /\ status = "ErrOverlappingReplacements" =>
        \E i, j \in DOMAIN requests : i # j /\ requests[i].token = requests[j].token
=============================================================================
