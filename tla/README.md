# A TLA+ model of the privacy filter plugin

The plugin sits inside a proxy host. Before the host forwards a request to a
language model, it calls the plugin, which finds secrets and personal data in
the request body and replaces them by numbered placeholders, or has the host
refuse the request. This directory holds TLA+ modules that model the plugin's
control, TLC configurations that check them on small instances, and TLAPS proofs
of the most important invariants for every instance. `PROJECT.json` is the index:
which definition models which lines, which run checks which property, the
hazards the properties are aimed at, and for every property a faulty variant of
the code that breaks it.

To check a run, `tlc -config <file>.cfg <module>`; to check the proofs of a
component, `tlapm <component>_proofs.tla`.

## 1. The system and its parts

| part | source | state | operations | model |
|---|---|---|---|---|
| native boundary and lifecycle | `abi.go`, `main.go`, `lifecycle.go` | installed plugin and runtime, `shuttingDown`, two wait groups, the scan slot channel | call (intercept before/after, request.complete, other), init, register/reconfigure, quiesce, shutdown | `PluginABI` |
| request scan cache | `request_cache.go` | map and recency list of scan states, clock | Acquire, Complete, Prune, Clear | `RequestScanCache`, and `ScanStateStore` for what it promises |
| interception | `interceptor.go`, `reject.go` | per request: fingerprint of the last output, numbering renderer | skip, Seen, scan, Render, Record, handleFailure | `Interceptor` |
| redaction loop | `redactor.go`, `internal/privacyengine/budget.go` | activations of the loop over targets and encoded documents, one budget | sanitizeTarget, sanitizeJSONText, sanitizeText, charge | `Inspection` |
| substitution log | `substitution_log.go` | file handle | Record, Close | in `Interceptor` (lines) and `PluginABI` (handle) |
| span collector | `internal/privacyengine/engine.go` | sorted disjoint spans | add, Redact | `SpanCollector` |
| payload scanner and replacer | `payload/` | body, token index, path tree, limits | Scan, Replace | `Payload` |
| rule loading and configuration | `internal/privacyengine/rules.go`, `compatibility.go`, `engine.go`, `config.go`, `main.go` | none after construction | parse, validate, load, merge, build | `PluginBuild` |
| detectors | `internal/privacyengine/secrets.go`, `pii.go` | none | detect | allowlists in `PluginBuild`, credential fields in `Inspection`; the rest is a parameter |
| ML assist | `ml_assist.go` | none | score | its control in `Inspection` |
| protocol walkers | `walker/` | dispositions of the strings of a body: target, opaque, rejected | one walk per protocol, then a final pass over what it left | `Collector`, `Walker`, and one module of walk functions per protocol |

How they interact. The host calls `PrivacyFilterPluginCall` from any number of
threads at once. An interception passes two gates (`nativeInFlight`, `inFlight`),
acquires one of a fixed number of scan slots with a timer, and runs
`interceptRequest` of the plugin it found installed. That acquires the scan state
of the request from the cache of the runtime, which every plugin revision
shares, recognises a body it has sanitized before by its fingerprint, or scans:
the payload scanner indexes the JSON, the walker of the protocol selects the
strings, the engine finds spans, the collector unites them, and the renderer of
the scan state turns them into placeholders. `request.complete` releases the scan
state. Register, quiesce and shutdown run beside the calls, under one mutex that
no call holds while it inspects.

What is hard here: calls and lifecycle operations interleave at every lock; the
clock of the cache is read outside its mutex; passes of one request share a
renderer and a fingerprint, across reconfigurations; deadlines and admission
timers race with late answers; panics unwind through four deferred releases;
some hundred walk functions, each knowing only its own members, must together
dispose of every string of a body once; JSON encoded in strings is inspected
level by level under one budget, and what is replaced inside has to reach the
outside; byte offsets taken by the scanner decide what the replacer overwrites;
the union of overlapping findings decides what stays visible; and rules or
exemptions the engine cannot honour are dropped under two policies. The hazards
are listed with their lines in `PROJECT.json`.

## 2. The modules

**`RequestScanCache`.** `cache` is the map and the recency list, `states` the
contexts of all scan states ever created, `call[t]` the operation thread `t` is
in. The locked section of an operation is one action; `AcquireReadClock` and
`PruneReadClock` are separate, because the code reads the clock before it locks.
`Complete` and `Clear` are single actions. Counters for diagnostics are left out.

**`ScanStateStore`.** The abstract specification of the cache: a bounded, lossy map
from requests to scan states, without clock, list or eviction order. A caller gets
what is stored for its request and context or something new, and the store holds
what it handed out. `RequestScanCache` instantiates it (`Store`): the map without
its access times is the store, and a thread holds a state from the end of
`AcquireLocked` to `Release`. Reading the clock and ticking map to stuttering,
expiry, eviction, pruning, completion and shutdown to dropping.

**`PluginABI`.** One action per locked section or per blocking point of a call and
of a lifecycle operation. `pc[t]` and `req[t]` follow the call of thread `t` from
the first gate to the last deferred release, `life` the lifecycle operation in
progress. `plugins` and `runtimes` record every plugin and runtime ever built, so
that what an old call still refers to, and which logs are open, can be asked.
The cache is abstracted to the set of requests it retains, and an acquisition may
drop any others. The inspection is abstracted to the outcomes its configuration
allows, a panic included. The host issues lifecycle operations one at a time.

**`Interceptor`.** `pass[t]` is a pass over a body, `states` the scan states with
fingerprint and renderer, `entries` what the cache binds a request to. Each lock
of the renderer is a step, so that other passes run between the check whether a text
was produced and the rendering of it. Bodies are short sequences of texts; what the
rules of a policy match is a parameter, and some positions are credential fields. A
policy gives each kind its replacement: a label, which is numbered, or the empty string,
which removes values of the kind. A label and a number stand for the placeholder
`numberedPlaceholder` formats; that different ones are different strings is assumed
(labels a configuration made to look like the numbered form of another are left out).
`known` keeps (history) which texts of its body the request had produced when a pass
began to scan.
Expiry, eviction and completion are one action, `Unbind`, that may happen any time.

**`SpanCollector`.** `spanCollector.add` on sequences, and `Redact`, which rebuilds
the text around the spans or fails as a whole; `history` keeps what was reported,
as the reference the spans and the rebuilt text are compared with. One round of the
loop in `add` is `Round`, one of the loop in `Redact` is `CopyUpTo`, so that both have
a loop invariant to prove.

**`Payload`.** `scan` is the scanner: its stack of open containers, the current path,
the path nodes and tokens it retains with the capacities of their slices, and the
two counters. The body (`lexemes`) is made up while it is scanned: each step chooses
what is read next, so TLC scans every body within the bounds, every prefix of one
included; every step may also meet a cancelled context or malformed input. String
values keep quotes and escapes, so that spans, decoding and encoding mean
something; a key, a number or a punctuation mark is one byte. `Replace` takes any
list of tokens of the document, of tokens of another one and of edited tokens. The
reference for the index is a second definition, by counting brackets.

**`Inspection`.** `stack` holds the activations of `sanitizeJSONTextWithBudget` above
the loop of `sanitizeRequestWithRenderer`; a step handles the next string of the
top one, or returns from it. `budget` is `requestInspectionBudget` with the engine's
`Budget`. Of a text the model keeps what decides control: whether it looks like a
container, is JSON, how many findings it has, whether one blocks, whether it is a
placeholder, what the ML student says, its length. `work` counts what was really
done, charged or not: every scan that was begun, also one that ended in invalid JSON or
at a limit, which the code charges nothing for (`redactor.go:113-116`), and every
finding, also those of the ML student, which no budget knows (`redactor.go:522-529`).
`named` which keys really were above a string, and `before` and `after` how
many sensitive strings a document shows in its original and in its rebuilt form;
these are history. A scan counts no more values than its text has bytes, and one
(`Reads`). Where a scanned text meets a limit and is not JSON either, the limit is
taken to come first.

**`PluginBuild`.** `buildPluginWithRuntime` step by step: configuration, rule
material, the rules of each file one after the other, merge, pinned snapshot,
replacements, log. The custom file is chosen rule by rule while it is read, and
`New` adds it to the embedded one rule by rule (`MergeRule`, a duplicate is an issue
or a rejection); `merged` counts how far it has got. An expression is a model value;
a text says which of them match it, its secret and its line. An allowlist holds its
expressions and stop words as sets, since any one of them decides. `raw` keeps the
files as written, as the reference for the policy. `BuildTypes` states the types of
the configurations, rules and allowlists an instance offers.

**`Collector`.** The contract of the walkers: a string becomes a target, opaque or
rejected through `add`, `markOpaque` and `unsupported`; `ensureStringDisposition`
rejects what is left; a conflict is an internal error; any call may fail because
the budget is exhausted or the context cancelled. The specification
`CollectorSpec` lets a walker do these things in any order.

**`WalkerSteps`, `CommonWalker`, `OpenAIWalker`, `ClaudeWalker`, `GeminiWalker`,
`InteractionsWalker`, `ResponsesWalker`, `ProtocolWalkers`.** Every walk function is
a definition of the source's name: the sequence of its lookups, with what it does
with a member of each kind, its conditions and its switches. `WalkerSteps` defines
the vocabulary, which is that of the collector's methods (`field`, `oneOf`,
`unique`, `markFields`, `addStringField` and so on). What a function does inside
one `case` or loop has a definition of its own, mapped to those lines.

**`Walker`.** `Registry.Walk`: executes the functions on a stack of frames and uses
the actions of `Collector` for every effect. The body is made up while it is
walked: the first lookup of a member decides whether it is there, twice, and of
which kind; the first switch decides the value. So TLC walks every body within
the bounds, and no body is written down. Abstractions, beside those named in the
module: of the kinds that a step treats alike one stands for all, as does one of
the members that a function treats alike and no other step looks up; a duplicate
may be found by any of the calls that count members (they all end the walk); where
a function reports several errors, which one comes first is not kept. Paths,
target kinds and mutability are left out, target scopes are kept.

**`MC*`** instantiate constants and symmetry. **`*_proofs`** hold the theorems about
the module they are named after. Definitions named `...Variant` are faulty versions of the definition
after them; they are part of no specification.

## 3. The runs

| run | question | what it shows |
|---|---|---|
| `cache` | do map, list and identity survive two concurrent callers, and does the cache implement `ScanStateStore`? | yes; in particular an expired state is never reused, although pruning can miss it |
| `abi` | do counters, slots, retained state, logs and replies stay right while the host calls and drives the lifecycle? | yes |
| `abi_live` | does every call, quiesce and shutdown return? | yes, under the fairness below |
| `abi_legacy_host` (violation) | is every open log owned by somebody, with an older host? | no, a refused registration leaves its log open |
| `interceptor` | is nothing sensitive forwarded, numbering consistent, and exactly what the request produced trusted, with two passes at once and bodies submitted again? | yes |
| `interceptor_revisions` | does a reconfiguration carry any verdict over? | no; only what a setting waives is forwarded |
| `interceptor_audit_log` (violation) | is a log line a substitution, as the README says? | not in audit mode |
| `walkers` | do the walk functions of the five protocols treat every string of every body right? | yes: one disposition each, no internal error, text inspected, integrity data untouched, tool data scoped, unknown shapes refused, and nothing met is forgotten |
| `spans` | does the redacted text hide exactly what was reported, and do blocking rules survive? | yes |
| `payload` | does the index describe the body, is what it retains paid for, and does `Replace` change what it was asked to and nothing else? | yes |
| `inspection` | do nested documents expose nothing, keep the meaning of their keys, leave audit mode an observer, and does one budget bound the work, the uncharged work included? | yes; nodes and findings can exceed their limits, by what the charged texts allow |
| `build` | does the report account for every rule, and does the built engine enforce what the files say? | yes |

### Bounds

Two threads are enough for every race of two critical sections; the proofs cover
any number where they exist. `cache`: three requests on two entries make eviction
happen, `TTL = 2` with a clock to 3 lets an entry be live, expire and be
refreshed, three states allow replacement. `abi`: one slot makes two interceptions
compete, two plugins give a reconfiguration, two runtimes a reload after shutdown.
The liveness run uses one plugin and one runtime, since what it asks is about one
drain. `interceptor`: bodies of two texts, a mail address, whose kind has an empty
replacement, and a credential, whose kind is numbered, two values of each, and two scan
states, so that a body can come back to a state that has not produced its placeholders.
`interceptor_revisions`: three policies, single texts. `walkers`: along one way
from the root, required members, first array elements, discriminators and the
optional members that are walked themselves are free; beside it a body has one or
two further optional members or elements (`Bounds`). With the bounds of `MCWalker`
every walk function is entered with at least one of them unspent (one function
that several protocols share, `walkCommonCacheBreakpoint`, is entered with none by
Claude), and every member a function looks up occurs in an accepted body, itself
or represented by one that is treated alike. A function is entered again, below itself,
only at the expense of that member, except that Gemini has a bound with one such return
free (`again`): it reaches a function call among the parts of a function response, whose
arguments are input below output. Items nested in the `steps` of an Interactions item
are reached, tool data inside them is not. `MaxNodes` ends contents that nest in
themselves, and `MaxBefore` keeps second elements to the outer arrays. `spans`:
texts of length 4 admit all orders of overlap, nesting and touching of up to four
candidates, and a budget of two findings is reached and left again by merging.
`payload`: bodies of up to 15 bytes, four values and four levels hold every nesting
of two containers with strings before, in and after them; slices start at capacity
one, so that they grow twice; the limits on depth, nodes, structure, string length,
replacements and replacement bytes are all met within these bodies.
`inspection`: two targets, documents of up to two strings, encoding nested to one
level beyond the one that is allowed; two places for ancestors with two keys in
each context, so that they overflow; every limit can be met, by the sum of two
documents or texts that would each fit. `build`: custom files of up to two rules
make a duplicate in the file and one of an embedded rule; the rules, allowlists and
configurations of the instance go through each check of the code at least once.

`CHECK_DEADLOCK FALSE` is given for `Interceptor`, whose passes stop when the
bound on scan states is reached, for `SpanCollector`, whose behaviours end after
the last candidate, and for `Payload` and `Walker`, which end with their body. The
other models never stop: the host can always call, and an inspection or a build
that is finished stays as it is.

### Fairness

`FairSpec` of `PluginABI` assumes weak fairness of the steps of a started
lifecycle operation and of each thread's started call. Go schedules every runnable
goroutine; the admission timer is armed before the wait, so `AdmissionFails` stays
enabled; an inspection is bounded by budgets and by the deadline of its context.
Nothing is assumed of the host: it need not call, need not stop calling, and need
not start an operation. No deadline is assumed to pass.

## 4. What is proved

Every theorem holds for all values of the constants that satisfy the assumptions of
its module: any number of threads, requests, slots, states and policies, texts and
bodies of any length, any limits. Few of the properties are inductive by themselves; each
proof module names its inductive invariant (`IInv`, or one per layer), shows that
`Init` establishes it and every action preserves it, and that it implies the
properties. The invariants were checked with TLC on the instances of the runs first.

| module | theorems (property) | what makes it inductive |
|---|---|---|
| `PluginABI_proofs` | `TypeOK`, `CountersExact` (and with both that no more scans are admitted than there are slots), `QuiescedMeansDrained`, `RetainedIsReleasable`, `ShutdownReleasesState`, `ForwardOnlyInspected`, `OpenLogsAreOwned` | six layers, below |
| `RequestScanCache_proofs` | `ListMatchesMap`, `StateBelongsToOneRequest`, `NoExpiredReuse`, `ImplementsStore` | states in the cache are apart, and a call holds what its control point says |
| `Interceptor_proofs` | `NothingSensitiveForwarded`, `BlockedNeverForwarded`, `ConsistentPlaceholders`, `PlaceholdersStable`, `ProducedIsTrusted`, `OnlyProducedIsTrusted` | what is remembered as scanned is clean under the policy of its revision; what a pass has been through is sifted; numbers given are at most the next one of their kind, each once |
| `SpanCollector_proofs` | `SortedDisjoint`, `RedactsReported`, `BlockingRuleSurvives` | spans cover exactly what was reported; loop invariants of the two loops |
| `Inspection_proofs` | `NothingExposed`, `AuditObserves`, `NamesSurviveNesting`, `WorkIsBounded` | a statement per activation on the stack, and budget against work |
| `PluginBuild_proofs` | `ReportAccounts`, `PolicyAsWritten` | each loop relates what it has kept and reported to the rules it has gone through |
| `Payload_proofs` | `RetainedIsCharged`, `IndexIsFaithful`, `ReplaceIsExact` | each counter of the scanner is that of what it holds; frames, current path and tokens are where the brackets of the body say; what is spliced are lexemes of the body |
| `Collector_proofs` | `EveryStringDisposed`, `CollectorTypeOK`, for `CollectorSpec` and for `Walker`; `Walker` implements `CollectorSpec`; `UnknownRefused` | rejected means reported; documents and stacks are well formed; a value nobody knows is reported or about to be |

**`PluginABI`.** The layers, each inductive given *Struct*, the second, third and
fourth each given the one before:

1. *Struct*: types, and which fields of a call and of an operation are set at
   which control point (a call that acquires a scan state has a plugin; the plugin
   has a runtime that exists).
2. *Counted*: the counters are the cardinalities of the sets of calls between Add
   and Done. This gives that no Done goes below zero, hence type correctness.
3. *Drained*: after the wait on `nativeInFlight`, no call is inside the outer gate,
   and so none can enter the inner one except methods that never scan; after the
   wait on `inFlight` none is inside at all.
4. *Owned*: what a cache retains belongs to the installed runtime; every call that
   may still acquire uses a plugin of that runtime; a runtime is only dropped after
   it was drained and cleared.
5. *Answered*: where a call stands says what its outcome and its reply can be.
6. *Logged*: where an operation stands says which logs it still has to close.
   `OpenLogsAreOwned` is proved for a host of at least the implemented schema
   (`HostSchema >= Implemented`); for an older one it is false, see section 5.

Assumed: lifecycle operations do not overlap each other, and the panics of the Go
runtime for misuse of a wait group do not occur (which layer 2 justifies for negative
counters).

**`RequestScanCache`.** Every locked section is reduced to one of two relations between
the cache before and after, `Shrinks` (entries were dropped) and `Rebinds` (one request
got an entry at the front, others may have been dropped); the loops over the list are
reasoned about once, in the lemmas that establish them. The refinement of
`ScanStateStore` (`CacheImplementsStore`) then shows that the initial states map and
that each action maps to a step of the store or a stutter.

**`Interceptor`.** The difficulty is that passes of one request interleave in its
renderer, and that a result is remembered as a fingerprint that vouches for a later
body. Other passes only ever add placeholders to a state (`Extends`), so what one pass
has sifted stays sifted; a state is only used by passes of the revision it was created
under, so a remembered body is clean for the policy that asks.

`ConsistentPlaceholders` needs that a renderer numbers one to one: `RendererAfter` gives
a number above all it has given for the kind, so two keys of a kind share a placeholder
only if their replacement is empty, and then all do. `ProducedIsTrusted` is about the
body that leaves, not about the check: the renderer's lock is released between check
and `Render`, but what a pass knew when it began stays produced (`Extends`), so none of its
known texts comes to be rendered. The gap is real for texts that become produced in between: a pass
may number one of those as a value of its own, and the property does not promise
otherwise. `OnlyProducedIsTrusted` is the other direction, for what is forwarded
unscanned because of a fingerprint as well.

**`SpanCollector`.** The search and the loops of `add` and `Redact` are shown correct by
induction over their rounds: the union so far covers the candidate and the spans gone
through and nothing else, and is attributed to a blocking rule if one of them was;
the text copied so far ends where the last span ended. That the spans cover exactly
the reported positions is no property of a run by itself, and all three need it.

**`Inspection`.** `NothingExposed` speaks of the finished request, so the invariant says
of each activation what it has collected so far hides what it must (in redaction mode)
and counts what it must (in audit mode). `NamesSurviveNesting` rests on a lemma about
`mergeStringKeyContexts`, by induction over the keys it appends: the merged context
names a credential exactly when one of its parts did, although places are few.
`WorkIsBounded` compares two ledgers that part: a scan that ends in invalid JSON is in
`work` and not in `budget`. The invariant (`BudgetOK`) bounds the difference by what was
charged for the text the detectors were then given instead: its bytes, and the text
itself. Nodes so stay within their limit, the charged texts and their bytes, and one;
TLC finds that without these terms the bound is exceeded.

**`Collector` and `Walker`.** Whichever walk functions call the collector, in whatever
order and on whatever document, an accepted result disposes of every string in exactly
one way: that adds to the property that whenever a string is rejected something has been
reported, and that a finished walk has looked at every string.
`WalkersKeepTheContract` shows that `Walker` is such a caller, for any programs: every
step of it is one of the collector's. It needs that the members a document records are
nodes of it and that functions walk nodes.

`UnknownRefused` is not a property of any walk functions: one that ignores a type it
does not know would break it. `ProgramsAssumption` states what it needs of them, and
TLC evaluates it on the three hundred functions of the five protocols: every function
that is called exists, and every switch, which no condition guards, reports the values that are not in its table. Then `UnknownInv` is inductive: as long as nothing
is reported, a node with an unknown value is the one that the function on top of the
stack stands at the switch on (`AtSwitch`), from where the only step that does not end
the walk reports it (`SwitchReports`); a step that reads a value comes to stand there
(`DiscriminatorReads`), any other reads none and takes no report back (`Steady`). To apply the
assumption, the invariant follows which functions the frames execute (`Placed`). The
instance bounds the body and what a function may find in it; the theorem does not.

**`PluginBuild`.** A rule is followed through the loops it passes. `IsParsed` relates
what `parseRuleSet` has so far to the rules it has read: a rule is kept exactly when it
can be honoured and no earlier one has its id, one that is not kept is named by an
issue, and the counts of the report add up. `UsableExempts` says that the allowlists
kept exempt a text exactly when those written do; under the policy "error" that is true
only of lists without an unsupported criterion, and `Heard` says that a file with such a
list has given an issue. `IsMerged` and `IsReported` relate the engine and its report to
both files while `New` adds the custom rules one by one. Under "error" every issue is a
rejection, so a build that goes on has none, and under "skip" none is a rejection
(`NotRefused`); so `PolicyAsWritten` holds for both.

**`Payload`.** `RetainedIsCharged` compares the scanner with what it holds, in four
parts: `Typed` (sequences and the fields of the scanner), `Charged` (the charge is the
capacity of the two slices plus the bytes of keys and values, for the two steps that
append, and what was affordable before is within the budget after), `Counted` (nodes
are the values read) and `Nested` (the stack has as many frames as the body read has
open brackets, at each of its prefixes too, since the limit on depth is checked before a
container is opened). Of the strings of the body it is assumed that they are finite
sequences.

`IndexIsFaithful` compares what the scanner finds by keeping a stack and a current path
with a reference that only counts brackets, commas and keys of the body read. It is not
inductive: a token that is right now says nothing of the next one. `IndexInv` adds where
the scanner is: `FramesOK` (the *n*-th frame is the *n*-th open container, was entered at
the path of that container, and has counted its commas), `HereOK` (the current path is
that of the value to be read, or of the innermost container when none is due: this is
what the code restores after each recursive call), `StringsOK` (each token, also of a
container long closed, has the value, span, depth and path of its string) and `Rooted`
(the parent of a path node comes before it). The proof has a lemma for each way a body
grows: what was read before a position decides where it is, and a lexeme that is no
bracket, comma or key of a container leaves that container as it was. Path nodes are only
added, so the paths that frames and tokens refer to stay. The key context is related to
the path by `NamesAlong`: the names `StringKeyContextAt` collects on its way to the root
are those on the path, nearest first, and the bound cuts off the furthest.

`ReplaceIsExact` compares `splice`, which copies what lies between the byte ranges of a
sorted list of edits, with the concatenation of the lexemes of the body, some of them
written again. With the two invariants above it only has to be shown of the step that is
taken:

1. the body is laid out lexeme by lexeme, none of them empty, so that offsets rise
   (`BodyIsLaidOut`, `OffsetsRise`); every token of the index has the offsets of its
   string (`TokensName`, from `IndexInv`), so each accepted request has a position;
2. sorting rearranges the requests (`SortedArranges`), and their positions rise, or two
   neighbours have the same one and overlap (`SortedInPlace`): so that the check for
   overlaps finds the same token given twice, and nothing else;
3. the edits are the changing requests in that order (`EditsInPlace`), and what `Splice`
   has written after the *k*-th edit is the rewritten lexemes up to its position
   (`SpliceWrites`);
4. of the requests for a string there is at most one, so its lexeme is rewritten to the
   value of that request (`RequestsRewrite`); what is written for a value decodes to it
   and is legal JSON (`ReadsBack`).

Of new values too it is assumed that they are finite sequences.

**Induction.** The prover cannot instantiate induction theorems that take an operator.
`SpanCollector_proofs`, `Inspection_proofs` and `PluginBuild_proofs` therefore begin
with induction for a *set* of numbers (`SetInduction`, from the well-foundedness of `<`)
and the existence of a recursively defined function for a step that is a *function*
(`RecursiveFunctionExists`); their loops and folds are recursive functions over their
rounds, and are proved with these two. `Payload_proofs` does the same for the path nodes,
whose recursion goes to a parent further down: induction from all smaller numbers
(`CourseInduction`) and recursive functions over a tree (`TreeFunctionExists`).

Only model-checked:

- liveness (`CallsReturn`, `LifecycleReturns`), which is out of the prover's reach;
- `NoInternalError`, `TextInspected`, `IntegrityPreserved`, `ToolDataScoped` and
  `NothingForgotten`: they too are false for some walk functions, but unlike
  `UnknownRefused` they depend on which members several functions of a protocol look
  up together and in what order, not on each step by itself, so a proof would have to
  go through the hundreds of functions of the five protocols, which is what the run does.

## 5. Disagreements between code and documentation

Shown by a run:

1. A registration that is refused for an old host has already opened its
   substitution log, which is neither closed nor referenced afterwards; only a
   finalizer of the Go runtime may close it later (`abi_legacy_host`).
2. In audit mode the substitution log receives lines although nothing is changed
   (`interceptor_audit_log`).

Seen while modelling:

3. `request_cache.go:395` says a live tail means that every entry is live; callers
   that wait for the mutex with an old clock reading break that order. Consequence:
   an expired entry stays in memory longer, and is not handed out (`NoExpiredReuse`).
4. The README lists native admission exhaustion under failure behaviour, which
   `on_error: passthrough` is said to disable; `abi.go` terminates regardless.
5. A union of spans takes the metadata of the leftmost span, not of the first layer
   as `engine.go:265` says.
6. The README caps recursion at four nested encoded containers (`README.md:171-172`
   of the source); `redactor.go:366` compares a depth that is counted from 0
   (`redactor.go:292-294`), so five are opened inside one another. `WorkIsBounded`
   states the bound of the code.

Observations that contradict no document:

- The Interactions walker selects the text of a part that carries a signature or is
  a thought, which the Gemini walker protects; `IntegrityPreserved` states that rule
  for Gemini only.
- Two replacement names of one kind (`email` and `Email`) are both accepted, and the
  iteration order of a Go map decides which one is used (`Overrides`); both were
  checked for safety, so `PolicyAsWritten` holds for either.
- A text that looks like an encoded container and turns out not to be JSON is parsed
  without a charge to the node and structure budgets, and the findings of the ML student
  are added to a result without one to the budget of findings; `WorkIsBounded` says by
  how much the limits can be exceeded.
- A placeholder that one pass produces while another is between its check and `Render`
  may be numbered by the other as a value of its own (`ProducedIsTrusted`).
- With an empty replacement for secrets, ML assist in enforce mode counts a text and
  does not redact it (`Enforced`): an empty replacement is taken for none.
- With `allow_unsupported_rules` and `gitleaks_mode: replace` an engine without any
  rule can be built, all of them skipped; the report says so.
- In extend mode the global allowlists of the custom file exempt from the embedded
  rules too.
- `StringKeyContextAt` reports the nearest few keys with a name; a credential key
  further out in the same document is not seen. `NamesSurviveNesting` is about the
  keys it does report.

## 6. What is not modelled

Regular expressions, checksums, entropy and noise filters of the detectors and the
features of the ML student are computations over strings and reals out of TLC's
reach; the models take what they find as a parameter. YAML and TOML decoding, files,
the C buffers of the boundary, library paths, build and release scripts are I/O or
tooling. `reject.go` and the HTTP details of a termination are formatting. The
parsed tree of the walkers is `encoding/json`. Lifecycle operations that overlap
each other are not modelled: the plugin relies on the host to issue them one at a
time, and does not defend itself where it does not.

## 7. What is left

The parts that can be modelled faithfully are modelled, and every safety property of
the runs is proved except those listed at the end of section 4. What would extend the
project further:

- overlapping lifecycle operations, if the plugin is to defend itself against a host
  that issues them.
