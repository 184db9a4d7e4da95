------------------------------ MODULE PluginABI ------------------------------
(***************************************************************************)
(* The native boundary of the plugin (abi.go, with main.go and             *)
(* lifecycle.go): what the host's concurrent calls and its lifecycle       *)
(* operations do to the state they share.                                  *)
(*                                                                         *)
(* Any number of host threads call PrivacyFilterPluginCall at the same     *)
(* time.  An interception is counted in nativeInFlight, waits for one of   *)
(* the scan slots, is counted in inFlight while it uses the plugin it      *)
(* found installed, and undoes all of that through deferred calls, in      *)
(* reverse order, each a step of its own here.  The host drives the        *)
(* lifecycle (init, register or reconfigure, quiesce, shutdown) from one   *)
(* thread, one operation after the other; every locked section of an       *)
(* operation is one action.                                                *)
(*                                                                         *)
(* The request cache is abstracted to the set of request identifiers it    *)
(* retains (RequestScanCache models how it decides which to drop), and the *)
(* inspection to the outcomes its configuration allows.                    *)
(***************************************************************************)
EXTENDS Integers, Sequences, FiniteSets

CONSTANTS Threads,       \* host threads that issue calls
          RequestIDs,    \* non-empty request identifiers
          NoRequestID,   \* the empty request identifier
          Configs,       \* plugin configurations the host may register
          HostSchema,    \* schema version the host announces
          Slots,         \* nativeScanConcurrency
          MaxPlugins,    \* bound on the plugins ever built
          MaxRuntimes    \* bound on the runtimes ever created

Implemented == 2         \* implementedSchemaVersion
Legacy == 1              \* legacySchemaVersion

Config == [onError : {"block", "passthrough"}, blockRules : BOOLEAN, logged : BOOLEAN]

ASSUME ABIConstants ==
    /\ IsFiniteSet(Threads)
    /\ NoRequestID \notin RequestIDs
    /\ Configs \subseteq Config
    /\ HostSchema \in Nat
    /\ Slots \in Nat
    /\ MaxPlugins \in Nat
    /\ MaxRuntimes \in Nat

VARIABLES host,          \* whether the host API table is set
          plugin,        \* installed plugin, 0 when nil
          runtime,       \* installed runtime, 0 when nil
          shuttingDown,
          native,        \* the WaitGroup nativeInFlight
          inFlight,      \* the WaitGroup inFlight
          slots,         \* occupied scan slots
          plugins,       \* plugins[p]: configuration, runtime and log of plugin p
          runtimes,      \* number of runtimes created
          retained,      \* retained[r]: requests the cache of runtime r holds
          life,          \* the lifecycle operation in progress
          pc,            \* pc[t]: where the call of thread t stands
          req            \* req[t]: the call of thread t, or its last one when it is idle

shared == <<host, plugin, runtime, shuttingDown>>
counters == <<native, inFlight, slots>>
objects == <<plugins, runtimes, retained>>
vars == <<host, plugin, runtime, shuttingDown, native, inFlight, slots,
          plugins, runtimes, retained, life, pc, req>>

-----------------------------------------------------------------------------
Intercepts == {"before", "after"}
Methods == Intercepts \cup {"complete", "unknown"}

\* abiFailureEnvelope: an interception is answered by an active termination,
\* every other method by an error envelope.
Failure(method) == IF method \in Intercepts THEN "terminate" ELSE "error"

NoCall == [method |-> "unknown", rid |-> NoRequestID, plugin |-> 0, target |-> 0,
           late |-> FALSE, outcome |-> "none", reply |-> "none"]

IdleLife == [pc |-> "idle", runtime |-> 0, built |-> 0, previous |-> 0]

Init ==
    /\ host = FALSE /\ plugin = 0 /\ runtime = 0 /\ shuttingDown = FALSE
    /\ native = 0 /\ inFlight = 0 /\ slots = 0
    /\ plugins = <<>>
    /\ runtimes = 0
    /\ retained = [r \in 1..MaxRuntimes |-> {}]
    /\ life = IdleLife
    /\ pc = [t \in Threads |-> "idle"]
    /\ req = [t \in Threads |-> NoCall]

-----------------------------------------------------------------------------
(* PrivacyFilterPluginCall, one thread *)

\* The call a thread starts; a request identifier matters to two methods only.
NewCall(method, rid) == [NoCall EXCEPT !.method = method, !.rid = rid]

Calls == {NewCall(method, rid) : method \in {"before", "complete"},
                                 rid \in RequestIDs \cup {NoRequestID}}
         \cup {NewCall(method, NoRequestID) : method \in {"after", "unknown"}}

\* The payload exceeds maxABIRequestBytes, or its buffer is nil.
RejectPayload(t, c) ==
    /\ pc[t] = "idle"
    /\ req' = [req EXCEPT ![t] = [c EXCEPT !.reply = Failure(c.method)]]
    /\ UNCHANGED <<shared, counters, objects, life, pc>>

\* Faulty variant: the gates do not look at shuttingDown.
AvailableWhileQuiescedVariant == plugin # 0

Available == ~shuttingDown /\ plugin # 0

\* An interception arrives and takes the first gate.
BeginNativeScanCall(t, c) ==
    /\ pc[t] = "idle"
    /\ c.method \in Intercepts
    /\ \/ /\ Available
          /\ native' = native + 1
          /\ pc' = [pc EXCEPT ![t] = "admit"]
          /\ req' = [req EXCEPT ![t] = c]
       \/ /\ ~Available
          /\ req' = [req EXCEPT ![t] = [c EXCEPT !.reply = Failure(c.method)]]
          /\ UNCHANGED <<native, pc>>
    /\ UNCHANGED <<shared, inFlight, slots, objects, life>>

\* Another method goes straight to handlePrivacyFilterABIMethod.
CallUnknownMethod(t, c) ==
    /\ pc[t] = "idle"
    /\ c.method = "unknown"
    /\ pc' = [pc EXCEPT ![t] = "handle"]
    /\ req' = [req EXCEPT ![t] = c]
    /\ UNCHANGED <<shared, counters, objects, life>>

\* acquireNativeScan: the send on the slot channel succeeds.
AcquireNativeScan(t) ==
    /\ pc[t] = "admit"
    /\ slots < Slots
    /\ slots' = slots + 1
    /\ pc' = [pc EXCEPT ![t] = "handle"]
    /\ UNCHANGED <<shared, native, inFlight, objects, life, req>>

\* Faulty variant: no admission timer, only the deadline of the call.
NoAdmissionTimerVariant(t) ==
    /\ pc[t] = "admit"
    /\ req[t].late
    /\ pc' = [pc EXCEPT ![t] = "doneNative"]
    /\ req' = [req EXCEPT ![t].reply = Failure(req[t].method)]
    /\ UNCHANGED <<shared, counters, objects, life>>

\* acquireNativeScan: the admission timer or the deadline fires first.
AdmissionFails(t) ==
    /\ pc[t] = "admit"
    /\ pc' = [pc EXCEPT ![t] = "doneNative"]
    /\ req' = [req EXCEPT ![t].reply = Failure(req[t].method)]
    /\ UNCHANGED <<shared, counters, objects, life>>

\* The context of the call passes its deadline.
DeadlinePasses(t) ==
    /\ req[t].method \in Intercepts
    /\ pc[t] \in {"handle", "inspect", "scan", "donePlugin", "settle"}
    /\ ~req[t].late
    /\ req' = [req EXCEPT ![t].late = TRUE]
    /\ UNCHANGED <<shared, counters, objects, life, pc>>

BeginPluginCall(t) ==
    /\ pc[t] = "handle"
    /\ \/ /\ Available
          /\ inFlight' = inFlight + 1
          /\ pc' = [pc EXCEPT ![t] = "inspect"]
          /\ req' = [req EXCEPT ![t].plugin = plugin]
       \/ /\ ~Available
          /\ pc' = [pc EXCEPT ![t] = "settle"]
          /\ req' = [req EXCEPT ![t].outcome = "error"]
          /\ UNCHANGED inFlight
    /\ UNCHANGED <<shared, native, slots, objects, life>>

\* The interceptor answers without a scan state: the payload does not decode, a
\* skip rule or an empty body decides, the after-auth stage passes everything
\* through, or the method is unknown.
AnswerWithoutScan(t) ==
    /\ pc[t] = "inspect"
    /\ \E o \in {"error", "forward", "terminate"} :
         /\ req[t].method = "unknown" => o = "error"
         /\ o = "terminate" => /\ req[t].method = "before"
                               /\ plugins[req[t].plugin].config.onError = "block"
         /\ req' = [req EXCEPT ![t].outcome = o]
    /\ pc' = [pc EXCEPT ![t] = "donePlugin"]
    /\ UNCHANGED <<shared, counters, objects, life>>

\* The before-auth interception acquires the scan state of the request from
\* the cache of its plugin; expiry and eviction may drop others.  A request
\* without an identifier gets a state the cache does not retain.
AcquireScanState(t) ==
    /\ pc[t] = "inspect"
    /\ req[t].method = "before"
    /\ LET r == plugins[req[t].plugin].runtime
       IN \/ /\ req[t].rid # NoRequestID
             /\ \E kept \in SUBSET retained[r] :
                  retained' = [retained EXCEPT ![r] = kept \cup {req[t].rid}]
          \/ /\ req[t].rid = NoRequestID
             /\ UNCHANGED retained
    /\ pc' = [pc EXCEPT ![t] = "scan"]
    /\ UNCHANGED <<shared, counters, plugins, runtimes, life, req>>

\* handleFailure: an error terminates under on_error: block, and a blocking
\* rule terminates under either setting.
MayTerminate(config) == config.onError = "block" \/ config.blockRules

ScanReturns(t) ==
    /\ pc[t] = "scan"
    /\ \E o \in {"forward", "terminate"} :
         /\ o = "terminate" => MayTerminate(plugins[req[t].plugin].config)
         /\ req' = [req EXCEPT ![t].outcome = o]
    /\ pc' = [pc EXCEPT ![t] = "donePlugin"]
    /\ UNCHANGED <<shared, counters, objects, life>>

\* Faulty variant: inFlight.Done() is not deferred, so a panic skips it.
PanicSkipsDoneVariant(t) ==
    /\ pc[t] \in {"inspect", "scan"}
    /\ req' = [req EXCEPT ![t].outcome = "panic"]
    /\ pc' = [pc EXCEPT ![t] = "settle"]
    /\ UNCHANGED <<shared, counters, objects, life>>

\* A panic below the interceptor starts the unwinding of the deferred calls.
ScanPanics(t) ==
    /\ pc[t] \in {"inspect", "scan"}
    /\ req' = [req EXCEPT ![t].outcome = "panic"]
    /\ pc' = [pc EXCEPT ![t] = "donePlugin"]
    /\ UNCHANGED <<shared, counters, objects, life>>

\* Faulty variant: Done() runs twice.
DoneTwiceVariant(t) ==
    /\ pc[t] = "donePlugin"
    /\ inFlight' = inFlight - 2
    /\ pc' = [pc EXCEPT ![t] = "settle"]
    /\ UNCHANGED <<shared, native, slots, objects, life, req>>

\* The deferred inFlight.Done().
DonePluginCall(t) ==
    /\ pc[t] = "donePlugin"
    /\ inFlight' = inFlight - 1
    /\ pc' = [pc EXCEPT ![t] = "settle"]
    /\ UNCHANGED <<shared, native, slots, objects, life, req>>

\* Faulty variant: the deadline is not looked at again after the inspection.
SettleLateVariant(t) ==
    /\ pc[t] = "settle"
    /\ req' = [req EXCEPT ![t].reply =
                  IF req[t].outcome \in {"error", "panic"}
                  THEN Failure(req[t].method) ELSE req[t].outcome]
    /\ pc' = [pc EXCEPT ![t] = IF req[t].method \in Intercepts THEN "release" ELSE "idle"]
    /\ UNCHANGED <<shared, counters, objects, life>>

\* Deadline, then error, then the interceptor's own answer decide the reply.
Settle(t) ==
    /\ pc[t] = "settle"
    /\ req' = [req EXCEPT ![t].reply =
                  IF req[t].late \/ req[t].outcome \in {"error", "panic"}
                  THEN Failure(req[t].method) ELSE req[t].outcome]
    /\ pc' = [pc EXCEPT ![t] = IF req[t].method \in Intercepts THEN "release" ELSE "idle"]
    /\ UNCHANGED <<shared, counters, objects, life>>

\* The deferred receive from the slot channel.
ReleaseNativeScan(t) ==
    /\ pc[t] = "release"
    /\ slots' = slots - 1
    /\ pc' = [pc EXCEPT ![t] = "doneNative"]
    /\ UNCHANGED <<shared, native, inFlight, objects, life, req>>

\* The deferred nativeInFlight.Done().
DoneNativeScanCall(t) ==
    /\ pc[t] = "doneNative"
    /\ native' = native - 1
    /\ pc' = [pc EXCEPT ![t] = "idle"]
    /\ UNCHANGED <<shared, inFlight, slots, objects, life, req>>

\* handlePrivacyFilterRequestComplete reads the runtime under the lock, whether
\* or not the plugin is quiesced, and uses its cache after the lock.
ReadRuntime(t, c) ==
    /\ pc[t] = "idle"
    /\ c.method = "complete"
    /\ req' = [req EXCEPT ![t] = [c EXCEPT !.target = runtime]]
    /\ pc' = [pc EXCEPT ![t] = "drop"]
    /\ UNCHANGED <<shared, counters, objects, life>>

ReleaseRequestScanState(t) ==
    /\ pc[t] = "drop"
    /\ retained' = [r \in 1..MaxRuntimes |->
                       IF r = req[t].target THEN retained[r] \ {req[t].rid} ELSE retained[r]]
    /\ req' = [req EXCEPT ![t].reply = "ok", ![t].target = 0]
    /\ pc' = [pc EXCEPT ![t] = "idle"]
    /\ UNCHANGED <<shared, counters, plugins, runtimes, life>>

\* The steps a call takes once the host has issued it.
ThreadStep(t) ==
    \/ AcquireNativeScan(t) \/ AdmissionFails(t)
    \/ BeginPluginCall(t) \/ AnswerWithoutScan(t) \/ AcquireScanState(t)
    \/ ScanReturns(t) \/ ScanPanics(t) \/ DonePluginCall(t) \/ Settle(t)
    \/ ReleaseNativeScan(t) \/ DoneNativeScanCall(t)
    \/ ReleaseRequestScanState(t)

-----------------------------------------------------------------------------
(* The lifecycle operations, one thread of the host *)

\* cliproxy_plugin_init: the library is loaded, or loaded again after shutdown.
PluginInit ==
    /\ life.pc = "idle" /\ ~host
    /\ host' = TRUE
    /\ shuttingDown' = FALSE
    /\ UNCHANGED <<plugin, runtime, counters, objects, life, pc, req>>

\* Faulty variant: every registration gets a runtime of its own.
RegisterFreshRuntimeVariant ==
    /\ life.pc = "idle" /\ host
    /\ Len(plugins) < MaxPlugins /\ runtimes < MaxRuntimes
    /\ runtimes' = runtimes + 1
    /\ runtime' = runtimes + 1
    /\ life' = [IdleLife EXCEPT !.pc = "build", !.runtime = runtimes + 1]
    /\ UNCHANGED <<host, plugin, shuttingDown, counters, plugins, retained, pc, req>>

\* Register or reconfigure: the runtime is created once and kept.
RegisterBegin ==
    /\ life.pc = "idle" /\ host
    /\ Len(plugins) < MaxPlugins
    /\ \/ /\ runtime # 0
          /\ life' = [IdleLife EXCEPT !.pc = "build", !.runtime = runtime]
          /\ UNCHANGED <<runtime, runtimes>>
       \/ /\ runtime = 0 /\ runtimes < MaxRuntimes
          /\ runtimes' = runtimes + 1
          /\ runtime' = runtimes + 1
          /\ life' = [IdleLife EXCEPT !.pc = "build", !.runtime = runtimes + 1]
    /\ UNCHANGED <<host, plugin, shuttingDown, counters, plugins, retained, pc, req>>

\* The configuration or its rules are invalid: nothing has been opened yet.
RegisterFails ==
    /\ life.pc = "build"
    /\ life' = IdleLife
    /\ UNCHANGED <<shared, counters, objects, pc, req>>

\* A host older than the implemented schema cannot terminate a request, so a
\* configuration that needs to is refused, after the plugin has been built.
Negotiated == CASE HostSchema = 0 -> Legacy
                [] HostSchema \in 1..(Implemented - 1) -> HostSchema
                [] OTHER -> Implemented
Refused(config) == Negotiated < Implemented /\ MayTerminate(config)

RegisterBuild(config) ==
    /\ life.pc = "build"
    /\ plugins' = Append(plugins, [config |-> config, runtime |-> life.runtime,
                                   open |-> config.logged])
    /\ life' = IF Refused(config)
               THEN IdleLife
               ELSE [life EXCEPT !.pc = "install", !.built = Len(plugins) + 1]
    /\ UNCHANGED <<shared, counters, runtimes, retained, pc, req>>

RegisterInstall ==
    /\ life.pc = "install"
    /\ plugin' = life.built
    /\ shuttingDown' = FALSE
    /\ life' = [life EXCEPT !.pc = "closePrevious", !.previous = plugin]
    /\ UNCHANGED <<host, runtime, counters, objects, pc, req>>

\* plugin.Close(): the substitution log of plugin p, if there is one, closes.
ClosedLog(p) == [q \in 1..Len(plugins) |-> IF q = p THEN [plugins[q] EXCEPT !.open = FALSE]
                                           ELSE plugins[q]]

\* Faulty variant: the replaced plugin keeps its log open.
RegisterKeepsPreviousVariant ==
    /\ life.pc = "closePrevious"
    /\ life' = IdleLife
    /\ UNCHANGED <<shared, counters, objects, pc, req>>

RegisterClosePrevious ==
    /\ life.pc = "closePrevious"
    /\ plugins' = ClosedLog(life.previous)
    /\ life' = IdleLife
    /\ UNCHANGED <<shared, counters, runtimes, retained, pc, req>>

QuiesceBegin ==
    /\ life.pc = "idle" /\ host
    /\ shuttingDown' = TRUE
    /\ life' = [IdleLife EXCEPT !.pc = "quiesceNative"]
    /\ UNCHANGED <<host, plugin, runtime, counters, objects, pc, req>>

\* Faulty variant: waits for inFlight only.
QuiesceSkipsNativeVariant ==
    /\ life.pc = "quiesceNative"
    /\ life' = [life EXCEPT !.pc = "quiesceInFlight"]
    /\ UNCHANGED <<shared, counters, objects, pc, req>>

QuiesceNativeDrained ==
    /\ life.pc = "quiesceNative"
    /\ native = 0
    /\ life' = [life EXCEPT !.pc = "quiesceInFlight"]
    /\ UNCHANGED <<shared, counters, objects, pc, req>>

QuiesceDrained ==
    /\ life.pc = "quiesceInFlight"
    /\ inFlight = 0
    /\ life' = IdleLife
    /\ UNCHANGED <<shared, counters, objects, pc, req>>

\* Faulty variant: clears without waiting for the calls in flight.
ShutdownAtOnceVariant ==
    /\ life.pc = "idle" /\ host
    /\ shuttingDown' = TRUE
    /\ plugin' = 0
    /\ host' = FALSE
    /\ life' = [pc |-> "clear", runtime |-> runtime, built |-> 0, previous |-> plugin]
    /\ UNCHANGED <<runtime, counters, objects, pc, req>>

ShutdownBegin ==
    /\ life.pc = "idle" /\ host
    /\ shuttingDown' = TRUE
    /\ plugin' = 0
    /\ host' = FALSE
    /\ life' = [pc |-> "shutNative", runtime |-> runtime, built |-> 0, previous |-> plugin]
    /\ UNCHANGED <<runtime, counters, objects, pc, req>>

ShutdownNativeDrained ==
    /\ life.pc = "shutNative"
    /\ native = 0
    /\ life' = [life EXCEPT !.pc = "shutInFlight"]
    /\ UNCHANGED <<shared, counters, objects, pc, req>>

ShutdownDrained ==
    /\ life.pc = "shutInFlight"
    /\ inFlight = 0
    /\ life' = [life EXCEPT !.pc = "clear"]
    /\ UNCHANGED <<shared, counters, objects, pc, req>>

ShutdownClear ==
    /\ life.pc = "clear"
    /\ retained' = [r \in 1..MaxRuntimes |-> IF r = life.runtime THEN {} ELSE retained[r]]
    /\ life' = [life EXCEPT !.pc = "close"]
    /\ UNCHANGED <<shared, counters, plugins, runtimes, pc, req>>

ShutdownClose ==
    /\ life.pc = "close"
    /\ plugins' = ClosedLog(life.previous)
    /\ life' = [life EXCEPT !.pc = "forget"]
    /\ UNCHANGED <<shared, counters, runtimes, retained, pc, req>>

\* The runtime is dropped only if it is still the one that was cleared.
ShutdownForget ==
    /\ life.pc = "forget"
    /\ runtime' = IF runtime = life.runtime THEN 0 ELSE runtime
    /\ life' = IdleLife
    /\ UNCHANGED <<host, plugin, shuttingDown, counters, objects, pc, req>>

\* The steps an operation takes once the host has started it.
LifeStep ==
    \/ RegisterFails \/ (\E config \in Configs : RegisterBuild(config))
    \/ RegisterInstall \/ RegisterClosePrevious
    \/ QuiesceNativeDrained \/ QuiesceDrained
    \/ ShutdownNativeDrained \/ ShutdownDrained
    \/ ShutdownClear \/ ShutdownClose \/ ShutdownForget

Next ==
    \/ PluginInit \/ RegisterBegin \/ QuiesceBegin \/ ShutdownBegin
    \/ LifeStep
    \/ \E t \in Threads :
         \/ \E c \in Calls :
              \/ RejectPayload(t, c) \/ BeginNativeScanCall(t, c)
              \/ CallUnknownMethod(t, c) \/ ReadRuntime(t, c)
         \/ DeadlinePasses(t)
         \/ ThreadStep(t)

Spec == Init /\ [][Next]_vars

\* Go schedules every runnable goroutine, the admission timer fires and an
\* inspection is bounded by its budgets, so a call or an operation that can
\* move does.  Nothing makes the host call, and a deadline need not pass.
Fairness == WF_vars(LifeStep) /\ \A t \in Threads : WF_vars(ThreadStep(t))

FairSpec == Spec /\ Fairness

-----------------------------------------------------------------------------
(* Properties *)

ThreadPCs == {"idle", "admit", "handle", "inspect", "scan", "donePlugin", "settle",
              "release", "doneNative", "drop"}

Waiting == {"quiesceNative", "quiesceInFlight", "shutNative", "shutInFlight"}

LifePCs == {"idle", "build", "install", "closePrevious", "clear", "close", "forget"}
           \cup Waiting

Plugin == [config : Config, runtime : 1..MaxRuntimes, open : BOOLEAN]
Outcomes == {"none", "forward", "terminate", "error", "panic"}
Replies == {"none", "forward", "terminate", "error", "ok"}

ObjectsOK ==
    /\ host \in BOOLEAN /\ shuttingDown \in BOOLEAN
    /\ plugins \in Seq(Plugin) /\ Len(plugins) <= MaxPlugins
    /\ plugin \in 0..Len(plugins)
    /\ runtimes \in 0..MaxRuntimes
    /\ runtime \in 0..runtimes
    /\ retained \in [1..MaxRuntimes -> SUBSET RequestIDs]

LifeOK == life \in [pc : LifePCs, runtime : 0..runtimes,
                    built : 0..Len(plugins), previous : 0..Len(plugins)]

Call == [method : Methods, rid : RequestIDs \cup {NoRequestID},
         plugin : 0..Len(plugins), target : 0..runtimes,
         late : BOOLEAN, outcome : Outcomes, reply : Replies]

CallsOK == pc \in [Threads -> ThreadPCs] /\ req \in [Threads -> Call]

\* The values the variables range over; in particular no counter goes below zero
\* and no more slots are taken than the channel has.
TypeOK ==
    /\ ObjectsOK /\ LifeOK /\ CallsOK
    /\ native \in Nat /\ inFlight \in Nat /\ slots \in 0..Slots

\* The calls that are counted in nativeInFlight, that occupy a slot, and that
\* are counted in inFlight.
InNative == {t \in Threads :
                /\ req[t].method \in Intercepts
                /\ pc[t] \in {"admit", "handle", "inspect", "scan", "donePlugin",
                              "settle", "release", "doneNative"}}
InSlot == {t \in Threads :
              /\ req[t].method \in Intercepts
              /\ pc[t] \in {"handle", "inspect", "scan", "donePlugin", "settle", "release"}}
InPlugin == {t \in Threads : pc[t] \in {"inspect", "scan", "donePlugin"}}

\* Every path out of a call, error, timeout and panic included, gives back
\* exactly what it took: the counters and the slots always equal the calls that
\* are really between their Add and their Done.
CountersExact ==
    /\ native = Cardinality(InNative)
    /\ slots = Cardinality(InSlot)
    /\ inFlight = Cardinality(InPlugin)

\* Never more concurrent scans than nativeScanConcurrency.
ScansWithinCapacity == Cardinality(InSlot) <= Slots

\* Once quiesce or shutdown has seen both groups drain, and until a register or
\* an init reopens the plugin, no call is inside the plugin, although calls kept
\* arriving while the operation waited.
QuiescedMeansDrained ==
    (shuttingDown /\ life.pc \notin Waiting) => InNative = {} /\ InPlugin = {}

\* Whatever request state is retained, is retained by the cache of the installed
\* runtime, so a request.complete, which looks only there, can release it.
RetainedIsReleasable ==
    \A r \in 1..MaxRuntimes : retained[r] # {} => r = runtime

\* Shutdown leaves nothing behind: with no plugin installed and no shutdown in
\* progress, no cache retains a request, whatever was in flight before.
ShutdownReleasesState ==
    (plugin = 0 /\ life.pc \in {"idle", "build", "install"}) =>
        \A r \in 1..MaxRuntimes : retained[r] = {}

\* Every substitution log that is open belongs to the installed plugin or to one
\* a lifecycle operation is still handling (Close: "tests and shutdown paths do").
OpenLogsAreOwned ==
    \A p \in 1..Len(plugins) :
        plugins[p].open => p \in {plugin, life.built, life.previous}

\* A request is let through only when a plugin inspected it to the end, in time:
\* native failures, deadlines, panics and a quiesced plugin never forward it.
ForwardOnlyInspected ==
    \A t \in Threads :
        req[t].reply = "forward" =>
            req[t].plugin # 0 /\ req[t].outcome = "forward" /\ ~req[t].late

\* Every call returns, even when the slots stay busy.
CallsReturn == \A t \in Threads : (pc[t] # "idle") ~> (pc[t] = "idle")

\* Quiesce and shutdown return although the host keeps calling.
LifecycleReturns == (life.pc # "idle") ~> (life.pc = "idle")

=============================================================================
