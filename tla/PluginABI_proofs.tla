--------------------------- MODULE PluginABI_proofs ---------------------------
(***************************************************************************)
(* Proofs about PluginABI, for any number of threads, slots, plugins and   *)
(* runtimes.                                                               *)
(*                                                                         *)
(* The argument has six layers, inductive invariants that rest on Struct   *)
(* (the second, third and fourth each on the one before):                  *)
(*   Struct   the variables are well formed, and where a call stands says  *)
(*            what it holds;                                               *)
(*   CountersExact   the two wait groups and the slots count exactly the   *)
(*            calls between their Add and their Done;                      *)
(*   Drain    what a wait group that was seen at zero says about the calls *)
(*            that can still be inside, while no new call passes the gates;*)
(*   Owner    whoever can still write request state writes it to the cache *)
(*            of the installed runtime;                                    *)
(*   Answered where a call stands says what its outcome and its reply are; *)
(*   Logged   where a lifecycle operation stands says which plugins' logs  *)
(*            it still has to close.                                       *)
(***************************************************************************)
EXTENDS PluginABI, FiniteSetTheorems, SequenceTheorems, TLAPS

-----------------------------------------------------------------------------
(* Layer 1: well-formedness *)

\* Where a call stands says what it holds.
CallShape(p, c) ==
    /\ p \in {"admit", "release", "doneNative"} => c.method \in Intercepts
    /\ p \in {"inspect", "scan", "donePlugin"} => c.plugin # 0
    /\ p = "scan" => c.method = "before"

\* Where a lifecycle operation stands says what it carries.
LifeShape ==
    /\ life.pc \in {"build", "install"} => life.runtime # 0
    /\ life.pc = "install" => life.built # 0
    /\ life.pc = "build" => Len(plugins) < MaxPlugins

Struct ==
    /\ ObjectsOK /\ LifeOK /\ CallsOK
    /\ \A t \in Threads : CallShape(pc[t], req[t])
    /\ LifeShape

\* Appending a plugin keeps the list well formed and the others in place.
LEMMA AppendPlugin ==
    ASSUME NEW s \in Seq(Plugin), NEW x \in Plugin
    PROVE  /\ Append(s, x) \in Seq(Plugin)
           /\ Len(Append(s, x)) = Len(s) + 1
           /\ \A p \in 1..Len(s) : Append(s, x)[p] = s[p]
           /\ Append(s, x)[Len(s) + 1] = x
OBVIOUS

\* plugin.Close() changes nothing but the log of one plugin.
LEMMA ClosedLogKeeps ==
    ASSUME ObjectsOK, NEW p \in 0..Len(plugins)
    PROVE  /\ ClosedLog(p) \in Seq(Plugin)
           /\ Len(ClosedLog(p)) = Len(plugins)
           /\ \A q \in 1..Len(plugins) : ClosedLog(p)[q].runtime = plugins[q].runtime
<1> DEFINE n == Len(plugins)
<1>1. n \in Nat /\ plugins \in [1..n -> Plugin]
  BY LenProperties DEF ObjectsOK
<1>2. ClosedLog(p) \in [1..n -> Plugin]
  BY <1>1 DEF ClosedLog, Plugin
<1>3. ClosedLog(p) \in Seq(Plugin) /\ Len(ClosedLog(p)) = n
  BY <1>1, <1>2
<1>4. \A q \in 1..n : ClosedLog(p)[q].runtime = plugins[q].runtime
  BY <1>1 DEF ClosedLog, Plugin
<1> QED BY <1>3, <1>4

\* Setting one field of a call leaves the others as they were.
LEMMA SetOutcome ==
    ASSUME NEW c \in Call, NEW o \in Outcomes
    PROVE  /\ [c EXCEPT !.outcome = o] \in Call
           /\ [c EXCEPT !.outcome = o].method = c.method
           /\ [c EXCEPT !.outcome = o].plugin = c.plugin
BY DEF Call

LEMMA SetReply ==
    ASSUME NEW c \in Call, NEW r \in Replies
    PROVE  /\ [c EXCEPT !.reply = r] \in Call
           /\ [c EXCEPT !.reply = r].method = c.method
           /\ [c EXCEPT !.reply = r].plugin = c.plugin
BY DEF Call

LEMMA SetLate ==
    ASSUME NEW c \in Call
    PROVE  /\ [c EXCEPT !.late = TRUE] \in Call
           /\ [c EXCEPT !.late = TRUE].method = c.method
           /\ [c EXCEPT !.late = TRUE].plugin = c.plugin
BY DEF Call

LEMMA SetPlugin ==
    ASSUME NEW c \in Call, NEW p \in 0..Len(plugins)
    PROVE  /\ [c EXCEPT !.plugin = p] \in Call
           /\ [c EXCEPT !.plugin = p].method = c.method
           /\ [c EXCEPT !.plugin = p].plugin = p
BY DEF Call

LEMMA SetTarget ==
    ASSUME NEW c \in Call, NEW r \in 0..runtimes
    PROVE  /\ [c EXCEPT !.target = r] \in Call
           /\ [c EXCEPT !.target = r].method = c.method
           /\ [c EXCEPT !.target = r].plugin = c.plugin
BY DEF Call

LEMMA FailureIsReply == \A m : Failure(m) \in Replies
BY DEF Failure, Replies

\* A call the host starts.
LEMMA CallsAreCalls ==
    ASSUME ObjectsOK, NEW c \in Calls PROVE c \in Call /\ c.plugin = 0
<1>1. NoCall \in Call /\ NoCall.plugin = 0
  BY DEF NoCall, Call, Methods, Outcomes, Replies, ObjectsOK
<1>2. \A m \in Methods, r \in RequestIDs \cup {NoRequestID} :
         NewCall(m, r) \in Call /\ NewCall(m, r).plugin = 0
  BY <1>1 DEF NewCall, Call
<1> QED BY <1>2 DEF Calls, Methods, Intercepts

\* Thread t, and no other, moved, to a place that fits the call it holds.
Moved(t) ==
    /\ pc' \in [Threads -> ThreadPCs] /\ req' \in [Threads -> Call]
    /\ \A u \in Threads \ {t} : pc'[u] = pc[u] /\ req'[u] = req[u]
    /\ CallShape(pc'[t], req'[t])

\* A step that moves one thread to the place p with the call c.
LEMMA MoveTo ==
    ASSUME Struct, NEW t \in Threads, NEW p \in ThreadPCs, NEW c \in Call,
           pc' = [pc EXCEPT ![t] = p], req' = [req EXCEPT ![t] = c], CallShape(p, c)
    PROVE  Moved(t) /\ pc'[t] = p /\ req'[t] = c
BY DEF Struct, CallsOK, Moved

\* A step that moves one thread and leaves its call alone.
LEMMA MoveOnly ==
    ASSUME Struct, NEW t \in Threads, NEW p \in ThreadPCs,
           pc' = [pc EXCEPT ![t] = p], req' = req, CallShape(p, req[t])
    PROVE  Moved(t) /\ pc'[t] = p /\ req'[t] = req[t]
BY DEF Struct, CallsOK, Moved

\* A step that changes the call of one thread where it stands.
LEMMA StayWith ==
    ASSUME Struct, NEW t \in Threads, NEW c \in Call,
           pc' = pc, req' = [req EXCEPT ![t] = c], CallShape(pc[t], c)
    PROVE  Moved(t) /\ pc'[t] = pc[t] /\ req'[t] = c
BY DEF Struct, CallsOK, Moved

\* A step that sets the outcome, or the reply, of one call.
LEMMA MoveOutcome ==
    ASSUME Struct, NEW t \in Threads, NEW p \in ThreadPCs, NEW o \in Outcomes,
           pc' = [pc EXCEPT ![t] = p], req' = [req EXCEPT ![t].outcome = o],
           CallShape(p, req[t])
    PROVE  /\ Moved(t) /\ pc'[t] = p
           /\ req'[t].method = req[t].method /\ req'[t].plugin = req[t].plugin
<1> DEFINE c == [req[t] EXCEPT !.outcome = o]
<1>1. c \in Call /\ c.method = req[t].method /\ c.plugin = req[t].plugin
  BY SetOutcome DEF Struct, CallsOK
<1>2. req' = [req EXCEPT ![t] = c]
  OBVIOUS
<1> HIDE DEF c
<1>3. CallShape(p, c)
  BY <1>1 DEF CallShape
<1>4. /\ req' \in [Threads -> Call] /\ req'[t] = c
      /\ \A u \in Threads \ {t} : req'[u] = req[u]
  BY <1>1, <1>2 DEF Struct, CallsOK
<1>5. /\ pc' \in [Threads -> ThreadPCs] /\ pc'[t] = p
      /\ \A u \in Threads \ {t} : pc'[u] = pc[u]
  BY DEF Struct, CallsOK
<1> QED BY <1>1, <1>3, <1>4, <1>5, Zenon DEF Moved

LEMMA MoveReply ==
    ASSUME Struct, NEW t \in Threads, NEW p \in ThreadPCs, NEW r \in Replies,
           pc' = [pc EXCEPT ![t] = p], req' = [req EXCEPT ![t].reply = r],
           CallShape(p, req[t])
    PROVE  /\ Moved(t) /\ pc'[t] = p
           /\ req'[t].method = req[t].method /\ req'[t].plugin = req[t].plugin
<1> DEFINE c == [req[t] EXCEPT !.reply = r]
<1>1. c \in Call /\ c.method = req[t].method /\ c.plugin = req[t].plugin
  BY SetReply DEF Struct, CallsOK
<1>2. req' = [req EXCEPT ![t] = c]
  OBVIOUS
<1> HIDE DEF c
<1>3. CallShape(p, c)
  BY <1>1 DEF CallShape
<1>4. /\ req' \in [Threads -> Call] /\ req'[t] = c
      /\ \A u \in Threads \ {t} : req'[u] = req[u]
  BY <1>1, <1>2 DEF Struct, CallsOK
<1>5. /\ pc' \in [Threads -> ThreadPCs] /\ pc'[t] = p
      /\ \A u \in Threads \ {t} : pc'[u] = pc[u]
  BY DEF Struct, CallsOK
<1> QED BY <1>1, <1>3, <1>4, <1>5, Zenon DEF Moved

\* The steps of a call: each moves its own thread only, and a thread keeps the
\* plugin it found when it passed the second gate.
LEMMA ThreadMoves ==
    ASSUME Struct, NEW t \in Threads, ThreadStep(t)
    PROVE  /\ Moved(t) /\ req'[t].method = req[t].method
           /\ ~BeginPluginCall(t) => req'[t].plugin = req[t].plugin
           /\ (BeginPluginCall(t) /\ Available) => req'[t].plugin = plugin
<1>0. /\ req[t] \in Call /\ pc[t] \in ThreadPCs /\ CallShape(pc[t], req[t])
      /\ plugin \in 0..Len(plugins) /\ 0 \in 0..runtimes
  BY DEF Struct, CallsOK, ObjectsOK
<1>1. CASE AcquireNativeScan(t)
  BY <1>0, <1>1, MoveOnly DEF AcquireNativeScan, BeginPluginCall, ThreadPCs, CallShape
<1>2. CASE AdmissionFails(t)
  BY <1>0, <1>2, MoveReply, FailureIsReply
  DEF AdmissionFails, BeginPluginCall, ThreadPCs, CallShape
<1>3. CASE BeginPluginCall(t)
  <2>1. CASE Available
    <3> DEFINE c == [req[t] EXCEPT !.plugin = plugin]
    <3>1. c \in Call /\ c.method = req[t].method /\ c.plugin = plugin
      BY <1>0, SetPlugin
    <3>2. req' = [req EXCEPT ![t] = c] /\ pc' = [pc EXCEPT ![t] = "inspect"]
      BY <1>3, <2>1 DEF BeginPluginCall
    <3> HIDE DEF c
    <3>3. CallShape("inspect", c)
      BY <2>1, <3>1 DEF CallShape, Available
    <3> QED BY <1>3, <3>1, <3>2, <3>3, MoveTo DEF ThreadPCs
  <2>2. CASE ~Available
    BY <1>0, <1>3, <2>2, MoveOutcome
    DEF BeginPluginCall, ThreadPCs, CallShape, Outcomes
  <2> QED BY <2>1, <2>2
<1>4. CASE AnswerWithoutScan(t)
  <2>1. PICK o \in {"error", "forward", "terminate"} : req' = [req EXCEPT ![t].outcome = o]
    BY <1>4 DEF AnswerWithoutScan
  <2> QED
    BY <1>0, <1>4, <2>1, MoveOutcome
    DEF AnswerWithoutScan, BeginPluginCall, ThreadPCs, CallShape, Outcomes
<1>5. CASE AcquireScanState(t)
  BY <1>0, <1>5, MoveOnly DEF AcquireScanState, BeginPluginCall, ThreadPCs, CallShape
<1>6. CASE ScanReturns(t)
  <2>1. PICK o \in {"forward", "terminate"} : req' = [req EXCEPT ![t].outcome = o]
    BY <1>6 DEF ScanReturns
  <2> QED
    BY <1>0, <1>6, <2>1, MoveOutcome
    DEF ScanReturns, BeginPluginCall, ThreadPCs, CallShape, Outcomes
<1>7. CASE ScanPanics(t)
  BY <1>0, <1>7, MoveOutcome DEF ScanPanics, BeginPluginCall, ThreadPCs, CallShape, Outcomes
<1>8. CASE DonePluginCall(t)
  BY <1>0, <1>8, MoveOnly DEF DonePluginCall, BeginPluginCall, ThreadPCs, CallShape
<1>9. CASE Settle(t)
  <2> DEFINE r == IF req[t].late \/ req[t].outcome \in {"error", "panic"}
                  THEN Failure(req[t].method) ELSE req[t].outcome
             p == IF req[t].method \in Intercepts THEN "release" ELSE "idle"
  <2>1. r \in Replies
    BY <1>0, FailureIsReply DEF Call, Outcomes, Replies
  <2>2. p \in ThreadPCs /\ CallShape(p, req[t])
    BY <1>0 DEF ThreadPCs, CallShape
  <2>3. req' = [req EXCEPT ![t].reply = r] /\ pc' = [pc EXCEPT ![t] = p] /\ ~BeginPluginCall(t)
    BY <1>9 DEF Settle, BeginPluginCall
  <2> HIDE DEF r, p
  <2> QED BY <2>1, <2>2, <2>3, MoveReply
<1>10. CASE ReleaseNativeScan(t)
  BY <1>0, <1>10, MoveOnly DEF ReleaseNativeScan, BeginPluginCall, ThreadPCs, CallShape
<1>11. CASE DoneNativeScanCall(t)
  BY <1>0, <1>11, MoveOnly DEF DoneNativeScanCall, BeginPluginCall, ThreadPCs, CallShape
<1>12. CASE ReleaseRequestScanState(t)
  <2> DEFINE c == [req[t] EXCEPT !.reply = "ok", !.target = 0]
  <2>1. c \in Call /\ c.method = req[t].method /\ c.plugin = req[t].plugin
    BY <1>0 DEF Call, Replies
  <2>2. req' = [req EXCEPT ![t] = c] /\ pc' = [pc EXCEPT ![t] = "idle"] /\ ~BeginPluginCall(t)
    BY <1>12 DEF ReleaseRequestScanState, Struct, CallsOK, BeginPluginCall
  <2> HIDE DEF c
  <2> QED BY <2>1, <2>2, MoveTo DEF ThreadPCs, CallShape
<1> QED
  BY <1>1, <1>2, <1>3, <1>4, <1>5, <1>6, <1>7, <1>8, <1>9, <1>10, <1>11, <1>12 DEF ThreadStep

\* The steps in which the host starts a call, and the deadline of a call.
CallStep(t, c) ==
    RejectPayload(t, c) \/ BeginNativeScanCall(t, c) \/ CallUnknownMethod(t, c) \/ ReadRuntime(t, c)

LEMMA CallMoves ==
    ASSUME Struct, NEW t \in Threads, NEW c \in Calls, CallStep(t, c)
    PROVE  Moved(t) /\ req'[t].method = c.method
<1>0. c \in Call /\ c.plugin = 0 /\ runtime \in 0..runtimes
  BY CallsAreCalls DEF Struct, ObjectsOK
<1> DEFINE d == [c EXCEPT !.reply = Failure(c.method)]
<1>d. d \in Call /\ d.method = c.method
  BY <1>0, SetReply, FailureIsReply
<1>1. CASE RejectPayload(t, c)
  <2>1. pc[t] = "idle" /\ pc' = pc /\ req' = [req EXCEPT ![t] = d]
    BY <1>1 DEF RejectPayload
  <2> HIDE DEF d
  <2> QED BY <1>d, <2>1, StayWith DEF CallShape
<1>2. CASE BeginNativeScanCall(t, c)
  <2>1. CASE Available
    BY <1>0, <1>2, <2>1, MoveTo DEF BeginNativeScanCall, ThreadPCs, CallShape
  <2>2. CASE ~Available
    <3>1. pc[t] = "idle" /\ pc' = pc /\ req' = [req EXCEPT ![t] = d]
      BY <1>2, <2>2 DEF BeginNativeScanCall
    <3> HIDE DEF d
    <3> QED BY <1>d, <3>1, StayWith DEF CallShape
  <2> QED BY <2>1, <2>2
<1>3. CASE CallUnknownMethod(t, c)
  BY <1>0, <1>3, MoveTo DEF CallUnknownMethod, ThreadPCs, CallShape
<1>4. CASE ReadRuntime(t, c)
  <2> DEFINE e == [c EXCEPT !.target = runtime]
  <2>1. e \in Call /\ e.method = c.method
    BY <1>0, SetTarget
  <2>2. pc' = [pc EXCEPT ![t] = "drop"] /\ req' = [req EXCEPT ![t] = e]
    BY <1>4 DEF ReadRuntime
  <2> HIDE DEF e
  <2> QED BY <2>1, <2>2, MoveTo DEF ThreadPCs, CallShape
<1> QED BY <1>1, <1>2, <1>3, <1>4 DEF CallStep

LEMMA DeadlineMoves ==
    ASSUME Struct, NEW t \in Threads, DeadlinePasses(t)
    PROVE  /\ Moved(t) /\ pc' = pc
           /\ req'[t].method = req[t].method /\ req'[t].plugin = req[t].plugin
<1> DEFINE c == [req[t] EXCEPT !.late = TRUE]
<1>1. c \in Call /\ c.method = req[t].method /\ c.plugin = req[t].plugin
  BY SetLate DEF Struct, CallsOK
<1>2. pc' = pc /\ req' = [req EXCEPT ![t] = c]
  BY DEF DeadlinePasses
<1> HIDE DEF c
<1>3. CallShape(pc[t], c)
  BY <1>1 DEF Struct, CallShape
<1> QED BY <1>1, <1>2, <1>3, StayWith

\* A step of one thread keeps the structure: it touches none of the objects
\* but the caches.
LEMMA MovedStruct ==
    ASSUME Struct, NEW t \in Threads, Moved(t),
           UNCHANGED <<host, plugin, runtime, shuttingDown, plugins, runtimes, life>>,
           retained' \in [1..MaxRuntimes -> SUBSET RequestIDs]
    PROVE  Struct'
<1>1. ObjectsOK' /\ LifeOK' /\ LifeShape'
  BY DEF Struct, ObjectsOK, LifeOK, LifeShape
<1>2. Call' = Call
  BY DEF Call
<1>3. CallsOK'
  BY <1>2, Zenon DEF Moved, CallsOK
<1>4. \A u \in Threads : CallShape(pc'[u], req'[u])
  BY Zenon DEF Moved, Struct
<1> QED BY <1>1, <1>3, <1>4 DEF Struct, CallShape

\* A step of the lifecycle thread keeps the structure of the calls, which refer
\* to plugins and runtimes by number: numbers are never reused.
LEMMA GrowingStruct ==
    ASSUME Struct, ObjectsOK', LifeOK', LifeShape', UNCHANGED <<pc, req>>,
           Len(plugins) <= Len(plugins'), runtimes <= runtimes'
    PROVE  Struct'
<1>1. /\ Len(plugins) \in Nat /\ Len(plugins') \in Nat
      /\ runtimes \in Nat /\ runtimes' \in Nat
  BY LenProperties DEF Struct, ObjectsOK
<1>2. 0..Len(plugins) \subseteq 0..Len(plugins') /\ 0..runtimes \subseteq 0..runtimes'
  BY <1>1
<1>3. Call \subseteq Call'
  BY <1>2 DEF Call
<1>4. CallsOK'
  BY <1>3 DEF Struct, CallsOK
<1> QED BY <1>4 DEF Struct, CallShape

LEMMA StructInit == Init => Struct
<1> SUFFICES ASSUME Init PROVE Struct OBVIOUS
<1>1. Len(plugins) = 0 /\ plugins \in Seq(Plugin)
  BY DEF Init
<1>2. ObjectsOK
  <2>1. retained \in [1..MaxRuntimes -> SUBSET RequestIDs]
    BY DEF Init
  <2>2. /\ host \in BOOLEAN /\ shuttingDown \in BOOLEAN
        /\ plugin = 0 /\ runtimes = 0 /\ runtime = 0
    BY DEF Init
  <2> QED BY <1>1, <2>1, <2>2, ABIConstants DEF ObjectsOK
<1>3. LifeOK /\ LifeShape
  BY <1>1 DEF Init, IdleLife, LifeOK, LifeShape, LifePCs
<1>4. NoCall \in Call
  BY <1>1 DEF Init, NoCall, Call, Methods, Outcomes, Replies
<1>5. CallsOK
  BY <1>4 DEF Init, CallsOK, ThreadPCs
<1>6. \A t \in Threads : CallShape(pc[t], req[t])
  BY DEF Init, CallShape
<1> QED BY <1>2, <1>3, <1>5, <1>6 DEF Struct

LEMMA StructThread ==
    ASSUME Struct, NEW t \in Threads, ThreadStep(t) PROVE Struct'
<1>1. UNCHANGED <<host, plugin, runtime, shuttingDown, plugins, runtimes, life>>
  BY DEF ThreadStep, AcquireNativeScan, AdmissionFails, BeginPluginCall, AnswerWithoutScan,
         AcquireScanState, ScanReturns, ScanPanics, DonePluginCall, Settle, ReleaseNativeScan,
         DoneNativeScanCall, ReleaseRequestScanState, shared, objects
<1>2. retained' \in [1..MaxRuntimes -> SUBSET RequestIDs]
  <2>1. CASE AcquireScanState(t)
    <3>1. req[t] \in Call /\ retained \in [1..MaxRuntimes -> SUBSET RequestIDs]
      BY DEF Struct, CallsOK, ObjectsOK
    <3>2. req[t].rid \in RequestIDs \cup {NoRequestID}
      BY <3>1 DEF Call
    <3> QED BY <2>1, <3>1, <3>2 DEF AcquireScanState
  <2>2. CASE ReleaseRequestScanState(t)
    BY <2>2 DEF ReleaseRequestScanState, Struct, ObjectsOK
  <2>3. CASE ~AcquireScanState(t) /\ ~ReleaseRequestScanState(t)
    <3>1. retained' = retained
      BY <2>3 DEF ThreadStep, AcquireNativeScan, AdmissionFails, BeginPluginCall,
         AnswerWithoutScan, ScanReturns, ScanPanics, DonePluginCall, Settle,
         ReleaseNativeScan, DoneNativeScanCall, objects
    <3> QED BY <3>1 DEF Struct, ObjectsOK
  <2> QED BY <2>1, <2>2, <2>3
<1> QED BY <1>1, <1>2, ThreadMoves, MovedStruct

LEMMA StructCall ==
    ASSUME Struct, NEW t \in Threads, NEW c \in Calls, CallStep(t, c) PROVE Struct'
<1>1. UNCHANGED <<host, plugin, runtime, shuttingDown, plugins, runtimes, retained, life>>
  BY DEF CallStep, RejectPayload, BeginNativeScanCall, CallUnknownMethod, ReadRuntime,
         shared, objects
<1> QED BY <1>1, CallMoves, MovedStruct DEF Struct, ObjectsOK

LEMMA StructDeadline ==
    ASSUME Struct, NEW t \in Threads, DeadlinePasses(t) PROVE Struct'
<1>1. UNCHANGED <<host, plugin, runtime, shuttingDown, plugins, runtimes, retained, life>>
  BY DEF DeadlinePasses, shared, objects
<1> QED BY <1>1, DeadlineMoves, MovedStruct DEF Struct, ObjectsOK

\* The lifecycle operations.
LifeNext == PluginInit \/ RegisterBegin \/ QuiesceBegin \/ ShutdownBegin \/ LifeStep

LEMMA StructLife ==
    ASSUME Struct, LifeNext PROVE Struct'
<1> USE DEF shared, objects
<1>0. /\ ObjectsOK /\ LifeOK /\ LifeShape
      /\ Len(plugins) \in Nat /\ runtimes \in Nat /\ MaxPlugins \in Nat /\ MaxRuntimes \in Nat
  BY ABIConstants, LenProperties DEF Struct, ObjectsOK
<1>1. CASE PluginInit
  <2>1. ObjectsOK' /\ LifeOK' /\ LifeShape'
    BY <1>0, <1>1 DEF PluginInit, ObjectsOK, LifeOK, LifeShape
  <2> QED BY <1>0, <1>1, <2>1, GrowingStruct DEF PluginInit
<1>2. CASE RegisterBegin
  <2>1. ObjectsOK' /\ runtimes <= runtimes'
    BY <1>0, <1>2 DEF RegisterBegin, ObjectsOK
  <2>2. LifeOK' /\ LifeShape'
    <3>1. life' = [IdleLife EXCEPT !.pc = "build", !.runtime = runtime'] /\ runtime' # 0
      <4>1. CASE runtime # 0
        BY <1>2, <4>1 DEF RegisterBegin
      <4>2. CASE runtime = 0
        BY <1>0, <1>2, <4>2 DEF RegisterBegin
      <4> QED BY <4>1, <4>2
    <3>2. life' = [pc |-> "build", runtime |-> runtime', built |-> 0, previous |-> 0]
      BY <3>1 DEF IdleLife
    <3>3. runtime' \in 0..runtimes' /\ Len(plugins) < MaxPlugins /\ plugins' = plugins
      BY <1>2, <2>1 DEF RegisterBegin, ObjectsOK
    <3> QED BY <1>0, <3>1, <3>2, <3>3 DEF LifeOK, LifeShape, LifePCs
  <2> QED BY <1>0, <1>2, <2>1, <2>2, GrowingStruct DEF RegisterBegin
<1>3. CASE QuiesceBegin
  <2>1. ObjectsOK' /\ LifeOK' /\ LifeShape'
    BY <1>0, <1>3 DEF QuiesceBegin, ObjectsOK, LifeOK, LifeShape, IdleLife, LifePCs, Waiting
  <2> QED BY <1>0, <1>3, <2>1, GrowingStruct DEF QuiesceBegin
<1>4. CASE ShutdownBegin
  <2>1. ObjectsOK' /\ LifeShape'
    <3>1. ObjectsOK'
      <4>1. host' \in BOOLEAN /\ shuttingDown' \in BOOLEAN /\ plugin' = 0
        BY <1>4 DEF ShutdownBegin
      <4>2. UNCHANGED <<runtime, runtimes, plugins, retained>>
        BY <1>4 DEF ShutdownBegin
      <4> QED BY <1>0, <4>1, <4>2 DEF ObjectsOK
    <3>2. life'.pc = "shutNative"
      BY <1>4 DEF ShutdownBegin
    <3> QED BY <3>1, <3>2 DEF LifeShape
  <2>2. LifeOK'
    <3>1. life' = [pc |-> "shutNative", runtime |-> runtime, built |-> 0, previous |-> plugin]
      BY <1>4 DEF ShutdownBegin
    <3>2. plugins' = plugins /\ runtimes' = runtimes
      BY <1>4 DEF ShutdownBegin
    <3>3. runtime \in 0..runtimes /\ plugin \in 0..Len(plugins)
      BY <1>0 DEF ObjectsOK
    <3> QED BY <1>0, <3>1, <3>2, <3>3 DEF LifeOK, LifePCs, Waiting
  <2> QED BY <1>0, <1>4, <2>1, <2>2, GrowingStruct DEF ShutdownBegin
<1>5. CASE RegisterFails
  <2>1. ObjectsOK' /\ LifeOK' /\ LifeShape'
    BY <1>0, <1>5 DEF RegisterFails, ObjectsOK, LifeOK, LifeShape, IdleLife, LifePCs
  <2> QED BY <1>0, <1>5, <2>1, GrowingStruct DEF RegisterFails
<1>6. CASE \E config \in Configs : RegisterBuild(config)
  <2>1. PICK config \in Configs : RegisterBuild(config)
    BY <1>6
  <2> DEFINE x == [config |-> config, runtime |-> life.runtime, open |-> config.logged]
  <2>2. x \in Plugin
    BY <1>0, <2>1, ABIConstants
    DEF Plugin, Config, RegisterBuild, LifeOK, LifeShape, ObjectsOK
  <2>3. plugins' = Append(plugins, x)
    BY <2>1 DEF RegisterBuild
  <2> HIDE DEF x
  <2>4. plugins' \in Seq(Plugin) /\ Len(plugins') = Len(plugins) + 1
    BY <2>2, <2>3, AppendPlugin DEF Struct, ObjectsOK
  <2>5. Len(plugins) < MaxPlugins
    BY <1>0, <2>1 DEF RegisterBuild, LifeShape
  <2>6. ObjectsOK'
    BY <1>0, <2>1, <2>4, <2>5 DEF RegisterBuild, ObjectsOK
  <2>7. LifeOK' /\ LifeShape'
    <3>1. CASE Refused(config)
      BY <1>0, <2>1, <2>4, <3>1 DEF RegisterBuild, LifeOK, LifeShape, IdleLife, LifePCs
    <3>2. CASE ~Refused(config)
      <4>1. life' = [life EXCEPT !.pc = "install", !.built = Len(plugins) + 1]
        BY <2>1, <3>2 DEF RegisterBuild
      <4>2. runtimes' = runtimes /\ life.pc = "build"
        BY <2>1 DEF RegisterBuild
      <4>3. /\ life'.pc = "install" /\ life'.built = Len(plugins')
            /\ life'.runtime = life.runtime /\ life'.runtime # 0
        BY <1>0, <2>4, <4>1, <4>2 DEF LifeOK, LifeShape
      <4>4. LifeOK'
        <5>1. 0..Len(plugins) \subseteq 0..Len(plugins') /\ Len(plugins) + 1 \in 0..Len(plugins')
          BY <1>0, <2>4
        <5>2. life \in [pc : LifePCs, runtime : 0..runtimes',
                        built : 0..Len(plugins'), previous : 0..Len(plugins')]
          BY <1>0, <4>2, <5>1 DEF LifeOK
        <5>3. "install" \in LifePCs
          BY DEF LifePCs
        <5> QED BY <4>1, <5>1, <5>2, <5>3 DEF LifeOK
      <4>5. LifeShape'
        BY <1>0, <2>4, <4>3 DEF LifeShape
      <4> QED BY <4>4, <4>5
    <3> QED BY <3>1, <3>2
  <2> QED BY <1>0, <2>1, <2>4, <2>6, <2>7, GrowingStruct DEF RegisterBuild
<1>7. CASE RegisterInstall
  <2>1. ObjectsOK' /\ LifeOK' /\ LifeShape'
    BY <1>0, <1>7 DEF RegisterInstall, ObjectsOK, LifeOK, LifeShape, LifePCs
  <2> QED BY <1>0, <1>7, <2>1, GrowingStruct DEF RegisterInstall
<1>8. CASE RegisterClosePrevious
  <2>0. plugins' \in Seq(Plugin) /\ Len(plugins') = Len(plugins)
    BY <1>0, <1>8, ClosedLogKeeps DEF RegisterClosePrevious, LifeOK
  <2>1. ObjectsOK' /\ LifeOK' /\ LifeShape'
    BY <1>0, <1>8, <2>0
    DEF RegisterClosePrevious, ObjectsOK, LifeOK, LifeShape, IdleLife, LifePCs
  <2> QED BY <1>0, <1>8, <2>0, <2>1, GrowingStruct DEF RegisterClosePrevious
<1>9. CASE QuiesceNativeDrained \/ QuiesceDrained \/ ShutdownNativeDrained \/ ShutdownDrained
  <2>1. ObjectsOK' /\ LifeOK' /\ LifeShape'
    BY <1>0, <1>9 DEF QuiesceNativeDrained, QuiesceDrained, ShutdownNativeDrained,
       ShutdownDrained, ObjectsOK, LifeOK, LifeShape, IdleLife, LifePCs, Waiting
  <2> QED
    BY <1>0, <1>9, <2>1, GrowingStruct
    DEF QuiesceNativeDrained, QuiesceDrained, ShutdownNativeDrained, ShutdownDrained
<1>10. CASE ShutdownClear
  <2>1. ObjectsOK' /\ LifeOK' /\ LifeShape'
    BY <1>0, <1>10 DEF ShutdownClear, ObjectsOK, LifeOK, LifeShape, LifePCs
  <2> QED BY <1>0, <1>10, <2>1, GrowingStruct DEF ShutdownClear
<1>11. CASE ShutdownClose
  <2>0. plugins' \in Seq(Plugin) /\ Len(plugins') = Len(plugins)
    BY <1>0, <1>11, ClosedLogKeeps DEF ShutdownClose, LifeOK
  <2>1. ObjectsOK' /\ LifeOK' /\ LifeShape'
    BY <1>0, <1>11, <2>0 DEF ShutdownClose, ObjectsOK, LifeOK, LifeShape, LifePCs
  <2> QED BY <1>0, <1>11, <2>0, <2>1, GrowingStruct DEF ShutdownClose
<1>12. CASE ShutdownForget
  <2>1. ObjectsOK' /\ LifeOK' /\ LifeShape'
    BY <1>0, <1>12 DEF ShutdownForget, ObjectsOK, LifeOK, LifeShape, IdleLife, LifePCs
  <2> QED BY <1>0, <1>12, <2>1, GrowingStruct DEF ShutdownForget
<1> QED
  BY <1>1, <1>2, <1>3, <1>4, <1>5, <1>6, <1>7, <1>8, <1>9, <1>10, <1>11, <1>12
  DEF LifeNext, LifeStep

-----------------------------------------------------------------------------
(* Layer 2: the counters *)

LEMMA Enter ==
    ASSUME NEW S, NEW T, NEW t, IsFiniteSet(S), t \notin S, T = S \cup {t}
    PROVE  Cardinality(T) = Cardinality(S) + 1
BY FS_AddElement

LEMMA Leave ==
    ASSUME NEW S, NEW T, NEW t, IsFiniteSet(S), t \in S, T = S \ {t}
    PROVE  Cardinality(T) = Cardinality(S) - 1
BY FS_RemoveElement

LEMMA HeldFinite == IsFiniteSet(InNative) /\ IsFiniteSet(InSlot) /\ IsFiniteSet(InPlugin)
<1>1. InNative \subseteq Threads /\ InSlot \subseteq Threads /\ InPlugin \subseteq Threads
  BY DEF InNative, InSlot, InPlugin
<1> QED BY <1>1, ABIConstants, FS_Subset

\* What the step of thread t does to a count depends on t alone.
LEMMA MovedCounts ==
    ASSUME Struct, NEW t \in Threads, Moved(t)
    PROVE  /\ (t \in InNative <=> t \in InNative') =>
                  InNative' = InNative
           /\ (t \notin InNative /\ t \in InNative') =>
                  Cardinality(InNative') = Cardinality(InNative) + 1
           /\ (t \in InNative /\ t \notin InNative') =>
                  Cardinality(InNative') = Cardinality(InNative) - 1
           /\ (t \in InSlot <=> t \in InSlot') =>
                  InSlot' = InSlot
           /\ (t \notin InSlot /\ t \in InSlot') =>
                  Cardinality(InSlot') = Cardinality(InSlot) + 1
           /\ (t \in InSlot /\ t \notin InSlot') =>
                  Cardinality(InSlot') = Cardinality(InSlot) - 1
           /\ (t \in InPlugin <=> t \in InPlugin') =>
                  InPlugin' = InPlugin
           /\ (t \notin InPlugin /\ t \in InPlugin') =>
                  Cardinality(InPlugin') = Cardinality(InPlugin) + 1
           /\ (t \in InPlugin /\ t \notin InPlugin') =>
                  Cardinality(InPlugin') = Cardinality(InPlugin) - 1
<1>1. \A u \in Threads \ {t} : pc'[u] = pc[u] /\ req'[u] = req[u]
  BY DEF Moved
<1>2. /\ InNative \subseteq Threads /\ InNative' \subseteq Threads
      /\ \A u \in Threads \ {t} : u \in InNative <=> u \in InNative'
  BY <1>1 DEF InNative
<1>3. /\ InSlot \subseteq Threads /\ InSlot' \subseteq Threads
      /\ \A u \in Threads \ {t} : u \in InSlot <=> u \in InSlot'
  BY <1>1 DEF InSlot
<1>4. /\ InPlugin \subseteq Threads /\ InPlugin' \subseteq Threads
      /\ \A u \in Threads \ {t} : u \in InPlugin <=> u \in InPlugin'
  BY <1>1 DEF InPlugin
<1> HIDE DEF InNative, InSlot, InPlugin
<1>5. /\ (t \in InNative <=> t \in InNative') => InNative' = InNative
      /\ (t \notin InNative /\ t \in InNative') => InNative' = InNative \cup {t}
      /\ (t \in InNative /\ t \notin InNative') => InNative' = InNative \ {t}
  BY <1>2
<1>6. /\ (t \in InSlot <=> t \in InSlot') => InSlot' = InSlot
      /\ (t \notin InSlot /\ t \in InSlot') => InSlot' = InSlot \cup {t}
      /\ (t \in InSlot /\ t \notin InSlot') => InSlot' = InSlot \ {t}
  BY <1>3
<1>7. /\ (t \in InPlugin <=> t \in InPlugin') => InPlugin' = InPlugin
      /\ (t \notin InPlugin /\ t \in InPlugin') => InPlugin' = InPlugin \cup {t}
      /\ (t \in InPlugin /\ t \notin InPlugin') => InPlugin' = InPlugin \ {t}
  BY <1>4
<1> QED BY <1>5, <1>6, <1>7, HeldFinite, Enter, Leave

\* Every step of a call keeps the counters exact.
LEMMA CountersThread ==
    ASSUME Struct, CountersExact, NEW t \in Threads, ThreadStep(t)
    PROVE  CountersExact'
<1> USE DEF shared, counters, objects
<1>0. /\ Moved(t) /\ req'[t].method = req[t].method /\ CallShape(pc[t], req[t])
      /\ pc \in [Threads -> ThreadPCs]
  BY ThreadMoves DEF Struct, CallsOK
<1>1. CASE AcquireNativeScan(t)
  <2>1. /\ t \in InNative /\ t \in InNative' /\ t \notin InPlugin /\ t \notin InPlugin'
        /\ t \notin InSlot /\ t \in InSlot'
    BY <1>0, <1>1 DEF AcquireNativeScan, InNative, InSlot, InPlugin, CallShape
  <2> QED BY <1>0, <1>1, <2>1, MovedCounts DEF AcquireNativeScan, CountersExact
<1>2. CASE AdmissionFails(t)
  <2>1. /\ t \in InNative /\ t \in InNative' /\ t \notin InPlugin /\ t \notin InPlugin'
        /\ t \notin InSlot /\ t \notin InSlot'
    BY <1>0, <1>2 DEF AdmissionFails, InNative, InSlot, InPlugin, CallShape
  <2> QED BY <1>0, <1>2, <2>1, MovedCounts DEF AdmissionFails, CountersExact
<1>3. CASE BeginPluginCall(t)
  <2>1. /\ t \in InNative <=> t \in InNative'
        /\ t \in InSlot <=> t \in InSlot'
        /\ t \notin InPlugin
    BY <1>0, <1>3 DEF BeginPluginCall, InNative, InSlot, InPlugin
  <2>2. CASE Available
    <3>1. t \in InPlugin' /\ inFlight' = inFlight + 1
      BY <1>0, <1>3, <2>2 DEF BeginPluginCall, InPlugin
    <3> QED BY <1>0, <1>3, <2>1, <3>1, MovedCounts DEF BeginPluginCall, CountersExact
  <2>3. CASE ~Available
    <3>1. t \notin InPlugin' /\ inFlight' = inFlight
      BY <1>0, <1>3, <2>3 DEF BeginPluginCall, InPlugin
    <3> QED BY <1>0, <1>3, <2>1, <3>1, MovedCounts DEF BeginPluginCall, CountersExact
  <2> QED BY <2>2, <2>3
<1>4. CASE AnswerWithoutScan(t) \/ AcquireScanState(t) \/ ScanReturns(t) \/ ScanPanics(t)
  <2>1. /\ t \in InNative <=> t \in InNative'
        /\ t \in InSlot <=> t \in InSlot'
        /\ t \in InPlugin /\ t \in InPlugin'
    BY <1>0, <1>4 DEF AnswerWithoutScan, AcquireScanState, ScanReturns, ScanPanics,
                      InNative, InSlot, InPlugin
  <2>2. UNCHANGED <<native, slots, inFlight>>
    BY <1>4 DEF AnswerWithoutScan, AcquireScanState, ScanReturns, ScanPanics
  <2> QED BY <1>0, <2>1, <2>2, MovedCounts DEF CountersExact
<1>5. CASE DonePluginCall(t)
  <2>1. /\ t \in InNative <=> t \in InNative'
        /\ t \in InSlot <=> t \in InSlot'
        /\ t \in InPlugin /\ t \notin InPlugin'
    BY <1>0, <1>5 DEF DonePluginCall, InNative, InSlot, InPlugin
  <2> QED BY <1>0, <1>5, <2>1, MovedCounts DEF DonePluginCall, CountersExact
<1>6. CASE Settle(t)
  <2>1. /\ t \in InNative <=> t \in InNative'
        /\ t \in InSlot <=> t \in InSlot'
        /\ t \notin InPlugin /\ t \notin InPlugin'
    BY <1>0, <1>6 DEF Settle, InNative, InSlot, InPlugin
  <2> QED BY <1>0, <1>6, <2>1, MovedCounts DEF Settle, CountersExact
<1>7. CASE ReleaseNativeScan(t)
  <2>1. /\ t \in InNative /\ t \in InNative' /\ t \notin InPlugin /\ t \notin InPlugin'
        /\ t \in InSlot /\ t \notin InSlot'
    BY <1>0, <1>7 DEF ReleaseNativeScan, InNative, InSlot, InPlugin, CallShape
  <2> QED BY <1>0, <1>7, <2>1, MovedCounts DEF ReleaseNativeScan, CountersExact
<1>8. CASE DoneNativeScanCall(t)
  <2>1. /\ t \in InNative /\ t \notin InNative' /\ t \notin InPlugin /\ t \notin InPlugin'
        /\ t \notin InSlot /\ t \notin InSlot'
    BY <1>0, <1>8 DEF DoneNativeScanCall, InNative, InSlot, InPlugin, CallShape
  <2> QED BY <1>0, <1>8, <2>1, MovedCounts DEF DoneNativeScanCall, CountersExact
<1>9. CASE ReleaseRequestScanState(t)
  <2>1. /\ t \notin InNative /\ t \notin InNative' /\ t \notin InPlugin /\ t \notin InPlugin'
        /\ t \notin InSlot /\ t \notin InSlot'
    BY <1>0, <1>9 DEF ReleaseRequestScanState, InNative, InSlot, InPlugin
  <2> QED BY <1>0, <1>9, <2>1, MovedCounts DEF ReleaseRequestScanState, CountersExact
<1> QED BY <1>1, <1>2, <1>3, <1>4, <1>5, <1>6, <1>7, <1>8, <1>9 DEF ThreadStep

LEMMA CountersCall ==
    ASSUME Struct, CountersExact, NEW t \in Threads, NEW c \in Calls, CallStep(t, c)
    PROVE  CountersExact'
<1>0. /\ Moved(t) /\ req'[t].method = c.method /\ pc \in [Threads -> ThreadPCs]
      /\ pc[t] = "idle" /\ UNCHANGED <<slots, inFlight>>
  BY CallMoves DEF Struct, CallsOK, CallStep, RejectPayload, BeginNativeScanCall,
                   CallUnknownMethod, ReadRuntime, counters
<1>1. t \notin InNative /\ t \notin InSlot /\ t \notin InPlugin
  BY <1>0 DEF InNative, InSlot, InPlugin
<1>2. t \notin InSlot' /\ t \notin InPlugin'
  BY <1>0 DEF InSlot, InPlugin, CallStep, RejectPayload, BeginNativeScanCall,
              CallUnknownMethod, ReadRuntime, Intercepts
<1>3. \/ t \in InNative' /\ native' = native + 1
      \/ t \notin InNative' /\ native' = native
  BY <1>0 DEF InNative, CallStep, RejectPayload, BeginNativeScanCall,
              CallUnknownMethod, ReadRuntime, Intercepts, counters
<1> QED BY <1>0, <1>1, <1>2, <1>3, MovedCounts DEF CountersExact

\* A step that leaves the calls where they are.
LEMMA SamePlaces ==
    ASSUME Struct, NEW t \in Threads, Moved(t), pc' = pc, req'[t].method = req[t].method
    PROVE  InNative' = InNative /\ InSlot' = InSlot /\ InPlugin' = InPlugin
BY DEF Moved, InNative, InSlot, InPlugin

LEMMA CountersDeadline ==
    ASSUME Struct, CountersExact, NEW t \in Threads, DeadlinePasses(t)
    PROVE  CountersExact'
BY DeadlineMoves, SamePlaces DEF DeadlinePasses, counters, CountersExact

\* A lifecycle operation counts nothing and moves no call.
LEMMA LifeCounts ==
    ASSUME LifeNext
    PROVE  /\ UNCHANGED <<native, slots, inFlight, pc, req>>
           /\ InNative' = InNative /\ InSlot' = InSlot /\ InPlugin' = InPlugin
<1>1. UNCHANGED <<native, slots, inFlight, pc, req>>
  BY DEF LifeNext, PluginInit, RegisterBegin, QuiesceBegin, ShutdownBegin, LifeStep,
         RegisterFails, RegisterBuild, RegisterInstall, RegisterClosePrevious,
         QuiesceNativeDrained, QuiesceDrained, ShutdownNativeDrained, ShutdownDrained,
         ShutdownClear, ShutdownClose, ShutdownForget, counters
<1> QED BY <1>1 DEF InNative, InSlot, InPlugin

\* The steps of the system, by who takes them.
LEMMA NextIs ==
    ASSUME Next
    PROVE  \/ LifeNext
           \/ \E t \in Threads :
                (\E c \in Calls : CallStep(t, c)) \/ DeadlinePasses(t) \/ ThreadStep(t)
BY DEF Next, LifeNext, CallStep

\* Layers 1 and 2, with the capacity of the slot channel.
Counted == Struct /\ CountersExact /\ slots <= Slots

LEMMA CountedInit == Init => Counted
<1> SUFFICES ASSUME Init PROVE Counted OBVIOUS
<1>1. InNative = {} /\ InSlot = {} /\ InPlugin = {}
  BY DEF Init, InNative, InSlot, InPlugin
<1>2. Cardinality({}) = 0
  BY FS_EmptySet
<1>3. native = 0 /\ slots = 0 /\ inFlight = 0
  BY DEF Init
<1> QED BY <1>1, <1>2, <1>3, StructInit, ABIConstants DEF Counted, CountersExact

LEMMA SlotsBounded ==
    ASSUME Counted, NEW t \in Threads, ThreadStep(t) PROVE slots' <= Slots
<1>1. slots \in Nat
  BY HeldFinite, FS_CardinalityType DEF Counted, CountersExact
<1>2. CASE AcquireNativeScan(t)
  BY <1>1, <1>2, ABIConstants DEF AcquireNativeScan
<1>3. CASE ~AcquireNativeScan(t)
  <2>1. slots' = slots \/ slots' = slots - 1
    BY <1>3 DEF ThreadStep, AdmissionFails, BeginPluginCall, AnswerWithoutScan,
         AcquireScanState, ScanReturns, ScanPanics, DonePluginCall, Settle,
         ReleaseNativeScan, DoneNativeScanCall, ReleaseRequestScanState, counters
  <2> QED BY <1>1, <2>1, ABIConstants DEF Counted
<1> QED BY <1>2, <1>3

LEMMA CountedNext == Counted /\ [Next]_vars => Counted'
<1> SUFFICES ASSUME Counted, [Next]_vars PROVE Counted' OBVIOUS
<1>1. CASE LifeNext
  BY <1>1, StructLife, LifeCounts DEF Counted, CountersExact
<1>2. ASSUME NEW t \in Threads, NEW c \in Calls, CallStep(t, c) PROVE Counted'
  <2>1. slots' = slots
    BY <1>2 DEF CallStep, RejectPayload, BeginNativeScanCall, CallUnknownMethod,
                ReadRuntime, counters
  <2> QED BY <1>2, <2>1, StructCall, CountersCall DEF Counted
<1>3. ASSUME NEW t \in Threads, DeadlinePasses(t) PROVE Counted'
  BY <1>3, StructDeadline, CountersDeadline DEF Counted, DeadlinePasses, counters
<1>4. ASSUME NEW t \in Threads, ThreadStep(t) PROVE Counted'
  BY <1>4, StructThread, CountersThread, SlotsBounded DEF Counted
<1>5. CASE UNCHANGED vars
  BY <1>5 DEF Counted, Struct, ObjectsOK, LifeOK, CallsOK, Call, CallShape, LifeShape,
     CountersExact, InNative, InSlot, InPlugin, vars
<1> QED BY <1>1, <1>2, <1>3, <1>4, <1>5, NextIs

-----------------------------------------------------------------------------
(* Layer 3: draining *)

ShutPCs == {"shutNative", "shutInFlight", "clear", "close", "forget"}

Drain ==
    /\ life.pc \in Waiting => shuttingDown
    /\ life.pc \in {"quiesceInFlight", "shutInFlight"} => InNative = {}
    /\ (shuttingDown /\ life.pc \notin Waiting) => InNative = {} /\ InPlugin = {}
    /\ life.pc \in ShutPCs => shuttingDown /\ plugin = 0

Drained == Counted /\ Drain

\* While the plugin is shutting down no call passes a gate.
LEMMA NoEntryThread ==
    ASSUME Struct, NEW t \in Threads, ThreadStep(t)
    PROVE  /\ InNative' \subseteq InNative
           /\ shuttingDown => InPlugin' \subseteq InPlugin
<1>0. /\ Moved(t) /\ req'[t].method = req[t].method /\ CallShape(pc[t], req[t])
      /\ pc \in [Threads -> ThreadPCs]
  BY ThreadMoves DEF Struct, CallsOK
<1>1. \A u \in Threads \ {t} : pc'[u] = pc[u] /\ req'[u] = req[u]
  BY <1>0 DEF Moved
<1>2. t \in InNative' => t \in InNative
  BY <1>0 DEF InNative, CallShape, ThreadStep, AcquireNativeScan, AdmissionFails,
     BeginPluginCall, AnswerWithoutScan, AcquireScanState, ScanReturns, ScanPanics,
     DonePluginCall, Settle, ReleaseNativeScan, DoneNativeScanCall, ReleaseRequestScanState
<1>3. (shuttingDown /\ t \in InPlugin') => t \in InPlugin
  BY <1>0 DEF InPlugin, Available, ThreadStep, AcquireNativeScan, AdmissionFails,
     BeginPluginCall, AnswerWithoutScan, AcquireScanState, ScanReturns, ScanPanics,
     DonePluginCall, Settle, ReleaseNativeScan, DoneNativeScanCall, ReleaseRequestScanState
<1>4. /\ \A u \in Threads \ {t} : u \in InNative' => u \in InNative
      /\ \A u \in Threads \ {t} : u \in InPlugin' => u \in InPlugin
      /\ InNative' \subseteq Threads /\ InPlugin' \subseteq Threads
  BY <1>1 DEF InNative, InPlugin
<1> QED BY <1>2, <1>3, <1>4

LEMMA NoEntryCall ==
    ASSUME Struct, NEW t \in Threads, NEW c \in Calls, CallStep(t, c)
    PROVE  /\ shuttingDown => InNative' \subseteq InNative
           /\ InPlugin' \subseteq InPlugin
<1>0. /\ Moved(t) /\ req'[t].method = c.method /\ pc \in [Threads -> ThreadPCs]
      /\ pc[t] = "idle"
  BY CallMoves DEF Struct, CallsOK, CallStep, RejectPayload, BeginNativeScanCall,
                   CallUnknownMethod, ReadRuntime
<1>1. \A u \in Threads \ {t} : pc'[u] = pc[u] /\ req'[u] = req[u]
  BY <1>0 DEF Moved
<1>2. shuttingDown => t \notin InNative'
  BY <1>0 DEF InNative, CallStep, RejectPayload, BeginNativeScanCall, Available,
              CallUnknownMethod, ReadRuntime, Intercepts
<1>3. t \notin InPlugin'
  BY <1>0 DEF InPlugin, CallStep, RejectPayload, BeginNativeScanCall,
              CallUnknownMethod, ReadRuntime
<1>4. /\ \A u \in Threads \ {t} : u \in InNative' => u \in InNative
      /\ \A u \in Threads \ {t} : u \in InPlugin' => u \in InPlugin
      /\ InNative' \subseteq Threads /\ InPlugin' \subseteq Threads
  BY <1>1 DEF InNative, InPlugin
<1> QED BY <1>2, <1>3, <1>4

\* Calls alone keep Drain, whatever they do, if nobody passes a gate.
LEMMA DrainCalls ==
    ASSUME Drain, UNCHANGED <<plugin, shuttingDown, life>>,
           shuttingDown => InNative' \subseteq InNative /\ InPlugin' \subseteq InPlugin
    PROVE  Drain'
BY DEF Drain, Waiting

LEMMA DrainLife ==
    ASSUME Counted, Drain, LifeNext PROVE Drain'
<1> USE DEF shared, Waiting, ShutPCs
<1>0. InNative' = InNative /\ InPlugin' = InPlugin /\ LifeOK
  BY LifeCounts DEF Counted, Struct
<1>1. CASE PluginInit
  BY <1>0, <1>1 DEF PluginInit, Drain
<1>2. CASE RegisterBegin
  <2>1. life.pc = "idle" /\ life'.pc = "build" /\ UNCHANGED <<plugin, shuttingDown>>
    BY <1>2 DEF RegisterBegin, IdleLife
  <2> QED BY <1>0, <2>1 DEF Drain
<1>3. CASE QuiesceBegin
  <2>1. life'.pc = "quiesceNative" /\ shuttingDown'
    BY <1>3 DEF QuiesceBegin, IdleLife
  <2> QED BY <2>1 DEF Drain
<1>4. CASE ShutdownBegin
  <2>1. life'.pc = "shutNative" /\ shuttingDown' /\ plugin' = 0
    BY <1>4 DEF ShutdownBegin
  <2> QED BY <2>1 DEF Drain
<1>5. CASE RegisterFails \/ \E config \in Configs : RegisterBuild(config)
  <2>1. /\ life.pc = "build" /\ life'.pc \in {"idle", "install"}
        /\ UNCHANGED <<plugin, shuttingDown>>
    <3>1. CASE RegisterFails
      BY <3>1 DEF RegisterFails, IdleLife
    <3>2. ASSUME NEW config \in Configs, RegisterBuild(config)
          PROVE  /\ life.pc = "build" /\ life'.pc \in {"idle", "install"}
                 /\ UNCHANGED <<plugin, shuttingDown>>
      <4>1. \/ life' = IdleLife
            \/ life' = [life EXCEPT !.pc = "install", !.built = Len(plugins) + 1]
        BY <3>2 DEF RegisterBuild
      <4>2. life.pc = "build" /\ UNCHANGED <<plugin, shuttingDown>>
        BY <3>2 DEF RegisterBuild
      <4>3. life'.pc \in {"idle", "install"}
        <5>1. CASE life' = IdleLife
          BY <5>1 DEF IdleLife
        <5>2. CASE life' = [life EXCEPT !.pc = "install", !.built = Len(plugins) + 1]
          BY <1>0, <5>2 DEF LifeOK
        <5> QED BY <4>1, <5>1, <5>2
      <4> QED BY <4>2, <4>3
    <3> QED BY <1>5, <3>1, <3>2
  <2> QED BY <1>0, <2>1 DEF Drain
<1>6. CASE RegisterInstall
  <2>1. life'.pc = "closePrevious" /\ ~shuttingDown'
    BY <1>0, <1>6 DEF RegisterInstall, LifeOK
  <2> QED BY <2>1 DEF Drain
<1>7. CASE RegisterClosePrevious
  <2>1. life.pc = "closePrevious" /\ life'.pc = "idle" /\ UNCHANGED <<plugin, shuttingDown>>
    BY <1>7 DEF RegisterClosePrevious, IdleLife
  <2> QED BY <1>0, <2>1 DEF Drain
<1>8. CASE QuiesceNativeDrained \/ ShutdownNativeDrained
  <2>1. native = 0 => InNative = {}
    BY HeldFinite, FS_EmptySet DEF Counted, CountersExact
  <2>2. /\ \/ life.pc = "quiesceNative" /\ life'.pc = "quiesceInFlight"
           \/ life.pc = "shutNative" /\ life'.pc = "shutInFlight"
        /\ native = 0 /\ UNCHANGED <<plugin, shuttingDown>>
    BY <1>0, <1>8 DEF QuiesceNativeDrained, ShutdownNativeDrained, LifeOK
  <2> QED BY <1>0, <2>1, <2>2 DEF Drain
<1>9. CASE QuiesceDrained \/ ShutdownDrained
  <2>1. inFlight = 0 => InPlugin = {}
    BY HeldFinite, FS_EmptySet DEF Counted, CountersExact
  <2>2. /\ \/ life.pc = "quiesceInFlight" /\ life'.pc = "idle"
           \/ life.pc = "shutInFlight" /\ life'.pc = "clear"
        /\ inFlight = 0 /\ UNCHANGED <<plugin, shuttingDown>>
    BY <1>0, <1>9 DEF QuiesceDrained, ShutdownDrained, IdleLife, LifeOK
  <2> QED BY <1>0, <2>1, <2>2 DEF Drain
<1>10. CASE ShutdownClear \/ ShutdownClose \/ ShutdownForget
  <2>1. /\ life.pc \in {"clear", "close", "forget"} /\ life'.pc \in {"close", "forget", "idle"}
        /\ UNCHANGED <<plugin, shuttingDown>>
    BY <1>0, <1>10 DEF ShutdownClear, ShutdownClose, ShutdownForget, IdleLife, LifeOK
  <2> QED BY <1>0, <2>1 DEF Drain
<1> QED
  BY <1>1, <1>2, <1>3, <1>4, <1>5, <1>6, <1>7, <1>8, <1>9, <1>10 DEF LifeNext, LifeStep

LEMMA DrainedInit == Init => Drained
BY CountedInit DEF Init, IdleLife, Waiting, ShutPCs, Drain, Drained

LEMMA DrainedNext == Drained /\ [Next]_vars => Drained'
<1> SUFFICES ASSUME Drained, [Next]_vars PROVE Drained' OBVIOUS
<1>0. Counted' /\ Counted /\ Drain /\ Struct
  BY CountedNext DEF Drained, Counted
<1>1. CASE LifeNext
  BY <1>0, <1>1, DrainLife DEF Drained
<1>2. ASSUME NEW t \in Threads, NEW c \in Calls, CallStep(t, c) PROVE Drained'
  <2>1. UNCHANGED <<plugin, shuttingDown, life>>
    BY <1>2 DEF CallStep, RejectPayload, BeginNativeScanCall, CallUnknownMethod,
                ReadRuntime, shared
  <2> QED BY <1>0, <1>2, <2>1, NoEntryCall, DrainCalls DEF Drained
<1>3. ASSUME NEW t \in Threads, DeadlinePasses(t) PROVE Drained'
  BY <1>0, <1>3, DeadlineMoves, SamePlaces, DrainCalls DEF Drained, DeadlinePasses, shared
<1>4. ASSUME NEW t \in Threads, ThreadStep(t) PROVE Drained'
  <2>1. UNCHANGED <<plugin, shuttingDown, life>>
    BY <1>4 DEF ThreadStep, AcquireNativeScan, AdmissionFails, BeginPluginCall,
       AnswerWithoutScan, AcquireScanState, ScanReturns, ScanPanics, DonePluginCall, Settle,
       ReleaseNativeScan, DoneNativeScanCall, ReleaseRequestScanState, shared
  <2> QED BY <1>0, <1>4, <2>1, NoEntryThread, DrainCalls DEF Drained
<1>5. CASE UNCHANGED vars
  BY <1>0, <1>5 DEF Drained, Drain, InNative, InPlugin, vars
<1> QED BY <1>1, <1>2, <1>3, <1>4, <1>5, NextIs

-----------------------------------------------------------------------------
(* Layer 4: who holds request state *)

AllReleased == \A r \in 1..MaxRuntimes : retained[r] = {}

\* Whoever can still write to a cache writes to that of the installed runtime:
\* the installed plugin, the plugins that calls in flight found installed, and
\* the one a registration is about to install all use it.
Owner ==
    /\ plugin # 0 => runtime # 0 /\ plugins[plugin].runtime = runtime
    /\ \A t \in InPlugin : plugins[req[t].plugin].runtime = runtime
    /\ life.pc \in {"build", "install"} \cup ShutPCs => life.runtime = runtime
    /\ life.pc = "install" => plugins[life.built].runtime = runtime
    /\ life.pc = "closePrevious" => plugin # 0
    /\ (plugin = 0 /\ life.pc \notin {"shutNative", "shutInFlight"}) => InPlugin = {}
    /\ RetainedIsReleasable
    /\ (plugin = 0 /\ life.pc \notin {"shutNative", "shutInFlight", "clear"}) => AllReleased

Owned == Drained /\ Owner

\* What the calls do to the caches, put abstractly.
LEMMA OwnerCalls ==
    ASSUME Owner, UNCHANGED <<plugin, runtime, plugins, life>>,
           \A t \in InPlugin' : plugins[req'[t].plugin].runtime = runtime,
           plugin = 0 => InPlugin' \subseteq InPlugin,
           \A r \in 1..MaxRuntimes :
               retained'[r] # {} => retained[r] # {} \/ (r = runtime /\ InPlugin # {})
    PROVE  Owner'
<1>1. RetainedIsReleasable'
  BY DEF Owner, RetainedIsReleasable
<1>2. (plugin = 0 /\ life.pc \notin {"shutNative", "shutInFlight"}) => InPlugin' = {}
  BY DEF Owner
<1>3. (plugin = 0 /\ life.pc \notin {"shutNative", "shutInFlight", "clear"}) => AllReleased'
  BY DEF Owner, AllReleased
<1> QED BY <1>1, <1>2, <1>3 DEF Owner

LEMMA OwnerThread ==
    ASSUME Struct, Owner, NEW t \in Threads, ThreadStep(t) PROVE Owner'
<1>0. /\ Moved(t) /\ CallShape(pc[t], req[t]) /\ pc \in [Threads -> ThreadPCs]
      /\ ~BeginPluginCall(t) => req'[t].plugin = req[t].plugin
      /\ (BeginPluginCall(t) /\ Available) => req'[t].plugin = plugin
  BY ThreadMoves DEF Struct, CallsOK
<1>1. UNCHANGED <<plugin, runtime, plugins, life>>
  BY DEF ThreadStep, AcquireNativeScan, AdmissionFails, BeginPluginCall, AnswerWithoutScan,
         AcquireScanState, ScanReturns, ScanPanics, DonePluginCall, Settle, ReleaseNativeScan,
         DoneNativeScanCall, ReleaseRequestScanState, shared, objects
<1>2. \A u \in Threads \ {t} : pc'[u] = pc[u] /\ req'[u] = req[u]
  BY <1>0 DEF Moved
<1>3. /\ \A u \in Threads \ {t} : u \in InPlugin' => u \in InPlugin
      /\ InPlugin' \subseteq Threads
  BY <1>2 DEF InPlugin
<1>4. t \in InPlugin' => t \in InPlugin \/ (BeginPluginCall(t) /\ Available)
  BY <1>0 DEF InPlugin, ThreadStep, AcquireNativeScan, AdmissionFails,
     BeginPluginCall, AnswerWithoutScan, AcquireScanState, ScanReturns, ScanPanics,
     DonePluginCall, Settle, ReleaseNativeScan, DoneNativeScanCall, ReleaseRequestScanState
<1>5. ~(t \in InPlugin /\ BeginPluginCall(t))
  BY DEF InPlugin, BeginPluginCall
<1>6. \A u \in InPlugin' : plugins[req'[u].plugin].runtime = runtime
  <2>1. t \in InPlugin' => plugins[req'[t].plugin].runtime = runtime
    BY <1>0, <1>4, <1>5 DEF Owner, Available
  <2>2. \A u \in InPlugin' \ {t} : plugins[req'[u].plugin].runtime = runtime
    BY <1>2, <1>3 DEF Owner
  <2> QED BY <2>1, <2>2
<1>7. plugin = 0 => InPlugin' \subseteq InPlugin
  BY <1>3, <1>4 DEF Available
<1>8. \A r \in 1..MaxRuntimes :
         retained'[r] # {} => retained[r] # {} \/ (r = runtime /\ InPlugin # {})
  <2>1. CASE AcquireScanState(t)
    <3>1. t \in InPlugin
      BY <2>1 DEF AcquireScanState, InPlugin
    <3>2. plugins[req[t].plugin].runtime = runtime
      BY <3>1 DEF Owner
    <3>3. retained \in [1..MaxRuntimes -> SUBSET RequestIDs]
      BY DEF Struct, ObjectsOK
    <3>4. \A r \in 1..MaxRuntimes : r # runtime => retained'[r] = retained[r]
      BY <2>1, <3>2, <3>3 DEF AcquireScanState
    <3> QED BY <3>1, <3>4
  <2>2. CASE ReleaseRequestScanState(t)
    BY <2>2 DEF ReleaseRequestScanState
  <2>3. CASE ~AcquireScanState(t) /\ ~ReleaseRequestScanState(t)
    <3>1. retained' = retained
      BY <2>3 DEF ThreadStep, AcquireNativeScan, AdmissionFails, BeginPluginCall,
         AnswerWithoutScan, ScanReturns, ScanPanics, DonePluginCall, Settle,
         ReleaseNativeScan, DoneNativeScanCall, objects
    <3> QED BY <3>1
  <2> QED BY <2>1, <2>2, <2>3
<1> QED BY <1>1, <1>6, <1>7, <1>8, OwnerCalls

LEMMA OwnerCall ==
    ASSUME Struct, Owner, NEW t \in Threads, NEW c \in Calls, CallStep(t, c) PROVE Owner'
<1>0. /\ Moved(t) /\ pc \in [Threads -> ThreadPCs] /\ pc[t] = "idle"
      /\ UNCHANGED <<plugin, runtime, plugins, retained, life>>
  BY CallMoves DEF Struct, CallsOK, CallStep, RejectPayload, BeginNativeScanCall,
                   CallUnknownMethod, ReadRuntime, shared, objects
<1>1. t \notin InPlugin'
  BY <1>0 DEF InPlugin, CallStep, RejectPayload, BeginNativeScanCall,
              CallUnknownMethod, ReadRuntime
<1>2. \A u \in Threads \ {t} : pc'[u] = pc[u] /\ req'[u] = req[u]
  BY <1>0 DEF Moved
<1>3. /\ \A u \in Threads \ {t} : u \in InPlugin' => u \in InPlugin
      /\ InPlugin' \subseteq Threads
  BY <1>2 DEF InPlugin
<1>4. \A u \in InPlugin' : plugins[req'[u].plugin].runtime = runtime
  BY <1>1, <1>2, <1>3 DEF Owner
<1> QED BY <1>0, <1>1, <1>3, <1>4, OwnerCalls

LEMMA OwnerDeadline ==
    ASSUME Struct, Owner, NEW t \in Threads, DeadlinePasses(t) PROVE Owner'
<1>1. InPlugin' = InPlugin /\ UNCHANGED <<plugin, runtime, plugins, retained, life>>
  BY DeadlineMoves, SamePlaces DEF DeadlinePasses, shared, objects
<1>2. \A u \in Threads : req'[u].plugin = req[u].plugin
  BY DeadlineMoves DEF Moved
<1>3. InPlugin \subseteq Threads
  BY DEF InPlugin
<1> QED BY <1>1, <1>2, <1>3, OwnerCalls DEF Owner

\* A lifecycle step that neither installs nor removes a plugin or a runtime, and
\* changes of the plugins at most their logs.
LEMMA OwnerKeeps ==
    ASSUME Struct, Owner, UNCHANGED <<plugin, runtime, pc, req>>,
           \A p \in 1..Len(plugins) : plugins'[p].runtime = plugins[p].runtime
    PROVE  /\ plugin' # 0 => runtime' # 0 /\ plugins'[plugin'].runtime = runtime'
           /\ InPlugin' = InPlugin
           /\ \A t \in InPlugin' : plugins'[req'[t].plugin].runtime = runtime'
<1>1. plugin # 0 => plugin \in 1..Len(plugins)
  BY LenProperties DEF Struct, ObjectsOK
<1>2. InPlugin' = InPlugin
  BY DEF InPlugin
<1>3. \A t \in InPlugin : req[t].plugin \in 1..Len(plugins)
  <2>1. Len(plugins) \in Nat
    BY LenProperties DEF Struct, ObjectsOK
  <2>2. \A t \in InPlugin : req[t].plugin # 0 /\ req[t] \in Call
    BY DEF Struct, CallsOK, CallShape, InPlugin
  <2> QED BY <2>1, <2>2 DEF Call
<1> QED BY <1>1, <1>2, <1>3 DEF Owner

LEMMA OwnerLife ==
    ASSUME Drained, Drained', Owner, LifeNext PROVE Owner'
<1> USE DEF shared, objects, ShutPCs
<1>0. /\ Struct /\ LifeOK /\ ObjectsOK /\ Drain /\ Drain' /\ LifeShape
      /\ UNCHANGED <<pc, req>> /\ InPlugin' = InPlugin
  BY LifeCounts DEF Drained, Counted, Struct
<1>1. CASE PluginInit \/ QuiesceBegin
  <2>1. /\ UNCHANGED <<plugin, runtime, plugins, retained>>
        /\ life.pc = "idle" /\ life'.pc \in {"idle", "quiesceNative"}
    BY <1>1 DEF PluginInit, QuiesceBegin, IdleLife
  <2>2. RetainedIsReleasable' /\ (AllReleased => AllReleased')
    BY <2>1 DEF Owner, RetainedIsReleasable, AllReleased
  <2> QED BY <1>0, <2>1, <2>2, OwnerKeeps DEF Owner
<1>2. CASE RegisterBegin
  <2>1. /\ UNCHANGED <<plugin, plugins, retained>> /\ life.pc = "idle"
        /\ life'.pc = "build" /\ life'.runtime = runtime'
    BY <1>2 DEF RegisterBegin, IdleLife
  <2>2. CASE runtime # 0
    <3>1. runtime' = runtime
      BY <1>2, <2>2 DEF RegisterBegin
    <3>2. RetainedIsReleasable' /\ (AllReleased => AllReleased')
      BY <2>1, <3>1 DEF Owner, RetainedIsReleasable, AllReleased
    <3> QED BY <1>0, <2>1, <3>1, <3>2, OwnerKeeps DEF Owner
  <2>3. CASE runtime = 0
    <3>1. plugin = 0 /\ InPlugin = {} /\ AllReleased
      BY <2>1, <2>3 DEF Owner
    <3>2. RetainedIsReleasable' /\ AllReleased'
      BY <2>1, <3>1 DEF RetainedIsReleasable, AllReleased
    <3> QED BY <1>0, <2>1, <3>1, <3>2 DEF Owner
  <2> QED BY <2>2, <2>3
<1>3. CASE ShutdownBegin
  <2>1. /\ UNCHANGED <<runtime, plugins, retained>> /\ plugin' = 0
        /\ life'.pc = "shutNative" /\ life'.runtime = runtime
    BY <1>3 DEF ShutdownBegin
  <2>2. RetainedIsReleasable'
    BY <2>1 DEF Owner, RetainedIsReleasable
  <2> QED BY <1>0, <2>1, <2>2 DEF Owner
<1>4. CASE RegisterFails
  <2>1. /\ UNCHANGED <<plugin, runtime, plugins, retained>>
        /\ life.pc = "build" /\ life'.pc = "idle"
    BY <1>4 DEF RegisterFails, IdleLife
  <2>2. RetainedIsReleasable' /\ (AllReleased => AllReleased')
    BY <2>1 DEF Owner, RetainedIsReleasable, AllReleased
  <2> QED BY <1>0, <2>1, <2>2, OwnerKeeps DEF Owner
<1>5. CASE \E config \in Configs : RegisterBuild(config)
  <2>1. PICK config \in Configs : RegisterBuild(config)
    BY <1>5
  <2> DEFINE x == [config |-> config, runtime |-> life.runtime, open |-> config.logged]
  <2>2. x \in Plugin /\ x.runtime = runtime
    BY <1>0, <2>1, ABIConstants
    DEF Plugin, Config, RegisterBuild, LifeOK, LifeShape, ObjectsOK, Owner
  <2>3. plugins' = Append(plugins, x)
    BY <2>1 DEF RegisterBuild
  <2> HIDE DEF x
  <2>4. /\ \A p \in 1..Len(plugins) : plugins'[p].runtime = plugins[p].runtime
        /\ plugins'[Len(plugins) + 1].runtime = runtime
    BY <1>0, <2>2, <2>3, AppendPlugin DEF ObjectsOK
  <2>5. UNCHANGED <<plugin, runtime, retained>> /\ life.pc = "build" /\ life.runtime = runtime
    BY <2>1 DEF RegisterBuild, Owner
  <2>6. RetainedIsReleasable' /\ (AllReleased => AllReleased')
    BY <2>5 DEF Owner, RetainedIsReleasable, AllReleased
  <2>7. CASE life' = IdleLife
    <3>1. life'.pc = "idle"
      BY <2>7 DEF IdleLife
    <3> QED BY <1>0, <2>4, <2>5, <2>6, <3>1, OwnerKeeps DEF Owner
  <2>8. CASE life' = [life EXCEPT !.pc = "install", !.built = Len(plugins) + 1]
    <3>1. life'.pc = "install" /\ life'.built = Len(plugins) + 1 /\ life'.runtime = runtime
      BY <1>0, <2>5, <2>8 DEF LifeOK
    <3> QED BY <1>0, <2>4, <2>5, <2>6, <3>1, OwnerKeeps DEF Owner
  <2> QED BY <2>1, <2>7, <2>8 DEF RegisterBuild
<1>6. CASE RegisterInstall
  <2>1. /\ UNCHANGED <<runtime, plugins, retained>> /\ plugin' = life.built
        /\ life.pc = "install" /\ life'.pc = "closePrevious"
    BY <1>0, <1>6 DEF RegisterInstall, LifeOK
  <2>2. plugin' # 0 /\ plugins[plugin'].runtime = runtime
    BY <1>0, <2>1 DEF LifeShape, Owner
  <2>3. runtime # 0
    BY <1>0, <2>1 DEF LifeShape, Owner
  <2>4. RetainedIsReleasable'
    BY <2>1 DEF Owner, RetainedIsReleasable
  <2> QED BY <1>0, <2>1, <2>2, <2>3, <2>4 DEF Owner
<1>7. CASE RegisterClosePrevious \/ ShutdownClose
  <2>1. /\ UNCHANGED <<plugin, runtime, retained>> /\ plugins' = ClosedLog(life.previous)
        /\ \/ life.pc = "closePrevious" /\ life'.pc = "idle"
           \/ life.pc = "close" /\ life'.pc = "forget" /\ life'.runtime = life.runtime
    BY <1>0, <1>7 DEF RegisterClosePrevious, ShutdownClose, IdleLife, LifeOK
  <2>2. \A p \in 1..Len(plugins) : plugins'[p].runtime = plugins[p].runtime
    BY <1>0, <2>1, ClosedLogKeeps DEF LifeOK
  <2>3. RetainedIsReleasable' /\ (AllReleased => AllReleased')
    BY <2>1 DEF Owner, RetainedIsReleasable, AllReleased
  <2> QED BY <1>0, <2>1, <2>2, <2>3, OwnerKeeps DEF Owner
<1>8. CASE QuiesceNativeDrained \/ QuiesceDrained \/ ShutdownNativeDrained \/ ShutdownDrained
  <2>1. /\ UNCHANGED <<plugin, runtime, plugins, retained>>
        /\ \/ life.pc = "quiesceNative" /\ life'.pc = "quiesceInFlight"
           \/ life.pc = "quiesceInFlight" /\ life'.pc = "idle"
           \/ /\ life.pc = "shutNative" /\ life'.pc = "shutInFlight"
              /\ life'.runtime = life.runtime
           \/ /\ life.pc = "shutInFlight" /\ life'.pc = "clear"
              /\ life'.runtime = life.runtime
    BY <1>0, <1>8 DEF QuiesceNativeDrained, QuiesceDrained, ShutdownNativeDrained,
                      ShutdownDrained, IdleLife, LifeOK
  <2>2. RetainedIsReleasable' /\ (AllReleased => AllReleased')
    BY <2>1 DEF Owner, RetainedIsReleasable, AllReleased
  <2>3. life'.pc = "clear" => InPlugin' = {}
    BY <1>0 DEF Drain, Waiting
  <2> QED BY <1>0, <2>1, <2>2, <2>3, OwnerKeeps DEF Owner
<1>9. CASE ShutdownClear
  <2>1. /\ UNCHANGED <<plugin, runtime, plugins>> /\ life.pc = "clear"
        /\ life'.pc = "close" /\ life'.runtime = life.runtime
    BY <1>0, <1>9 DEF ShutdownClear, LifeOK
  <2>2. AllReleased'
    BY <1>9, <2>1 DEF ShutdownClear, Owner, RetainedIsReleasable, AllReleased
  <2>3. RetainedIsReleasable'
    BY <2>2 DEF AllReleased, RetainedIsReleasable
  <2> QED BY <1>0, <2>1, <2>2, <2>3, OwnerKeeps DEF Owner
<1>10. CASE ShutdownForget
  <2>1. /\ UNCHANGED <<plugin, plugins, retained>> /\ life.pc = "forget" /\ life'.pc = "idle"
    BY <1>10 DEF ShutdownForget, IdleLife
  <2>2. plugin = 0 /\ InPlugin = {} /\ AllReleased
    BY <1>0, <2>1 DEF Drain, Owner
  <2>3. RetainedIsReleasable' /\ AllReleased'
    BY <2>1, <2>2 DEF AllReleased, RetainedIsReleasable
  <2> QED BY <1>0, <2>1, <2>2, <2>3 DEF Owner
<1> QED
  BY <1>1, <1>2, <1>3, <1>4, <1>5, <1>6, <1>7, <1>8, <1>9, <1>10 DEF LifeNext, LifeStep

LEMMA OwnedInit == Init => Owned
<1> SUFFICES ASSUME Init PROVE Owned OBVIOUS
<1>1. plugin = 0 /\ life.pc = "idle" /\ InPlugin = {}
  BY DEF Init, IdleLife, InPlugin
<1>2. AllReleased /\ RetainedIsReleasable
  BY DEF Init, AllReleased, RetainedIsReleasable
<1> QED BY <1>1, <1>2, DrainedInit DEF Owned, Owner, ShutPCs

LEMMA OwnedNext == Owned /\ [Next]_vars => Owned'
<1> SUFFICES ASSUME Owned, [Next]_vars PROVE Owned' OBVIOUS
<1>0. Drained /\ Drained' /\ Owner /\ Struct
  BY DrainedNext DEF Owned, Drained, Counted
<1>1. CASE LifeNext
  BY <1>0, <1>1, OwnerLife DEF Owned
<1>2. ASSUME NEW t \in Threads, NEW c \in Calls, CallStep(t, c) PROVE Owned'
  BY <1>0, <1>2, OwnerCall DEF Owned
<1>3. ASSUME NEW t \in Threads, DeadlinePasses(t) PROVE Owned'
  BY <1>0, <1>3, OwnerDeadline DEF Owned
<1>4. ASSUME NEW t \in Threads, ThreadStep(t) PROVE Owned'
  BY <1>0, <1>4, OwnerThread DEF Owned
<1>5. CASE UNCHANGED vars
  BY <1>0, <1>5 DEF Owned, Owner, InPlugin, RetainedIsReleasable, AllReleased, vars
<1> QED BY <1>1, <1>2, <1>3, <1>4, <1>5, NextIs

-----------------------------------------------------------------------------
(* Layer 5: what has been answered *)

\* A call has no reply until it is settled and no outcome until a plugin
\* gives it one; and what was forwarded, a plugin forwarded in time.
Answer(p, c) ==
    /\ p \in {"admit", "handle", "inspect", "scan", "donePlugin", "settle", "drop"} =>
          c.reply = "none"
    /\ p \in {"admit", "handle"} => c.outcome = "none"
    /\ c.outcome = "forward" => c.plugin # 0
    /\ c.reply = "forward" => c.plugin # 0 /\ c.outcome = "forward" /\ ~c.late

Answered == Struct /\ \A t \in Threads : Answer(pc[t], req[t])

\* Setting one field leaves the fields an answer is about alone.
LEMMA OutcomeFields ==
    ASSUME NEW c \in Call, NEW o \in Outcomes
    PROVE  LET d == [c EXCEPT !.outcome = o]
           IN d.outcome = o /\ d.reply = c.reply /\ d.plugin = c.plugin /\ d.late = c.late
BY DEF Call

LEMMA ReplyFields ==
    ASSUME NEW c \in Call, NEW r \in Replies
    PROVE  LET d == [c EXCEPT !.reply = r]
           IN d.outcome = c.outcome /\ d.reply = r /\ d.plugin = c.plugin /\ d.late = c.late
BY DEF Call

LEMMA OtherFields ==
    ASSUME NEW c \in Call
    PROVE  /\ \A p \in 0..Len(plugins) : LET d == [c EXCEPT !.plugin = p]
              IN d.outcome = c.outcome /\ d.reply = c.reply /\ d.plugin = p
           /\ \A r \in 0..runtimes : LET d == [c EXCEPT !.target = r]
              IN d.outcome = c.outcome /\ d.reply = c.reply
           /\ LET d == [c EXCEPT !.late = TRUE]
              IN d.outcome = c.outcome /\ d.reply = c.reply /\ d.plugin = c.plugin
BY DEF Call

LEMMA NewCallUnanswered ==
    ASSUME ObjectsOK, NEW c \in Calls PROVE c \in Call /\ c.outcome = "none" /\ c.reply = "none"
<1>1. NoCall \in Call /\ NoCall.outcome = "none" /\ NoCall.reply = "none"
  BY DEF NoCall, Call, Methods, Outcomes, Replies, ObjectsOK
<1>2. \A m \in Methods, r \in RequestIDs \cup {NoRequestID} :
         NewCall(m, r).outcome = "none" /\ NewCall(m, r).reply = "none"
  BY <1>1 DEF NewCall, Call
<1> QED BY <1>2, CallsAreCalls DEF Calls, Methods, Intercepts

LEMMA FailureForwardsNothing == \A m : Failure(m) # "forward" /\ Failure(m) \in Replies
BY DEF Failure, Replies

\* The call a step leaves behind, where the step changes one field of it.
LEMMA UpdatedCall ==
    ASSUME Struct, NEW t \in Threads, NEW c, req' = [req EXCEPT ![t] = c]
    PROVE  req'[t] = c
BY DEF Struct, CallsOK

LEMMA UpdatedPlace ==
    ASSUME Struct, NEW t \in Threads, NEW p, pc' = [pc EXCEPT ![t] = p]
    PROVE  pc'[t] = p
BY DEF Struct, CallsOK

LEMMA AnswerThread ==
    ASSUME Answered, NEW t \in Threads, ThreadStep(t)
    PROVE  Answer(pc'[t], req'[t])
<1>0. /\ Struct /\ req[t] \in Call /\ CallShape(pc[t], req[t]) /\ Answer(pc[t], req[t])
      /\ plugin \in 0..Len(plugins) /\ 0 \in 0..runtimes
  BY DEF Answered, Struct, CallsOK, ObjectsOK
<1>1. CASE AcquireNativeScan(t)
  <2>1. pc[t] = "admit" /\ pc'[t] = "handle" /\ req'[t] = req[t]
    BY <1>0, <1>1, UpdatedPlace DEF AcquireNativeScan
  <2> QED BY <1>0, <2>1 DEF Answer
<1>2. CASE AdmissionFails(t)
  <2> DEFINE c == [req[t] EXCEPT !.reply = Failure(req[t].method)]
  <2>1. c.outcome = req[t].outcome /\ c.reply # "forward" /\ c.plugin = req[t].plugin
    BY <1>0, ReplyFields, FailureForwardsNothing
  <2>2. req' = [req EXCEPT ![t] = c] /\ pc[t] = "admit" /\ pc' = [pc EXCEPT ![t] = "doneNative"]
    BY <1>2 DEF AdmissionFails
  <2> HIDE DEF c
  <2>3. req'[t] = c /\ pc'[t] = "doneNative"
    BY <1>0, <2>2, UpdatedCall, UpdatedPlace
  <2> QED BY <1>0, <2>1, <2>2, <2>3 DEF Answer
<1>3. CASE BeginPluginCall(t) /\ Available
  <2> DEFINE c == [req[t] EXCEPT !.plugin = plugin]
  <2>1. c.outcome = req[t].outcome /\ c.reply = req[t].reply /\ c.plugin = plugin
    BY <1>0, OtherFields
  <2>2. /\ req' = [req EXCEPT ![t] = c] /\ pc[t] = "handle" /\ pc' = [pc EXCEPT ![t] = "inspect"]
        /\ plugin # 0
    BY <1>3 DEF BeginPluginCall, Available
  <2> HIDE DEF c
  <2>3. req'[t] = c /\ pc'[t] = "inspect"
    BY <1>0, <2>2, UpdatedCall, UpdatedPlace
  <2> QED BY <1>0, <2>1, <2>2, <2>3 DEF Answer
\* The steps that give a call its outcome.
<1>4. ASSUME NEW o \in Outcomes, NEW p \in {"donePlugin", "settle"},
             req' = [req EXCEPT ![t].outcome = o], pc' = [pc EXCEPT ![t] = p],
             req[t].reply = "none", o = "forward" => req[t].plugin # 0
      PROVE  Answer(pc'[t], req'[t])
  <2> DEFINE c == [req[t] EXCEPT !.outcome = o]
  <2>1. c.outcome = o /\ c.reply = "none" /\ c.plugin = req[t].plugin
    BY <1>0, <1>4, OutcomeFields
  <2>2. req' = [req EXCEPT ![t] = c]
    BY <1>4
  <2> HIDE DEF c
  <2>3. req'[t] = c /\ pc'[t] = p
    BY <1>0, <1>4, <2>2, UpdatedCall, UpdatedPlace
  <2> QED BY <1>4, <2>1, <2>3 DEF Answer
<1>5. CASE BeginPluginCall(t) /\ ~Available
  <2>1. req[t].reply = "none"
    BY <1>0, <1>5 DEF BeginPluginCall, Answer
  <2> QED BY <1>5, <1>4, <2>1 DEF BeginPluginCall, Outcomes
<1>6. CASE AnswerWithoutScan(t)
  <2>1. PICK o \in {"error", "forward", "terminate"} : req' = [req EXCEPT ![t].outcome = o]
    BY <1>6 DEF AnswerWithoutScan
  <2>2. req[t].plugin # 0 /\ req[t].reply = "none" /\ o \in Outcomes
    BY <1>0, <1>6 DEF AnswerWithoutScan, CallShape, Answer, Outcomes
  <2> QED BY <1>6, <1>4, <2>1, <2>2 DEF AnswerWithoutScan
<1>7. CASE AcquireScanState(t)
  <2>1. pc[t] = "inspect" /\ pc'[t] = "scan" /\ req'[t] = req[t]
    BY <1>0, <1>7, UpdatedPlace DEF AcquireScanState
  <2> QED BY <1>0, <2>1 DEF Answer
<1>8. CASE ScanReturns(t)
  <2>1. PICK o \in {"forward", "terminate"} : req' = [req EXCEPT ![t].outcome = o]
    BY <1>8 DEF ScanReturns
  <2>2. req[t].plugin # 0 /\ req[t].reply = "none" /\ o \in Outcomes
    BY <1>0, <1>8 DEF ScanReturns, CallShape, Answer, Outcomes
  <2> QED BY <1>8, <1>4, <2>1, <2>2 DEF ScanReturns
<1>9. CASE ScanPanics(t)
  <2>1. req[t].plugin # 0 /\ req[t].reply = "none"
    BY <1>0, <1>9 DEF ScanPanics, CallShape, Answer
  <2> QED BY <1>9, <1>4, <2>1 DEF ScanPanics, Outcomes
<1>10. CASE DonePluginCall(t)
  <2>1. pc[t] = "donePlugin" /\ pc'[t] = "settle" /\ req'[t] = req[t]
    BY <1>0, <1>10, UpdatedPlace DEF DonePluginCall
  <2> QED BY <1>0, <2>1 DEF Answer
<1>11. CASE Settle(t)
  <2> DEFINE r == IF req[t].late \/ req[t].outcome \in {"error", "panic"}
                  THEN Failure(req[t].method) ELSE req[t].outcome
             c == [req[t] EXCEPT !.reply = r]
  <2>1. r \in Replies /\ (r = "forward" => req[t].outcome = "forward" /\ ~req[t].late)
    BY <1>0, FailureForwardsNothing DEF Call, Outcomes, Replies
  <2>2. /\ req' = [req EXCEPT ![t] = c]
        /\ \/ pc' = [pc EXCEPT ![t] = "release"]
           \/ pc' = [pc EXCEPT ![t] = "idle"]
    BY <1>11 DEF Settle
  <2> HIDE DEF r
  <2>3. c.outcome = req[t].outcome /\ c.reply = r /\ c.plugin = req[t].plugin /\ c.late = req[t].late
    BY <1>0, <2>1, ReplyFields
  <2> HIDE DEF c
  <2>4. req'[t] = c /\ pc'[t] \in {"release", "idle"}
    BY <1>0, <2>2, UpdatedCall, UpdatedPlace
  <2> QED BY <1>0, <2>1, <2>3, <2>4 DEF Answer
<1>12. CASE ReleaseNativeScan(t) \/ DoneNativeScanCall(t)
  <2>1. pc'[t] \in {"doneNative", "idle"} /\ req'[t] = req[t]
    BY <1>0, <1>12, UpdatedPlace DEF ReleaseNativeScan, DoneNativeScanCall
  <2> QED BY <1>0, <2>1 DEF Answer
<1>13. CASE ReleaseRequestScanState(t)
  <2> DEFINE c == [req[t] EXCEPT !.reply = "ok", !.target = 0]
  <2>1. c.outcome = req[t].outcome /\ c.plugin = req[t].plugin /\ c.reply = "ok"
    BY <1>0 DEF Call
  <2>2. req' = [req EXCEPT ![t] = c] /\ pc' = [pc EXCEPT ![t] = "idle"]
    BY <1>0, <1>13 DEF ReleaseRequestScanState, Struct, CallsOK
  <2> HIDE DEF c
  <2>3. req'[t] = c /\ pc'[t] = "idle"
    BY <1>0, <2>2, UpdatedCall, UpdatedPlace
  <2> QED BY <1>0, <2>1, <2>3 DEF Answer
<1> QED
  BY <1>1, <1>2, <1>3, <1>5, <1>6, <1>7, <1>8, <1>9, <1>10, <1>11, <1>12, <1>13 DEF ThreadStep

LEMMA AnswerCall ==
    ASSUME Answered, NEW t \in Threads, NEW c \in Calls, CallStep(t, c)
    PROVE  Answer(pc'[t], req'[t])
<1>0. /\ Struct /\ c \in Call /\ c.outcome = "none" /\ c.reply = "none" /\ runtime \in 0..runtimes
  BY NewCallUnanswered DEF Answered, Struct, ObjectsOK
<1> DEFINE d == [c EXCEPT !.reply = Failure(c.method)]
<1>d. d.outcome = "none" /\ d.reply # "forward"
  BY <1>0, ReplyFields, FailureForwardsNothing
<1>1. CASE RejectPayload(t, c) \/ (BeginNativeScanCall(t, c) /\ ~Available)
  <2>1. pc[t] = "idle" /\ pc' = pc /\ req' = [req EXCEPT ![t] = d]
    BY <1>1 DEF RejectPayload, BeginNativeScanCall
  <2> HIDE DEF d
  <2> QED BY <1>0, <1>d, <2>1, UpdatedCall DEF Answer
<1>2. CASE (BeginNativeScanCall(t, c) /\ Available) \/ CallUnknownMethod(t, c)
  <2>1. /\ req' = [req EXCEPT ![t] = c]
        /\ pc' = [pc EXCEPT ![t] = "admit"] \/ pc' = [pc EXCEPT ![t] = "handle"]
    BY <1>2 DEF BeginNativeScanCall, CallUnknownMethod
  <2>2. req'[t] = c /\ pc'[t] \in {"admit", "handle"}
    BY <1>0, <2>1, UpdatedCall, UpdatedPlace
  <2> QED BY <1>0, <2>2 DEF Answer
<1>3. CASE ReadRuntime(t, c)
  <2> DEFINE e == [c EXCEPT !.target = runtime]
  <2>1. e.outcome = "none" /\ e.reply = "none"
    BY <1>0, OtherFields
  <2>2. pc' = [pc EXCEPT ![t] = "drop"] /\ req' = [req EXCEPT ![t] = e]
    BY <1>3 DEF ReadRuntime
  <2> HIDE DEF e
  <2> QED BY <1>0, <2>1, <2>2, UpdatedCall, UpdatedPlace DEF Answer
<1> QED BY <1>1, <1>2, <1>3 DEF CallStep

\* The deadline passes only while there is no reply yet.
LEMMA AnswerDeadline ==
    ASSUME Answered, NEW t \in Threads, DeadlinePasses(t)
    PROVE  Answer(pc'[t], req'[t])
<1> DEFINE c == [req[t] EXCEPT !.late = TRUE]
<1>0. Struct /\ req[t] \in Call /\ Answer(pc[t], req[t])
  BY DEF Answered, Struct, CallsOK
<1>1. c.outcome = req[t].outcome /\ c.reply = req[t].reply /\ c.plugin = req[t].plugin
  BY <1>0, OtherFields
<1>2. /\ pc' = pc /\ req' = [req EXCEPT ![t] = c]
      /\ pc[t] \in {"handle", "inspect", "scan", "donePlugin", "settle"}
  BY DEF DeadlinePasses
<1> HIDE DEF c
<1>3. req'[t] = c
  BY <1>0, <1>2, UpdatedCall
<1> QED BY <1>0, <1>1, <1>2, <1>3 DEF Answer

LEMMA AnsweredInit == Init => Answered
<1> SUFFICES ASSUME Init PROVE Answered OBVIOUS
<1>1. \A t \in Threads : pc[t] = "idle" /\ req[t] = NoCall
  BY DEF Init
<1> QED BY <1>1, StructInit DEF Answered, Answer, NoCall

LEMMA AnsweredNext == Answered /\ [Next]_vars => Answered'
<1> SUFFICES ASSUME Answered, [Next]_vars PROVE Answered' OBVIOUS
<1>0. Struct /\ \A t \in Threads : Answer(pc[t], req[t])
  BY DEF Answered
<1>m. ASSUME NEW t \in Threads, Moved(t), Answer(pc'[t], req'[t])
      PROVE  \A u \in Threads : Answer(pc'[u], req'[u])
  BY <1>0, <1>m, Zenon DEF Moved
<1>1. CASE LifeNext
  <2>1. Struct' /\ pc' = pc /\ req' = req
    BY <1>0, <1>1, StructLife, LifeCounts
  <2> QED BY <1>0, <2>1 DEF Answered, Answer
<1>2. ASSUME NEW t \in Threads, NEW c \in Calls, CallStep(t, c) PROVE Answered'
  BY <1>0, <1>2, <1>m, StructCall, CallMoves, AnswerCall DEF Answered, Answer
<1>3. ASSUME NEW t \in Threads, DeadlinePasses(t) PROVE Answered'
  BY <1>0, <1>3, <1>m, StructDeadline, DeadlineMoves, AnswerDeadline DEF Answered, Answer
<1>4. ASSUME NEW t \in Threads, ThreadStep(t) PROVE Answered'
  BY <1>0, <1>4, <1>m, StructThread, ThreadMoves, AnswerThread DEF Answered, Answer
<1>5. CASE UNCHANGED vars
  BY <1>0, <1>5 DEF Answered, Answer, vars, Struct, ObjectsOK, LifeOK, CallsOK, Call, CallShape, LifeShape
<1> QED BY <1>1, <1>2, <1>3, <1>4, <1>5, NextIs

-----------------------------------------------------------------------------
(* Layer 6: who owns an open log, under a host of the implemented schema *)

\* Where a lifecycle operation stands says which plugins it still handles.
LifeLogs ==
    /\ life.pc \in {"idle", "build", "quiesceNative", "quiesceInFlight"} =>
         life.built = 0 /\ life.previous = 0
    /\ life.pc = "install" => life.previous = 0
    /\ life.pc = "closePrevious" => life.built = plugin
    /\ life.pc \in ShutPCs => life.built = 0
    /\ (life.pc = "forget" /\ life.previous # 0) => ~plugins[life.previous].open

Logged == Struct /\ LifeLogs /\ OpenLogsAreOwned

\* A host that announces the implemented schema, or a later one, refuses nothing.
LEMMA CurrentHostRefusesNothing ==
    ASSUME HostSchema >= Implemented, NEW config PROVE ~Refused(config)
BY ABIConstants DEF Refused, Negotiated, Implemented, Legacy

LEMMA ClosedLogOpen ==
    ASSUME ObjectsOK, NEW p \in 0..Len(plugins)
    PROVE  \A q \in 1..Len(plugins) :
             /\ q = p => ~ClosedLog(p)[q].open
             /\ q # p => ClosedLog(p)[q].open = plugins[q].open
<1> DEFINE n == Len(plugins)
<1>1. n \in Nat /\ plugins \in [1..n -> Plugin]
  BY LenProperties DEF ObjectsOK
<1> QED BY <1>1 DEF ClosedLog, Plugin

LEMMA LoggedInit == Init => Logged
<1> SUFFICES ASSUME Init PROVE Logged OBVIOUS
<1>1. /\ life.pc = "idle" /\ life.built = 0 /\ life.previous = 0
      /\ plugins = <<>>
  BY DEF Init, IdleLife
<1>2. LifeLogs
  BY <1>1 DEF LifeLogs, ShutPCs
<1>3. OpenLogsAreOwned
  BY <1>1 DEF OpenLogsAreOwned
<1> QED BY <1>2, <1>3, StructInit DEF Logged

\* The steps that leave the plugins as they are, and the ones that do not.
LEMMA LoggedLife ==
    ASSUME HostSchema >= Implemented, Logged, LifeNext
    PROVE  LifeLogs' /\ OpenLogsAreOwned'
<1> DEFINE n == Len(plugins)
<1>0. /\ LifeLogs /\ OpenLogsAreOwned /\ Struct /\ Struct' /\ ObjectsOK /\ n \in Nat
      /\ life \in [pc : LifePCs, runtime : 0..runtimes, built : 0..n, previous : 0..n]
      /\ plugin \in 0..n /\ plugins \in Seq(Plugin)
  BY StructLife DEF Logged, Struct, LifeOK, ObjectsOK
<1>i. /\ IdleLife.pc = "idle" /\ IdleLife.built = 0 /\ IdleLife.previous = 0
  BY DEF IdleLife
<1>1. CASE PluginInit
  BY <1>0, <1>1 DEF PluginInit, LifeLogs, OpenLogsAreOwned, objects
<1>2. CASE RegisterBegin \/ QuiesceBegin
  <2>1. /\ life'.pc \in {"build", "quiesceNative"} /\ life'.built = 0 /\ life'.previous = 0
        /\ life.pc = "idle" /\ plugin' = plugin /\ plugins' = plugins
    BY <1>2 DEF RegisterBegin, QuiesceBegin, IdleLife, objects
  <2> QED BY <1>0, <2>1 DEF LifeLogs, OpenLogsAreOwned, ShutPCs
<1>3. CASE ShutdownBegin
  <2>1. /\ life'.pc = "shutNative" /\ life'.built = 0 /\ life'.previous = plugin
        /\ life.pc = "idle" /\ plugins' = plugins
    BY <1>3 DEF ShutdownBegin, objects
  <2> QED BY <1>0, <2>1 DEF LifeLogs, OpenLogsAreOwned, ShutPCs
<1>4. CASE RegisterFails \/ QuiesceDrained
  <2>1. /\ life'.pc = "idle" /\ life'.built = 0 /\ life'.previous = 0
        /\ life.pc \in {"build", "quiesceInFlight"} /\ plugin' = plugin /\ plugins' = plugins
    BY <1>4, <1>i DEF RegisterFails, QuiesceDrained, objects, shared
  <2> QED BY <1>0, <2>1 DEF LifeLogs, OpenLogsAreOwned, ShutPCs
<1>5. ASSUME NEW config \in Configs, RegisterBuild(config) PROVE LifeLogs' /\ OpenLogsAreOwned'
  <2> DEFINE x == [config |-> config, runtime |-> life.runtime, open |-> config.logged]
  <2>1. /\ life.pc = "build" /\ plugin' = plugin /\ plugins' = Append(plugins, x)
        /\ life' = [life EXCEPT !.pc = "install", !.built = n + 1]
    BY <1>5, CurrentHostRefusesNothing DEF RegisterBuild, shared
  <2>2. life'.pc = "install" /\ life'.built = n + 1 /\ life'.previous = life.previous
    BY <1>0, <2>1
  <2> HIDE DEF x
  <2>3. Len(plugins') = n + 1 /\ \A p \in 1..n : plugins'[p] = plugins[p]
    BY <1>0, <2>1
  <2>4. LifeLogs'
    BY <1>0, <2>1, <2>2 DEF LifeLogs, ShutPCs
  <2>5. \A p \in 1..(n + 1) : p \in 1..n \/ p = n + 1
    BY <1>0
  <2>6. OpenLogsAreOwned'
    BY <1>0, <2>1, <2>2, <2>3, <2>5 DEF LifeLogs, OpenLogsAreOwned
  <2> QED BY <2>4, <2>6
<1>6. CASE RegisterInstall
  <2>1. /\ life.pc = "install" /\ life'.pc = "closePrevious" /\ life'.built = life.built
        /\ life'.previous = plugin /\ plugin' = life.built /\ plugins' = plugins
    BY <1>0, <1>6 DEF RegisterInstall, objects
  <2> QED BY <1>0, <2>1 DEF LifeLogs, OpenLogsAreOwned, ShutPCs
<1>7. CASE RegisterClosePrevious
  <2>1. /\ life.pc = "closePrevious" /\ life'.pc = "idle" /\ life'.built = 0 /\ life'.previous = 0
        /\ plugin' = plugin /\ plugins' = ClosedLog(life.previous) /\ life.previous \in 0..n
    BY <1>0, <1>7, <1>i DEF RegisterClosePrevious, shared
  <2>2. Len(plugins') = n /\ \A q \in 1..n :
            /\ q = life.previous => ~plugins'[q].open
            /\ q # life.previous => plugins'[q].open = plugins[q].open
    BY <1>0, <2>1, ClosedLogKeeps, ClosedLogOpen
  <2> QED BY <1>0, <2>1, <2>2 DEF LifeLogs, OpenLogsAreOwned, ShutPCs
<1>8. CASE QuiesceNativeDrained
  <2>1. /\ life.pc = "quiesceNative" /\ life'.pc = "quiesceInFlight" /\ life'.built = life.built
        /\ life'.previous = life.previous /\ plugin' = plugin /\ plugins' = plugins
    BY <1>0, <1>8 DEF QuiesceNativeDrained, objects, shared
  <2> QED BY <1>0, <2>1 DEF LifeLogs, OpenLogsAreOwned, ShutPCs
<1>9. CASE ShutdownNativeDrained \/ ShutdownDrained \/ ShutdownClear
  <2>1. /\ life.pc \in {"shutNative", "shutInFlight", "clear"}
        /\ life'.pc \in {"shutInFlight", "clear", "close"}
        /\ life'.built = life.built /\ life'.previous = life.previous
        /\ plugin' = plugin /\ plugins' = plugins
    BY <1>0, <1>9 DEF ShutdownNativeDrained, ShutdownDrained, ShutdownClear, objects, shared
  <2> QED BY <1>0, <2>1 DEF LifeLogs, OpenLogsAreOwned, ShutPCs
<1>10. CASE ShutdownClose
  <2>1. /\ life.pc = "close" /\ life'.pc = "forget"
        /\ life'.built = life.built /\ life'.previous = life.previous /\ life.previous \in 0..n
        /\ plugin' = plugin /\ plugins' = ClosedLog(life.previous)
    BY <1>0, <1>10 DEF ShutdownClose, shared
  <2>2. Len(plugins') = n /\ \A q \in 1..n :
            /\ q = life.previous => ~plugins'[q].open
            /\ q # life.previous => plugins'[q].open = plugins[q].open
    BY <1>0, <2>1, ClosedLogKeeps, ClosedLogOpen
  <2> QED BY <1>0, <2>1, <2>2 DEF LifeLogs, OpenLogsAreOwned, ShutPCs
<1>11. CASE ShutdownForget
  <2>1. /\ life.pc = "forget" /\ life'.pc = "idle" /\ life'.built = 0 /\ life'.previous = 0
        /\ plugin' = plugin /\ plugins' = plugins
    BY <1>11, <1>i DEF ShutdownForget, objects
  <2> QED BY <1>0, <2>1 DEF LifeLogs, OpenLogsAreOwned, ShutPCs
<1> QED BY <1>1, <1>2, <1>3, <1>4, <1>5, <1>6, <1>7, <1>8, <1>9, <1>10, <1>11
        DEF LifeNext, LifeStep

\* No call opens or closes a log.
LEMMA LoggedNext ==
    ASSUME HostSchema >= Implemented
    PROVE  Logged /\ [Next]_vars => Logged'
<1> SUFFICES ASSUME Logged, [Next]_vars PROVE Logged' OBVIOUS
<1>1. CASE LifeNext
  BY <1>1, StructLife, LoggedLife DEF Logged
<1>2. ASSUME NEW t \in Threads, NEW c \in Calls, CallStep(t, c) PROVE Logged'
  <2>1. UNCHANGED <<plugin, plugins, life>>
    BY <1>2 DEF CallStep, RejectPayload, BeginNativeScanCall, CallUnknownMethod, ReadRuntime,
                shared, objects
  <2> QED BY <1>2, <2>1, StructCall DEF Logged, LifeLogs, OpenLogsAreOwned
<1>3. ASSUME NEW t \in Threads, DeadlinePasses(t) PROVE Logged'
  BY <1>3, StructDeadline DEF Logged, LifeLogs, OpenLogsAreOwned, DeadlinePasses, shared, objects
<1>4. ASSUME NEW t \in Threads, ThreadStep(t) PROVE Logged'
  <2>1. UNCHANGED <<plugin, plugins, life>>
    BY <1>4 DEF ThreadStep, AcquireNativeScan, AdmissionFails, BeginPluginCall, AnswerWithoutScan,
         AcquireScanState, ScanReturns, ScanPanics, DonePluginCall, Settle,
         ReleaseNativeScan, DoneNativeScanCall, ReleaseRequestScanState, shared, objects
  <2> QED BY <1>4, <2>1, StructThread DEF Logged, LifeLogs, OpenLogsAreOwned
<1>5. CASE UNCHANGED vars
  BY <1>5 DEF Logged, LifeLogs, OpenLogsAreOwned, vars, Struct, ObjectsOK, LifeOK, CallsOK, Call,
     CallShape, LifeShape
<1> QED BY <1>1, <1>2, <1>3, <1>4, <1>5, NextIs

-----------------------------------------------------------------------------
(* Theorems *)

\* The type invariant: in particular no deferred Done() or receive ever takes a
\* counter below zero (a Go WaitGroup would panic), and the channel never holds
\* more than its capacity.
THEOREM TypeCorrect == Spec => []TypeOK
<1>1. Counted => TypeOK
  <2> SUFFICES ASSUME Counted PROVE TypeOK OBVIOUS
  <2>1. native \in Nat /\ slots \in Nat /\ inFlight \in Nat
    BY HeldFinite, FS_CardinalityType DEF Counted, CountersExact
  <2> QED BY <2>1, ABIConstants DEF Counted, Struct, TypeOK
<1> QED BY <1>1, CountedInit, CountedNext, PTL DEF Spec

\* Every path out of PrivacyFilterPluginCall gives back exactly what it took.
THEOREM CountersAreExact == Spec => []CountersExact
<1>1. Counted => CountersExact
  BY DEF Counted
<1> QED BY <1>1, CountedInit, CountedNext, PTL DEF Spec

\* nativeScanSlots bounds the concurrent scans.
THEOREM ScansAreBounded == Spec => []ScansWithinCapacity
<1>1. Counted => ScansWithinCapacity
  BY DEF Counted, CountersExact, ScansWithinCapacity
<1> QED BY <1>1, CountedInit, CountedNext, PTL DEF Spec

\* A quiesce or shutdown that has waited for both groups leaves no call inside
\* the plugin, and none enters before a register or an init.
THEOREM QuiesceDrains == Spec => []QuiescedMeansDrained
<1>1. Drained => QuiescedMeansDrained
  BY DEF Drained, Drain, QuiescedMeansDrained
<1> QED BY <1>1, DrainedInit, DrainedNext, PTL DEF Spec

\* No request state is stranded: whatever any cache retains, a request.complete
\* can still release, across reconfigurations and restarts.
THEOREM RetainedStateIsReleasable == Spec => []RetainedIsReleasable
<1>1. Owned => RetainedIsReleasable
  BY DEF Owned, Owner
<1> QED BY <1>1, OwnedInit, OwnedNext, PTL DEF Spec

\* Shutdown leaves no request state behind, whatever was in flight when it began.
THEOREM ShutdownReleases == Spec => []ShutdownReleasesState
<1>1. Owned => ShutdownReleasesState
  BY DEF Owned, Owner, AllReleased, ShutdownReleasesState
<1> QED BY <1>1, OwnedInit, OwnedNext, PTL DEF Spec

\* Nothing but an inspection that ended, in time and with the answer to forward,
\* lets a request through: not a native failure, a deadline, a panic or a plugin
\* that is quiesced, in any interleaving of the calls with the lifecycle.
THEOREM ForwardsAreInspected == Spec => []ForwardOnlyInspected
<1>1. Answered => ForwardOnlyInspected
  BY DEF Answered, Answer, ForwardOnlyInspected
<1> QED BY <1>1, AnsweredInit, AnsweredNext, PTL DEF Spec

\* Under a host of the implemented schema no substitution log is left open behind
\* the plugin's back: register closes the log of the plugin it replaces and
\* shutdown the log of the installed one.  (Under an older host the property is
\* false: a refused configuration leaves its log open.)
THEOREM OpenLogsHaveOwners ==
    ASSUME HostSchema >= Implemented
    PROVE  Spec => []OpenLogsAreOwned
<1>1. Logged => OpenLogsAreOwned
  BY DEF Logged
<1> QED BY <1>1, LoggedInit, LoggedNext, PTL DEF Spec

=============================================================================
