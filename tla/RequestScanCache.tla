-------------------------- MODULE RequestScanCache --------------------------
(***************************************************************************)
(* The bounded cache of per-request scan states (request_cache.go).        *)
(*                                                                         *)
(* One cache is shared by every ABI call that runs concurrently and by     *)
(* every plugin revision.  It maps a RequestID to the scan state of the    *)
(* request, keeps the entries in a recency list (front = most recent), and *)
(* drops them by sliding TTL, by capacity, on request completion, on a     *)
(* change of the scan context and when the plugin shuts down.              *)
(*                                                                         *)
(* Every operation runs under one mutex, so its locked section is a single *)
(* action; but Acquire and Prune read the clock BEFORE they take the       *)
(* mutex.  The clock reading is therefore a step of its own, and another   *)
(* thread may run a whole operation in between.                            *)
(*                                                                         *)
(* The diagnostic counters (RequestScanCacheStats) are written and never   *)
(* read by the program, and are left out.                                  *)
(***************************************************************************)
EXTENDS Integers, Sequences, FiniteSets

CONSTANTS Threads,      \* concurrent callers of the cache
          RequestIDs,   \* the non-empty request identifiers
          NoRequestID,  \* the empty RequestID
          Contexts,     \* RequestScanContext values (revision, format, model)
          NoContext,    \* the context of a thread outside any call
          TTL,          \* sliding time to live; 0 disables expiry
          MaxEntries,   \* capacity; 0 disables the cache
          MaxClock,     \* bound on the clock
          MaxStates     \* bound on the number of scan states ever created

ASSUME CacheConstants ==
    /\ NoRequestID \notin RequestIDs
    /\ TTL \in Nat
    /\ MaxEntries \in Nat
    /\ MaxClock \in Nat
    /\ MaxStates \in Nat

VARIABLES clock,   \* the monotonic clock behind time.Now
          cache,   \* [entries, lru]: the map and the recency list
          states,  \* states[i] is the (immutable) context of scan state i
          call     \* call[t]: the operation thread t is in

vars == <<clock, cache, states, call>>

-----------------------------------------------------------------------------
(* Values *)

EmptyCache == [entries |-> [r \in {} |-> 0], lru |-> <<>>]

Idle == [pc |-> "idle", rid |-> NoRequestID, context |-> NoContext, now |-> 0, state |-> 0]

Listed(c) == {c.lru[i] : i \in DOMAIN c.lru}

Expired(entry, now) == TTL > 0 /\ now - entry.last >= TTL

-----------------------------------------------------------------------------
(* The helpers that run with the mutex held, on the value of the cache *)

\* The entries that stay when only the first k elements of the list do.
KeepPrefix(c, k) ==
    LET kept == SubSeq(c.lru, 1, k)
    IN  [entries |-> [r \in {kept[i] : i \in 1..k} |-> c.entries[r]],
         lru     |-> kept]

\* pruneExpiredLocked stops at the first live entry from the back: k is the
\* length of what remains.
IsPruneLength(c, now, k) ==
    /\ \A i \in (k + 1)..Len(c.lru) : Expired(c.entries[c.lru[i]], now)
    /\ k > 0 => ~Expired(c.entries[c.lru[k]], now)

Position(s, r) == CHOOSE i \in DOMAIN s : s[i] = r

Without(s, r) ==
    [j \in 1..(Len(s) - 1) |-> IF j < Position(s, r) THEN s[j] ELSE s[j + 1]]

RemoveLocked(c, r) ==
    [entries |-> [q \in DOMAIN c.entries \ {r} |-> c.entries[q]],
     lru     |-> Without(c.lru, r)]

\* Removing an entry the map may not hold.
Forget(c, r) == IF r \in DOMAIN c.entries THEN RemoveLocked(c, r) ELSE c

PushFront(c, r, entry) ==
    [entries |-> [q \in DOMAIN c.entries \cup {r} |->
                      IF q = r THEN entry ELSE c.entries[q]],
     lru     |-> <<r>> \o c.lru]

\* The loop that evicts the back of the list while the map is over capacity.
EvictLocked(c) == KeepPrefix(c, IF Len(c.lru) > MaxEntries THEN MaxEntries ELSE Len(c.lru))

-----------------------------------------------------------------------------
Init ==
    /\ clock = 0
    /\ cache = EmptyCache
    /\ states = <<>>
    /\ call = [t \in Threads |-> Idle]

Tick ==
    /\ clock < MaxClock
    /\ clock' = clock + 1
    /\ UNCHANGED <<cache, states, call>>

\* A request without an identifier, or a disabled cache: a fresh state that
\* no entry owns.
AcquireEphemeral(t, rid, context) ==
    /\ call[t].pc = "idle"
    /\ rid = NoRequestID \/ MaxEntries = 0
    /\ Len(states) < MaxStates
    /\ states' = Append(states, context)
    /\ call' = [call EXCEPT ![t] = [pc |-> "holding", rid |-> NoRequestID, context |-> context,
                                    now |-> 0, state |-> Len(states) + 1]]
    /\ UNCHANGED <<clock, cache>>

\* Faulty variant: an empty RequestID is looked up like any other.
AcquireAnyIDVariant(t, rid, context) ==
    /\ call[t].pc = "idle"
    /\ MaxEntries > 0
    /\ call' = [call EXCEPT ![t] = [pc |-> "acquire", rid |-> rid, context |-> context,
                                    now |-> clock, state |-> 0]]
    /\ UNCHANGED <<clock, cache, states>>

\* now := c.now(), before c.mu.Lock().
AcquireReadClock(t, rid, context) ==
    /\ call[t].pc = "idle"
    /\ rid # NoRequestID /\ MaxEntries > 0
    /\ call' = [call EXCEPT ![t] = [pc |-> "acquire", rid |-> rid, context |-> context,
                                    now |-> clock, state |-> 0]]
    /\ UNCHANGED <<clock, cache, states>>

\* Faulty variant: the context of the entry is not compared.
ReusableAnyContextVariant(c, rid, context, now) ==
    rid \in DOMAIN c.entries /\ ~Expired(c.entries[rid], now)

\* Faulty variant: trusts the pruned list and does not test expiry again.
ReusableTrustsPruneVariant(c, rid, context, now) ==
    rid \in DOMAIN c.entries /\ states[c.entries[rid].state] = context

\* The entry can be handed out again: it is live and its context is the same.
Reusable(c, rid, context, now) ==
    /\ rid \in DOMAIN c.entries
    /\ ~Expired(c.entries[rid], now)
    /\ states[c.entries[rid].state] = context

\* The same entry, refreshed and moved to the front.
Promote(c, rid, now) ==
    PushFront(RemoveLocked(c, rid), rid, [c.entries[rid] EXCEPT !.last = now])

\* The locked section of Acquire: prune, then reuse the entry of the request,
\* or replace it by a fresh state and evict what exceeds the capacity.
AcquireLocked(t) ==
    /\ call[t].pc = "acquire"
    /\ LET rid == call[t].rid
           context == call[t].context
           now == call[t].now
       IN \E k \in 0..Len(cache.lru) :
            /\ IsPruneLength(cache, now, k)
            /\ LET c == KeepPrefix(cache, k)
               IN \/ /\ Reusable(c, rid, context, now)
                     /\ cache' = Promote(c, rid, now)
                     /\ call' = [call EXCEPT ![t].pc = "holding",
                                             ![t].state = c.entries[rid].state]
                     /\ UNCHANGED states
                  \/ /\ ~Reusable(c, rid, context, now)
                     /\ Len(states) < MaxStates
                     /\ states' = Append(states, context)
                     /\ cache' = EvictLocked(PushFront(Forget(c, rid), rid,
                                     [state |-> Len(states) + 1, last |-> now]))
                     /\ call' = [call EXCEPT ![t].pc = "holding",
                                             ![t].state = Len(states) + 1]
    /\ UNCHANGED clock

\* The caller drops its reference when the interception returns.
Release(t) ==
    /\ call[t].pc = "holding"
    /\ call' = [call EXCEPT ![t] = Idle]
    /\ UNCHANGED <<clock, cache, states>>

PruneReadClock(t) ==
    /\ call[t].pc = "idle"
    /\ TTL > 0
    /\ call' = [call EXCEPT ![t] = [pc |-> "prune", rid |-> NoRequestID, context |-> NoContext,
                                    now |-> clock, state |-> 0]]
    /\ UNCHANGED <<clock, cache, states>>

PruneLocked(t) ==
    /\ call[t].pc = "prune"
    /\ \E k \in 0..Len(cache.lru) :
         /\ IsPruneLength(cache, call[t].now, k)
         /\ cache' = KeepPrefix(cache, k)
    /\ call' = [call EXCEPT ![t] = Idle]
    /\ UNCHANGED <<clock, states>>

\* request.complete of the host.
Complete(rid) ==
    /\ cache' = Forget(cache, rid)
    /\ UNCHANGED <<clock, states, call>>

\* Faulty variant: a new map, but the old list.
ClearMapOnlyVariant ==
    /\ cache' = [cache EXCEPT !.entries = EmptyCache.entries]
    /\ UNCHANGED <<clock, states, call>>

Clear ==
    /\ cache' = EmptyCache
    /\ UNCHANGED <<clock, states, call>>

Next ==
    \/ Tick
    \/ Clear
    \/ \E rid \in RequestIDs : Complete(rid)
    \/ \E t \in Threads :
         \/ \E rid \in RequestIDs \cup {NoRequestID}, context \in Contexts :
              \/ AcquireEphemeral(t, rid, context)
              \/ AcquireReadClock(t, rid, context)
         \/ AcquireLocked(t)
         \/ Release(t)
         \/ PruneReadClock(t)
         \/ PruneLocked(t)

Spec == Init /\ [][Next]_vars

-----------------------------------------------------------------------------
(* Properties *)

\* The map and the recency list name the same requests, each once: an entry
\* missing from the list could never be evicted, and a list element without an
\* entry would make the loops of Acquire remove the wrong thing.  An entry refers
\* to a state that exists, and its last access is no later than now, or it would
\* outlive its TTL.
ListMatchesMap ==
    /\ Listed(cache) = DOMAIN cache.entries
    /\ \A i, j \in DOMAIN cache.lru : cache.lru[i] = cache.lru[j] => i = j
    /\ \A r \in DOMAIN cache.entries :
          cache.entries[r].state \in DOMAIN states /\ cache.entries[r].last \in 0..clock

Holding(t) == call[t].pc = "holding"

\* A scan state (its fingerprint and its placeholder numbering) is never shared
\* between two requests, nor by two requests without an identifier.
StateBelongsToOneRequest ==
    \A t \in Threads : Holding(t) =>
        /\ \A r \in DOMAIN cache.entries :
              cache.entries[r].state = call[t].state => r = call[t].rid
        /\ \A u \in Threads \ {t} :
              Holding(u) /\ call[u].state = call[t].state =>
                  call[u].rid = call[t].rid /\ call[t].rid # NoRequestID

\* A state that has been idle for the TTL or longer, by the clock reading of the
\* caller, is never handed out again, even when the list is out of order and
\* pruning its expired suffix missed the entry.
NoExpiredReuse ==
    [][\A t \in Threads :
          (call[t].pc = "acquire" /\ Holding(t)' /\ states' = states) =>
              ~Expired(cache.entries[call[t].rid], call[t].now)]_vars

\* The cache as a store of scan states: what it binds, and what it handed out.
Store == INSTANCE ScanStateStore
    WITH Capacity <- MaxEntries,
         store <- [r \in DOMAIN cache.entries |-> cache.entries[r].state],
         held <- [t \in Threads |->
                    [rid     |-> IF Holding(t) THEN call[t].rid ELSE NoRequestID,
                     context |-> IF Holding(t) THEN call[t].context ELSE NoContext,
                     state   |-> IF Holding(t) THEN call[t].state ELSE 0]]

\* The cache implements the store, with two callers in any two of its operations:
\* expiry, eviction, pruning, completion and shutdown only ever drop entries; the
\* bound holds however many requests are never completed; a caller gets a state
\* of the policy revision, format and model it scans under, whoever replaced the
\* entry while it waited for the mutex; and eviction never hits the entry that
\* is being handed out.
ImplementsStore == Store!Spec

=============================================================================
