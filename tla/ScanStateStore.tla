--------------------------- MODULE ScanStateStore ---------------------------
(***************************************************************************)
(* What the request scan cache promises its callers, without clock, list,  *)
(* expiry or eviction order: a bounded, lossy map from requests to scan    *)
(* states.  A caller gets the state that is stored for its request and its *)
(* context, or a new one that no other request has; what the store hands   *)
(* out for a request it also holds; anything else may be dropped any time. *)
(***************************************************************************)
EXTENDS Naturals, Sequences, FiniteSets

CONSTANTS Threads, RequestIDs, NoRequestID, Contexts, NoContext, Capacity

VARIABLES store,   \* the state stored for a request, where there is one
          states,  \* states[i] is the context of scan state i
          held     \* held[t]: what t asked for and was handed

vars == <<store, states, held>>

Nothing == [rid |-> NoRequestID, context |-> NoContext, state |-> 0]

Init ==
    /\ store = [r \in {} |-> 0]
    /\ states = <<>>
    /\ held = [t \in Threads |-> Nothing]

\* The store after some entries were dropped and r was bound to state i.
Binds(r, i) ==
    /\ DOMAIN store' \subseteq DOMAIN store \cup {r}
    /\ Cardinality(DOMAIN store') <= Capacity
    /\ r \in DOMAIN store' /\ store'[r] = i
    /\ \A q \in DOMAIN store' \ {r} : store'[q] = store[q]

\* The stored state is handed out again.
Reuse(t, r, context) ==
    /\ held[t] = Nothing
    /\ r \in DOMAIN store /\ states[store[r]] = context
    /\ Binds(r, store[r])
    /\ held' = [held EXCEPT ![t] = [rid |-> r, context |-> context, state |-> store[r]]]
    /\ UNCHANGED states

\* A new state takes the place of what the request had.
Create(t, r, context) ==
    /\ held[t] = Nothing
    /\ states' = Append(states, context)
    /\ Binds(r, Len(states'))
    /\ held' = [held EXCEPT ![t] = [rid |-> r, context |-> context, state |-> Len(states')]]

\* A state nobody else can get.
CreateUnnamed(t, context) ==
    /\ held[t] = Nothing
    /\ states' = Append(states, context)
    /\ held' = [held EXCEPT ![t] = [rid |-> NoRequestID, context |-> context, state |-> Len(states')]]
    /\ UNCHANGED store

Return(t) ==
    /\ held[t] # Nothing
    /\ held' = [held EXCEPT ![t] = Nothing]
    /\ UNCHANGED <<store, states>>

Drop ==
    /\ DOMAIN store' \subseteq DOMAIN store
    /\ \A q \in DOMAIN store' : store'[q] = store[q]
    /\ UNCHANGED <<states, held>>

Next ==
    \/ Drop
    \/ \E t \in Threads :
         \/ Return(t)
         \/ \E context \in Contexts :
              \/ CreateUnnamed(t, context)
              \/ \E r \in RequestIDs : Reuse(t, r, context) \/ Create(t, r, context)

Spec == Init /\ [][Next]_vars
=============================================================================
